------------------------- MODULE PubSubClientProofs -------------------------
(***************************************************************************)
(* Proofs about the MQTT client, for any number of calls, retries,         *)
(* identifiers and messages of the broker, and with or without a callback  *)
(* that discards input and a broker that falls silent.                     *)
(*                                                                         *)
(* NeverTwice speaks of what the broker has counted.  What keeps it true   *)
(* is what is still under way: Once says which orders of the copies and    *)
(* the releases in the outbox cannot make the broker count a publication   *)
(* again, and MayResend the same of the copy a wait may still send.  The   *)
(* release is sent only when the wait for PUBREC is over, and from then on *)
(* no copy is sent: without this order neither is kept.                    *)
(*                                                                         *)
(* TrueMeansDone speaks of replies, which may be late.  TInv says that a   *)
(* reply with the identifier of the call in progress is evidence that the  *)
(* broker has done what the call asks for, until identifiers come round.   *)
(*                                                                         *)
(* LiveBrokerKept speaks of pings.  Lively says that one without an answer *)
(* is still under way, or its answer is, and has been since the client     *)
(* last sent and received anything.                                        *)
(***************************************************************************)
EXTENDS PubSubClient, TLAPS

\* What the client puts into the connection, or waits with.
Plain == {"CONNECT", "SUBSCRIBE", "UNSUBSCRIBE", "PUBLISH0", "PUBACK", "PUBREC", "PUBREL",
          "PUBCOMP", "PINGREQ"}
Publications == [type : {"PUBLISH1", "PUBLISH2"}, id : 1 .. IdMax, no : 1 .. MaxCalls]
Sent == [type : Plain, id : Nat, no : Nat] \cup Publications
\* What the broker puts into it.
Received == [type : {"CONNACK", "SUBACK", "UNSUBACK", "PUBACK", "PUBREC", "PUBREL", "PUBCOMP",
                     "PINGRESP", "PUBLISH0", "PUBLISH1", "PUBLISH2"}, id : Nat, no : Nat]
Waits == [msg : Sent, tries : 0 .. MaxRetries, phase : {"first", "check", "read", "after"}]

Types ==
    /\ StateOK
    /\ stack \in Seq(Waits) /\ outbox \in Seq(Sent) /\ inbox \in Seq(Received)
    /\ result \in [op : Ops \cup {"none"}, no : Nat, ok : BOOLEAN] /\ result.no <= calls

\* One call at a time: its wait is at the bottom of the stack, and above it are
\* only waits for the release of a publication of the broker.
OneCall ==
    /\ call = "none" <=> stack = <<>>
    /\ call = "loop" \/ call = "none" \/ result.no < calls
    /\ result.op = "publish2" => result.no > 0
    /\ \A i \in DOMAIN stack :
          /\ i < Len(stack) => stack[i].msg.type = "PUBREC"
          /\ stack[i].msg.type = "PUBLISH1" => call = "publish1" /\ stack[i].msg.no = calls
          /\ stack[i].msg.type = "PUBLISH2" => call = "publish2" /\ stack[i].msg.no = calls

\* What is sent goes into a connection, and publications of later calls are
\* neither under way nor accepted.
NotYet ==
    /\ ~tcp => outbox = <<>>
    /\ \A i \in DOMAIN outbox : outbox[i] \in Publications => outbox[i].no <= calls
    /\ \A n \in 1 .. MaxCalls : n > calls => delivered[n] = 0

-----------------------------------------------------------------------------
(* The messages under way, "out", that matter for a publication of QoS 2     *)

Copy(m, n) == m.type = "PUBLISH2" /\ m.no = n
Release(m, id) == m.type = "PUBREL" /\ m.id = id

\* "count" times accepted, the publication n is not accepted a second time by
\* a broker that holds the identifiers "ids": its copies have one identifier,
\* and no release of this identifier comes between the broker's first sight of
\* a copy and the last.
Once(n, out, ids, count) ==
    /\ count <= 1
    /\ \A i \in DOMAIN out : out[i].type = "PUBLISH1" => out[i].no # n
    /\ \A i, k \in DOMAIN out : Copy(out[i], n) /\ Copy(out[k], n) => out[i].id = out[k].id
    /\ \A i, j, k \in DOMAIN out :
          i < j /\ j < k /\ Copy(out[i], n) /\ Copy(out[k], n) => ~Release(out[j], out[k].id)
    /\ \A k \in DOMAIN out : count = 1 /\ Copy(out[k], n) =>
          /\ out[k].id \in ids
          /\ \A j \in 1 .. k : ~Release(out[j], out[k].id)

\* One more copy of m may be sent.
MayResend(m, out, ids, count) ==
    /\ \A i \in DOMAIN out : Copy(out[i], m.no) => out[i].id = m.id
    /\ \A i, j \in DOMAIN out : i < j /\ Copy(out[i], m.no) => ~Release(out[j], m.id)
    /\ count = 1 => m.id \in ids /\ \A j \in DOMAIN out : ~Release(out[j], m.id)

OnceEach ==
    /\ result.op = "publish2" => Once(result.no, outbox, held, delivered[result.no])
    /\ call = "publish2" => Once(calls, outbox, held, delivered[calls])
Resendable ==
    \A i \in DOMAIN stack : stack[i].msg.type = "PUBLISH2" /\ tcp =>
        MayResend(stack[i].msg, outbox, held, delivered[calls])

IInv == Types /\ OneCall /\ NotYet /\ OnceEach /\ Resendable

-----------------------------------------------------------------------------
(* Sequences                                                                 *)

LEMMA TailFacts ==
    ASSUME NEW S, NEW s \in Seq(S), s # <<>>
    PROVE  /\ Head(s) = s[1] /\ Head(s) \in S /\ Tail(s) \in Seq(S)
           /\ 1 \in DOMAIN s /\ Len(Tail(s)) = Len(s) - 1
           /\ \A i \in DOMAIN Tail(s) : i + 1 \in DOMAIN s /\ Tail(s)[i] = s[i + 1]
  OBVIOUS

LEMMA PushFacts ==
    ASSUME NEW S, NEW s \in Seq(S), NEW x \in S
    PROVE  /\ <<x>> \o s \in Seq(S) /\ Len(<<x>> \o s) = Len(s) + 1
           /\ (<<x>> \o s)[1] = x
           /\ \A i \in DOMAIN (<<x>> \o s) : i # 1 => i - 1 \in DOMAIN s /\ (<<x>> \o s)[i] = s[i - 1]
  OBVIOUS

LEMMA ConcatFacts ==
    ASSUME NEW S, NEW s \in Seq(S), NEW t \in Seq(S)
    PROVE  /\ s \o t \in Seq(S) /\ Len(s \o t) = Len(s) + Len(t)
           /\ \A i \in DOMAIN s : i \in DOMAIN (s \o t) /\ (s \o t)[i] = s[i]
           /\ \A i \in DOMAIN (s \o t) :
                i \notin DOMAIN s => i - Len(s) \in DOMAIN t /\ (s \o t)[i] = t[i - Len(s)]
  OBVIOUS

LEMMA SuffixFacts ==
    ASSUME NEW S, NEW s \in Seq(S), NEW i \in 1 .. Len(s) + 1
    PROVE  SubSeq(s, i, Len(s)) \in Seq(S)
  OBVIOUS

-----------------------------------------------------------------------------
(* What the messages under way may gain and lose                             *)

LEMMA OnceNone ==
    ASSUME NEW n, NEW ids, NEW count \in Nat, count <= 1
    PROVE  Once(n, <<>>, ids, count)
  BY DEF Once

\* Other messages may follow.
LEMMA OnceMore ==
    ASSUME NEW n, NEW out \in Seq(Sent), NEW msgs \in Seq(Sent), NEW ids, NEW count,
           Once(n, out, ids, count),
           \A i \in DOMAIN msgs :
              ~Copy(msgs[i], n) /\ (msgs[i].type = "PUBLISH1" => msgs[i].no # n)
    PROVE  Once(n, out \o msgs, ids, count)
  <1> DEFINE all == out \o msgs
  <1>1. /\ \A i \in DOMAIN out : i \in DOMAIN all /\ all[i] = out[i]
        /\ \A i \in DOMAIN all : i \notin DOMAIN out =>
              i - Len(out) \in DOMAIN msgs /\ all[i] = msgs[i - Len(out)]
        /\ DOMAIN out = 1 .. Len(out) /\ Len(out) \in Nat
        /\ DOMAIN all = 1 .. Len(all) /\ Len(all) \in Nat
    BY ConcatFacts
  <1>2. \A k \in DOMAIN all : Copy(all[k], n) => k \in DOMAIN out /\ all[k] = out[k]
    BY <1>1
  <1>3. \A k \in DOMAIN all : all[k].type = "PUBLISH1" => all[k].no # n
    BY <1>1 DEF Once
  <1>4. \A k \in DOMAIN out : \A j \in 1 .. k : j \in DOMAIN out /\ all[j] = out[j]
    BY <1>1
  <1>5. \A i, k \in DOMAIN all : Copy(all[i], n) /\ Copy(all[k], n) => all[i].id = all[k].id
    BY <1>2 DEF Once
  <1>6. \A i, j, k \in DOMAIN all :
          i < j /\ j < k /\ Copy(all[i], n) /\ Copy(all[k], n) => ~Release(all[j], all[k].id)
    BY <1>1, <1>2, <1>4 DEF Once
  <1>7. \A k \in DOMAIN all : count = 1 /\ Copy(all[k], n) =>
          all[k].id \in ids /\ \A j \in 1 .. k : ~Release(all[j], all[k].id)
    BY <1>1, <1>2, <1>4 DEF Once
  <1>8. count <= 1
    BY DEF Once
  <1> HIDE DEF all
  <1>9. Once(n, all, ids, count)
    BY <1>3, <1>5, <1>6, <1>7, <1>8 DEF Once
  <1> QED  BY <1>9 DEF all

\* One more copy may, if it may.
LEMMA OnceAgain ==
    ASSUME NEW m \in Sent, NEW out \in Seq(Sent), NEW ids, NEW count,
           Copy(m, m.no), Once(m.no, out, ids, count), MayResend(m, out, ids, count)
    PROVE  Once(m.no, out \o <<m>>, ids, count)
  <1> DEFINE all == out \o <<m>>
             n == m.no
  <1>1. /\ \A i \in DOMAIN out : i \in DOMAIN all /\ all[i] = out[i]
        /\ DOMAIN out = 1 .. Len(out) /\ Len(out) \in Nat
        /\ DOMAIN all = 1 .. Len(out) + 1 /\ all[Len(out) + 1] = m
    OBVIOUS
  <1>2. \A k \in DOMAIN all : k = Len(out) + 1 \/ (k \in DOMAIN out /\ all[k] = out[k])
    BY <1>1
  <1>3. \A k \in DOMAIN all : all[k].type = "PUBLISH1" => all[k].no # n
    BY <1>1, <1>2 DEF Once, Copy
  <1>4. \A k \in DOMAIN all : Copy(all[k], n) => all[k].id = m.id
    BY <1>1, <1>2 DEF MayResend
  <1>5. \A i, j \in DOMAIN all : i < j /\ Copy(all[i], n) => ~Release(all[j], m.id)
    BY <1>1, <1>2 DEF MayResend, Copy, Release
  <1>6. \A i, j, k \in DOMAIN all :
          i < j /\ j < k /\ Copy(all[i], n) /\ Copy(all[k], n) => ~Release(all[j], all[k].id)
    BY <1>4, <1>5
  <1>7. \A k \in DOMAIN all : count = 1 /\ Copy(all[k], n) =>
          all[k].id \in ids /\ \A j \in 1 .. k : ~Release(all[j], all[k].id)
    BY <1>1, <1>2, <1>4 DEF MayResend, Copy, Release
  <1>8. count <= 1
    BY DEF Once
  <1> HIDE DEF all
  <1>9. Once(n, all, ids, count)
    BY <1>3, <1>4, <1>6, <1>7, <1>8 DEF Once
  <1> QED  BY <1>9 DEF all

\* Whatever is no release of it may follow without closing the door to a copy.
LEMMA MayResendMore ==
    ASSUME NEW m \in Sent, NEW out \in Seq(Sent), NEW msgs \in Seq(Sent), NEW ids, NEW count,
           MayResend(m, out, ids, count),
           \A i \in DOMAIN msgs :
              ~Release(msgs[i], m.id) /\ (Copy(msgs[i], m.no) => msgs[i].id = m.id)
    PROVE  MayResend(m, out \o msgs, ids, count)
  <1> DEFINE all == out \o msgs
  <1>1. /\ \A i \in DOMAIN out : i \in DOMAIN all /\ all[i] = out[i]
        /\ \A i \in DOMAIN all : i \notin DOMAIN out =>
              i - Len(out) \in DOMAIN msgs /\ all[i] = msgs[i - Len(out)]
        /\ DOMAIN out = 1 .. Len(out) /\ Len(out) \in Nat
        /\ DOMAIN all = 1 .. Len(all) /\ Len(all) \in Nat
    BY ConcatFacts
  <1>2. \A i \in DOMAIN all : Copy(all[i], m.no) => all[i].id = m.id
    BY <1>1 DEF MayResend
  <1>3. \A i, j \in DOMAIN all : i < j /\ Copy(all[i], m.no) => ~Release(all[j], m.id)
    <2> SUFFICES ASSUME NEW i \in DOMAIN all, NEW j \in DOMAIN all, i < j, Copy(all[i], m.no)
                 PROVE  ~Release(all[j], m.id)
      OBVIOUS
    <2>1. CASE j \in DOMAIN out
      BY <2>1, <1>1 DEF MayResend
    <2>2. CASE j \notin DOMAIN out
      BY <2>2, <1>1
    <2> QED  BY <2>1, <2>2
  <1>4. count = 1 => m.id \in ids /\ \A j \in DOMAIN all : ~Release(all[j], m.id)
    BY <1>1 DEF MayResend
  <1> HIDE DEF all
  <1>5. MayResend(m, all, ids, count)
    BY <1>2, <1>3, <1>4 DEF MayResend
  <1> QED  BY <1>5 DEF all

\* The broker takes the message in front.
Held(m, ids) == CASE m.type = "PUBLISH2" -> ids \cup {m.id} [] m.type = "PUBREL" -> ids \ {m.id}
                  [] OTHER -> ids
Counted(m, n, ids, count) ==
    IF m.no = n /\ (m.type = "PUBLISH1" \/ (m.type = "PUBLISH2" /\ m.id \notin ids))
    THEN count + 1 ELSE count

LEMMA OnceTaken ==
    ASSUME NEW n, NEW out \in Seq(Sent), out # <<>>, NEW ids, NEW count \in Nat,
           Once(n, out, ids, count)
    PROVE  Once(n, Tail(out), Held(Head(out), ids), Counted(Head(out), n, ids, count))
  <1> DEFINE m == Head(out)
             rest == Tail(out)
             ids2 == Held(m, ids)
             count2 == Counted(m, n, ids, count)
  <1>1. /\ m = out[1] /\ 1 \in DOMAIN out
        /\ \A i \in DOMAIN rest : i + 1 \in DOMAIN out /\ rest[i] = out[i + 1]
        /\ DOMAIN out = 1 .. Len(out) /\ Len(out) \in Nat
        /\ DOMAIN rest = 1 .. Len(rest) /\ Len(rest) \in Nat /\ Len(rest) = Len(out) - 1
    BY TailFacts
  <1>2. m.type = "PUBLISH1" => m.no # n
    BY <1>1 DEF Once
  <1>3. \A i \in DOMAIN rest : rest[i].type = "PUBLISH1" => rest[i].no # n
    BY <1>1 DEF Once
  <1>4. \A i, k \in DOMAIN rest : Copy(rest[i], n) /\ Copy(rest[k], n) => rest[i].id = rest[k].id
    BY <1>1 DEF Once
  <1>5. \A i, j, k \in DOMAIN rest :
          i < j /\ j < k /\ Copy(rest[i], n) /\ Copy(rest[k], n) => ~Release(rest[j], rest[k].id)
    <2> SUFFICES ASSUME NEW i \in DOMAIN rest, NEW j \in DOMAIN rest, NEW k \in DOMAIN rest,
                        i < j, j < k, Copy(rest[i], n), Copy(rest[k], n)
                 PROVE  ~Release(rest[j], rest[k].id)
      OBVIOUS
    <2>1. i + 1 \in DOMAIN out /\ j + 1 \in DOMAIN out /\ k + 1 \in DOMAIN out
          /\ i + 1 < j + 1 /\ j + 1 < k + 1
      BY <1>1
    <2> QED  BY <2>1, <1>1 DEF Once
  <1>6. count2 = IF Copy(m, n) /\ m.id \notin ids THEN count + 1 ELSE count
    BY <1>2 DEF Counted, Copy
  <1>7. CASE Copy(m, n)
    <2>1. ids2 = ids \cup {m.id}
      BY <1>7 DEF Copy, Held
    <2>2. count2 <= 1
      <3>1. count = 1 => m.id \in ids
        BY <1>1, <1>7 DEF Once
      <3> QED  BY <3>1, <1>6 DEF Once
    <2>3. ASSUME NEW k \in DOMAIN rest, Copy(rest[k], n)
          PROVE  rest[k].id = m.id /\ \A j \in 1 .. k : ~Release(rest[j], rest[k].id)
      <3>1. k + 1 \in DOMAIN out /\ rest[k] = out[k + 1] /\ rest[k].id = m.id
        BY <1>1, <1>7, <2>3 DEF Once
      <3>2. ASSUME NEW j \in 1 .. k  PROVE ~Release(rest[j], rest[k].id)
        <4>1. CASE j = k
          BY <4>1, <2>3 DEF Copy, Release
        <4>2. CASE j < k
          <5>1. j \in DOMAIN rest /\ j + 1 \in DOMAIN out /\ rest[j] = out[j + 1]
                /\ 1 < j + 1 /\ j + 1 < k + 1
            BY <4>2, <1>1, <3>2
          <5> QED  BY <5>1, <3>1, <1>1, <1>7, <2>3 DEF Once
        <4> QED  BY <4>1, <4>2, <3>2
      <3> QED  BY <3>1, <3>2
    <2> HIDE DEF rest, ids2, count2, m
    <2>4. Once(n, rest, ids2, count2)
      BY <2>1, <2>2, <2>3, <1>3, <1>4, <1>5 DEF Once
    <2> QED  BY <2>4 DEF rest, ids2, count2, m
  <1>8. CASE ~Copy(m, n)
    <2>1. count2 = count
      BY <1>6, <1>8
    <2>2. ASSUME NEW k \in DOMAIN rest, Copy(rest[k], n), count = 1
          PROVE  rest[k].id \in ids2 /\ \A j \in 1 .. k : ~Release(rest[j], rest[k].id)
      <3>1. /\ k + 1 \in DOMAIN out /\ rest[k] = out[k + 1] /\ rest[k].id \in ids
            /\ \A j \in 1 .. k + 1 : ~Release(out[j], rest[k].id)
        BY <1>1, <2>2 DEF Once
      <3>2. ~Release(m, rest[k].id)
        BY <3>1, <1>1
      <3>3. rest[k].id \in ids2
        BY <3>1, <3>2 DEF Held, Release
      <3>4. ASSUME NEW j \in 1 .. k  PROVE ~Release(rest[j], rest[k].id)
        <4>1. rest[j] = out[j + 1] /\ j + 1 \in 1 .. k + 1
          BY <1>1, <3>4
        <4> QED  BY <4>1, <3>1
      <3> QED  BY <3>3, <3>4
    <2>3. count <= 1
      BY DEF Once
    <2> HIDE DEF rest, ids2, count2, m
    <2>4. Once(n, rest, ids2, count2)
      BY <2>1, <2>2, <2>3, <1>3, <1>4, <1>5 DEF Once
    <2> QED  BY <2>4 DEF rest, ids2, count2, m
  <1> QED  BY <1>7, <1>8

LEMMA MayResendTaken ==
    ASSUME NEW m \in Sent, NEW out \in Seq(Sent), out # <<>>, NEW ids, NEW count \in Nat,
           Copy(m, m.no), Once(m.no, out, ids, count), MayResend(m, out, ids, count)
    PROVE  MayResend(m, Tail(out), Held(Head(out), ids), Counted(Head(out), m.no, ids, count))
  <1> DEFINE h == Head(out)
             rest == Tail(out)
             ids2 == Held(h, ids)
             count2 == Counted(h, m.no, ids, count)
  <1>1. /\ h = out[1] /\ 1 \in DOMAIN out
        /\ \A i \in DOMAIN rest : i + 1 \in DOMAIN out /\ rest[i] = out[i + 1]
        /\ DOMAIN out = 1 .. Len(out) /\ Len(out) \in Nat
        /\ DOMAIN rest = 1 .. Len(rest) /\ Len(rest) \in Nat /\ Len(rest) = Len(out) - 1
    BY TailFacts
  <1>2. \A i \in DOMAIN rest : Copy(rest[i], m.no) => rest[i].id = m.id
    BY <1>1 DEF MayResend
  <1>3. \A i, j \in DOMAIN rest : i < j /\ Copy(rest[i], m.no) => ~Release(rest[j], m.id)
    <2> SUFFICES ASSUME NEW i \in DOMAIN rest, NEW j \in DOMAIN rest, i < j, Copy(rest[i], m.no)
                 PROVE  ~Release(rest[j], m.id)
      OBVIOUS
    <2>1. i + 1 \in DOMAIN out /\ j + 1 \in DOMAIN out /\ i + 1 < j + 1
      BY <1>1
    <2> QED  BY <2>1, <1>1 DEF MayResend
  <1>4. h.type = "PUBLISH1" => h.no # m.no
    BY <1>1 DEF Once
  <1>5. count2 = 1 => m.id \in ids2 /\ \A j \in DOMAIN rest : ~Release(rest[j], m.id)
    <2> SUFFICES ASSUME count2 = 1
                 PROVE  m.id \in ids2 /\ \A j \in DOMAIN rest : ~Release(rest[j], m.id)
      OBVIOUS
    <2>1. CASE Copy(h, m.no)
      <3>1. h.id = m.id /\ m.id \in ids2
        BY <2>1, <1>1 DEF MayResend, Held, Copy
      <3>2. ASSUME NEW j \in DOMAIN rest  PROVE ~Release(rest[j], m.id)
        <4>1. j + 1 \in DOMAIN out /\ 1 < j + 1 /\ rest[j] = out[j + 1]
          BY <1>1, <3>2
        <4> QED  BY <4>1, <1>1, <2>1 DEF MayResend
      <3> QED  BY <3>1, <3>2
    <2>2. CASE ~Copy(h, m.no)
      <3>1. count = 1
        BY <2>2, <1>4 DEF Counted, Copy
      <3>2. m.id \in ids /\ \A j \in DOMAIN out : ~Release(out[j], m.id)
        BY <3>1 DEF MayResend
      <3>3. m.id \in ids2
        BY <3>2, <1>1 DEF Held, Release
      <3> QED  BY <3>2, <3>3, <1>1
    <2> QED  BY <2>1, <2>2
  <1> HIDE DEF rest, ids2, count2, h
  <1>6. MayResend(m, rest, ids2, count2)
    BY <1>2, <1>3, <1>5 DEF MayResend
  <1> QED  BY <1>6 DEF rest, ids2, count2, h

-----------------------------------------------------------------------------
(* What the steps have in common                                             *)

\* The publications of QoS 2 that the properties are about.
Counts(n) ==
    /\ n \in 1 .. MaxCalls
    /\ \/ call = "publish2" /\ n = calls
       \/ result.op = "publish2" /\ n = result.no
\* What was accepted once, and what may be sent again, stays so.
OnceKept == \A n \in 1 .. MaxCalls :
    Counts(n) /\ Once(n, outbox, held, delivered[n]) => Once(n, outbox', held', delivered'[n])
ResendKept == \A i \in DOMAIN stack :
    LET m == stack[i].msg IN
    m.type = "PUBLISH2" /\ tcp' /\ MayResend(m, outbox, held, delivered[calls]) =>
        MayResend(m, outbox', held', delivered'[calls])

LEMMA StackFacts ==
    ASSUME IInv, stack # <<>>
    PROVE  /\ Top \in Waits /\ Top.msg \in Sent /\ Rest \in Seq(Waits)
           /\ 1 \in DOMAIN stack /\ Top = stack[1] /\ Len(stack) \in Nat /\ Len(Rest) = Len(stack) - 1
           /\ \A i \in DOMAIN Rest : i + 1 \in DOMAIN stack /\ Rest[i] = stack[i + 1]
           /\ Rest = <<>> <=> Len(stack) = 1
           /\ Top.msg.type # "PUBREC" => Rest = <<>>
  <1>1. stack \in Seq(Waits)
    BY DEF IInv, Types
  <1>2. /\ Top \in Waits /\ Rest \in Seq(Waits)
        /\ 1 \in DOMAIN stack /\ Top = stack[1] /\ Len(stack) \in Nat /\ Len(Rest) = Len(stack) - 1
        /\ \A i \in DOMAIN Rest : i + 1 \in DOMAIN stack /\ Rest[i] = stack[i + 1]
    BY <1>1, TailFacts DEF Top, Rest
  <1>3. Top.msg \in Sent
    BY <1>2 DEF Waits
  <1>4. Rest = <<>> <=> Len(stack) = 1
    BY <1>2
  <1>5. Top.msg.type # "PUBREC" => Rest = <<>>
    BY <1>2, <1>4 DEF IInv, OneCall
  <1> QED  BY <1>2, <1>3, <1>4, <1>5

\* The call goes on, or returns what it was, or loop() begins to wait.
CallStep(ok) ==
    \/ UNCHANGED <<call, result>>
    \/ Return(ok) /\ call # "none"
    \/ call = "none" /\ call' \in {"none", "loop"} /\ result' = result

LEMMA OnceEachKept ==
    ASSUME IInv, OnceKept, UNCHANGED calls, NEW ok \in BOOLEAN, CallStep(ok)
    PROVE  OnceEach'
  <1>1. calls \in Nat /\ MaxCalls \in Nat /\ calls <= MaxCalls
        /\ result.no \in Nat /\ result.no <= calls
    BY BoundsAssumption DEF IInv, Types, StateOK
  <1>2. call = "publish2" => calls \in 1 .. MaxCalls
    BY <1>1 DEF IInv, OneCall
  <1>3. result.op = "publish2" => Once(result.no, outbox, held, delivered[result.no])
    BY DEF IInv, OnceEach
  <1>4. call = "publish2" => Once(calls, outbox', held', delivered'[calls])
    <2>1. call = "publish2" => Counts(calls)
      BY <1>2 DEF Counts
    <2>2. call = "publish2" => Once(calls, outbox, held, delivered[calls])
      BY DEF IInv, OnceEach
    <2> QED  BY <1>2, <2>1, <2>2 DEF OnceKept
  <1>5. result.op = "publish2" => result.no \in 1 .. MaxCalls
    <2>1. result.op = "publish2" => result.no > 0
      BY DEF IInv, OneCall
    <2> QED  BY <1>1, <2>1
  <1>6. result.op = "publish2" => Once(result.no, outbox', held', delivered'[result.no])
    BY <1>3, <1>5 DEF OnceKept, Counts
  <1>7. CASE UNCHANGED <<call, result>>
    BY <1>7, <1>4, <1>6 DEF OnceEach
  <1>8. CASE Return(ok)
    BY <1>8, <1>4, <1>6 DEF OnceEach, Return
  <1>9. CASE call' \in {"none", "loop"} /\ result' = result
    BY <1>9, <1>6 DEF OnceEach
  <1> QED  BY <1>7, <1>8, <1>9 DEF CallStep

\* No wait for a PUBREC begins.
NoNewCopies ==
    \A i \in DOMAIN stack' : stack'[i].msg.type = "PUBLISH2" =>
          \E k \in DOMAIN stack : stack[k].msg = stack'[i].msg

LEMMA ResendableKept ==
    ASSUME IInv, ResendKept, UNCHANGED calls, NoNewCopies, tcp' => tcp
    PROVE  Resendable'
  <1> SUFFICES ASSUME NEW i \in DOMAIN stack', stack'[i].msg.type = "PUBLISH2", tcp'
               PROVE  MayResend(stack'[i].msg, outbox', held', delivered'[calls])
    BY DEF Resendable
  <1>1. PICK k \in DOMAIN stack : stack[k].msg = stack'[i].msg
    BY DEF NoNewCopies
  <1>2. MayResend(stack[k].msg, outbox, held, delivered[calls])
    BY <1>1 DEF IInv, Resendable
  <1> QED  BY <1>1, <1>2 DEF ResendKept

-----------------------------------------------------------------------------
(* The stack                                                                 *)

LEMMA Popped ==
    ASSUME IInv, stack # <<>>, stack' = Rest, UNCHANGED calls, NEW ok \in BOOLEAN,
           IF Rest = <<>> THEN Return(ok) ELSE UNCHANGED <<call, result>>
    PROVE  stack' \in Seq(Waits) /\ OneCall' /\ NoNewCopies /\ CallStep(ok)
  <1>1. stack' \in Seq(Waits) /\ Len(stack') = Len(stack) - 1
        /\ \A i \in DOMAIN stack' : i + 1 \in DOMAIN stack /\ stack'[i] = stack[i + 1]
    BY StackFacts
  <1>2. call # "none" /\ call' = IF Rest = <<>> THEN "none" ELSE call
    BY DEF IInv, OneCall, Return
  <1>3. calls \in Nat /\ result.no <= calls /\ result.no \in Nat
    BY DEF IInv, Types, StateOK
  <1>4. call' = "none" <=> stack' = <<>>
    BY <1>2
  <1>5. \A i \in DOMAIN stack' : stack'[i].msg.type \in {"PUBLISH1", "PUBLISH2"} => call' = call
    BY <1>2, <1>1
  <1>6. \A i \in DOMAIN stack' :
          /\ i < Len(stack') => stack'[i].msg.type = "PUBREC"
          /\ stack'[i].msg.type = "PUBLISH1" => call' = "publish1" /\ stack'[i].msg.no = calls'
          /\ stack'[i].msg.type = "PUBLISH2" => call' = "publish2" /\ stack'[i].msg.no = calls'
    BY <1>1, <1>5, StackFacts DEF IInv, OneCall
  <1>7. /\ call' = "loop" \/ call' = "none" \/ result'.no < calls'
        /\ result'.op = "publish2" => result'.no > 0
    <2>1. CASE Rest = <<>>
      <3>1. call = "loop" \/ calls > 0
        BY <1>2, <1>3 DEF IInv, OneCall
      <3> QED  BY <2>1, <3>1, <1>2, <1>3 DEF Return, IInv, OneCall
    <2>2. CASE Rest # <<>>
      BY <2>2 DEF IInv, OneCall
    <2> QED  BY <2>1, <2>2
  <1>8. OneCall'
    BY <1>4, <1>6, <1>7 DEF OneCall
  <1>9. NoNewCopies
    BY <1>1 DEF NoNewCopies
  <1>10. CallStep(ok)
    BY <1>2 DEF CallStep
  <1> QED  BY <1>1, <1>8, <1>9, <1>10

LEMMA Replaced ==
    ASSUME IInv, stack # <<>>, NEW w \in Waits, stack' = <<w>> \o Rest,
           w.msg = Top.msg \/ (w.msg.type = "PUBREL" /\ Top.msg.type = "PUBLISH2"),
           UNCHANGED <<call, calls, result>>
    PROVE  stack' \in Seq(Waits) /\ OneCall' /\ NoNewCopies /\ CallStep(TRUE)
  <1>1. /\ stack' \in Seq(Waits) /\ Len(stack') = Len(stack) /\ stack' # <<>> /\ Len(stack) \in Nat
        /\ stack'[1] = w /\ 1 \in DOMAIN stack
        /\ \A i \in DOMAIN stack' : i # 1 => i \in DOMAIN stack /\ stack'[i] = stack[i]
    <2>1. /\ Rest \in Seq(Waits) /\ Len(Rest) = Len(stack) - 1 /\ 1 \in DOMAIN stack /\ Len(stack) \in Nat
          /\ \A i \in DOMAIN Rest : i + 1 \in DOMAIN stack /\ Rest[i] = stack[i + 1]
      BY StackFacts
    <2>2. /\ <<w>> \o Rest \in Seq(Waits) /\ Len(<<w>> \o Rest) = Len(Rest) + 1
          /\ (<<w>> \o Rest)[1] = w
          /\ \A i \in DOMAIN (<<w>> \o Rest) :
                i # 1 => i - 1 \in DOMAIN Rest /\ (<<w>> \o Rest)[i] = Rest[i - 1]
      BY <2>1, PushFacts
    <2>3. stack' # <<>>
      BY <2>1, <2>2
    <2>4. \A i \in DOMAIN stack' : i \in Nat
      BY <2>2
    <2> QED  BY <2>1, <2>2, <2>3, <2>4
  <1>2. w.msg.type = "PUBREL" /\ Top.msg.type = "PUBLISH2" => Len(stack) = 1
    BY StackFacts
  <1>3. Top = stack[1]
    BY StackFacts
  <1>4. \A i \in DOMAIN stack' :
          /\ i < Len(stack') => stack'[i].msg.type = "PUBREC"
          /\ stack'[i].msg.type = "PUBLISH1" => call' = "publish1" /\ stack'[i].msg.no = calls'
          /\ stack'[i].msg.type = "PUBLISH2" => call' = "publish2" /\ stack'[i].msg.no = calls'
    BY <1>1, <1>2, <1>3 DEF IInv, OneCall
  <1>5. OneCall'
    BY <1>1, <1>4 DEF IInv, OneCall
  <1>6. NoNewCopies
    BY <1>1, <1>3 DEF NoNewCopies
  <1> QED  BY <1>1, <1>5, <1>6 DEF CallStep

\* A wait for a release, on top of a wait or of nothing.
LEMMA Pushed ==
    ASSUME IInv, NEW rec \in Waits, rec.msg.type = "PUBREC", NEW base \in Seq(Waits),
           stack' = <<rec>> \o base, UNCHANGED <<calls, result>>,
           IF stack = <<>> THEN base = <<>> /\ call' = "loop"
           ELSE /\ call' = call /\ Len(base) = Len(stack)
                /\ \A i \in DOMAIN base : i \in DOMAIN stack /\ base[i].msg = stack[i].msg
    PROVE  stack' \in Seq(Waits) /\ OneCall' /\ NoNewCopies /\ CallStep(TRUE)
  <1>1. /\ stack' \in Seq(Waits) /\ Len(stack') = Len(base) + 1 /\ stack' # <<>> /\ Len(base) \in Nat
        /\ stack'[1] = rec /\ DOMAIN stack' = 1 .. Len(base) + 1
        /\ \A i \in DOMAIN stack' : i # 1 => i - 1 \in DOMAIN base /\ stack'[i] = base[i - 1]
    <2>1. /\ <<rec>> \o base \in Seq(Waits) /\ Len(<<rec>> \o base) = Len(base) + 1
          /\ (<<rec>> \o base)[1] = rec
          /\ \A i \in DOMAIN (<<rec>> \o base) :
                i # 1 => i - 1 \in DOMAIN base /\ (<<rec>> \o base)[i] = base[i - 1]
      BY PushFacts
    <2>2. stack' # <<>> /\ DOMAIN stack' = 1 .. Len(base) + 1
      BY <2>1
    <2> QED  BY <2>1, <2>2
  <1>2. CASE stack = <<>>
    <2>1. \A i \in DOMAIN stack' : i = 1 /\ Len(stack') = 1
      BY <1>1, <1>2
    <2>2. OneCall'
      BY <1>1, <1>2, <2>1 DEF IInv, OneCall
    <2>3. NoNewCopies
      BY <1>1, <2>1 DEF NoNewCopies
    <2>4. CallStep(TRUE)
      BY <1>2 DEF IInv, OneCall, CallStep
    <2> QED  BY <1>1, <2>2, <2>3, <2>4
  <1>3. CASE stack # <<>>
    <2>1. \A i \in DOMAIN stack' : i # 1 =>
             i - 1 \in DOMAIN stack /\ stack'[i].msg = stack[i - 1].msg /\ (i < Len(stack') => i - 1 < Len(stack))
      BY <1>1, <1>3
    <2>2. \A i \in DOMAIN stack' :
            /\ i < Len(stack') => stack'[i].msg.type = "PUBREC"
            /\ stack'[i].msg.type = "PUBLISH1" => call' = "publish1" /\ stack'[i].msg.no = calls'
            /\ stack'[i].msg.type = "PUBLISH2" => call' = "publish2" /\ stack'[i].msg.no = calls'
      BY <1>1, <1>3, <2>1 DEF IInv, OneCall
    <2>3. OneCall'
      BY <1>1, <1>3, <2>2 DEF IInv, OneCall
    <2>4. NoNewCopies
      BY <1>1, <2>1 DEF NoNewCopies
    <2> QED  BY <1>1, <1>3, <2>3, <2>4 DEF CallStep
  <1> QED  BY <1>2, <1>3

-----------------------------------------------------------------------------
(* The connection                                                            *)

Scalars ==
    /\ nextMsgId \in 1 .. IdMax /\ pingOutstanding \in BOOLEAN /\ isSubAckFound \in BOOLEAN
    /\ sinceIn \in Age /\ sinceOut \in Age /\ tcp \in BOOLEAN /\ subscribed \in BOOLEAN
    /\ held \subseteq 1 .. IdMax /\ delivered \in [1 .. MaxCalls -> Nat]
    /\ inbound \in 0 .. MaxInbound /\ silent \in BOOLEAN /\ looped \in BOOLEAN

LEMMA TypeFacts ==
    ASSUME IInv
    PROVE  /\ Scalars /\ stack \in Seq(Waits) /\ outbox \in Seq(Sent) /\ inbox \in Seq(Received)
           /\ call \in Ops \cup {"none", "loop"} /\ calls \in 0 .. MaxCalls /\ calls \in Nat
           /\ MaxCalls \in Nat /\ 0 \in Age /\ NotYet /\ OneCall
  BY BoundsAssumption DEF IInv, Types, StateOK, Scalars, Age

\* The parts of the invariant that are typing, put together.
LEMMA Rebuilt ==
    ASSUME IInv, Scalars', NEW ok \in BOOLEAN, CallStep(ok), UNCHANGED calls,
           stack' \in Seq(Waits), outbox' \in Seq(Sent), inbox' \in Seq(Received),
           OneCall', NotYet', OnceEach', Resendable'
    PROVE  IInv'
  <1>1. \A i \in DOMAIN stack' :
          stack'[i].tries \in 0 .. MaxRetries /\ stack'[i].phase \in {"first", "check", "read", "after"}
    <2>1. \A i \in DOMAIN stack' : stack'[i] \in Waits
      OBVIOUS
    <2> QED  BY <2>1 DEF Waits
  <1>2. /\ call \in Ops \cup {"none", "loop"} /\ calls \in 0 .. MaxCalls /\ calls \in Nat
        /\ result \in [op : Ops \cup {"none"}, no : Nat, ok : BOOLEAN] /\ result.no <= calls
    BY TypeFacts DEF IInv, Types
  <1>3. /\ call' \in Ops \cup {"none", "loop"} /\ calls' \in 0 .. MaxCalls
        /\ result' \in [op : Ops \cup {"none"}, no : Nat, ok : BOOLEAN] /\ result'.no <= calls'
    <2>1. CASE Return(ok) /\ call # "none"
      BY <2>1, <1>2 DEF Return
    <2>2. CASE ~(Return(ok) /\ call # "none")
      BY <2>2, <1>2 DEF CallStep
    <2> QED  BY <2>1, <2>2
  <1>4. result'.op \in Ops \cup {"none"} /\ result'.ok \in BOOLEAN
    BY <1>3
  <1>5. StateOK'
    BY <1>1, <1>3, <1>4 DEF Scalars, StateOK
  <1> QED  BY <1>3, <1>5 DEF IInv, Types

\* A step that keeps what was accepted and what may be sent again keeps the
\* invariant.
LEMMA Preserved ==
    ASSUME IInv, Scalars', NEW ok \in BOOLEAN, CallStep(ok), UNCHANGED calls, tcp' => tcp,
           stack' \in Seq(Waits), OneCall', NoNewCopies,
           outbox' \in Seq(Sent), inbox' \in Seq(Received), NotYet', OnceKept, ResendKept
    PROVE  IInv'
  BY OnceEachKept, ResendableKept, Rebuilt

\* Messages that are no publications are sent, or none.
LEMMA Transmitted ==
    ASSUME IInv, NEW msgs \in Seq(Sent), \A i \in DOMAIN msgs : msgs[i].type \in Plain,
           Transmit(msgs), UNCHANGED <<tcp, calls, held, delivered>>
    PROVE  /\ outbox' \in Seq(Sent) /\ NotYet' /\ OnceKept
           /\ (\A i \in DOMAIN msgs : msgs[i].type # "PUBREL") => ResendKept
  <1>1. outbox \in Seq(Sent) /\ stack \in Seq(Waits) /\ NotYet
    BY TypeFacts
  <1>2. CASE ~tcp
    <2>1. outbox' = outbox
      BY <1>2 DEF Transmit
    <2> QED  BY <2>1, <1>1 DEF NotYet, OnceKept, ResendKept
  <1>3. CASE tcp
    <2>1. outbox' = outbox \o msgs
      BY <1>3 DEF Transmit
    <2>2. outbox' \in Seq(Sent)
      BY <2>1, <1>1, ConcatFacts
    <2>3. \A i \in DOMAIN msgs : msgs[i].type \notin {"PUBLISH1", "PUBLISH2"}
      BY DEF Plain
    <2>4. \A i \in DOMAIN msgs : msgs[i] \notin Publications
      BY <2>3 DEF Publications
    <2>5. \A i \in DOMAIN outbox' : outbox'[i] \in Publications => outbox'[i].no <= calls
      <3>1. \A i \in DOMAIN outbox : outbox'[i] = outbox[i]
        BY <2>1, <1>1, ConcatFacts
      <3>2. \A i \in DOMAIN outbox' :
               i \notin DOMAIN outbox => i - Len(outbox) \in DOMAIN msgs /\ outbox'[i] = msgs[i - Len(outbox)]
        BY <2>1, <1>1, ConcatFacts
      <3> QED  BY <3>1, <3>2, <2>4, <1>1 DEF NotYet
    <2>6. NotYet'
      BY <2>5, <1>1, <1>3 DEF NotYet
    <2>7. OnceKept
      <3>1. ASSUME NEW n \in 1 .. MaxCalls, Once(n, outbox, held, delivered[n])
            PROVE  Once(n, outbox \o msgs, held, delivered[n])
        BY <3>1, <2>3, <1>1, OnceMore DEF Copy
      <3> QED  BY <3>1, <2>1 DEF OnceKept
    <2>8. ASSUME \A i \in DOMAIN msgs : msgs[i].type # "PUBREL"
          PROVE  ResendKept
      <3>1. ASSUME NEW i \in DOMAIN stack, MayResend(stack[i].msg, outbox, held, delivered[calls])
            PROVE  MayResend(stack[i].msg, outbox \o msgs, held, delivered[calls])
        <4>1. stack[i].msg \in Sent
          <5>1. stack[i] \in Waits
            BY <1>1
          <5> QED  BY <5>1 DEF Waits
        <4>2. \A k \in DOMAIN msgs :
                 ~Release(msgs[k], stack[i].msg.id) /\ ~Copy(msgs[k], stack[i].msg.no)
          BY <2>3, <2>8 DEF Copy, Release
        <4> QED  BY <3>1, <4>1, <4>2, <1>1, MayResendMore
      <3> QED  BY <3>1, <2>1 DEF ResendKept
    <2> QED  BY <2>2, <2>6, <2>7, <2>8
  <1> QED  BY <1>2, <1>3

LEMMA Untouched ==
    ASSUME IInv, UNCHANGED <<tcp, calls, outbox, held, delivered>>
    PROVE  outbox' \in Seq(Sent) /\ NotYet' /\ OnceKept /\ ResendKept
  BY TypeFacts DEF NotYet, OnceKept, ResendKept

\* What was under way is lost.
LEMMA Cleared ==
    ASSUME IInv, outbox' = <<>>, UNCHANGED <<calls, delivered>>
    PROVE  /\ outbox' \in Seq(Sent) /\ NotYet' /\ OnceKept
           /\ ~tcp' \/ UNCHANGED held => ResendKept
  <1>1. outbox' \in Seq(Sent) /\ NotYet'
    BY TypeFacts DEF NotYet
  <1>2. OnceKept
    <2>1. ASSUME NEW n \in 1 .. MaxCalls, Once(n, outbox, held, delivered[n])
          PROVE  Once(n, <<>>, held', delivered[n])
      <3>1. delivered[n] \in Nat /\ delivered[n] <= 1
        BY <2>1, TypeFacts DEF Scalars, Once
      <3> QED  BY <3>1, OnceNone
    <2> QED  BY <2>1 DEF OnceKept
  <1>3. ASSUME UNCHANGED held  PROVE ResendKept
    BY <1>3 DEF ResendKept, MayResend
  <1> QED  BY <1>1, <1>2, <1>3 DEF ResendKept

LEMMA Settled ==
    ASSUME IInv, UNCHANGED <<stack, call, calls, result>>
    PROVE  stack' \in Seq(Waits) /\ OneCall' /\ NoNewCopies /\ CallStep(TRUE)
  BY TypeFacts DEF OneCall, NoNewCopies, CallStep

-----------------------------------------------------------------------------
(* Waits that end                                                            *)

LEMMA OneMessage ==
    ASSUME NEW m \in Sent
    PROVE  <<m>> \in Seq(Sent) /\ DOMAIN <<m>> = {1} /\ <<m>>[1] = m
  OBVIOUS

LEMMA TransmittedOne ==
    ASSUME IInv, NEW m \in Sent, m.type \in Plain,
           Transmit(<<m>>), UNCHANGED <<tcp, calls, held, delivered>>
    PROVE  /\ outbox' \in Seq(Sent) /\ NotYet' /\ OnceKept
           /\ m.type # "PUBREL" => ResendKept
  <1> DEFINE msgs == <<m>>
  <1>1. msgs \in Seq(Sent) /\ DOMAIN msgs = {1} /\ msgs[1] = m
    BY OneMessage
  <1>2. Transmit(msgs)
    OBVIOUS
  <1> HIDE DEF msgs
  <1>3. \A i \in DOMAIN msgs : msgs[i].type \in Plain
    BY <1>1
  <1>4. m.type # "PUBREL" => \A i \in DOMAIN msgs : msgs[i].type # "PUBREL"
    BY <1>1
  <1> QED  BY <1>1, <1>2, <1>3, <1>4, Transmitted

\* A message that waits is sent once more, with its identifier.
LEMMA SentAgain ==
    ASSUME IInv, stack # <<>>, Transmit(<<Top.msg>>), UNCHANGED <<tcp, calls, held, delivered>>
    PROVE  outbox' \in Seq(Sent) /\ NotYet' /\ OnceKept /\ ResendKept
  <1> DEFINE m == Top.msg
  <1>1. m \in Sent /\ m = stack[1].msg /\ 1 \in DOMAIN stack
        /\ (m.type # "PUBREC" => \A i \in DOMAIN stack : i = 1)
    BY StackFacts
  <1>2. outbox \in Seq(Sent) /\ NotYet
    BY TypeFacts
  <1>3. CASE ~tcp
    <2>1. outbox' = outbox
      BY <1>3 DEF Transmit
    <2> QED  BY <2>1, Untouched
  <1>4. CASE m.type \in Plain
    <2>1. outbox' \in Seq(Sent) /\ NotYet' /\ OnceKept
      BY <1>1, <1>4, TransmittedOne
    <2>2. CASE m.type = "PUBREL"
      BY <2>1, <2>2, <1>1 DEF ResendKept
    <2>3. CASE m.type # "PUBREL"
      BY <2>3, <1>1, <1>4, TransmittedOne
    <2> QED  BY <2>1, <2>2, <2>3
  <1>5. CASE m.type \notin Plain /\ tcp
    <2>1. m \in Publications /\ m.type \in {"PUBLISH1", "PUBLISH2"} /\ m.no = calls /\ calls \in 1 .. MaxCalls
      <3>1. m \in Publications
        BY <1>1, <1>5 DEF Sent
      <3>2. m.type \in {"PUBLISH1", "PUBLISH2"} /\ m.no \in 1 .. MaxCalls
        BY <3>1 DEF Publications
      <3> QED  BY <3>1, <3>2, <1>1, TypeFacts DEF OneCall
    <2>2. outbox' = outbox \o <<m>>
      BY <1>5 DEF Transmit
    <2>3. /\ outbox' \in Seq(Sent) /\ DOMAIN outbox' = 1 .. Len(outbox) + 1 /\ Len(outbox) \in Nat
          /\ \A i \in DOMAIN outbox : outbox'[i] = outbox[i]
          /\ outbox'[Len(outbox) + 1] = m /\ DOMAIN outbox = 1 .. Len(outbox)
      BY <2>2, <1>1, <1>2
    <2>4. NotYet'
      BY <2>3, <2>1, <1>2, <1>5 DEF NotYet
    <2>5. OnceKept
      <3> SUFFICES ASSUME NEW n \in 1 .. MaxCalls, Counts(n), Once(n, outbox, held, delivered[n])
                   PROVE  Once(n, outbox \o <<m>>, held, delivered[n])
        BY <2>2 DEF OnceKept
      <3>1. CASE m.type = "PUBLISH2" /\ n = calls
        <4>1. Copy(m, m.no) /\ m.no = n
          BY <3>1, <2>1 DEF Copy
        <4>2. MayResend(m, outbox, held, delivered[n])
          BY <3>1, <1>1, <1>5 DEF IInv, Resendable
        <4> QED  BY <4>1, <4>2, <1>1, <1>2, OnceAgain
      <3>2. CASE n # calls
        BY <3>2, <2>1, <1>1, <1>2, OneMessage, OnceMore DEF Copy
      <3>3. CASE m.type = "PUBLISH1" /\ n = calls
        <4>1. call = "publish1" /\ result.no < calls
          BY <3>3, <1>1, TypeFacts DEF OneCall
        <4>2. n = result.no
          BY <4>1 DEF Counts
        <4> QED  BY <4>1, <4>2, <3>3, TypeFacts DEF IInv, Types
      <3> QED  BY <3>1, <3>2, <3>3, <2>1
    <2>6. ResendKept
      <3> SUFFICES ASSUME m.type = "PUBLISH2", MayResend(m, outbox, held, delivered[calls])
                   PROVE  MayResend(m, outbox \o <<m>>, held, delivered[calls])
        BY <1>1, <2>1, <2>2 DEF ResendKept, Plain
      <3>1. ~Release(m, m.id)
        BY DEF Release
      <3> QED  BY <3>1, <1>1, <1>2, OneMessage, MayResendMore
    <2> QED  BY <2>3, <2>4, <2>5, <2>6
  <1> QED  BY <1>3, <1>4, <1>5

\* What a wait leaves alone.
WaitFrame ==
    /\ UNCHANGED <<calls, nextMsgId, delivered, inbound, silent>>
    /\ pingOutstanding' \in BOOLEAN /\ isSubAckFound' \in BOOLEAN /\ looped' \in BOOLEAN
    /\ sinceIn' \in Age

LEMMA FailedWait ==
    ASSUME IInv, stack # <<>>, NEW input \in Seq(Received), WaitFailed(input), WaitFrame
    PROVE  IInv'
  <1>0. /\ Scalars /\ calls \in Nat /\ 0 \in Age /\ Top \in Waits
    BY TypeFacts, StackFacts
  <1>1. CASE CanRetry
    <2>1. /\ stack' = <<[Top EXCEPT !.phase = "first", !.tries = @ + 1]>> \o Rest
          /\ Transmit(<<Top.msg>>) /\ inbox' = input /\ sinceOut' = 0
          /\ UNCHANGED <<call, result, tcp, subscribed, held>> /\ Top.tries < MaxRetries
      BY <1>1 DEF WaitFailed, Retry, Resent, CanRetry
    <2>2. [Top EXCEPT !.phase = "first", !.tries = @ + 1] \in Waits
      <3>1. Top.tries + 1 \in 0 .. MaxRetries
        BY <2>1, <1>0, BoundsAssumption DEF Waits
      <3> QED  BY <3>1, <1>0 DEF Waits
    <2>3. stack' \in Seq(Waits) /\ OneCall' /\ NoNewCopies /\ CallStep(TRUE)
      <3>1. [Top EXCEPT !.phase = "first", !.tries = @ + 1].msg = Top.msg
        BY <1>0 DEF Waits
      <3> QED  BY <2>1, <2>2, <3>1, Replaced DEF WaitFrame
    <2>4. outbox' \in Seq(Sent) /\ NotYet' /\ OnceKept /\ ResendKept
      BY <2>1, SentAgain DEF WaitFrame
    <2>5. Scalars'
      BY <1>0, <2>1 DEF Scalars, WaitFrame, Age
    <2> QED  BY <2>1, <2>3, <2>4, <2>5, Preserved DEF WaitFrame
  <1>2. CASE ~CanRetry
    <2>1. /\ stack' = Rest /\ UNCHANGED sinceOut
          /\ IF Rest = <<>> THEN Return(FALSE) ELSE UNCHANGED <<call, result>>
          /\ IF Top.msg.type = "CONNECT"
             THEN /\ tcp' = FALSE /\ outbox' = <<>> /\ inbox' = <<>>
                  /\ subscribed' = FALSE /\ held' = {}
             ELSE inbox' = input /\ UNCHANGED <<tcp, outbox, subscribed, held>>
      BY <1>2 DEF WaitFailed, GiveUp
    <2>2. stack' \in Seq(Waits) /\ OneCall' /\ NoNewCopies /\ CallStep(FALSE)
      BY <2>1, Popped DEF WaitFrame
    <2>3. outbox' \in Seq(Sent) /\ NotYet' /\ OnceKept /\ ResendKept /\ inbox' \in Seq(Received)
          /\ (tcp' => tcp)
      <3>1. CASE Top.msg.type = "CONNECT"
        BY <3>1, <2>1, Cleared DEF WaitFrame
      <3>2. CASE Top.msg.type # "CONNECT"
        BY <3>2, <2>1, Untouched DEF WaitFrame
      <3> QED  BY <3>1, <3>2
    <2>4. Scalars'
      BY <1>0, <2>1 DEF Scalars, WaitFrame, Age
    <2> QED  BY <2>1, <2>2, <2>3, <2>4, Preserved DEF WaitFrame
  <1> QED  BY <1>1, <1>2

LEMMA SuccessfulWait ==
    ASSUME IInv, stack # <<>>, WaitSucceeded, inbox' \in Seq(Received), WaitFrame,
           UNCHANGED <<tcp, subscribed, held>>
    PROVE  IInv'
  <1>0. /\ Scalars /\ calls \in Nat /\ 0 \in Age /\ Top \in Waits /\ Top.msg \in Sent
        /\ (Top.msg.type # "PUBREC" => Rest = <<>>) /\ 1 \in DOMAIN stack
        /\ Rest \in Seq(Waits)
    BY TypeFacts, StackFacts
  <1>1. Top.msg.id \in Nat
    BY <1>0, BoundsAssumption DEF Sent, Publications
  <1>2. CASE Top.msg.type = "PUBLISH2"
    <2> DEFINE rel == Msg("PUBREL", Top.msg.id, 0)
    <2>1. /\ stack' = <<Wait(rel)>> \o Rest /\ Transmit(<<rel>>) /\ sinceOut' = 0
          /\ UNCHANGED <<call, result>>
      BY <1>2 DEF WaitSucceeded
    <2>2. rel \in Sent /\ rel.type = "PUBREL" /\ Wait(rel) \in Waits /\ Wait(rel).msg = rel
      BY <1>1, BoundsAssumption DEF Msg, Wait, Waits, Sent, Plain
    <2>3. Rest = <<>> /\ \A i \in DOMAIN stack' : stack'[i].msg = rel
      BY <1>0, <1>2, <2>1, <2>2
    <2> HIDE DEF rel
    <2>4. stack' \in Seq(Waits) /\ OneCall' /\ NoNewCopies /\ CallStep(TRUE)
      BY <1>2, <2>1, <2>2, Replaced DEF WaitFrame
    <2>5. outbox' \in Seq(Sent) /\ NotYet' /\ OnceKept
      BY <2>1, <2>2, TransmittedOne DEF WaitFrame, Plain
    <2>6. Scalars'
      BY <1>0, <2>1 DEF Scalars, WaitFrame, Age
    <2>7. OnceEach'
      BY <2>4, <2>5, OnceEachKept DEF WaitFrame
    <2>8. Resendable'
      BY <2>2, <2>3 DEF Resendable
    <2> QED  BY <2>1, <2>4, <2>5, <2>6, <2>7, <2>8, Rebuilt DEF WaitFrame
  <1>3. CASE Top.msg.type = "PUBREC"
    <2> DEFINE comp == Msg("PUBCOMP", Top.msg.id, 0)
    <2>1. /\ stack' = Rest /\ Transmit(<<comp>>) /\ sinceOut' = 0
          /\ IF Rest = <<>> THEN Return(TRUE) ELSE UNCHANGED <<call, result>>
      BY <1>3 DEF WaitSucceeded
    <2>2. comp \in Sent /\ comp.type = "PUBCOMP"
      BY <1>1 DEF Msg, Sent, Plain
    <2> HIDE DEF comp
    <2>3. stack' \in Seq(Waits) /\ OneCall' /\ NoNewCopies /\ CallStep(TRUE)
      BY <2>1, Popped DEF WaitFrame
    <2>4. outbox' \in Seq(Sent) /\ NotYet' /\ OnceKept /\ ResendKept
      BY <2>1, <2>2, TransmittedOne DEF WaitFrame, Plain
    <2>5. Scalars'
      BY <1>0, <2>1 DEF Scalars, WaitFrame, Age
    <2> QED  BY <2>3, <2>4, <2>5, Preserved DEF WaitFrame
  <1>4. CASE Top.msg.type \notin {"PUBLISH2", "PUBREC"}
    <2>1. stack' = Rest /\ Return(TRUE) /\ UNCHANGED <<outbox, sinceOut>>
      BY <1>4 DEF WaitSucceeded
    <2>2. stack' \in Seq(Waits) /\ OneCall' /\ NoNewCopies /\ CallStep(TRUE)
      BY <2>1, <1>0, <1>4, Popped DEF WaitFrame
    <2>3. outbox' \in Seq(Sent) /\ NotYet' /\ OnceKept /\ ResendKept
      BY <2>1, Untouched DEF WaitFrame
    <2>4. Scalars'
      BY <1>0, <2>1 DEF Scalars, WaitFrame, Age
    <2> QED  BY <2>2, <2>3, <2>4, Preserved DEF WaitFrame
  <1> QED  BY <1>2, <1>3, <1>4

-----------------------------------------------------------------------------
(* A message of the broker that is processed                                 *)

LEMMA AfterCallbackFacts ==
    ASSUME NEW msg, NEW rest \in Seq(Received), NEW left \in AfterCallback(msg, rest)
    PROVE  left \in Seq(Received)
  <1>1. \A i \in 1 .. Len(rest) + 1 : SubSeq(rest, i, Len(rest)) \in Seq(Received)
    BY SuffixFacts
  <1> QED  BY <1>1 DEF AfterCallback

\* What the client may send while it processes a message: no publication and
\* no release.
Quiet(msgs) == msgs \in Seq(Sent) /\ \A i \in DOMAIN msgs : msgs[i].type \in Plain \ {"PUBREL"}

LEMMA QuietAppend ==
    ASSUME NEW msgs, Quiet(msgs), NEW m \in Sent, m.type \in Plain \ {"PUBREL"}
    PROVE  Quiet(Append(msgs, m))
  <1>1. msgs \in Seq(Sent) /\ \A i \in DOMAIN msgs : msgs[i].type \in Plain \ {"PUBREL"}
    BY DEF Quiet
  <1>2. /\ Append(msgs, m) \in Seq(Sent) /\ DOMAIN Append(msgs, m) = 1 .. Len(msgs) + 1
        /\ DOMAIN msgs = 1 .. Len(msgs) /\ Len(msgs) \in Nat
        /\ \A i \in DOMAIN msgs : Append(msgs, m)[i] = msgs[i]
        /\ Append(msgs, m)[Len(msgs) + 1] = m
    BY <1>1
  <1>3. \A i \in DOMAIN Append(msgs, m) : i \in DOMAIN msgs \/ i = Len(msgs) + 1
    BY <1>2
  <1> QED  BY <1>1, <1>2, <1>3 DEF Quiet

LEMMA QuietTransmitted ==
    ASSUME IInv, NEW msgs, Quiet(msgs), Transmit(msgs), UNCHANGED <<tcp, calls, held, delivered>>
    PROVE  outbox' \in Seq(Sent) /\ NotYet' /\ OnceKept /\ ResendKept
  <1>1. msgs \in Seq(Sent) /\ \A i \in DOMAIN msgs : msgs[i].type \in Plain
    BY DEF Quiet
  <1>2. \A i \in DOMAIN msgs : msgs[i].type # "PUBREL"
    BY DEF Quiet
  <1> QED  BY <1>1, <1>2, Transmitted

LEMMA Processed ==
    ASSUME IInv, inbox # <<>>, NEW base, NEW before, Quiet(before),
           Process(Head(inbox), base, before),
           UNCHANGED <<calls, result, nextMsgId, tcp, subscribed, held, delivered, inbound, silent>>,
           pingOutstanding' \in BOOLEAN, isSubAckFound' \in BOOLEAN, looped' \in BOOLEAN,
           IF stack = <<>> THEN base = <<>> /\ call' = IF stack' = <<>> THEN "none" ELSE "loop"
           ELSE base = <<[Top EXCEPT !.phase = "after"]>> \o Rest /\ call' = call
    PROVE  IInv'
  <1> DEFINE msg == Head(inbox)
             rec == Msg("PUBREC", msg.id, 0)
             ack == Msg("PUBACK", msg.id, 0)
  <1>0. /\ Scalars /\ calls \in Nat /\ 0 \in Age /\ inbox \in Seq(Received) /\ stack \in Seq(Waits)
    BY TypeFacts
  <1>1. msg \in Received /\ Tail(inbox) \in Seq(Received) /\ msg.id \in Nat
    <2>1. msg \in Received /\ Tail(inbox) \in Seq(Received)
      BY <1>0, TailFacts
    <2> QED  BY <2>1 DEF Received
  <1>2. inbox' \in Seq(Received)
    BY <1>1, AfterCallbackFacts DEF Process
  <1>3. Scalars'
    BY <1>0 DEF Process, Scalars
  <1>4. /\ rec \in Sent /\ rec.type = "PUBREC" /\ ack \in Sent /\ ack.type = "PUBACK"
        /\ Wait(rec) \in Waits /\ Wait(rec).msg = rec
    BY <1>1, BoundsAssumption DEF Msg, Sent, Plain, Wait, Waits
  <1>5. Quiet(Append(before, rec)) /\ Quiet(Append(before, ack))
    BY <1>4, QuietAppend DEF Plain
  <1>6. \/ /\ msg.type = "PUBLISH2" /\ stack' = <<Wait(rec)>> \o base
           /\ Transmit(Append(before, rec))
        \/ stack' = base /\ Transmit(Append(before, ack))
        \/ stack' = base /\ Transmit(before)
    BY DEF Process
  <1>7. outbox' \in Seq(Sent) /\ NotYet' /\ OnceKept /\ ResendKept
    BY <1>5, <1>6, QuietTransmitted
  <1> HIDE DEF rec, ack, msg
  <1>8. CASE stack = <<>>
    <2>1. base = <<>> /\ base \in Seq(Waits) /\ call = "none"
      BY <1>8, <1>0, TypeFacts DEF OneCall
    <2>2. CASE stack' = base
      <3>1. UNCHANGED <<stack, call>>
        BY <2>1, <2>2, <1>8
      <3> QED  BY <3>1, <1>2, <1>3, <1>7, Settled, Preserved
    <2>3. CASE stack' = <<Wait(rec)>> \o base
      <3>1. stack' # <<>>
        BY <2>1, <2>3
      <3>2. call' = "loop"
        BY <1>8, <3>1
      <3>3. stack' \in Seq(Waits) /\ OneCall' /\ NoNewCopies /\ CallStep(TRUE)
        BY <2>1, <2>3, <3>2, <1>4, <1>8, Pushed
      <3> QED  BY <3>3, <1>2, <1>3, <1>7, Preserved
    <2> QED  BY <2>2, <2>3, <1>6
  <1>9. CASE stack # <<>>
    <2> DEFINE top == [Top EXCEPT !.phase = "after"]
    <2>1. /\ Top \in Waits /\ Rest \in Seq(Waits) /\ Top = stack[1] /\ Len(stack) \in Nat
          /\ Len(Rest) = Len(stack) - 1 /\ DOMAIN stack = 1 .. Len(stack)
          /\ \A i \in DOMAIN Rest : i + 1 \in DOMAIN stack /\ Rest[i] = stack[i + 1]
      BY <1>0, <1>9, StackFacts
    <2>2. top \in Waits /\ top.msg = Top.msg /\ base = <<top>> \o Rest /\ call' = call
      BY <2>1, <1>9 DEF Waits
    <2> HIDE DEF top
    <2>3. /\ base \in Seq(Waits) /\ Len(base) = Len(stack) /\ base[1] = top
          /\ \A i \in DOMAIN base : i # 1 => i - 1 \in DOMAIN Rest /\ base[i] = Rest[i - 1]
      BY <2>1, <2>2, PushFacts
    <2>4. \A i \in DOMAIN base : i \in DOMAIN stack /\ base[i].msg = stack[i].msg
      <3> TAKE i \in DOMAIN base
      <3>1. i \in DOMAIN stack
        BY <2>1, <2>3
      <3>2. i = 1 \/ base[i] = stack[i]
        BY <2>1, <2>3, <3>1
      <3> QED  BY <3>1, <3>2, <2>1, <2>2, <2>3
    <2>5. CASE stack' = base
      <3>1. stack' \in Seq(Waits) /\ OneCall' /\ NoNewCopies /\ CallStep(TRUE)
        BY <2>2, <2>5, <1>9, Replaced
      <3> QED  BY <3>1, <1>2, <1>3, <1>7, Preserved
    <2>6. CASE stack' = <<Wait(rec)>> \o base
      <3>1. stack' \in Seq(Waits) /\ OneCall' /\ NoNewCopies /\ CallStep(TRUE)
        BY <2>2, <2>3, <2>4, <2>6, <1>4, <1>9, Pushed
      <3> QED  BY <3>1, <1>2, <1>3, <1>7, Preserved
    <2> QED  BY <2>5, <2>6, <1>6
  <1> QED  BY <1>8, <1>9

-----------------------------------------------------------------------------
(* The calls of the application                                              *)

\* The typing of a state in which a call has begun.
LEMMA Begun ==
    ASSUME IInv, Scalars', UNCHANGED result, calls < MaxCalls, calls' = calls + 1,
           call' \in Ops \cup {"none", "loop"},
           stack' \in Seq(Waits), outbox' \in Seq(Sent), inbox' \in Seq(Received)
    PROVE  Types'
  <1>1. \A i \in DOMAIN stack' :
          stack'[i].tries \in 0 .. MaxRetries /\ stack'[i].phase \in {"first", "check", "read", "after"}
    <2>1. \A i \in DOMAIN stack' : stack'[i] \in Waits
      OBVIOUS
    <2> QED  BY <2>1 DEF Waits
  <1>2. /\ calls \in Nat /\ MaxCalls \in Nat
        /\ result \in [op : Ops \cup {"none"}, no : Nat, ok : BOOLEAN] /\ result.no <= calls
    BY TypeFacts DEF IInv, Types
  <1>3. calls' \in 0 .. MaxCalls /\ result.no <= calls'
    BY <1>2
  <1>4. result.op \in Ops \cup {"none"} /\ result.ok \in BOOLEAN
    BY <1>2
  <1>5. StateOK'
    BY <1>1, <1>3, <1>4 DEF Scalars, StateOK
  <1> QED  BY <1>2, <1>3, <1>5 DEF Types

\* A call has begun: what it sends is the first message of its number.
LEMMA ConnectKeeps ==
    ASSUME IInv, Connect
    PROVE  IInv'
  <1> DEFINE msg == Msg("CONNECT", 0, calls + 1)
  <1>0. /\ Scalars /\ calls \in Nat /\ MaxCalls \in Nat /\ 0 \in Age /\ NotYet /\ OneCall
        /\ IdMax \in Nat \ {0}
    BY TypeFacts, BoundsAssumption
  <1>1. /\ "connect" \in Ops /\ call = "none" /\ ~tcp /\ calls < MaxCalls
        /\ calls' = calls + 1 /\ tcp' = TRUE /\ inbox' = <<>> /\ call' = "connect"
        /\ stack' = <<Wait(msg)>> /\ outbox' = <<msg>>
        /\ pingOutstanding' = FALSE /\ nextMsgId' = 1 /\ sinceIn' = 0 /\ sinceOut' = 0
        /\ subscribed' = FALSE /\ held' = {}
        /\ UNCHANGED <<result, isSubAckFound, delivered, inbound, silent, looped>>
    BY DEF Connect
  <1>2. /\ msg \in Sent /\ msg.type = "CONNECT" /\ Wait(msg) \in Waits /\ Wait(msg).msg = msg
        /\ msg \notin Publications
    BY <1>0, BoundsAssumption DEF Msg, Sent, Plain, Publications, Wait, Waits
  <1> HIDE DEF msg
  <1>3. /\ outbox' \in Seq(Sent) /\ stack' \in Seq(Waits) /\ inbox' \in Seq(Received)
        /\ DOMAIN stack' = {1} /\ Len(stack') = 1 /\ stack'[1].msg = msg
        /\ DOMAIN outbox' = {1} /\ outbox'[1] = msg /\ stack' # <<>>
    BY <1>1, <1>2
  <1>4. Scalars'
    <2>1. nextMsgId' \in 1 .. IdMax /\ held' \subseteq 1 .. IdMax
      BY <1>0, <1>1
    <2>2. sinceIn' \in Age /\ sinceOut' \in Age
      BY <1>0, <1>1
    <2> QED  BY <2>1, <2>2, <1>0, <1>1 DEF Scalars
  <1>5. result.no < calls' /\ OneCall'
    BY <1>0, <1>1, <1>2, <1>3 DEF OneCall, IInv, Types
  <1>6. NotYet'
    BY <1>0, <1>1, <1>2, <1>3 DEF NotYet
  <1>7. OnceEach'
    <2> SUFFICES ASSUME result.op = "publish2"
                 PROVE  Once(result.no, outbox', held', delivered[result.no])
      BY <1>1 DEF OnceEach
    <2>1. delivered[result.no] <= 1
      BY DEF IInv, OnceEach, Once
    <2>2. \A i \in DOMAIN outbox' : outbox'[i].type = "CONNECT"
      BY <1>2, <1>3
    <2> QED  BY <2>1, <2>2 DEF Once, Copy
  <1>8. Resendable'
    BY <1>2, <1>3 DEF Resendable
  <1>9. Types'
    BY <1>0, <1>1, <1>3, <1>4, Begun DEF Types
  <1> QED  BY <1>5, <1>6, <1>7, <1>8, <1>9 DEF IInv

LEMMA RequestKeeps ==
    ASSUME IInv, NEW op \in Requests, Request(op)
    PROVE  IInv'
  <1> DEFINE msg == Msg(TypeOf(op), nextMsgId', calls + 1)
             n == calls + 1
  <1>0. /\ Scalars /\ calls \in Nat /\ MaxCalls \in Nat /\ 0 \in Age /\ NotYet /\ OneCall
        /\ IdMax \in Nat \ {0} /\ outbox \in Seq(Sent) /\ inbox \in Seq(Received)
    BY TypeFacts, BoundsAssumption
  <1>1. /\ op \in Ops /\ call = "none" /\ tcp /\ calls < MaxCalls
        /\ calls' = n /\ nextMsgId' = NextPacketId /\ call' = op
        /\ stack' = <<Wait(msg)>> /\ outbox' = outbox \o <<msg>> /\ sinceOut' = 0
        /\ UNCHANGED <<result, pingOutstanding, isSubAckFound, sinceIn, tcp, inbox, subscribed,
                       held, delivered, inbound, silent, looped>>
    BY DEF Request, Transmit, broker
  <1>2. nextMsgId' \in 1 .. IdMax
    BY <1>0, <1>1 DEF NextPacketId, Scalars
  <1>3. /\ TypeOf(op) \in {"SUBSCRIBE", "UNSUBSCRIBE", "PUBLISH1", "PUBLISH2"}
        /\ (TypeOf(op) = "PUBLISH1" <=> op = "publish1")
        /\ (TypeOf(op) = "PUBLISH2" <=> op = "publish2")
    BY DEF TypeOf, Requests
  <1>4. /\ msg.type = TypeOf(op) /\ msg.no = n /\ msg.id = nextMsgId' /\ n \in 1 .. MaxCalls
        /\ Wait(msg).msg = msg
    BY <1>0, <1>1 DEF Msg, Wait
  <1>5. msg \in Sent
    <2>1. CASE op \in {"publish1", "publish2"}
      BY <2>1, <1>2, <1>3, <1>4 DEF Msg, Sent, Publications
    <2>2. CASE op \notin {"publish1", "publish2"}
      BY <2>2, <1>0, <1>2, <1>3, <1>4 DEF Msg, Sent, Plain
    <2> QED  BY <2>1, <2>2
  <1>6. Wait(msg) \in Waits
    BY <1>5, BoundsAssumption DEF Wait, Waits
  <1> HIDE DEF msg
  <1>7. /\ stack' \in Seq(Waits) /\ DOMAIN stack' = {1} /\ Len(stack') = 1 /\ stack'[1].msg = msg
        /\ stack' # <<>>
    BY <1>1, <1>4, <1>6
  <1>8. /\ outbox' \in Seq(Sent) /\ DOMAIN outbox' = 1 .. Len(outbox) + 1 /\ Len(outbox) \in Nat
        /\ DOMAIN outbox = 1 .. Len(outbox)
        /\ \A i \in DOMAIN outbox : outbox'[i] = outbox[i]
        /\ outbox'[Len(outbox) + 1] = msg
    BY <1>0, <1>1, <1>5
  <1>9. Scalars'
    BY <1>0, <1>1, <1>2 DEF Scalars
  <1>10. OneCall'
    <2>1. result.no < calls' /\ call' # "none"
      BY <1>0, <1>1 DEF IInv, Types, Requests
    <2>2. \A i \in DOMAIN stack' :
            /\ i < Len(stack') => stack'[i].msg.type = "PUBREC"
            /\ stack'[i].msg.type = "PUBLISH1" => call' = "publish1" /\ stack'[i].msg.no = calls'
            /\ stack'[i].msg.type = "PUBLISH2" => call' = "publish2" /\ stack'[i].msg.no = calls'
      BY <1>1, <1>3, <1>4, <1>7
    <2> QED  BY <2>1, <2>2, <1>1, <1>7, <1>0 DEF OneCall
  <1>11. NotYet'
    <2>1. \A i \in DOMAIN outbox' : outbox'[i] \in Publications => outbox'[i].no <= calls'
      <3> SUFFICES ASSUME NEW i \in DOMAIN outbox', outbox'[i] \in Publications
                   PROVE  outbox'[i].no <= calls'
        OBVIOUS
      <3>1. CASE i \in DOMAIN outbox
        <4>1. outbox'[i].no <= calls /\ outbox'[i].no \in Nat
          BY <3>1, <1>8, <1>0 DEF NotYet, Publications
        <4> QED  BY <4>1, <1>0, <1>1
      <3>2. CASE i \notin DOMAIN outbox
        BY <3>2, <1>8, <1>4, <1>1
      <3> QED  BY <3>1, <3>2
    <2>2. \A k \in 1 .. MaxCalls : k > calls' => delivered[k] = 0
      BY <1>0, <1>1 DEF NotYet
    <2> QED  BY <2>1, <2>2, <1>1 DEF NotYet
  <1>12. delivered[n] = 0
    BY <1>0, <1>4 DEF NotYet
  <1>13. \A i \in DOMAIN outbox : ~Copy(outbox[i], n) /\ (outbox[i].type = "PUBLISH1" => outbox[i].no # n)
    <2> SUFFICES ASSUME NEW i \in DOMAIN outbox, outbox[i].type \in {"PUBLISH1", "PUBLISH2"}
                 PROVE  outbox[i].no # n
      BY DEF Copy
    <2>1. outbox[i] \in Sent
      BY <1>0
    <2>2. outbox[i] \in Publications
      BY <2>1 DEF Sent, Plain
    <2>3. outbox[i].no <= calls /\ outbox[i].no \in Nat
      BY <2>2, <1>0 DEF NotYet, Publications
    <2> QED  BY <2>3, <1>0
  <1>14. \A i \in DOMAIN outbox' : Copy(outbox'[i], n) => i = Len(outbox) + 1
    BY <1>8, <1>13
  <1>15. op = "publish2" => Once(n, outbox', held', delivered'[n])
    <2> SUFFICES ASSUME op = "publish2"
                 PROVE  Once(n, outbox', held, 0)
      BY <1>1, <1>12
    <2>1. msg.type = "PUBLISH2"
      BY <1>3, <1>4
    <2>2. \A i \in DOMAIN outbox' : outbox'[i].type = "PUBLISH1" => outbox'[i].no # n
      BY <2>1, <1>8, <1>13
    <2>3. \A i, j, k \in DOMAIN outbox' :
             ~(i < j /\ j < k /\ Copy(outbox'[i], n) /\ Copy(outbox'[k], n))
      BY <1>8, <1>14
    <2> QED  BY <2>2, <2>3, <1>14 DEF Once
  <1>16. result.op = "publish2" => Once(result.no, outbox', held', delivered'[result.no])
    <2> SUFFICES ASSUME result.op = "publish2"
                 PROVE  Once(result.no, outbox \o <<msg>>, held, delivered[result.no])
      BY <1>1
    <2>1. Once(result.no, outbox, held, delivered[result.no])
      BY DEF IInv, OnceEach
    <2>2. result.no # n /\ result.no \in Nat
      BY <1>0 DEF IInv, Types
    <2>3. \A i \in DOMAIN <<msg>> :
             ~Copy(<<msg>>[i], result.no) /\ (<<msg>>[i].type = "PUBLISH1" => <<msg>>[i].no # result.no)
      BY <2>2, <1>4 DEF Copy
    <2>4. <<msg>> \in Seq(Sent)
      BY <1>5, OneMessage
    <2> QED  BY <2>1, <2>3, <2>4, <1>0, OnceMore
  <1>17. OnceEach'
    BY <1>1, <1>15, <1>16 DEF OnceEach
  <1>18. Resendable'
    <2> SUFFICES ASSUME msg.type = "PUBLISH2"
                 PROVE  MayResend(msg, outbox', held, 0)
      BY <1>1, <1>7, <1>12 DEF Resendable
    <2> QED  BY <1>4, <1>8, <1>14 DEF MayResend
  <1>19. Types'
    BY <1>0, <1>1, <1>7, <1>8, <1>9, Begun DEF Types
  <1> QED  BY <1>10, <1>11, <1>17, <1>18, <1>19 DEF IInv

LEMMA DisconnectKeeps ==
    ASSUME IInv, Disconnect
    PROVE  IInv'
  <1>0. /\ Scalars /\ calls \in Nat /\ MaxCalls \in Nat /\ 0 \in Age /\ NotYet /\ OneCall
    BY TypeFacts
  <1>1. /\ call = "none" /\ tcp /\ calls < MaxCalls /\ calls' = calls + 1
        /\ tcp' = FALSE /\ outbox' = <<>> /\ inbox' = <<>> /\ subscribed' = FALSE /\ held' = {}
        /\ sinceIn' = 0 /\ sinceOut' = 0
        /\ UNCHANGED <<stack, call, result, nextMsgId, pingOutstanding, isSubAckFound, delivered,
                       inbound, silent, looped>>
    BY DEF Disconnect
  <1>2. stack = <<>> /\ stack' = <<>>
    BY <1>0, <1>1 DEF OneCall
  <1>3. Scalars' /\ outbox' \in Seq(Sent) /\ inbox' \in Seq(Received) /\ stack' \in Seq(Waits)
    <2>1. sinceIn' \in Age /\ sinceOut' \in Age /\ held' \subseteq 1 .. IdMax
      BY <1>0, <1>1
    <2>2. Scalars'
      BY <2>1, <1>0, <1>1 DEF Scalars
    <2> QED  BY <2>2, <1>1, <1>2
  <1>4. OneCall' /\ NotYet' /\ Resendable'
    BY <1>0, <1>1, <1>2 DEF OneCall, NotYet, Resendable
  <1>5. OnceEach'
    <2>1. result.op = "publish2" => delivered[result.no] <= 1
      BY DEF IInv, OnceEach, Once
    <2> QED  BY <2>1, <1>1 DEF OnceEach, Once
  <1>6. Types'
    BY <1>0, <1>1, <1>3, Begun DEF Types
  <1> QED  BY <1>4, <1>5, <1>6 DEF IInv

-----------------------------------------------------------------------------
(* loop(), the waits and the environment                                     *)

\* A step that leaves the calls alone.
LEMMA Silently ==
    ASSUME IInv, Scalars', UNCHANGED <<stack, call, calls, result>>, tcp' => tcp,
           outbox' \in Seq(Sent), inbox' \in Seq(Received), NotYet', OnceKept, ResendKept
    PROVE  IInv'
  BY Settled, Preserved

LEMMA PublishQos0Keeps ==
    ASSUME IInv, PublishQos0
    PROVE  IInv'
  <1> DEFINE msg == Msg("PUBLISH0", 0, 0)
  <1>0. Scalars /\ 0 \in Age /\ inbox \in Seq(Received)
    BY TypeFacts
  <1>1. /\ Transmit(<<msg>>) /\ sinceOut' = 0
        /\ UNCHANGED <<stack, call, calls, result, nextMsgId, pingOutstanding, isSubAckFound, sinceIn,
                       tcp, inbox, subscribed, held, delivered, inbound, silent, looped>>
    BY DEF PublishQos0, client, broker
  <1>2. msg \in Sent /\ msg.type = "PUBLISH0"
    BY DEF Msg, Sent, Plain
  <1> HIDE DEF msg
  <1>3. outbox' \in Seq(Sent) /\ NotYet' /\ OnceKept /\ ResendKept
    BY <1>1, <1>2, TransmittedOne DEF Plain
  <1>4. Scalars'
    BY <1>0, <1>1 DEF Scalars
  <1> QED  BY <1>0, <1>1, <1>3, <1>4, Silently

\* The connection is closed between two calls.
LEMMA Closed ==
    ASSUME IInv, tcp' = FALSE, outbox' = <<>>, inbox' = <<>>, subscribed' = FALSE, held' = {},
           looped' \in BOOLEAN,
           UNCHANGED <<stack, call, calls, result, nextMsgId, pingOutstanding, sinceIn, sinceOut,
                       isSubAckFound, delivered, inbound, silent>>
    PROVE  IInv'
  <1>1. outbox' \in Seq(Sent) /\ NotYet' /\ OnceKept /\ ResendKept
    BY Cleared
  <1>2. held' \subseteq 1 .. IdMax /\ inbox' \in Seq(Received)
    OBVIOUS
  <1>3. Scalars'
    BY <1>2, TypeFacts DEF Scalars
  <1> QED  BY <1>1, <1>2, <1>3, Silently

LEMMA LoopRunKeeps ==
    ASSUME IInv, LoopRun
    PROVE  IInv'
  <1> DEFINE pings == IF PingDue THEN <<Msg("PINGREQ", 0, 0)>> ELSE <<>>
             pinged == pingOutstanding \/ PingDue
  <1>0. /\ Scalars /\ 0 \in Age /\ inbox \in Seq(Received) /\ stack = <<>> /\ call = "none"
    BY TypeFacts DEF OneCall, LoopRun
  <1>1. Quiet(pings)
    <2>1. Msg("PINGREQ", 0, 0) \in Sent /\ Msg("PINGREQ", 0, 0).type = "PINGREQ"
      BY DEF Msg, Sent, Plain
    <2>2. <<Msg("PINGREQ", 0, 0)>> \in Seq(Sent) /\ DOMAIN <<Msg("PINGREQ", 0, 0)>> = {1}
      BY <2>1, OneMessage
    <2>3. Quiet(<<Msg("PINGREQ", 0, 0)>>)
      BY <2>1, <2>2 DEF Quiet, Plain
    <2>4. Quiet(<<>>)
      BY DEF Quiet
    <2> QED  BY <2>3, <2>4
  <1>2. pinged \in BOOLEAN /\ StillOutstanding(pinged, Head(inbox)) \in BOOLEAN
    BY <1>0 DEF Scalars, StillOutstanding, PingDue
  <1>3. /\ call' = (IF stack' = <<>> THEN "none" ELSE "loop") /\ looped' = TRUE
        /\ UNCHANGED <<calls, result, nextMsgId, isSubAckFound, tcp, subscribed, held, delivered,
                       inbound, silent>>
        /\ IF inbox = <<>>
           THEN /\ Transmit(pings)
                /\ sinceIn' = (IF PingDue THEN 0 ELSE sinceIn)
                /\ sinceOut' = (IF PingDue THEN 0 ELSE sinceOut)
                /\ pingOutstanding' = pinged
                /\ UNCHANGED <<inbox, stack>>
           ELSE /\ Process(Head(inbox), <<>>, pings)
                /\ pingOutstanding' = StillOutstanding(pinged, Head(inbox))
    BY DEF LoopRun, broker
  <1> HIDE DEF pings, pinged
  <1>4. CASE inbox = <<>>
    <2>1. outbox' \in Seq(Sent) /\ NotYet' /\ OnceKept /\ ResendKept
      BY <1>1, <1>3, <1>4, QuietTransmitted
    <2>2. Scalars' /\ UNCHANGED <<stack, call>>
      BY <1>0, <1>2, <1>3, <1>4 DEF Scalars
    <2> QED  BY <2>1, <2>2, <1>0, <1>3, <1>4, Silently
  <1>5. CASE inbox # <<>>
    <2>1. Process(Head(inbox), <<>>, pings) /\ pingOutstanding' \in BOOLEAN
          /\ isSubAckFound' \in BOOLEAN /\ looped' \in BOOLEAN
      BY <1>0, <1>2, <1>3, <1>5 DEF Scalars
    <2> QED  BY <2>1, <1>0, <1>1, <1>3, <1>5, Processed
  <1> QED  BY <1>4, <1>5

LEMMA ReadOtherKeeps ==
    ASSUME IInv, ReadOther
    PROVE  IInv'
  <1> DEFINE base == <<[Top EXCEPT !.phase = "after"]>> \o Rest
  <1>0. Scalars /\ stack # <<>> /\ inbox # <<>>
    BY TypeFacts DEF ReadOther, Waiting
  <1>1. Quiet(<<>>)
    BY DEF Quiet
  <1>2. /\ Process(Head(inbox), base, <<>>)
        /\ UNCHANGED <<call, calls, result, nextMsgId, tcp, subscribed, held, delivered, inbound,
                       silent, looped>>
        /\ isSubAckFound' = (isSubAckFound \/ Head(inbox).type = "SUBACK")
        /\ pingOutstanding' = StillOutstanding(pingOutstanding, Head(inbox))
    BY DEF ReadOther, broker
  <1>3. isSubAckFound' \in BOOLEAN /\ pingOutstanding' \in BOOLEAN /\ looped' \in BOOLEAN
    BY <1>0, <1>2 DEF Scalars, StillOutstanding
  <1>4. base = <<[Top EXCEPT !.phase = "after"]>> \o Rest
    OBVIOUS
  <1> HIDE DEF base
  <1> QED  BY <1>0, <1>1, <1>2, <1>3, <1>4, Processed

\* A wait goes on in another phase.
LEMMA PhaseKeeps ==
    ASSUME IInv, stack # <<>>, NEW phase \in {"first", "check", "read", "after"}, SetPhase(phase),
           isSubAckFound' \in BOOLEAN,
           UNCHANGED <<call, calls, result, nextMsgId, pingOutstanding, sinceIn, sinceOut, tcp, outbox,
                       inbox, subscribed, held, delivered, inbound, silent, looped>>
    PROVE  IInv'
  <1> DEFINE w == [Top EXCEPT !.phase = phase]
  <1>1. w \in Waits /\ w.msg = Top.msg /\ stack' = <<w>> \o Rest
    <2>1. Top \in Waits
      BY StackFacts
    <2> QED  BY <2>1 DEF Waits, SetPhase
  <1> HIDE DEF w
  <1>2. stack' \in Seq(Waits) /\ OneCall' /\ NoNewCopies /\ CallStep(TRUE)
    BY <1>1, Replaced
  <1>3. outbox' \in Seq(Sent) /\ NotYet' /\ OnceKept /\ ResendKept
    BY Untouched
  <1>4. Scalars' /\ inbox' \in Seq(Received)
    BY TypeFacts DEF Scalars
  <1> QED  BY <1>2, <1>3, <1>4, Preserved

LEMMA WaitStepKeeps ==
    ASSUME IInv, WaitStep
    PROVE  IInv'
  <1>0. Scalars /\ 0 \in Age /\ inbox \in Seq(Received)
    BY TypeFacts
  <1>1. CASE WaitInput
    BY <1>0, <1>1, PhaseKeeps DEF WaitInput, Waiting, alive, network, broker, Scalars
  <1>2. CASE WaitCheck
    BY <1>0, <1>2, PhaseKeeps DEF WaitCheck, Waiting, alive, network, broker, Scalars
  <1>3. CASE WaitExpired
    <2>1. stack # <<>> /\ WaitFailed(inbox) /\ WaitFrame
      BY <1>0, <1>3 DEF WaitExpired, Waiting, WaitFrame, Scalars
    <2> QED  BY <2>1, <1>0, FailedWait
  <1>4. CASE WaitTooLate
    <2>1. stack # <<>> /\ WaitFailed(inbox) /\ WaitFrame
      BY <1>0, <1>4 DEF WaitTooLate, Waiting, WaitFrame, Scalars
    <2> QED  BY <2>1, <1>0, FailedWait
  <1>5. CASE ReadReply
    <2>1. stack # <<>> /\ inbox # <<>> /\ WaitFrame
      BY <1>0, <1>5 DEF ReadReply, Waiting, WaitFrame, Scalars
    <2>2. Tail(inbox) \in Seq(Received)
      BY <2>1, <1>0, TailFacts
    <2>3. CASE Matches
      <3>1. WaitSucceeded /\ inbox' = Tail(inbox) /\ UNCHANGED <<tcp, subscribed, held>>
        BY <1>5, <2>3 DEF ReadReply
      <3> QED  BY <3>1, <2>1, <2>2, SuccessfulWait
    <2>4. CASE ~Matches
      <3>1. WaitFailed(Tail(inbox))
        BY <1>5, <2>4 DEF ReadReply
      <3> QED  BY <3>1, <2>1, <2>2, FailedWait
    <2> QED  BY <2>3, <2>4
  <1>6. CASE ReadOther
    BY <1>6, ReadOtherKeeps
  <1>7. CASE AfterOther
    <2>1. stack # <<>>
      BY <1>7 DEF AfterOther, Waiting
    <2>2. CASE Top.msg.type = "SUBSCRIBE" /\ isSubAckFound
      <3>1. WaitFailed(inbox) /\ WaitFrame
        BY <1>0, <1>7, <2>2 DEF AfterOther, WaitFrame, Scalars
      <3> QED  BY <3>1, <2>1, <1>0, FailedWait
    <2>3. CASE ~(Top.msg.type = "SUBSCRIBE" /\ isSubAckFound)
      BY <1>0, <1>7, <2>1, <2>3, PhaseKeeps DEF AfterOther, network, Scalars
    <2> QED  BY <2>2, <2>3
  <1> QED  BY <1>1, <1>2, <1>3, <1>4, <1>5, <1>6, <1>7 DEF WaitStep

LEMMA ReplyTyped ==
    ASSUME NEW msg, msg.id \in Nat
    PROVE  BrokerReply(msg) \in Seq(Received)
  <1>1. /\ Msg("CONNACK", 0, 0) \in Received /\ Msg("PINGRESP", 0, 0) \in Received
        /\ Msg("SUBACK", msg.id, 0) \in Received /\ Msg("UNSUBACK", msg.id, 0) \in Received
        /\ Msg("PUBACK", msg.id, 0) \in Received /\ Msg("PUBREC", msg.id, 0) \in Received
        /\ Msg("PUBCOMP", msg.id, 0) \in Received /\ Msg("PUBREL", msg.id, 0) \in Received
    BY DEF Msg, Received
  <1>2. \A m \in Received : <<m>> \in Seq(Received)
    OBVIOUS
  <1>3. <<>> \in Seq(Received)
    OBVIOUS
  <1>4. BrokerReply(msg) = <<>> \/ \E m \in Received : BrokerReply(msg) = <<m>>
    BY <1>1 DEF BrokerReply
  <1> QED  BY <1>2, <1>3, <1>4

LEMMA BrokerReceiveKeeps ==
    ASSUME IInv, BrokerReceive
    PROVE  IInv'
  <1> DEFINE msg == Head(outbox)
  <1>0. /\ Scalars /\ outbox \in Seq(Sent) /\ inbox \in Seq(Received) /\ NotYet /\ OneCall
        /\ stack \in Seq(Waits) /\ MaxCalls \in Nat /\ calls \in Nat /\ IdMax \in Nat
    BY TypeFacts, BoundsAssumption
  <1>1. /\ outbox # <<>> /\ outbox' = Tail(outbox)
        /\ inbox' = inbox \o BrokerReply(msg)
        /\ subscribed' = CASE msg.type = "SUBSCRIBE" -> TRUE
                           [] msg.type = "UNSUBSCRIBE" -> FALSE
                           [] OTHER -> subscribed
        /\ held' = Held(msg, held)
        /\ delivered' = IF Accepts(msg) THEN [delivered EXCEPT ![msg.no] = @ + 1] ELSE delivered
        /\ UNCHANGED <<stack, call, calls, result, nextMsgId, pingOutstanding, sinceIn, sinceOut,
                       isSubAckFound, tcp, inbound, silent, looped>>
    BY DEF BrokerReceive, Held, client, alive
  <1>2. msg \in Sent /\ msg = outbox[1] /\ 1 \in DOMAIN outbox /\ outbox' \in Seq(Sent)
        /\ \A i \in DOMAIN outbox' : i + 1 \in DOMAIN outbox /\ outbox'[i] = outbox[i + 1]
    BY <1>0, <1>1, TailFacts
  <1>3. msg.id \in Nat /\ (msg.type = "PUBLISH2" => msg.id \in 1 .. IdMax)
        /\ (msg.type \in {"PUBLISH1", "PUBLISH2"} => msg \in Publications /\ msg.no \in 1 .. MaxCalls)
    BY <1>0, <1>2 DEF Sent, Publications, Plain
  <1> HIDE DEF msg
  <1>4. inbox' \in Seq(Received)
    <2>1. BrokerReply(msg) \in Seq(Received)
      BY <1>3, ReplyTyped
    <2> QED  BY <2>1, <1>0, <1>1, ConcatFacts
  <1>5. held' \subseteq 1 .. IdMax
    BY <1>0, <1>1, <1>3 DEF Held, Scalars
  <1>6. Accepts(msg) => msg.no \in 1 .. MaxCalls /\ msg.no <= calls
    BY <1>0, <1>2, <1>3 DEF Accepts, NotYet
  <1>7. delivered' \in [1 .. MaxCalls -> Nat]
    BY <1>0, <1>1, <1>6 DEF Scalars
  <1>8. \A n \in 1 .. MaxCalls : delivered'[n] = Counted(msg, n, held, delivered[n])
    BY <1>0, <1>1, <1>6 DEF Scalars, Counted, Accepts
  <1>9. Scalars'
    BY <1>0, <1>1, <1>5, <1>7 DEF Scalars
  <1>10. NotYet'
    <2>1. \A n \in 1 .. MaxCalls : n > calls => delivered'[n] = 0
      BY <1>0, <1>1, <1>6 DEF NotYet, Scalars
    <2>2. \A i \in DOMAIN outbox' : outbox'[i] \in Publications => outbox'[i].no <= calls
      BY <1>0, <1>2 DEF NotYet
    <2>3. tcp
      BY <1>0, <1>1 DEF NotYet
    <2> QED  BY <2>1, <2>2, <2>3, <1>1 DEF NotYet
  <1>11. \A n \in 1 .. MaxCalls : delivered[n] \in Nat
    BY <1>0 DEF Scalars
  <1>12. OnceKept
    <2> SUFFICES ASSUME NEW n \in 1 .. MaxCalls, Once(n, outbox, held, delivered[n])
                 PROVE  Once(n, Tail(outbox), Held(msg, held), Counted(msg, n, held, delivered[n]))
      BY <1>1, <1>8 DEF OnceKept
    <2> QED  BY <1>0, <1>1, <1>11, OnceTaken DEF msg
  <1>13. ResendKept
    <2> SUFFICES ASSUME NEW i \in DOMAIN stack, stack[i].msg.type = "PUBLISH2",
                        MayResend(stack[i].msg, outbox, held, delivered[calls])
                 PROVE  MayResend(stack[i].msg, Tail(outbox), Held(msg, held), delivered'[calls])
      BY <1>1 DEF ResendKept
    <2>1. stack[i].msg \in Sent
      <3>1. stack[i] \in Waits
        BY <1>0
      <3> QED  BY <3>1 DEF Waits
    <2>2. stack[i].msg.no = calls /\ call = "publish2"
      BY <1>0 DEF OneCall
    <2>3. calls \in 1 .. MaxCalls
      <3>1. stack[i].msg \in Publications
        BY <2>1 DEF Sent, Plain
      <3> QED  BY <3>1, <2>2 DEF Publications
    <2>4. Once(calls, outbox, held, delivered[calls])
      BY <2>2 DEF IInv, OnceEach
    <2>5. MayResend(stack[i].msg, Tail(outbox), Held(msg, held), Counted(msg, calls, held, delivered[calls]))
      <3>1. Copy(stack[i].msg, stack[i].msg.no) /\ delivered[calls] \in Nat
        BY <2>3, <1>11 DEF Copy
      <3> QED  BY <3>1, <2>1, <2>2, <2>4, <1>0, <1>1, MayResendTaken DEF msg
    <2> QED  BY <2>3, <2>5, <1>8
  <1> QED  BY <1>1, <1>2, <1>4, <1>9, <1>10, <1>12, <1>13, Silently

LEMMA VanishKeeps ==
    ASSUME IInv, Vanish
    PROVE  IInv'
  <1>1. /\ outbox' = <<>>
        /\ UNCHANGED <<stack, call, calls, result, nextMsgId, pingOutstanding, sinceIn, sinceOut,
                       isSubAckFound, tcp, inbox, subscribed, held, delivered, inbound, silent, looped>>
    BY DEF Vanish, client, alive, broker
  <1>2. outbox' \in Seq(Sent) /\ NotYet' /\ OnceKept /\ ResendKept
    BY <1>1, Cleared
  <1>3. Scalars' /\ inbox' \in Seq(Received)
    BY <1>1, TypeFacts DEF Scalars
  <1> QED  BY <1>1, <1>2, <1>3, Silently

LEMMA BrokerPublishKeeps ==
    ASSUME IInv, NEW qos \in Inbound, BrokerPublish(qos)
    PROVE  IInv'
  <1> DEFINE msg == CASE qos = 0 -> Msg("PUBLISH0", 0, 0)
                      [] qos = 1 -> Msg("PUBLISH1", inbound', 0)
                      [] qos = 2 -> Msg("PUBLISH2", inbound', 0)
  <1>0. Scalars /\ inbox \in Seq(Received) /\ MaxInbound \in Nat /\ qos \in 0 .. 2
    BY TypeFacts, BoundsAssumption
  <1>1. /\ inbound < MaxInbound /\ inbound' = inbound + 1 /\ inbox' = Append(inbox, msg)
        /\ UNCHANGED <<stack, call, calls, result, nextMsgId, pingOutstanding, sinceIn, sinceOut,
                       isSubAckFound, tcp, outbox, subscribed, held, delivered, silent, looped>>
    BY DEF BrokerPublish, client, alive
  <1>2. inbound' \in 0 .. MaxInbound /\ inbound' \in Nat
    BY <1>0, <1>1 DEF Scalars
  <1>3. msg \in Received
    <2>1. /\ Msg("PUBLISH0", 0, 0) \in Received /\ Msg("PUBLISH1", inbound', 0) \in Received
          /\ Msg("PUBLISH2", inbound', 0) \in Received
      BY <1>2 DEF Msg, Received
    <2>2. qos = 0 \/ qos = 1 \/ qos = 2
      BY <1>0
    <2> QED  BY <2>1, <2>2
  <1> HIDE DEF msg
  <1>4. inbox' \in Seq(Received)
    BY <1>0, <1>1, <1>3
  <1>5. Scalars'
    BY <1>0, <1>1, <1>2 DEF Scalars
  <1>6. outbox' \in Seq(Sent) /\ NotYet' /\ OnceKept /\ ResendKept
    BY <1>1, Untouched
  <1> QED  BY <1>1, <1>4, <1>5, <1>6, Silently

LEMMA OthersKeep ==
    ASSUME IInv, BrokerFallsSilent \/ Tick \/ LoopOffline
    PROVE  IInv'
  <1>0. Scalars /\ KeepAlive \in Nat
    BY TypeFacts, BoundsAssumption
  <1>1. /\ UNCHANGED <<stack, call, calls, result, nextMsgId, pingOutstanding, isSubAckFound,
                       tcp, outbox, inbox, subscribed, held, delivered, inbound>>
        /\ silent' \in BOOLEAN /\ looped' \in BOOLEAN
        /\ sinceIn' \in {sinceIn, Older(sinceIn)} /\ sinceOut' \in {sinceOut, Older(sinceOut)}
    BY <1>0 DEF BrokerFallsSilent, Tick, LoopOffline, client, alive, network, broker, Scalars
  <1>2. Older(sinceIn) \in Age /\ Older(sinceOut) \in Age
    BY <1>0 DEF Older, Age, Scalars
  <1>3. Scalars' /\ inbox' \in Seq(Received)
    BY <1>0, <1>1, <1>2, TypeFacts DEF Scalars
  <1>4. outbox' \in Seq(Sent) /\ NotYet' /\ OnceKept /\ ResendKept
    BY <1>1, Untouched
  <1> QED  BY <1>1, <1>3, <1>4, Silently

-----------------------------------------------------------------------------
(* The theorems                                                              *)

\* A client that has just been constructed, connected to nobody and with no
\* message under way, satisfies the inductive invariant.
THEOREM InitHolds == Init => IInv
  <1> SUFFICES ASSUME Init PROVE IInv
    OBVIOUS
  <1>1. /\ stack = <<>> /\ call = "none" /\ calls = 0 /\ result = NoCall /\ nextMsgId = 1
        /\ pingOutstanding = FALSE /\ isSubAckFound = FALSE /\ sinceIn = 0 /\ sinceOut = 0
        /\ tcp = FALSE /\ outbox = <<>> /\ inbox = <<>> /\ subscribed = FALSE /\ held = {}
        /\ inbound = 0 /\ silent = FALSE /\ delivered = [n \in 1 .. MaxCalls |-> 0] /\ looped = FALSE
    BY DEF Init
  <1>2. /\ MaxCalls \in Nat /\ MaxInbound \in Nat /\ 0 \in Age /\ 1 \in 1 .. IdMax
    BY BoundsAssumption DEF Age
  <1>3. result \in [op : Ops \cup {"none"}, no : Nat, ok : BOOLEAN] /\ result.no = 0
        /\ result.op = "none" /\ result.ok = TRUE
    BY <1>1 DEF NoCall
  <1>4. \A i \in DOMAIN stack : FALSE
    BY <1>1
  <1>5. delivered \in [1 .. MaxCalls -> Nat] /\ held \subseteq 1 .. IdMax
    BY <1>1
  <1>6. StateOK
    <2>1. /\ calls \in 0 .. MaxCalls /\ inbound \in 0 .. MaxInbound /\ nextMsgId \in 1 .. IdMax
          /\ sinceIn \in Age /\ sinceOut \in Age
      BY <1>1, <1>2
    <2>2. call \in Ops \cup {"none", "loop"} /\ result.op \in Ops \cup {"none"} /\ result.ok \in BOOLEAN
      BY <1>1, <1>3
    <2> QED  BY <1>1, <1>4, <1>5, <2>1, <2>2 DEF StateOK
  <1>7. Types
    BY <1>1, <1>2, <1>3, <1>6 DEF Types
  <1>8. OneCall /\ NotYet /\ OnceEach /\ Resendable
    BY <1>1, <1>3, <1>4 DEF OneCall, NotYet, OnceEach, Resendable
  <1> QED  BY <1>7, <1>8 DEF IInv

\* Each call, each return of a wait, each reading of a message, each step of the
\* broker, of the network and of the clock keeps the inductive invariant.
THEOREM StepKeeps == IInv /\ [Next]_vars => IInv'
  <1> SUFFICES ASSUME IInv, [Next]_vars PROVE IInv'
    OBVIOUS
  <1>1. CASE Application
    BY <1>1, ConnectKeeps, RequestKeeps, PublishQos0Keeps, DisconnectKeeps DEF Application
  <1>2. CASE LoopStop
    BY <1>2, Closed DEF LoopStop, client, alive
  <1>3. CASE LoopRun
    BY <1>3, LoopRunKeeps
  <1>4. CASE WaitStep
    BY <1>4, WaitStepKeeps
  <1>5. CASE Broker
    BY <1>5, BrokerReceiveKeeps, VanishKeeps DEF Broker
  <1>6. ASSUME NEW qos \in Inbound, BrokerPublish(qos)  PROVE IInv'
    BY <1>6, BrokerPublishKeeps
  <1>7. CASE BrokerFallsSilent \/ Tick \/ LoopOffline
    BY <1>7, OthersKeep
  <1>8. CASE ConnectionLost
    <2>1. looped' \in BOOLEAN
      BY <1>8, TypeFacts DEF ConnectionLost, Scalars
    <2> QED  BY <2>1, <1>8, Closed DEF ConnectionLost, client, alive
  <1>9. CASE UNCHANGED vars
    <2>1. UNCHANGED <<stack, call, calls, result, nextMsgId, pingOutstanding, isSubAckFound, sinceIn,
                      sinceOut, tcp, outbox, inbox, subscribed, held, delivered, inbound, silent, looped>>
      BY <1>9 DEF vars
    <2>2. outbox' \in Seq(Sent) /\ NotYet' /\ OnceKept /\ ResendKept
      BY <2>1, Untouched
    <2>3. Scalars' /\ inbox' \in Seq(Received)
      BY <2>1, TypeFacts DEF Scalars
    <2> QED  BY <2>1, <2>2, <2>3, Silently
  <1> QED  BY <1>1, <1>2, <1>3, <1>4, <1>5, <1>6, <1>7, <1>8, <1>9 DEF Next, Loop

\* Wherever the client is in its nested waits, copies and releases in its outbox
\* are in the order the inductive invariant describes.
THEOREM Inductive == Spec => []IInv
  BY InitHolds, StepKeeps, PTL DEF Spec

\* What is remembered of the last ping is typed, whatever the step.
LEMMA PastKeeps == PastOK /\ [Next]_vars => PastOK'
  <1> SUFFICES ASSUME PastOK, [Next]_vars PROVE PastOK'
    OBVIOUS
  <1>0. 0 \in Age /\ (\A age \in Age : Older(age) \in Age)
    BY BoundsAssumption DEF Age, Older
  <1>1. CASE Application
    BY <1>0, <1>1 DEF Application, Connect, Request, PublishQos0, Disconnect, past, PastOK
  <1>2. CASE Loop
    <2>1. waited' \in {0, waited}
      BY <1>2 DEF Loop, LoopStop, LoopRun, LoopOffline, past
    <2>2. dropped' \in BOOLEAN
      <3>1. CASE LoopRun
        BY <3>1 DEF LoopRun, Process, PastOK
      <3> QED  BY <3>1, <1>2 DEF Loop, LoopStop, LoopOffline, past, PastOK
    <2> QED  BY <1>0, <2>1, <2>2 DEF PastOK
  <1>3. CASE WaitStep
    <2>1. waited' = waited
      BY <1>3 DEF WaitStep, WaitInput, WaitExpired, WaitCheck, WaitTooLate, ReadReply, ReadOther,
                  AfterOther, past
    <2>2. dropped' \in BOOLEAN
      <3>1. CASE ReadOther
        BY <3>1 DEF ReadOther, Process, PastOK
      <3> QED  BY <3>1, <1>3 DEF WaitStep, WaitInput, WaitExpired, WaitCheck, WaitTooLate, ReadReply,
                                 AfterOther, past, PastOK
    <2> QED  BY <2>1, <2>2 DEF PastOK
  <1>4. CASE Tick
    BY <1>0, <1>4 DEF Tick, PastOK
  <1>5. CASE ~Tick /\ ~Application /\ ~Loop /\ ~WaitStep
    <2>1. UNCHANGED past
      BY <1>5 DEF Next, Broker, BrokerReceive, Vanish, BrokerPublish, BrokerFallsSilent, ConnectionLost,
                  vars, past
    <2> QED  BY <2>1 DEF past, PastOK
  <1> QED  BY <1>1, <1>2, <1>3, <1>4, <1>5

LEMMA PastCorrect == Spec => []PastOK
  <1>1. Init => PastOK
    <2>1. 0 \in Age
      BY BoundsAssumption DEF Age
    <2> QED  BY <2>1 DEF Init, PastOK
  <1> QED  BY <1>1, PastKeeps, PTL DEF Spec

\* Every variable keeps its type: the waits nested on the stack, the messages
\* under way in both directions, the ages of the keep-alive and the identifiers
\* the broker holds.
THEOREM TypeCorrect == Spec => []TypeOK
  <1>1. IInv /\ PastOK => TypeOK
    BY DEF IInv, Types, TypeOK
  <1> QED  BY <1>1, Inductive, PastCorrect, PTL

\* A publication of QoS 2 the application was answered for, with true or with
\* false, was accepted by the broker at most once: however many calls are made,
\* however often publish() retransmits it, whatever other messages a nested wait
\* has processed in between, and although the identifiers come round again.
THEOREM AtMostOnce == Spec => []NeverTwice
  <1>1. IInv => NeverTwice
    BY DEF IInv, OnceEach, Once, NeverTwice
  <1> QED  BY <1>1, Inductive, PTL

-----------------------------------------------------------------------------
(* A call that returned true has had its effect                              *)
(*                                                                           *)
(* The client knows that its call took effect from a reply that bears the    *)
(* call's identifier.  The reply is evidence as long as no other message of  *)
(* this connection has borne the identifier: Fresh says which identifiers    *)
(* have been used, and Evidence what follows from a reply that is under way. *)

\* The messages of this side that are numbered, and the replies to them.
Numbered == {"SUBSCRIBE", "UNSUBSCRIBE", "PUBLISH1", "PUBLISH2", "PUBREL"}
Replies  == {"SUBACK", "UNSUBACK", "PUBACK", "PUBREC", "PUBCOMP"}

\* A message of the call in progress.
Own(m) ==
    /\ call \in Requests /\ m.id = nextMsgId
    /\ \/ m.type = TypeOf(call) /\ m.no = calls
       \/ m.type = "PUBREL" /\ call = "publish2"

\* The wait at the bottom of the stack is the one of the call in progress.
CallsMatch ==
    \A i \in DOMAIN stack :
       \/ stack[i].msg.type = "PUBREC" /\ (i = Len(stack) => call = "loop")
       \/ stack[i].msg.type = "CONNECT" /\ stack[i].msg.id = 0 /\ call = "connect"
       \/ stack[i].msg.type \in Numbered /\ Own(stack[i].msg)

\* Until they come round again, the identifiers under way are older than the
\* next one.
Fresh ==
    /\ tcp => nextMsgId <= calls
    /\ calls <= IdMax =>
          /\ call \in Requests => nextMsgId >= 2
          /\ \A i \in DOMAIN outbox : outbox[i].type \in Numbered => outbox[i].id \in 2 .. nextMsgId
          /\ \A i \in DOMAIN inbox : inbox[i].type \in Replies => inbox[i].id \in 2 .. nextMsgId
          /\ held \subseteq 2 .. nextMsgId

\* The subscription is what the call wanted, and nothing under way changes it.
Other(op) == IF op = "subscribe" THEN "UNSUBSCRIBE" ELSE "SUBSCRIBE"
Stands(op) ==
    /\ subscribed = (op = "subscribe")
    /\ \A i \in DOMAIN outbox : outbox[i].type # Other(op)

\* The reply to the call in progress is under way.
Answered == \E i \in DOMAIN inbox :
    inbox[i].type = ResponseType(TypeOf(call)) /\ inbox[i].id = nextMsgId

Copies == {i \in DOMAIN outbox : outbox[i].type = TypeOf(call) /\ outbox[i].id = nextMsgId}

PublishEvidence ==
    /\ \A i \in Copies : outbox[i].no = calls
    /\ \/ Answered
       \/ call = "publish2" /\ nextMsgId \in held
       \/ \E i \in DOMAIN stack : stack[i].msg.type = "PUBREL"
       => delivered[calls] >= 1
SubscribeEvidence ==
    /\ \A i \in Copies, j \in DOMAIN outbox : i < j => outbox[j].type # Other(call)
    /\ Answered => Stands(call)

Evidence == calls <= IdMax + 1 =>
    /\ call \in {"publish1", "publish2"} => PublishEvidence
    /\ call \in {"subscribe", "unsubscribe"} /\ tcp => SubscribeEvidence

Results == result.ok /\ calls <= IdMax + 1 =>
    /\ result.op \in {"publish1", "publish2"} =>
          result.no \in 1 .. MaxCalls /\ delivered[result.no] >= 1
    /\ result.op \in {"subscribe", "unsubscribe"} /\ call \in {"none", "loop"} /\ tcp =>
          Stands(result.op)

TInv == CallsMatch /\ Fresh /\ Evidence /\ Results

\* What the client sends in a step that begins no call, and what it has left to
\* read after it.
Sends ==
    \/ outbox' = <<>>
    \/ \E msgs \in Seq(Sent) :
          /\ outbox' = outbox \o msgs
          /\ \A i \in DOMAIN msgs : msgs[i].type \in Numbered => Own(msgs[i])
Reads == \A i \in DOMAIN inbox' : inbox'[i].type \in Replies =>
    \E k \in DOMAIN inbox : inbox[k] = inbox'[i]

LEMMA SendsFacts ==
    ASSUME IInv, Sends
    PROVE  /\ outbox' \in Seq(Sent)
           /\ \A i \in DOMAIN outbox' : i \in Nat /\
                 \/ i \in DOMAIN outbox /\ outbox'[i] = outbox[i]
                 \/ i \notin DOMAIN outbox /\ (outbox'[i].type \in Numbered => Own(outbox'[i]))
           /\ \A i, j \in DOMAIN outbox' : i < j /\ j \in DOMAIN outbox => i \in DOMAIN outbox
  <1>1. outbox \in Seq(Sent)
    BY TypeFacts
  <1>2. CASE outbox' = <<>>
    BY <1>2
  <1>3. ASSUME NEW msgs \in Seq(Sent), outbox' = outbox \o msgs,
               \A i \in DOMAIN msgs : msgs[i].type \in Numbered => Own(msgs[i])
        PROVE  /\ outbox' \in Seq(Sent)
               /\ \A i \in DOMAIN outbox' : i \in Nat /\
                     \/ i \in DOMAIN outbox /\ outbox'[i] = outbox[i]
                     \/ i \notin DOMAIN outbox /\ (outbox'[i].type \in Numbered => Own(outbox'[i]))
    <2>1. /\ outbox' \in Seq(Sent)
          /\ \A i \in DOMAIN outbox : outbox'[i] = outbox[i]
          /\ \A i \in DOMAIN outbox' :
                i \notin DOMAIN outbox => i - Len(outbox) \in DOMAIN msgs /\ outbox'[i] = msgs[i - Len(outbox)]
      BY <1>1, <1>3, ConcatFacts
    <2>2. \A i \in DOMAIN outbox' : i \in Nat
      BY <2>1
    <2> QED  BY <2>1, <2>2, <1>3
  <1>4. /\ outbox' \in Seq(Sent)
        /\ \A i \in DOMAIN outbox' : i \in Nat /\
              \/ i \in DOMAIN outbox /\ outbox'[i] = outbox[i]
              \/ i \notin DOMAIN outbox /\ (outbox'[i].type \in Numbered => Own(outbox'[i]))
    BY <1>2, <1>3 DEF Sends
  <1>5. \A i, j \in DOMAIN outbox' : i < j /\ j \in DOMAIN outbox => i \in DOMAIN outbox
    BY <1>1, <1>4
  <1> QED  BY <1>4, <1>5

LEMMA OwnNumbered ==
    ASSUME Fresh, calls <= IdMax, nextMsgId \in Nat, NEW m, Own(m)
    PROVE  m.id \in 2 .. nextMsgId
  BY DEF Fresh, Own

LEMMA FreshKept ==
    ASSUME IInv, TInv, UNCHANGED <<calls, nextMsgId>>, tcp' => tcp, call' \in {call, "none", "loop"},
           Sends, Reads, held' \subseteq held
    PROVE  Fresh'
  <1>0. Fresh /\ nextMsgId \in Nat
    BY TypeFacts, BoundsAssumption DEF TInv, Scalars
  <1> SUFFICES ASSUME calls <= IdMax
               PROVE  /\ call' \in Requests => nextMsgId >= 2
                      /\ \A i \in DOMAIN outbox' : outbox'[i].type \in Numbered => outbox'[i].id \in 2 .. nextMsgId
                      /\ \A i \in DOMAIN inbox' : inbox'[i].type \in Replies => inbox'[i].id \in 2 .. nextMsgId
                      /\ held' \subseteq 2 .. nextMsgId
    BY <1>0 DEF Fresh
  <1>1. call' \in Requests => nextMsgId >= 2
    BY <1>0 DEF Fresh, Requests
  <1>2. \A i \in DOMAIN outbox' : outbox'[i].type \in Numbered => outbox'[i].id \in 2 .. nextMsgId
    <2> SUFFICES ASSUME NEW i \in DOMAIN outbox', outbox'[i].type \in Numbered
                 PROVE  outbox'[i].id \in 2 .. nextMsgId
      OBVIOUS
    <2>1. CASE i \in DOMAIN outbox /\ outbox'[i] = outbox[i]
      BY <2>1, <1>0 DEF Fresh
    <2>2. CASE Own(outbox'[i])
      BY <2>2, <1>0, OwnNumbered
    <2> QED  BY <2>1, <2>2, SendsFacts
  <1>3. \A i \in DOMAIN inbox' : inbox'[i].type \in Replies => inbox'[i].id \in 2 .. nextMsgId
    BY <1>0 DEF Fresh, Reads
  <1>4. held' \subseteq 2 .. nextMsgId
    BY <1>0 DEF Fresh
  <1> QED  BY <1>1, <1>2, <1>3, <1>4

StandsNext(op) ==
    /\ subscribed' = (op = "subscribe")
    /\ \A i \in DOMAIN outbox' : outbox'[i].type # Other(op)

\* The call in progress sends nothing that undoes it, and no other call sends.
LEMMA StandsKept ==
    ASSUME IInv, NEW op \in {"subscribe", "unsubscribe"}, Stands(op), UNCHANGED subscribed, Sends,
           call \in Requests => call = op
    PROVE  StandsNext(op)
  <1>1. ASSUME NEW i \in DOMAIN outbox'  PROVE outbox'[i].type # Other(op)
    <2>1. Other(op) \in Numbered
      BY DEF Other, Numbered
    <2>2. ASSUME Own(outbox'[i])  PROVE outbox'[i].type # Other(op)
      BY <2>2 DEF Own, TypeOf, Other
    <2>3. i \in DOMAIN outbox /\ outbox'[i] = outbox[i] => outbox'[i].type # Other(op)
      BY DEF Stands
    <2> QED  BY <2>1, <2>2, <2>3, SendsFacts
  <1> QED  BY <1>1 DEF Stands, StandsNext

LEMMA EvidenceKept ==
    ASSUME IInv, TInv, UNCHANGED <<calls, nextMsgId, delivered>>, tcp' => tcp,
           call' \in {call, "none", "loop"}, tcp' => UNCHANGED subscribed,
           Sends, Reads, held' \subseteq held,
           \A i \in DOMAIN stack' : stack'[i].msg.type = "PUBREL" /\ calls <= IdMax + 1
              => delivered[calls] >= 1
    PROVE  Evidence'
  <1> SUFFICES ASSUME calls <= IdMax + 1, call' \in Requests
               PROVE  /\ call' \in {"publish1", "publish2"} => PublishEvidence'
                      /\ call' \in {"subscribe", "unsubscribe"} /\ tcp' => SubscribeEvidence'
    BY DEF Evidence, Requests
  <1>1. call' = call /\ call \in Requests
    BY DEF Requests
  <1>2. \A i \in Copies' : i \in DOMAIN outbox' /\ (i \in DOMAIN outbox => i \in Copies)
    BY <1>1, SendsFacts DEF Copies
  <1>3. Answered' => Answered
    <2>1. ResponseType(TypeOf(call)) \in Replies
      BY <1>1 DEF ResponseType, TypeOf, Requests, Replies
    <2> QED  BY <1>1, <2>1 DEF Answered, Reads
  <1>4. ASSUME call \in {"publish1", "publish2"}  PROVE PublishEvidence'
    <2>0. PublishEvidence
      BY <1>4 DEF TInv, Evidence
    <2>1. ASSUME NEW i \in Copies'  PROVE outbox'[i].no = calls
      <3>1. outbox'[i].type = TypeOf(call) /\ TypeOf(call) \in Numbered /\ TypeOf(call) # "PUBREL"
        BY <1>1, <1>4 DEF Copies, TypeOf, Numbered
      <3>2. Own(outbox'[i]) => outbox'[i].no = calls
        BY <3>1 DEF Own
      <3>3. i \in DOMAIN outbox /\ outbox'[i] = outbox[i] => outbox'[i].no = calls
        BY <1>2, <2>0 DEF PublishEvidence
      <3> QED  BY <1>2, <3>1, <3>2, <3>3, SendsFacts
    <2>2. (\E i \in DOMAIN stack' : stack'[i].msg.type = "PUBREL") => delivered[calls] >= 1
      BY <1>1
    <2> QED  BY <2>0, <2>1, <2>2, <1>1, <1>3 DEF PublishEvidence
  <1>5. ASSUME call \in {"subscribe", "unsubscribe"}, tcp'  PROVE SubscribeEvidence'
    <2>0. SubscribeEvidence /\ UNCHANGED subscribed
      BY <1>5 DEF TInv, Evidence
    <2>1. ASSUME NEW i \in Copies', NEW j \in DOMAIN outbox', i < j  PROVE outbox'[j].type # Other(call)
      <3>1. CASE j \in DOMAIN outbox /\ outbox'[j] = outbox[j]
        <4>1. i \in DOMAIN outbox
          BY <3>1, <2>1, <1>2, SendsFacts
        <4> QED  BY <4>1, <3>1, <2>1, <2>0, <1>2 DEF SubscribeEvidence
      <3>2. CASE Own(outbox'[j])
        BY <3>2, <1>5 DEF Own, TypeOf, Other
      <3>3. Other(call) \in Numbered
        BY DEF Other, Numbered
      <3> QED  BY <3>1, <3>2, <3>3, SendsFacts
    <2>2. Answered' => StandsNext(call)
      BY <1>3, <1>5, <2>0, StandsKept DEF SubscribeEvidence
    <2> QED  BY <2>1, <2>2, <1>1 DEF SubscribeEvidence, Stands, StandsNext, Other
  <1> QED  BY <1>1, <1>4, <1>5

\* What must be so when the call in progress returns true.
Achieved ==
    /\ call \in {"publish1", "publish2"} => delivered[calls] >= 1
    /\ call \in {"subscribe", "unsubscribe"} /\ tcp => Stands(call)

LEMMA ResultsKept ==
    ASSUME IInv, TInv, NEW ok \in BOOLEAN, CallStep(ok), UNCHANGED <<calls, delivered>>,
           tcp' => tcp, tcp' => UNCHANGED subscribed, Sends,
           ok /\ calls <= IdMax + 1 /\ call' # call /\ call \in Requests => Achieved
    PROVE  Results'
  <1>0. /\ calls \in Nat /\ MaxCalls \in Nat /\ calls <= MaxCalls
        /\ result.no \in Nat /\ (call = "loop" \/ call = "none" \/ result.no < calls)
    BY TypeFacts DEF OneCall, IInv, Types
  <1>1. CASE call' \in {call, "loop", "none"} /\ result' = result /\ (call' = call \/ call \in {"none", "loop"})
    <2> SUFFICES ASSUME result.ok, calls <= IdMax + 1, result.op \in {"subscribe", "unsubscribe"},
                        call' \in {"none", "loop"}, tcp'
                 PROVE  Stands(result.op)'
      BY <1>1 DEF Results, TInv
    <2>1. call \in {"none", "loop"}
      BY <1>1
    <2>2. Stands(result.op)
      BY <2>1 DEF TInv, Results
    <2>3. StandsNext(result.op)
      BY <2>1, <2>2, StandsKept DEF Requests
    <2> QED  BY <2>3, <1>1 DEF Stands, StandsNext, Other
  <1>2. CASE call \notin {"loop", "none"} /\ call' = "none" /\ result' = [op |-> call, no |-> calls, ok |-> ok]
    <2> SUFFICES ASSUME ok, calls <= IdMax + 1, call \in Requests
                 PROVE  /\ call \in {"publish1", "publish2"} => calls \in 1 .. MaxCalls /\ delivered[calls] >= 1
                        /\ call \in {"subscribe", "unsubscribe"} /\ tcp' => StandsNext(call)
      BY <1>2 DEF Results, Requests, Stands, StandsNext, Other
    <2>1. Achieved /\ calls \in 1 .. MaxCalls
      BY <1>0, <1>2 DEF Requests
    <2>2. ASSUME call \in {"subscribe", "unsubscribe"}, tcp'  PROVE StandsNext(call)
      BY <2>1, <2>2, StandsKept DEF Achieved
    <2> QED  BY <2>1, <2>2 DEF Achieved
  <1> QED  BY <1>1, <1>2 DEF CallStep, Return

\* The waits are those that were, or wait for a release in the middle of them.
StackFrom == \A i \in DOMAIN stack' :
    \/ \E k \in DOMAIN stack :
          stack[k].msg = stack'[i].msg /\ (i = Len(stack') => k = Len(stack))
    \/ stack'[i].msg.type = "PUBREC" /\ (i = Len(stack') => call' = "loop")
\* A release is waited for only when its publication has been accepted.
Released == \A i \in DOMAIN stack' :
    stack'[i].msg.type = "PUBREL" /\ calls <= IdMax + 1 => delivered[calls] >= 1

OwnNext(m) ==
    /\ call' \in Requests /\ m.id = nextMsgId'
    /\ \/ m.type = TypeOf(call') /\ m.no = calls'
       \/ m.type = "PUBREL" /\ call' = "publish2"

LEMMA StackKept ==
    ASSUME IInv, TInv, StackFrom, UNCHANGED <<calls, nextMsgId>>,
           stack' = <<>> \/ call' = call \/ stack = <<>>
    PROVE  CallsMatch' /\ Released
  <1>1. ASSUME NEW i \in DOMAIN stack'
        PROVE  /\ \/ stack'[i].msg.type = "PUBREC" /\ (i = Len(stack') => call' = "loop")
                  \/ stack'[i].msg.type = "CONNECT" /\ stack'[i].msg.id = 0 /\ call' = "connect"
                  \/ stack'[i].msg.type \in Numbered /\ OwnNext(stack'[i].msg)
               /\ stack'[i].msg.type = "PUBREL" /\ calls <= IdMax + 1 => delivered[calls] >= 1
    <2>1. CASE stack'[i].msg.type = "PUBREC" /\ (i = Len(stack') => call' = "loop")
      BY <2>1
    <2>2. ASSUME NEW k \in DOMAIN stack, stack[k].msg = stack'[i].msg,
                 i = Len(stack') => k = Len(stack)
          PROVE  /\ \/ stack'[i].msg.type = "PUBREC" /\ (i = Len(stack') => call' = "loop")
                    \/ stack'[i].msg.type = "CONNECT" /\ stack'[i].msg.id = 0 /\ call' = "connect"
                    \/ stack'[i].msg.type \in Numbered /\ OwnNext(stack'[i].msg)
                 /\ stack'[i].msg.type = "PUBREL" /\ calls <= IdMax + 1 => delivered[calls] >= 1
      <3>1. call' = call
        BY <2>2
      <3>2. \/ stack[k].msg.type = "PUBREC" /\ (k = Len(stack) => call = "loop")
            \/ stack[k].msg.type = "CONNECT" /\ stack[k].msg.id = 0 /\ call = "connect"
            \/ stack[k].msg.type \in Numbered /\ Own(stack[k].msg)
        BY DEF TInv, CallsMatch
      <3>3. OwnNext(stack'[i].msg) <=> Own(stack[k].msg)
        BY <2>2, <3>1 DEF Own, OwnNext
      <3>4. stack'[i].msg.type = "PUBREL" => call = "publish2"
        BY <2>2, <3>2 DEF Own, TypeOf, Requests
      <3>5. stack'[i].msg.type = "PUBREL" /\ calls <= IdMax + 1 => delivered[calls] >= 1
        BY <2>2, <3>4 DEF TInv, Evidence, PublishEvidence
      <3> QED  BY <2>2, <3>1, <3>2, <3>3, <3>5
    <2> QED  BY <2>1, <2>2 DEF StackFrom
  <1> QED  BY <1>1 DEF CallsMatch, Released, Own, OwnNext

\* A step in which no call begins and the broker takes no part.
LEMMA Onward ==
    ASSUME IInv, TInv, NEW ok \in BOOLEAN, CallStep(ok), UNCHANGED <<calls, nextMsgId, delivered>>,
           tcp' => tcp /\ UNCHANGED subscribed, held' \subseteq held, Sends, Reads,
           CallsMatch', Released,
           ok /\ calls <= IdMax + 1 /\ call' # call /\ call \in Requests => Achieved
    PROVE  TInv'
  <1>1. call' \in {call, "none", "loop"}
    BY DEF CallStep, Return
  <1>2. Fresh'
    BY <1>1, FreshKept
  <1>3. Evidence'
    BY <1>1, EvidenceKept DEF Released
  <1>4. Results'
    BY ResultsKept
  <1> QED  BY <1>2, <1>3, <1>4 DEF TInv

LEMMA SendsNothing ==
    ASSUME IInv, UNCHANGED outbox
    PROVE  Sends
  <1>1. outbox' = outbox \o <<>> /\ <<>> \in Seq(Sent)
    BY TypeFacts
  <1>2. \E msgs \in Seq(Sent) : outbox' = outbox \o msgs /\ DOMAIN msgs = {}
    <2> WITNESS <<>> \in Seq(Sent)
    <2> QED  BY <1>1
  <1> QED  BY <1>2 DEF Sends

LEMMA SendsMany ==
    ASSUME IInv, NEW msgs \in Seq(Sent), Transmit(msgs),
           \A i \in DOMAIN msgs : msgs[i].type \in Numbered => Own(msgs[i])
    PROVE  Sends
  <1>1. CASE tcp
    BY <1>1 DEF Sends, Transmit
  <1>2. CASE ~tcp
    BY <1>2, SendsNothing DEF Transmit
  <1> QED  BY <1>1, <1>2

LEMMA SendsOne ==
    ASSUME IInv, NEW m \in Sent, Transmit(<<m>>), m.type \in Numbered => Own(m)
    PROVE  Sends
  <1>1. <<m>> \in Seq(Sent) /\ \A i \in DOMAIN <<m>> : <<m>>[i].type \in Numbered => Own(<<m>>[i])
    BY OneMessage
  <1> QED  BY <1>1, SendsMany

\* Nothing is read, one message is, or all is discarded.
LEMMA ReadsFacts ==
    ASSUME IInv, inbox' = inbox \/ inbox' = <<>> \/ (inbox # <<>> /\ inbox' = Tail(inbox))
    PROVE  Reads
  <1>1. CASE inbox' = inbox
    BY <1>1 DEF Reads
  <1>2. CASE inbox' = <<>>
    BY <1>2 DEF Reads
  <1>3. CASE inbox # <<>> /\ inbox' = Tail(inbox)
    <2>1. inbox \in Seq(Received)
      BY TypeFacts
    <2>2. \A i \in DOMAIN inbox' : i + 1 \in DOMAIN inbox /\ inbox'[i] = inbox[i + 1]
      BY <1>3, <2>1, TailFacts
    <2> QED  BY <2>2 DEF Reads
  <1> QED  BY <1>1, <1>2, <1>3

\* The wait on top.
LEMMA TopFacts ==
    ASSUME IInv, TInv, stack # <<>>
    PROVE  /\ Top.msg.type \in Numbered => Own(Top.msg)
           /\ Top.msg.type \in Numbered \cup {"PUBREC", "CONNECT"}
           /\ Top.msg.type = "CONNECT" => Top.msg.id = 0 /\ call = "connect"
           /\ Rest = <<>> /\ Top.msg.type = "PUBREC" => call = "loop"
  <1>1. 1 \in DOMAIN stack /\ Top = stack[1] /\ (Rest = <<>> <=> Len(stack) = 1)
    BY StackFacts
  <1>2. "PUBREC" \notin Numbered /\ "CONNECT" \notin Numbered
    BY DEF Numbered
  <1> QED  BY <1>1, <1>2 DEF TInv, CallsMatch

LEMMA StackShapes ==
    ASSUME IInv, stack # <<>>
    PROVE  /\ stack' = Rest => StackFrom
           /\ \A w \in Waits : w.msg = Top.msg /\ stack' = <<w>> \o Rest => StackFrom
  <1>1. /\ 1 \in DOMAIN stack /\ Top = stack[1] /\ Len(stack) \in Nat /\ Len(Rest) = Len(stack) - 1
        /\ Rest \in Seq(Waits)
        /\ \A i \in DOMAIN Rest : i + 1 \in DOMAIN stack /\ Rest[i] = stack[i + 1]
    BY StackFacts
  <1>2. ASSUME stack' = Rest  PROVE StackFrom
    <2>1. \A i \in DOMAIN stack' :
             i + 1 \in DOMAIN stack /\ stack[i + 1].msg = stack'[i].msg /\ (i = Len(stack') => i + 1 = Len(stack))
      BY <1>1, <1>2
    <2> QED  BY <2>1 DEF StackFrom
  <1>3. ASSUME NEW w \in Waits, w.msg = Top.msg, stack' = <<w>> \o Rest  PROVE StackFrom
    <2>1. /\ stack' \in Seq(Waits) /\ Len(stack') = Len(stack) /\ stack'[1] = w
          /\ \A i \in DOMAIN stack' : i # 1 => i - 1 \in DOMAIN Rest /\ stack'[i] = Rest[i - 1]
      BY <1>1, <1>3, PushFacts
    <2>2. \A i \in DOMAIN stack' : i \in DOMAIN stack
      BY <2>1, <1>1
    <2>3. \A i \in DOMAIN stack' : stack[i].msg = stack'[i].msg
      <3> TAKE i \in DOMAIN stack'
      <3>1. CASE i = 1
        BY <3>1, <2>1, <1>1, <1>3
      <3>2. CASE i # 1
        <4>1. i - 1 \in DOMAIN Rest /\ stack'[i] = Rest[i - 1] /\ i \in Nat
          BY <3>2, <2>1
        <4>2. Rest[i - 1] = stack[(i - 1) + 1] /\ (i - 1) + 1 = i
          BY <4>1, <1>1
        <4> QED  BY <4>1, <4>2
      <3> QED  BY <3>1, <3>2
    <2> QED  BY <2>1, <2>2, <2>3 DEF StackFrom
  <1> QED  BY <1>2, <1>3

LEMMA FailedWaitDone ==
    ASSUME IInv, TInv, stack # <<>>, NEW input, WaitFailed(input),
           input = inbox \/ (inbox # <<>> /\ input = Tail(inbox)),
           UNCHANGED <<calls, nextMsgId, delivered>>
    PROVE  TInv'
  <1>0. Top \in Waits /\ Top.msg \in Sent /\ call # "none"
    BY StackFacts, TypeFacts DEF OneCall
  <1>1. CASE CanRetry
    <2> DEFINE w == [Top EXCEPT !.phase = "first", !.tries = @ + 1]
    <2>1. /\ stack' = <<w>> \o Rest /\ Transmit(<<Top.msg>>) /\ inbox' = input
          /\ UNCHANGED <<call, result, tcp, subscribed, held>> /\ Top.tries < MaxRetries
      BY <1>1 DEF WaitFailed, Retry, Resent, CanRetry
    <2>2. w \in Waits /\ w.msg = Top.msg
      <3>1. Top.tries + 1 \in 0 .. MaxRetries
        BY <2>1, <1>0, BoundsAssumption DEF Waits
      <3> QED  BY <3>1, <1>0 DEF Waits
    <2> HIDE DEF w
    <2>3. StackFrom
      BY <2>1, <2>2, StackShapes
    <2>4. Sends
      BY <1>0, <2>1, SendsOne, TopFacts
    <2>5. Reads
      BY <2>1, ReadsFacts
    <2> QED  BY <2>1, <2>3, <2>4, <2>5, StackKept, Onward DEF CallStep
  <1>2. CASE ~CanRetry
    <2>1. /\ stack' = Rest
          /\ IF Rest = <<>> THEN Return(FALSE) ELSE UNCHANGED <<call, result>>
          /\ \/ /\ tcp' = FALSE /\ outbox' = <<>> /\ inbox' = <<>>
                /\ subscribed' = FALSE /\ held' = {}
             \/ inbox' = input /\ UNCHANGED <<tcp, outbox, subscribed, held>>
      BY <1>2 DEF WaitFailed, GiveUp
    <2>2. StackFrom
      BY <2>1, StackShapes
    <2>3. CallsMatch' /\ Released
      BY <2>1, <2>2, StackKept
    <2>4. Sends /\ Reads
      BY <2>1, SendsNothing, ReadsFacts DEF Sends
    <2>5. CallStep(FALSE)
      BY <2>1, <1>0 DEF CallStep
    <2>6. (tcp' => tcp /\ UNCHANGED subscribed) /\ held' \subseteq held
      BY <2>1
    <2> QED  BY <2>3, <2>4, <2>5, <2>6, Onward
  <1> QED  BY <1>1, <1>2

\* The reply to a wait that has succeeded bears its identifier.
LEMMA RepliedTo ==
    ASSUME IInv, TInv, stack # <<>>, inbox # <<>>, Head(inbox).type = ResponseType(Top.msg.type),
           Matches, Top.msg.type \in Numbered, calls <= IdMax + 1
    PROVE  Achieved /\ (Top.msg.type = "PUBLISH2" => delivered[calls] >= 1)
  <1>0. /\ Scalars /\ inbox \in Seq(Received) /\ Own(Top.msg)
        /\ 1 \in DOMAIN stack /\ Top = stack[1]
    BY TypeFacts, TopFacts, StackFacts
  <1>1. 1 \in DOMAIN inbox /\ Head(inbox) = inbox[1]
    BY <1>0, TailFacts
  <1>2. Top.msg.id = nextMsgId /\ nextMsgId # 0 /\ call \in Requests
    BY <1>0, BoundsAssumption DEF Own, Scalars
  <1>3. Head(inbox).id = nextMsgId
    BY <1>2 DEF Matches
  <1>4. CASE Top.msg.type = "PUBREL"
    <2>1. call = "publish2"
      BY <1>0, <1>4, <1>2 DEF Own, TypeOf, Requests
    <2>2. delivered[calls] >= 1
      BY <2>1, <1>0, <1>4 DEF TInv, Evidence, PublishEvidence
    <2> QED  BY <2>1, <2>2, <1>4 DEF Achieved
  <1>5. CASE Top.msg.type = TypeOf(call)
    <2>1. Answered
      BY <1>1, <1>3, <1>5 DEF Answered
    <2>2. call \in {"publish1", "publish2"} => delivered[calls] >= 1
      BY <2>1 DEF TInv, Evidence, PublishEvidence
    <2>3. call \in {"subscribe", "unsubscribe"} /\ tcp => Stands(call)
      BY <2>1 DEF TInv, Evidence, SubscribeEvidence
    <2>4. Top.msg.type = "PUBLISH2" => call = "publish2"
      BY <1>2, <1>5 DEF TypeOf, Requests
    <2> QED  BY <2>2, <2>3, <2>4 DEF Achieved
  <1> QED  BY <1>0, <1>4, <1>5 DEF Own

LEMMA SuccessfulWaitDone ==
    ASSUME IInv, TInv, stack # <<>>, inbox # <<>>, Head(inbox).type = ResponseType(Top.msg.type),
           Matches, WaitSucceeded, inbox' = Tail(inbox),
           UNCHANGED <<tcp, subscribed, held, calls, nextMsgId, delivered>>
    PROVE  TInv'
  <1>0. /\ Top \in Waits /\ Top.msg \in Sent /\ call # "none" /\ Rest \in Seq(Waits)
        /\ (Top.msg.type # "PUBREC" => Rest = <<>>) /\ Top.msg.id \in Nat
    <2>1. Top.msg \in Sent
      BY StackFacts
    <2>2. Top.msg.id \in Nat
      BY <2>1, BoundsAssumption DEF Sent, Publications
    <2> QED  BY <2>2, StackFacts, TypeFacts DEF OneCall
  <1>1. Reads
    BY ReadsFacts
  <1>2. CASE Top.msg.type = "PUBLISH2"
    <2> DEFINE rel == Msg("PUBREL", Top.msg.id, 0)
    <2>1. /\ stack' = <<Wait(rel)>> \o Rest /\ Transmit(<<rel>>) /\ UNCHANGED <<call, result>>
      BY <1>2 DEF WaitSucceeded
    <2>2. Own(Top.msg) /\ call = "publish2"
      BY <1>2, TopFacts DEF Numbered, Own, TypeOf, Requests
    <2>3. rel \in Sent /\ Own(rel) /\ rel.type = "PUBREL" /\ Wait(rel).msg = rel
      BY <2>2, <1>0 DEF Msg, Sent, Plain, Own, Wait
    <2> HIDE DEF rel
    <2>4. DOMAIN stack' = {1} /\ stack'[1].msg = rel
      BY <2>1, <2>3, <1>0, <1>2
    <2>5. CallsMatch'
      BY <2>1, <2>2, <2>3, <2>4 DEF CallsMatch, Own, Numbered
    <2>6. Released
      BY <1>2, RepliedTo DEF Released, Numbered
    <2>7. Sends
      BY <2>1, <2>3, SendsOne
    <2> QED  BY <1>1, <2>1, <2>5, <2>6, <2>7, Onward DEF CallStep
  <1>3. CASE Top.msg.type = "PUBREC"
    <2> DEFINE comp == Msg("PUBCOMP", Top.msg.id, 0)
    <2>1. /\ stack' = Rest /\ Transmit(<<comp>>)
          /\ IF Rest = <<>> THEN Return(TRUE) ELSE UNCHANGED <<call, result>>
      BY <1>3 DEF WaitSucceeded
    <2>2. comp \in Sent /\ comp.type \notin Numbered
      BY <1>0 DEF Msg, Sent, Plain, Numbered
    <2> HIDE DEF comp
    <2>3. Sends
      BY <2>1, <2>2, SendsOne
    <2>4. CallsMatch' /\ Released
      BY <2>1, StackShapes, StackKept
    <2>5. CallStep(TRUE)
      BY <2>1, <1>0 DEF CallStep
    <2>6. call' # call => call \notin Requests
      BY <2>1, <1>3, TopFacts DEF Requests
    <2> QED  BY <1>1, <2>3, <2>4, <2>5, <2>6, Onward
  <1>4. CASE Top.msg.type \notin {"PUBLISH2", "PUBREC"}
    <2>1. stack' = Rest /\ Return(TRUE) /\ UNCHANGED outbox /\ Rest = <<>>
      BY <1>4, <1>0 DEF WaitSucceeded
    <2>2. CallsMatch' /\ Released
      BY <2>1, StackShapes, StackKept
    <2>3. CallStep(TRUE)
      BY <2>1, <1>0 DEF CallStep
    <2>4. calls <= IdMax + 1 /\ call \in Requests => Achieved
      <3>1. Top.msg.type = "CONNECT" => call \notin Requests
        BY TopFacts DEF Requests
      <3> QED  BY <3>1, <1>4, TopFacts, RepliedTo
    <2> QED  BY <1>1, <2>1, <2>2, <2>3, <2>4, SendsNothing, Onward
  <1> QED  BY <1>2, <1>3, <1>4

-----------------------------------------------------------------------------

LEMMA CallbackReads ==
    ASSUME IInv, inbox # <<>>, inbox' \in AfterCallback(Head(inbox), Tail(inbox))
    PROVE  Reads
  <1>1. inbox \in Seq(Received)
    BY TypeFacts
  <1>2. PICK rest : rest = Tail(inbox)
    OBVIOUS
  <1>3. rest \in Seq(Received) /\ \A i \in DOMAIN rest : i + 1 \in DOMAIN inbox /\ rest[i] = inbox[i + 1]
    BY <1>1, <1>2, TailFacts
  <1>4. CASE inbox' = rest
    BY <1>3, <1>4 DEF Reads
  <1>5. ASSUME NEW k \in 1 .. Len(rest) + 1, inbox' = SubSeq(rest, k, Len(rest))  PROVE Reads
    <2>1. \A i \in DOMAIN inbox' : i + k - 1 \in DOMAIN rest /\ inbox'[i] = rest[i + k - 1]
      BY <1>3, <1>5
    <2>2. \A i \in DOMAIN inbox' : \E j \in DOMAIN inbox : inbox[j] = inbox'[i]
      BY <2>1, <1>3
    <2> QED  BY <2>2 DEF Reads
  <1> QED  BY <1>2, <1>4, <1>5 DEF AfterCallback

\* Messages without a number of this side.
Unnumbered(msgs) == msgs \in Seq(Sent) /\ \A i \in DOMAIN msgs : msgs[i].type \notin Numbered

LEMMA UnnumberedAppend ==
    ASSUME NEW msgs, Unnumbered(msgs), NEW m \in Sent, m.type \notin Numbered
    PROVE  Unnumbered(Append(msgs, m))
  <1>1. msgs \in Seq(Sent) /\ \A i \in DOMAIN msgs : msgs[i].type \notin Numbered
    BY DEF Unnumbered
  <1>2. /\ Append(msgs, m) \in Seq(Sent) /\ DOMAIN Append(msgs, m) = 1 .. Len(msgs) + 1
        /\ DOMAIN msgs = 1 .. Len(msgs) /\ Len(msgs) \in Nat
        /\ \A i \in DOMAIN msgs : Append(msgs, m)[i] = msgs[i]
        /\ Append(msgs, m)[Len(msgs) + 1] = m
    BY <1>1
  <1>3. \A i \in DOMAIN Append(msgs, m) : i \in DOMAIN msgs \/ i = Len(msgs) + 1
    BY <1>2
  <1> QED  BY <1>1, <1>2, <1>3 DEF Unnumbered

LEMMA ProcessedDone ==
    ASSUME IInv, TInv, inbox # <<>>, NEW base, NEW before, Unnumbered(before),
           Process(Head(inbox), base, before),
           UNCHANGED <<calls, result, nextMsgId, tcp, subscribed, held, delivered>>,
           IF stack = <<>> THEN base = <<>> /\ call' = IF stack' = <<>> THEN "none" ELSE "loop"
           ELSE base = <<[Top EXCEPT !.phase = "after"]>> \o Rest /\ call' = call
    PROVE  TInv'
  <1> DEFINE msg == Head(inbox)
             rec == Msg("PUBREC", msg.id, 0)
             ack == Msg("PUBACK", msg.id, 0)
  <1>1. msg.id \in Nat /\ stack \in Seq(Waits)
    <2>1. msg \in Received
      BY TypeFacts, TailFacts
    <2> QED  BY <2>1, TypeFacts DEF Received
  <1>2. /\ rec \in Sent /\ rec.type = "PUBREC" /\ ack \in Sent /\ ack.type = "PUBACK"
        /\ Wait(rec) \in Waits /\ Wait(rec).msg = rec
    BY <1>1, BoundsAssumption DEF Msg, Sent, Plain, Wait, Waits
  <1>3. Unnumbered(Append(before, rec)) /\ Unnumbered(Append(before, ack))
    BY <1>2, UnnumberedAppend DEF Numbered
  <1>4. \/ stack' = <<Wait(rec)>> \o base /\ Transmit(Append(before, rec))
        \/ stack' = base /\ Transmit(Append(before, ack))
        \/ stack' = base /\ Transmit(before)
    BY DEF Process
  <1>5. Sends
    BY <1>3, <1>4, SendsMany DEF Unnumbered
  <1>6. Reads
    BY CallbackReads DEF Process
  <1> HIDE DEF rec, ack, msg
  <1>7. CASE stack = <<>>
    <2>1. base = <<>> /\ call = "none"
      BY <1>7, TypeFacts DEF OneCall
    <2>2. stack' = <<>> \/ stack' = <<Wait(rec)>> \o base
      BY <2>1, <1>4
    <2>3. ASSUME stack' = <<Wait(rec)>> \o base
          PROVE  DOMAIN stack' = {1} /\ stack'[1].msg = rec /\ stack' # <<>>
      BY <2>1, <2>3, <1>2
    <2>4. call' \in {"none", "loop"} /\ (stack' # <<>> => call' = "loop")
      BY <1>7
    <2>5. \A i \in DOMAIN stack' : stack'[i].msg.type = "PUBREC" /\ call' = "loop"
      BY <2>2, <2>3, <2>4, <1>2
    <2>6. StackFrom
      BY <2>5 DEF StackFrom
    <2>7. CallsMatch' /\ Released
      BY <2>6, <1>7, StackKept
    <2>8. CallStep(TRUE)
      BY <2>1, <2>4 DEF CallStep
    <2>9. call \notin Requests
      BY <2>1 DEF Requests
    <2> QED  BY <2>7, <2>8, <2>9, <1>5, <1>6, Onward
  <1>8. CASE stack # <<>>
    <2> DEFINE top == [Top EXCEPT !.phase = "after"]
    <2>1. /\ Top \in Waits /\ Rest \in Seq(Waits) /\ Top = stack[1] /\ Len(stack) \in Nat
          /\ Len(Rest) = Len(stack) - 1 /\ DOMAIN stack = 1 .. Len(stack) /\ 1 \in DOMAIN stack
          /\ \A i \in DOMAIN Rest : i + 1 \in DOMAIN stack /\ Rest[i] = stack[i + 1]
      BY <1>1, <1>8, StackFacts
    <2>2. top \in Waits /\ top.msg = Top.msg /\ base = <<top>> \o Rest /\ call' = call
      BY <2>1, <1>8 DEF Waits
    <2> HIDE DEF top
    <2>3. /\ base \in Seq(Waits) /\ Len(base) = Len(stack) /\ base[1] = top
          /\ \A i \in DOMAIN base : i # 1 => i - 1 \in DOMAIN Rest /\ base[i] = Rest[i - 1]
      BY <2>1, <2>2, PushFacts
    <2>4. \A i \in DOMAIN base : i \in DOMAIN stack /\ base[i].msg = stack[i].msg
      <3> TAKE i \in DOMAIN base
      <3>1. i \in DOMAIN stack
        BY <2>1, <2>3
      <3>2. i = 1 \/ base[i] = stack[i]
        BY <2>1, <2>3, <3>1
      <3> QED  BY <3>1, <3>2, <2>1, <2>2, <2>3
    <2>5. ASSUME stack' = base  PROVE StackFrom
      BY <2>5, <2>3, <2>4 DEF StackFrom
    <2>6. ASSUME stack' = <<Wait(rec)>> \o base  PROVE StackFrom
      <3>1. /\ Len(stack') = Len(base) + 1 /\ stack'[1] = Wait(rec)
            /\ \A i \in DOMAIN stack' : i # 1 => i - 1 \in DOMAIN base /\ stack'[i] = base[i - 1]
        BY <2>3, <2>6, <1>2, PushFacts
      <3>2. ASSUME NEW i \in DOMAIN stack', i # 1
            PROVE  /\ i - 1 \in DOMAIN stack /\ stack[i - 1].msg = stack'[i].msg
                   /\ (i = Len(stack') => i - 1 = Len(stack))
        BY <3>1, <3>2, <2>3, <2>4
      <3>3. 1 # Len(stack')
        BY <3>1, <2>1, <2>3
      <3> QED  BY <3>1, <3>2, <3>3, <1>2 DEF StackFrom
    <2>7. StackFrom
      BY <2>5, <2>6, <1>4
    <2>8. CallsMatch' /\ Released
      BY <2>2, <2>7, StackKept
    <2>9. CallStep(TRUE)
      BY <2>2 DEF CallStep
    <2> QED  BY <2>2, <2>8, <2>9, <1>5, <1>6, Onward
  <1> QED  BY <1>7, <1>8

\* A step that leaves the calls alone.
LEMMA SilentlyDone ==
    ASSUME IInv, TInv, UNCHANGED <<call, calls, result, nextMsgId, delivered>>,
           stack' = stack \/ (stack # <<>> /\ \E w \in Waits : w.msg = Top.msg /\ stack' = <<w>> \o Rest),
           tcp' => tcp /\ UNCHANGED subscribed, held' \subseteq held, Sends, Reads
    PROVE  TInv'
  <1>1. StackFrom
    <2>1. CASE stack' = stack
      BY <2>1 DEF StackFrom
    <2>2. CASE stack' # stack
      BY <2>2, StackShapes
    <2> QED  BY <2>1, <2>2
  <1>2. CallsMatch' /\ Released
    BY <1>1, StackKept
  <1> QED  BY <1>2, Onward DEF CallStep

LEMMA PublishQos0Done ==
    ASSUME IInv, TInv, PublishQos0
    PROVE  TInv'
  <1> DEFINE msg == Msg("PUBLISH0", 0, 0)
  <1>1. /\ Transmit(<<msg>>)
        /\ UNCHANGED <<stack, call, calls, result, nextMsgId, tcp, inbox, subscribed, held, delivered>>
    BY DEF PublishQos0, client, broker
  <1>2. msg \in Sent /\ msg.type \notin Numbered
    BY DEF Msg, Sent, Plain, Numbered
  <1> HIDE DEF msg
  <1>3. Sends /\ Reads
    BY <1>1, <1>2, SendsOne, ReadsFacts
  <1> QED  BY <1>1, <1>3, SilentlyDone

\* The connection is closed between two calls, or while one waits.
LEMMA ClosedDone ==
    ASSUME IInv, TInv, tcp' = FALSE, outbox' = <<>>, inbox' = <<>>, held' = {},
           UNCHANGED <<stack, call, calls, result, nextMsgId, delivered>>
    PROVE  TInv'
  <1>1. Sends /\ Reads
    BY ReadsFacts DEF Sends
  <1> QED  BY <1>1, SilentlyDone

LEMMA LoopRunDone ==
    ASSUME IInv, TInv, LoopRun
    PROVE  TInv'
  <1> DEFINE pings == IF PingDue THEN <<Msg("PINGREQ", 0, 0)>> ELSE <<>>
  <1>0. stack = <<>> /\ call = "none"
    BY TypeFacts DEF OneCall, LoopRun
  <1>1. Unnumbered(pings)
    <2>1. PICK ping : ping = Msg("PINGREQ", 0, 0)
      OBVIOUS
    <2>2. ping \in Sent /\ ping.type = "PINGREQ"
      BY <2>1 DEF Msg, Sent, Plain
    <2>3. Unnumbered(<<ping>>)
      BY <2>2, OneMessage DEF Unnumbered, Numbered
    <2>4. Unnumbered(<<>>)
      BY DEF Unnumbered
    <2> QED  BY <2>1, <2>3, <2>4
  <1>2. /\ call' = (IF stack' = <<>> THEN "none" ELSE "loop")
        /\ UNCHANGED <<calls, result, nextMsgId, tcp, subscribed, held, delivered>>
        /\ IF inbox = <<>> THEN Transmit(pings) /\ UNCHANGED <<inbox, stack>>
           ELSE Process(Head(inbox), <<>>, pings)
    BY DEF LoopRun, broker
  <1> HIDE DEF pings
  <1>3. CASE inbox = <<>>
    <2>1. Sends /\ Reads
      BY <1>1, <1>2, <1>3, SendsMany, ReadsFacts DEF Unnumbered
    <2>2. UNCHANGED <<stack, call>>
      BY <1>0, <1>2, <1>3
    <2> QED  BY <2>1, <2>2, <1>2, SilentlyDone
  <1>4. CASE inbox # <<>>
    BY <1>0, <1>1, <1>2, <1>4, ProcessedDone
  <1> QED  BY <1>3, <1>4

LEMMA ReadOtherDone ==
    ASSUME IInv, TInv, ReadOther
    PROVE  TInv'
  <1> DEFINE base == <<[Top EXCEPT !.phase = "after"]>> \o Rest
  <1>1. stack # <<>> /\ inbox # <<>> /\ Process(Head(inbox), base, <<>>)
        /\ UNCHANGED <<call, calls, result, nextMsgId, tcp, subscribed, held, delivered>>
    BY DEF ReadOther, Waiting, broker
  <1>2. Unnumbered(<<>>)
    BY DEF Unnumbered
  <1>3. base = <<[Top EXCEPT !.phase = "after"]>> \o Rest
    OBVIOUS
  <1> HIDE DEF base
  <1> QED  BY <1>1, <1>2, <1>3, ProcessedDone

LEMMA PhaseDone ==
    ASSUME IInv, TInv, stack # <<>>, NEW phase \in {"first", "check", "read", "after"}, SetPhase(phase),
           UNCHANGED <<call, calls, result, nextMsgId, tcp, outbox, inbox, subscribed, held, delivered>>
    PROVE  TInv'
  <1>1. \E w \in Waits : w.msg = Top.msg /\ stack' = <<w>> \o Rest
    <2>1. Top \in Waits
      BY StackFacts
    <2>2. [Top EXCEPT !.phase = phase] \in Waits /\ [Top EXCEPT !.phase = phase].msg = Top.msg
      BY <2>1 DEF Waits
    <2> QED  BY <2>2 DEF SetPhase
  <1>2. Sends /\ Reads
    BY SendsNothing, ReadsFacts
  <1> QED  BY <1>1, <1>2, SilentlyDone

LEMMA WaitStepDone ==
    ASSUME IInv, TInv, WaitStep
    PROVE  TInv'
  <1>1. CASE WaitInput
    BY <1>1, PhaseDone DEF WaitInput, Waiting, network, broker
  <1>2. CASE WaitCheck
    BY <1>2, PhaseDone DEF WaitCheck, Waiting, network, broker
  <1>3. CASE WaitExpired
    BY <1>3, FailedWaitDone DEF WaitExpired, Waiting
  <1>4. CASE WaitTooLate
    BY <1>4, FailedWaitDone DEF WaitTooLate, Waiting
  <1>5. CASE ReadReply
    <2>1. /\ stack # <<>> /\ inbox # <<>> /\ Head(inbox).type = ResponseType(Top.msg.type)
          /\ UNCHANGED <<calls, nextMsgId, delivered>>
      BY <1>5 DEF ReadReply, Waiting
    <2>2. CASE Matches
      BY <1>5, <2>1, <2>2, SuccessfulWaitDone DEF ReadReply
    <2>3. CASE ~Matches
      BY <1>5, <2>1, <2>3, FailedWaitDone DEF ReadReply
    <2> QED  BY <2>2, <2>3
  <1>6. CASE ReadOther
    BY <1>6, ReadOtherDone
  <1>7. CASE AfterOther
    <2>1. stack # <<>> /\ UNCHANGED <<calls, nextMsgId, delivered>>
      BY <1>7 DEF AfterOther, Waiting
    <2>2. CASE Top.msg.type = "SUBSCRIBE" /\ isSubAckFound
      BY <1>7, <2>1, <2>2, FailedWaitDone DEF AfterOther
    <2>3. CASE ~(Top.msg.type = "SUBSCRIBE" /\ isSubAckFound)
      BY <1>7, <2>1, <2>3, PhaseDone DEF AfterOther, network
    <2> QED  BY <2>2, <2>3
  <1> QED  BY <1>1, <1>2, <1>3, <1>4, <1>5, <1>6, <1>7 DEF WaitStep

-----------------------------------------------------------------------------

\* The broker's reply to a numbered message bears its number.
LEMMA ReplyFacts ==
    ASSUME NEW msg \in Sent
    PROVE  /\ BrokerReply(msg) \in Seq(Received)
           /\ \A i \in DOMAIN BrokerReply(msg) : BrokerReply(msg)[i].type \in Replies =>
                 /\ msg.type \in Numbered /\ BrokerReply(msg)[i].type = ResponseType(msg.type)
                 /\ BrokerReply(msg)[i].id = msg.id
  <1>1. msg.id \in Nat
    BY BoundsAssumption DEF Sent, Publications
  <1>2. BrokerReply(msg) \in Seq(Received)
    BY <1>1, ReplyTyped
  <1>3. ASSUME NEW r, BrokerReply(msg) = <<r>>, r.type \in Replies
        PROVE  msg.type \in Numbered /\ r.type = ResponseType(msg.type) /\ r.id = msg.id
    <2>1. r = BrokerReply(msg)[1]
      BY <1>3
    <2>2. CASE msg.type \in {"SUBSCRIBE", "UNSUBSCRIBE", "PUBLISH1", "PUBLISH2", "PUBREL"}
      BY <2>1, <2>2 DEF BrokerReply, Msg, ResponseType, Numbered
    <2>3. CASE msg.type \in {"CONNECT", "PUBREC", "PINGREQ"}
      BY <2>1, <2>3, <1>3 DEF BrokerReply, Msg, Replies
    <2>4. CASE msg.type \in {"PUBLISH0", "PUBACK", "PUBCOMP"}
      BY <2>1, <2>4, <1>3 DEF BrokerReply
    <2>5. msg.type \in Plain \cup {"PUBLISH1", "PUBLISH2"}
      BY DEF Sent, Publications
    <2> QED  BY <2>2, <2>3, <2>4, <2>5 DEF Plain
  <1>4. BrokerReply(msg) = <<>> \/ \E r : BrokerReply(msg) = <<r>>
    BY DEF BrokerReply
  <1> QED  BY <1>2, <1>3, <1>4

LEMMA BrokerReceiveDone ==
    ASSUME IInv, TInv, BrokerReceive
    PROVE  TInv'
  <1> DEFINE msg == Head(outbox)
  <1>0. /\ Scalars /\ outbox \in Seq(Sent) /\ inbox \in Seq(Received) /\ NotYet /\ OneCall
        /\ MaxCalls \in Nat /\ calls \in Nat /\ calls <= MaxCalls /\ result.no \in Nat
        /\ nextMsgId \in Nat
    BY TypeFacts, BoundsAssumption DEF IInv, Types, Scalars
  <1>1. /\ outbox # <<>> /\ outbox' = Tail(outbox)
        /\ inbox' = inbox \o BrokerReply(msg)
        /\ subscribed' = CASE msg.type = "SUBSCRIBE" -> TRUE
                           [] msg.type = "UNSUBSCRIBE" -> FALSE
                           [] OTHER -> subscribed
        /\ held' = Held(msg, held)
        /\ delivered' = IF Accepts(msg) THEN [delivered EXCEPT ![msg.no] = @ + 1] ELSE delivered
        /\ UNCHANGED <<stack, call, calls, result, nextMsgId, tcp>>
    BY DEF BrokerReceive, Held, client
  <1>2. /\ msg \in Sent /\ msg = outbox[1] /\ 1 \in DOMAIN outbox
        /\ \A i \in DOMAIN outbox' : i + 1 \in DOMAIN outbox /\ outbox'[i] = outbox[i + 1]
        /\ \A i \in DOMAIN outbox' : i \in Nat /\ 1 < i + 1
    BY <1>0, <1>1, TailFacts
  <1>3. /\ inbox' \in Seq(Received)
        /\ \A i \in DOMAIN inbox' : inbox'[i].type \in Replies =>
              \/ \E k \in DOMAIN inbox : inbox[k] = inbox'[i]
              \/ msg.type \in Numbered /\ inbox'[i].type = ResponseType(msg.type) /\ inbox'[i].id = msg.id
    <2>1. PICK reply : reply = BrokerReply(msg)
      OBVIOUS
    <2>2. /\ reply \in Seq(Received)
          /\ \A i \in DOMAIN reply : reply[i].type \in Replies =>
                msg.type \in Numbered /\ reply[i].type = ResponseType(msg.type) /\ reply[i].id = msg.id
      BY <2>1, <1>2, ReplyFacts
    <2>3. /\ inbox' \in Seq(Received)
          /\ \A i \in DOMAIN inbox : inbox'[i] = inbox[i]
          /\ \A i \in DOMAIN inbox' :
                i \notin DOMAIN inbox => i - Len(inbox) \in DOMAIN reply /\ inbox'[i] = reply[i - Len(inbox)]
      BY <2>1, <2>2, <1>0, <1>1, ConcatFacts
    <2> QED  BY <2>2, <2>3
  <1> HIDE DEF msg
  <1>4. Accepts(msg) => msg.no \in 1 .. MaxCalls
    BY <1>2 DEF Accepts, Sent, Publications, Plain
  <1>5. \A n \in 1 .. MaxCalls : /\ delivered[n] \in Nat /\ delivered'[n] \in Nat
                                 /\ delivered'[n] >= delivered[n]
                                 /\ Accepts(msg) /\ msg.no = n => delivered'[n] >= 1
    BY <1>0, <1>1, <1>4 DEF Scalars
  <1>6. CallsMatch'
    BY <1>1 DEF TInv, CallsMatch, Own
  <1>7. Fresh'
    <2> SUFFICES ASSUME calls <= IdMax
                 PROVE  /\ \A i \in DOMAIN outbox' : outbox'[i].type \in Numbered => outbox'[i].id \in 2 .. nextMsgId
                        /\ \A i \in DOMAIN inbox' : inbox'[i].type \in Replies => inbox'[i].id \in 2 .. nextMsgId
                        /\ held' \subseteq 2 .. nextMsgId
      BY <1>1 DEF TInv, Fresh
    <2>1. msg.type \in Numbered => msg.id \in 2 .. nextMsgId
      BY <1>2 DEF TInv, Fresh
    <2>2. \A i \in DOMAIN outbox' : outbox'[i].type \in Numbered => outbox'[i].id \in 2 .. nextMsgId
      BY <1>2 DEF TInv, Fresh
    <2>3. \A i \in DOMAIN inbox' : inbox'[i].type \in Replies => inbox'[i].id \in 2 .. nextMsgId
      BY <1>3, <2>1 DEF TInv, Fresh
    <2>4. held' \subseteq 2 .. nextMsgId
      BY <1>1, <2>1 DEF TInv, Fresh, Held, Numbered
    <2> QED  BY <2>2, <2>3, <2>4
  <1>8. ASSUME NEW op \in {"subscribe", "unsubscribe"}, Stands(op)  PROVE StandsNext(op)
    <2>1. msg.type # Other(op)
      BY <1>2, <1>8 DEF Stands
    <2>2. subscribed' = (op = "subscribe")
      BY <2>1, <1>1, <1>8 DEF Stands, Other
    <2> QED  BY <2>2, <1>2, <1>8 DEF Stands, StandsNext
  <1>9. ASSUME call \in Requests
        PROVE  Answered' => Answered \/ (msg.type = TypeOf(call) /\ msg.id = nextMsgId /\ 1 \in Copies)
    <2>1. ResponseType(TypeOf(call)) \in Replies
      BY <1>9 DEF ResponseType, TypeOf, Requests, Replies
    <2>2. \A t \in Numbered : ResponseType(t) = ResponseType(TypeOf(call)) => t = TypeOf(call)
      BY <1>9 DEF ResponseType, TypeOf, Requests, Numbered
    <2>3. msg.type = TypeOf(call) /\ msg.id = nextMsgId => 1 \in Copies
      BY <1>2 DEF Copies
    <2> QED  BY <1>1, <1>3, <2>1, <2>2, <2>3 DEF Answered
  <1>10. \A i \in Copies' : i + 1 \in Copies /\ outbox'[i] = outbox[i + 1] /\ i \in DOMAIN outbox'
    BY <1>1, <1>2 DEF Copies
  <1>11. ASSUME calls <= IdMax + 1, call \in {"publish1", "publish2"}  PROVE PublishEvidence'
    <2>0. PublishEvidence /\ calls \in 1 .. MaxCalls /\ call \in Requests
      BY <1>11, <1>0 DEF TInv, Evidence, OneCall, Requests
    <2>1. delivered[calls] >= 1 => delivered'[calls] >= 1
      BY <2>0, <1>5
    <2>2. \A i \in Copies' : outbox'[i].no = calls
      BY <2>0, <1>10 DEF PublishEvidence
    <2>3. ASSUME msg.type = TypeOf(call), msg.id = nextMsgId, 1 \in Copies  PROVE delivered'[calls] >= 1
      <3>1. msg.no = calls
        BY <2>0, <2>3, <1>2 DEF PublishEvidence
      <3>2. CASE Accepts(msg)
        BY <3>1, <3>2, <2>0, <1>5
      <3>3. CASE ~Accepts(msg)
        <4>1. call = "publish2" /\ nextMsgId \in held
          BY <3>3, <2>3, <1>11 DEF Accepts, TypeOf
        <4> QED  BY <4>1, <2>0, <2>1 DEF PublishEvidence
      <3> QED  BY <3>2, <3>3
    <2>4. ASSUME call = "publish2", nextMsgId \in held'  PROVE delivered'[calls] >= 1
      <3>1. CASE nextMsgId \in held
        BY <3>1, <2>4, <2>0, <2>1 DEF PublishEvidence
      <3>2. CASE msg.type = "PUBLISH2" /\ msg.id = nextMsgId
        <4>1. msg.type = TypeOf(call) /\ 1 \in Copies
          BY <3>2, <2>4, <1>2 DEF TypeOf, Copies
        <4> QED  BY <4>1, <3>2, <2>3
      <3> QED  BY <3>1, <3>2, <2>4, <1>1 DEF Held
    <2>5. Answered' => delivered'[calls] >= 1
      BY <2>0, <2>1, <2>3, <1>9 DEF PublishEvidence
    <2>6. (\E i \in DOMAIN stack : stack[i].msg.type = "PUBREL") => delivered'[calls] >= 1
      BY <2>0, <2>1 DEF PublishEvidence
    <2> QED  BY <2>2, <2>4, <2>5, <2>6, <1>1 DEF PublishEvidence
  <1>12. ASSUME calls <= IdMax + 1, call \in {"subscribe", "unsubscribe"}, tcp  PROVE SubscribeEvidence'
    <2>0. SubscribeEvidence /\ call \in Requests
      BY <1>12 DEF TInv, Evidence, Requests
    <2>1. ASSUME NEW i \in Copies', NEW j \in DOMAIN outbox', i < j  PROVE outbox'[j].type # Other(call)
      <3>1. i + 1 \in Copies /\ j + 1 \in DOMAIN outbox /\ i + 1 < j + 1 /\ outbox'[j] = outbox[j + 1]
        BY <2>1, <1>2, <1>10
      <3> QED  BY <3>1, <2>0 DEF SubscribeEvidence
    <2>2. Answered => StandsNext(call)
      BY <2>0, <1>8, <1>12 DEF SubscribeEvidence
    <2>3. ASSUME msg.type = TypeOf(call), 1 \in Copies  PROVE StandsNext(call)
      <3>1. subscribed' = (call = "subscribe")
        BY <2>3, <1>1, <1>12 DEF TypeOf
      <3>2. \A j \in DOMAIN outbox' : outbox'[j].type # Other(call)
        BY <2>3, <2>0, <1>2 DEF SubscribeEvidence
      <3> QED  BY <3>1, <3>2 DEF StandsNext
    <2>4. Answered' => StandsNext(call)
      BY <2>0, <2>2, <2>3, <1>9
    <2> QED  BY <2>1, <2>4, <1>1 DEF SubscribeEvidence, Stands, StandsNext, Other
  <1>13. Evidence'
    BY <1>1, <1>11, <1>12 DEF Evidence
  <1>14. Results'
    <2> SUFFICES ASSUME result.ok, calls <= IdMax + 1
                 PROVE  /\ result.op \in {"publish1", "publish2"} =>
                              result.no \in 1 .. MaxCalls /\ delivered'[result.no] >= 1
                        /\ result.op \in {"subscribe", "unsubscribe"} /\ call \in {"none", "loop"} /\ tcp =>
                              StandsNext(result.op)
      BY <1>1 DEF Results, Stands, StandsNext, Other
    <2>1. result.op \in {"publish1", "publish2"} =>
             result.no \in 1 .. MaxCalls /\ delivered[result.no] >= 1
      BY DEF TInv, Results
    <2>2. result.op \in {"publish1", "publish2"} => delivered'[result.no] >= 1
      BY <2>1, <1>5
    <2>3. result.op \in {"subscribe", "unsubscribe"} /\ call \in {"none", "loop"} /\ tcp => Stands(result.op)
      BY DEF TInv, Results
    <2> QED  BY <2>1, <2>2, <2>3, <1>8
  <1> QED  BY <1>6, <1>7, <1>13, <1>14 DEF TInv

LEMMA BrokerPublishDone ==
    ASSUME IInv, TInv, NEW qos \in Inbound, BrokerPublish(qos)
    PROVE  TInv'
  <1>1. /\ UNCHANGED <<stack, call, calls, result, nextMsgId, tcp, outbox, subscribed, held, delivered>>
        /\ \E msg : inbox' = Append(inbox, msg) /\ msg.type \notin Replies
    <2>1. qos \in 0 .. 2
      BY BoundsAssumption
    <2>2. /\ Msg("PUBLISH0", 0, 0).type \notin Replies /\ Msg("PUBLISH1", inbound', 0).type \notin Replies
          /\ Msg("PUBLISH2", inbound', 0).type \notin Replies
      BY DEF Msg, Replies
    <2> QED  BY <2>1, <2>2 DEF BrokerPublish, client
  <1>2. PICK msg : inbox' = Append(inbox, msg) /\ msg.type \notin Replies
    BY <1>1
  <1>3. Reads
    <2>1. inbox \in Seq(Received)
      BY TypeFacts
    <2>2. \A i \in DOMAIN inbox' : inbox'[i] = msg \/ (i \in DOMAIN inbox /\ inbox'[i] = inbox[i])
      BY <2>1, <1>2
    <2> QED  BY <2>2, <1>2 DEF Reads
  <1> QED  BY <1>1, <1>3, SendsNothing, SilentlyDone

-----------------------------------------------------------------------------

LEMMA ConnectDone ==
    ASSUME IInv, TInv, Connect
    PROVE  TInv'
  <1> DEFINE msg == Msg("CONNECT", 0, calls + 1)
  <1>0. calls \in Nat /\ IdMax \in Nat \ {0} /\ call = "none"
    BY TypeFacts, BoundsAssumption DEF Connect
  <1>1. /\ calls' = calls + 1 /\ inbox' = <<>> /\ call' = "connect" /\ nextMsgId' = 1
        /\ stack' = <<Wait(msg)>> /\ outbox' = <<msg>> /\ held' = {}
        /\ UNCHANGED <<result, delivered>>
    BY DEF Connect
  <1>2. msg.type = "CONNECT" /\ msg.id = 0 /\ Wait(msg).msg = msg
    BY DEF Msg, Wait
  <1> HIDE DEF msg
  <1>3. DOMAIN stack' = {1} /\ stack'[1].msg = msg /\ DOMAIN outbox' = {1} /\ outbox'[1] = msg
    BY <1>1, <1>2
  <1>4. CallsMatch'
    BY <1>1, <1>2, <1>3 DEF CallsMatch
  <1>5. Fresh'
    BY <1>0, <1>1, <1>2, <1>3 DEF Fresh, Numbered, Requests
  <1>6. Evidence'
    BY <1>1 DEF Evidence
  <1>7. Results'
    BY <1>0, <1>1 DEF TInv, Results
  <1> QED  BY <1>4, <1>5, <1>6, <1>7 DEF TInv

LEMMA DisconnectDone ==
    ASSUME IInv, TInv, Disconnect
    PROVE  TInv'
  <1>0. calls \in Nat /\ IdMax \in Nat
    BY TypeFacts, BoundsAssumption
  <1>1. /\ call = "none" /\ calls' = calls + 1 /\ tcp' = FALSE /\ outbox' = <<>> /\ inbox' = <<>> /\ held' = {}
        /\ UNCHANGED <<stack, call, result, nextMsgId, delivered>>
    BY DEF Disconnect
  <1>2. stack' = <<>>
    BY <1>1, TypeFacts DEF OneCall
  <1>3. CallsMatch' /\ Fresh' /\ Evidence'
    BY <1>1, <1>2 DEF CallsMatch, Fresh, Evidence, Requests
  <1>4. Results'
    BY <1>0, <1>1 DEF TInv, Results
  <1> QED  BY <1>3, <1>4 DEF TInv

\* A call begins with an identifier that nothing under way bears, the first time
\* round.
LEMMA RequestDone ==
    ASSUME IInv, TInv, NEW op \in Requests, Request(op)
    PROVE  TInv'
  <1> DEFINE msg == Msg(TypeOf(op), nextMsgId', calls + 1)
  <1>0. /\ calls \in Nat /\ IdMax \in Nat \ {0} /\ nextMsgId \in 1 .. IdMax
        /\ outbox \in Seq(Sent) /\ stack = <<>> /\ tcp /\ call = "none"
    BY TypeFacts, BoundsAssumption DEF Scalars, Request, OneCall
  <1>1. /\ calls' = calls + 1 /\ nextMsgId' = NextPacketId /\ call' = op
        /\ stack' = <<Wait(msg)>> /\ outbox' = outbox \o <<msg>>
        /\ UNCHANGED <<result, tcp, inbox, subscribed, held, delivered>>
    BY <1>0 DEF Request, Transmit, broker
  <1>2. /\ msg.type = TypeOf(op) /\ msg.no = calls' /\ msg.id = nextMsgId' /\ Wait(msg).msg = msg
        /\ TypeOf(op) \in Numbered
    BY <1>1 DEF Msg, Wait, TypeOf, Requests, Numbered
  <1> HIDE DEF msg
  <1>3. DOMAIN stack' = {1} /\ stack'[1].msg = msg
    BY <1>1, <1>2
  <1>4. /\ DOMAIN outbox' = 1 .. Len(outbox) + 1 /\ DOMAIN outbox = 1 .. Len(outbox) /\ Len(outbox) \in Nat
        /\ \A i \in DOMAIN outbox' : \/ i \in DOMAIN outbox /\ outbox'[i] = outbox[i]
                                     \/ i = Len(outbox) + 1 /\ outbox'[i] = msg
    BY <1>0, <1>1
  <1>5. nextMsgId <= calls /\ (nextMsgId = IdMax \/ (nextMsgId < IdMax /\ nextMsgId' = nextMsgId + 1))
        /\ nextMsgId' \in {1, nextMsgId + 1} /\ nextMsgId' <= calls'
    BY <1>0, <1>1 DEF TInv, Fresh, NextPacketId
  <1>6. CallsMatch'
    <2>1. OwnNext(msg)
      BY <1>1, <1>2 DEF OwnNext
    <2> QED  BY <2>1, <1>2, <1>3 DEF CallsMatch, Own, OwnNext
  <1>7. Fresh'
    <2> SUFFICES ASSUME calls' <= IdMax
                 PROVE  /\ nextMsgId' >= 2
                        /\ \A i \in DOMAIN outbox' : outbox'[i].type \in Numbered => outbox'[i].id \in 2 .. nextMsgId'
                        /\ \A i \in DOMAIN inbox : inbox[i].type \in Replies => inbox[i].id \in 2 .. nextMsgId'
                        /\ held \subseteq 2 .. nextMsgId'
      BY <1>1, <1>5 DEF Fresh
    <2>1. calls <= IdMax /\ nextMsgId' = nextMsgId + 1 /\ 2 .. nextMsgId \subseteq 2 .. nextMsgId'
          /\ nextMsgId' \in 2 .. nextMsgId' /\ nextMsgId' >= 2
      BY <1>0, <1>1, <1>5
    <2>2. \A i \in DOMAIN outbox' : outbox'[i].type \in Numbered => outbox'[i].id \in 2 .. nextMsgId'
      BY <2>1, <1>2, <1>4 DEF TInv, Fresh
    <2>3. \A i \in DOMAIN inbox : inbox[i].type \in Replies => inbox[i].id \in 2 .. nextMsgId'
      BY <2>1 DEF TInv, Fresh
    <2>4. held \subseteq 2 .. nextMsgId'
      BY <2>1 DEF TInv, Fresh
    <2> QED  BY <2>1, <2>2, <2>3, <2>4
  <1>8. Evidence'
    <2> SUFFICES ASSUME calls' <= IdMax + 1
                 PROVE  /\ call' \in {"publish1", "publish2"} => PublishEvidence'
                        /\ call' \in {"subscribe", "unsubscribe"} /\ tcp' => SubscribeEvidence'
      BY DEF Evidence
    <2>1. calls <= IdMax /\ nextMsgId' \notin 2 .. nextMsgId
      BY <1>0, <1>1, <1>5
    <2>2. Copies' = {Len(outbox) + 1}
      <3>1. \A i \in DOMAIN outbox : ~(outbox[i].type = TypeOf(op) /\ outbox[i].id = nextMsgId')
        BY <2>1, <1>2 DEF TInv, Fresh
      <3> QED  BY <3>1, <1>1, <1>2, <1>4 DEF Copies
    <2>3. ~Answered'
      <3>1. ResponseType(TypeOf(op)) \in Replies
        BY DEF ResponseType, TypeOf, Requests, Replies
      <3>2. \A i \in DOMAIN inbox : ~(inbox[i].type = ResponseType(TypeOf(op)) /\ inbox[i].id = nextMsgId')
        BY <2>1, <3>1 DEF TInv, Fresh
      <3> QED  BY <3>2, <1>1 DEF Answered
    <2>4. nextMsgId' \notin held'
      BY <2>1, <1>1 DEF TInv, Fresh
    <2>5. \A i \in DOMAIN stack' : stack'[i].msg.type # "PUBREL"
      BY <1>2, <1>3 DEF TypeOf, Requests
    <2>6. PublishEvidence'
      BY <2>2, <2>3, <2>4, <2>5, <1>2, <1>4 DEF PublishEvidence
    <2>7. SubscribeEvidence'
      BY <2>2, <2>3, <1>4 DEF SubscribeEvidence
    <2> QED  BY <2>6, <2>7
  <1>9. Results'
    <2>1. call' \notin {"none", "loop"}
      BY <1>1 DEF Requests
    <2> QED  BY <2>1, <1>0, <1>1 DEF TInv, Results
  <1> QED  BY <1>6, <1>7, <1>8, <1>9 DEF TInv

-----------------------------------------------------------------------------

LEMMA InitDone == Init => TInv
  <1> SUFFICES ASSUME Init PROVE TInv
    OBVIOUS
  <1>1. /\ stack = <<>> /\ call = "none" /\ result = NoCall /\ tcp = FALSE
        /\ outbox = <<>> /\ inbox = <<>> /\ held = {}
    BY DEF Init
  <1>2. result.op = "none"
    BY <1>1 DEF NoCall
  <1> QED  BY <1>1, <1>2 DEF TInv, CallsMatch, Fresh, Evidence, Results, Requests

LEMMA StepDone == IInv /\ TInv /\ [Next]_vars => TInv'
  <1> SUFFICES ASSUME IInv, TInv, [Next]_vars PROVE TInv'
    OBVIOUS
  <1>1. CASE Application
    BY <1>1, ConnectDone, RequestDone, PublishQos0Done, DisconnectDone DEF Application
  <1>2. CASE LoopStop
    BY <1>2, ClosedDone DEF LoopStop, client
  <1>3. CASE LoopRun
    BY <1>3, LoopRunDone
  <1>4. CASE WaitStep
    BY <1>4, WaitStepDone
  <1>5. CASE BrokerReceive
    BY <1>5, BrokerReceiveDone
  <1>6. CASE Vanish
    <2>1. Sends
      BY <1>6 DEF Vanish, Sends
    <2> QED  BY <2>1, <1>6, ReadsFacts, SilentlyDone DEF Vanish, client, broker
  <1>7. ASSUME NEW qos \in Inbound, BrokerPublish(qos)  PROVE TInv'
    BY <1>7, BrokerPublishDone
  <1>8. CASE ConnectionLost
    BY <1>8, ClosedDone DEF ConnectionLost, client
  <1>9. CASE BrokerFallsSilent \/ Tick \/ LoopOffline \/ UNCHANGED vars
    <2>1. UNCHANGED <<stack, call, calls, result, nextMsgId, tcp, outbox, inbox, subscribed, held, delivered>>
      BY <1>9 DEF BrokerFallsSilent, Tick, LoopOffline, client, network, broker, vars
    <2> QED  BY <2>1, SendsNothing, ReadsFacts, SilentlyDone
  <1> QED  BY <1>1, <1>2, <1>3, <1>4, <1>5, <1>6, <1>7, <1>8, <1>9 DEF Next, Loop, Broker

\* A call the application was answered for with true has had its effect at the
\* broker: publish() was accepted, at QoS 2 exactly once, and what subscribe() or
\* unsubscribe() asked for stands and nothing under way changes it, whatever was
\* retransmitted, answered late or swallowed by a nested wait, until the packet
\* identifiers come round again.
THEOREM TrueIsDone == Spec => []TrueMeansDone
  <1>1. IInv /\ TInv => TrueMeansDone
    <2> SUFFICES ASSUME IInv, TInv, result.ok, calls <= IdMax + 1
                 PROVE  /\ result.op = "publish1" => delivered[result.no] >= 1
                        /\ result.op = "publish2" => delivered[result.no] = 1
                        /\ result.op = "subscribe" /\ call = "none" /\ tcp => subscribed
                        /\ result.op = "unsubscribe" /\ call = "none" /\ tcp => ~subscribed
      BY DEF TrueMeansDone
    <2>1. result.op \in {"publish1", "publish2"} =>
             result.no \in 1 .. MaxCalls /\ delivered[result.no] >= 1
      BY DEF TInv, Results
    <2>2. result.op = "publish2" => delivered[result.no] \in Nat /\ delivered[result.no] <= 1
      BY <2>1, TypeFacts DEF IInv, OnceEach, Once, Scalars
    <2>3. result.op \in {"subscribe", "unsubscribe"} /\ call = "none" /\ tcp => Stands(result.op)
      BY DEF TInv, Results
    <2>4. result.op = "publish2" => delivered[result.no] = 1
      BY <2>1, <2>2
    <2>5. result.op \in {"subscribe", "unsubscribe"} /\ call = "none" /\ tcp =>
             subscribed = (result.op = "subscribe")
      BY <2>3 DEF Stands
    <2> QED  BY <2>1, <2>4, <2>5
  <1> QED  BY <1>1, InitDone, StepDone, Inductive, PTL DEF Spec
-----------------------------------------------------------------------------
(* A live broker is kept                                                     *)
(*                                                                           *)
(* loop() closes the connection on a ping that is not answered when the next *)
(* is due.  Such a ping or its answer is under way, unless the callback has  *)
(* discarded it, and the clock counts this (waited) from the step on that    *)
(* sent the ping and set both ages to zero: neither age is above the count.  *)

UnderWay == Holds(outbox, "PINGREQ") \/ Holds(inbox, "PINGRESP")

Lively ==
    ~silent /\ tcp /\ pingOutstanding /\ ~dropped =>
        UnderWay /\ sinceIn <= waited /\ sinceOut <= waited

LEMMA HoldsMore ==
    ASSUME NEW S, NEW s \in Seq(S), NEW t \in Seq(S), NEW type, Holds(s, type) \/ Holds(t, type)
    PROVE  Holds(s \o t, type)
  <1>1. CASE Holds(s, type)
    <2>1. PICK i \in DOMAIN s : s[i].type = type
      BY <1>1 DEF Holds
    <2>2. i \in DOMAIN (s \o t) /\ (s \o t)[i] = s[i]
      BY ConcatFacts
    <2> QED  BY <2>1, <2>2 DEF Holds
  <1>2. CASE Holds(t, type)
    <2>1. PICK i \in DOMAIN t : t[i].type = type
      BY <1>2 DEF Holds
    <2>2. Len(s) + i \in DOMAIN (s \o t) /\ (s \o t)[Len(s) + i] = t[i]
      OBVIOUS
    <2> QED  BY <2>1, <2>2 DEF Holds
  <1> QED  BY <1>1, <1>2

LEMMA HoldsTail ==
    ASSUME NEW S, NEW s \in Seq(S), s # <<>>, NEW type, Holds(s, type), Head(s).type # type
    PROVE  Holds(Tail(s), type)
  <1>1. PICK i \in DOMAIN s : s[i].type = type
    BY DEF Holds
  <1>2. i # 1
    BY <1>1
  <1>3. i - 1 \in DOMAIN Tail(s) /\ Tail(s)[i - 1] = s[i]
    BY <1>2
  <1> QED  BY <1>1, <1>3 DEF Holds

LEMMA HoldsOne ==
    ASSUME NEW m, NEW type, m.type = type
    PROVE  Holds(<<m>>, type)
  <1>1. 1 \in DOMAIN <<m>> /\ <<m>>[1] = m
    OBVIOUS
  <1> QED  BY <1>1 DEF Holds

\* What is sent does not displace what is under way.
LEMMA TransmitHolds ==
    ASSUME IInv, tcp, NEW msgs \in Seq(Sent), Transmit(msgs), NEW type,
           Holds(outbox, type) \/ Holds(msgs, type)
    PROVE  Holds(outbox', type)
  <1>1. outbox \in Seq(Sent) /\ outbox' = outbox \o msgs
    BY TypeFacts DEF Transmit
  <1> QED  BY <1>1, HoldsMore

\* What lets a ping that was under way be under way still.
PingGoesOn ==
    /\ Holds(outbox, "PINGREQ") => Holds(outbox', "PINGREQ") \/ Holds(inbox', "PINGRESP")
    /\ Holds(inbox, "PINGRESP") => Holds(inbox', "PINGRESP")

LEMMA LivelyKept ==
    ASSUME IInv, PastOK, Lively, tcp' => tcp, UNCHANGED <<silent, waited>>,
           sinceIn' \in {0, sinceIn}, sinceOut' \in {0, sinceOut},
           tcp' /\ pingOutstanding' /\ ~dropped' => pingOutstanding /\ ~dropped /\ PingGoesOn
    PROVE  Lively'
  <1> SUFFICES ASSUME ~silent, tcp, tcp', pingOutstanding', ~dropped'
               PROVE  UnderWay' /\ sinceIn' <= waited /\ sinceOut' <= waited
    BY DEF Lively
  <1>1. KeepAlive \in Nat \ {0} /\ sinceIn \in Nat /\ sinceOut \in Nat /\ waited \in Nat
    BY TypeFacts, BoundsAssumption DEF Scalars, Age, PastOK
  <1>2. UnderWay /\ sinceIn <= waited /\ sinceOut <= waited /\ PingGoesOn
    BY DEF Lively
  <1> QED  BY <1>1, <1>2 DEF UnderWay, PingGoesOn

LEMMA FailedWaitLively ==
    ASSUME IInv, PastOK, Lively, stack # <<>>, NEW input, WaitFailed(input), UNCHANGED silent,
           UNCHANGED <<pingOutstanding, waited, dropped>>, sinceIn' \in {0, sinceIn},
           Holds(inbox, "PINGRESP") => Holds(input, "PINGRESP")
    PROVE  Lively'
  <1>0. Top.msg \in Sent
    BY StackFacts
  <1>1. CASE CanRetry
    <2>1. /\ Transmit(<<Top.msg>>) /\ inbox' = input /\ sinceOut' = 0
          /\ UNCHANGED <<call, tcp>> /\ tcp
      BY <1>1 DEF WaitFailed, Retry, Resent, CanRetry
    <2>2. Holds(outbox, "PINGREQ") => Holds(outbox', "PINGREQ")
      BY <1>0, <2>1, OneMessage, TransmitHolds
    <2>3. PingGoesOn
      BY <2>1, <2>2 DEF PingGoesOn
    <2> QED  BY <2>1, <2>3, LivelyKept
  <1>2. CASE ~CanRetry
    <2>1. /\ UNCHANGED sinceOut
          /\ \/ Top.msg.type = "CONNECT" /\ tcp' = FALSE
             \/ Top.msg.type # "CONNECT" /\ inbox' = input /\ UNCHANGED <<tcp, outbox>>
      BY <1>2 DEF WaitFailed, GiveUp, Return
    <2>2. CASE Top.msg.type = "CONNECT"
      BY <2>1, <2>2 DEF Lively
    <2>3. CASE Top.msg.type # "CONNECT"
      <3>1. PingGoesOn
        BY <2>1, <2>3 DEF PingGoesOn
      <3> QED  BY <2>1, <2>3, <3>1, LivelyKept
    <2> QED  BY <2>2, <2>3
  <1> QED  BY <1>1, <1>2

LEMMA SuccessfulWaitLively ==
    ASSUME IInv, PastOK, Lively, stack # <<>>, WaitSucceeded,
           UNCHANGED <<tcp, silent, pingOutstanding, waited, dropped>>,
           sinceIn' = 0, Holds(inbox, "PINGRESP") => Holds(inbox', "PINGRESP")
    PROVE  Lively'
  <1>0. Top.msg \in Sent /\ Top.msg.id \in Nat
    BY StackFacts, BoundsAssumption DEF Sent, Publications
  <1>1. /\ (call' = call \/ call' = "none") /\ sinceOut' \in {0, sinceOut}
        /\ \/ UNCHANGED outbox
           \/ Transmit(<<Msg("PUBREL", Top.msg.id, 0)>>)
           \/ Transmit(<<Msg("PUBCOMP", Top.msg.id, 0)>>)
    BY DEF WaitSucceeded, Return
  <1>2. Msg("PUBREL", Top.msg.id, 0) \in Sent /\ Msg("PUBCOMP", Top.msg.id, 0) \in Sent
    BY <1>0 DEF Msg, Sent, Plain
  <1>3. ASSUME tcp, Holds(outbox, "PINGREQ")  PROVE Holds(outbox', "PINGREQ")
    <2>1. CASE UNCHANGED outbox
      BY <1>3, <2>1
    <2>2. ASSUME NEW m \in Sent, Transmit(<<m>>)  PROVE Holds(outbox', "PINGREQ")
      BY <1>3, <2>2, OneMessage, TransmitHolds
    <2> QED  BY <1>1, <1>2, <2>1, <2>2
  <1>4. tcp' => PingGoesOn
    BY <1>3 DEF PingGoesOn
  <1> QED  BY <1>1, <1>4, LivelyKept

\* A message is processed, and the callback may discard the answer to a ping.
LEMMA ProcessedLively ==
    ASSUME IInv, tcp, inbox # <<>>, NEW base, NEW before \in Seq(Sent),
           Process(Head(inbox), base, before)
    PROVE  /\ sinceIn' = 0 /\ sinceOut' \in {0, sinceOut} /\ (~dropped' => ~dropped)
           /\ before # <<>> => sinceOut' = 0
           /\ Holds(outbox, "PINGREQ") \/ Holds(before, "PINGREQ") => Holds(outbox', "PINGREQ")
           /\ Holds(inbox, "PINGRESP") /\ Head(inbox).type # "PINGRESP" /\ ~dropped' =>
                  Holds(inbox', "PINGRESP")
  <1> DEFINE msg == Head(inbox)
             rec == Msg("PUBREC", msg.id, 0)
             ack == Msg("PUBACK", msg.id, 0)
  <1>0. inbox \in Seq(Received) /\ msg \in Received /\ msg.id \in Nat
    <2>1. inbox \in Seq(Received) /\ msg \in Received
      BY TypeFacts, TailFacts
    <2> QED  BY <2>1 DEF Received
  <1>1. /\ sinceIn' = 0
        /\ dropped' = (dropped \/ (Holds(Tail(inbox), "PINGRESP") /\ ~Holds(inbox', "PINGRESP")))
    BY DEF Process
  <1>2. /\ sinceOut' \in {0, sinceOut} /\ (before # <<>> => sinceOut' = 0)
        /\ Transmit(before) \/ Transmit(Append(before, rec)) \/ Transmit(Append(before, ack))
    BY DEF Process
  <1>3. rec \in Sent /\ ack \in Sent
    BY <1>0 DEF Msg, Sent, Plain
  <1>4. ASSUME NEW msgs \in Seq(Sent), Transmit(msgs), Holds(before, "PINGREQ") => Holds(msgs, "PINGREQ"),
               Holds(outbox, "PINGREQ") \/ Holds(before, "PINGREQ")
        PROVE  Holds(outbox', "PINGREQ")
    BY <1>4, TransmitHolds
  <1>5. ASSUME NEW m \in Sent
        PROVE  /\ Append(before, m) \in Seq(Sent)
               /\ Holds(before, "PINGREQ") => Holds(Append(before, m), "PINGREQ")
    <2>1. Append(before, m) = before \o <<m>> /\ <<m>> \in Seq(Sent) /\ Append(before, m) \in Seq(Sent)
      OBVIOUS
    <2> QED  BY <2>1, HoldsMore
  <1>6. Holds(outbox, "PINGREQ") \/ Holds(before, "PINGREQ") => Holds(outbox', "PINGREQ")
    <2>1. CASE Transmit(before)
      BY <2>1, <1>4
    <2>2. CASE Transmit(Append(before, rec))
      BY <2>2, <1>3, <1>4, <1>5
    <2>3. CASE Transmit(Append(before, ack))
      BY <2>3, <1>3, <1>4, <1>5
    <2> QED  BY <1>2, <2>1, <2>2, <2>3
  <1>7. Holds(inbox, "PINGRESP") /\ Head(inbox).type # "PINGRESP" /\ ~dropped' =>
           Holds(inbox', "PINGRESP")
    <2>1. Holds(inbox, "PINGRESP") /\ Head(inbox).type # "PINGRESP" => Holds(Tail(inbox), "PINGRESP")
      BY <1>0, HoldsTail
    <2> QED  BY <1>1, <2>1
  <1> QED  BY <1>1, <1>2, <1>6, <1>7

\* loop() sends a ping only with none outstanding, or closes the connection.
LEMMA LoopLively ==
    ASSUME IInv, PastOK, Lively, LoopRun
    PROVE  Lively'
  <1> DEFINE ping == Msg("PINGREQ", 0, 0)
             pings == IF PingDue THEN <<ping>> ELSE <<>>
  <1>0. /\ Scalars /\ inbox \in Seq(Received) /\ KeepAlive \in Nat \ {0}
        /\ sinceIn \in Nat /\ sinceOut \in Nat
    BY TypeFacts, BoundsAssumption DEF Scalars, Age
  <1>1. /\ tcp /\ UNCHANGED <<tcp, silent>> /\ waited' = (IF PingDue THEN 0 ELSE waited)
        /\ ~(PingDue /\ pingOutstanding)
        /\ IF inbox = <<>>
           THEN /\ Transmit(pings) /\ UNCHANGED <<inbox, dropped>>
                /\ sinceIn' = (IF PingDue THEN 0 ELSE sinceIn)
                /\ sinceOut' = (IF PingDue THEN 0 ELSE sinceOut)
                /\ pingOutstanding' = (pingOutstanding \/ PingDue)
           ELSE /\ Process(Head(inbox), <<>>, pings)
                /\ pingOutstanding' = StillOutstanding(pingOutstanding \/ PingDue, Head(inbox))
    BY DEF LoopRun, broker
  <1>2. ping \in Sent /\ ping.type = "PINGREQ"
    BY DEF Msg, Sent, Plain
  <1>3. pings \in Seq(Sent) /\ (PingDue => pings # <<>> /\ Holds(pings, "PINGREQ"))
    BY <1>2, OneMessage, HoldsOne
  <1> HIDE DEF ping, pings
  <1>4. /\ sinceIn' \in {0, sinceIn} /\ sinceOut' \in {0, sinceOut}
        /\ PingDue => sinceIn' = 0 /\ sinceOut' = 0
        /\ pingOutstanding' => pingOutstanding \/ PingDue
        /\ ~dropped' => ~dropped
        /\ Holds(outbox, "PINGREQ") \/ Holds(pings, "PINGREQ") => Holds(outbox', "PINGREQ")
        /\ pingOutstanding' /\ ~dropped' /\ Holds(inbox, "PINGRESP") => Holds(inbox', "PINGRESP")
    <2>1. CASE inbox = <<>>
      BY <2>1, <1>1, <1>3, TransmitHolds
    <2>2. CASE inbox # <<>>
      <3>1. /\ sinceIn' = 0 /\ sinceOut' \in {0, sinceOut} /\ (pings # <<>> => sinceOut' = 0)
            /\ ~dropped' => ~dropped
            /\ Holds(outbox, "PINGREQ") \/ Holds(pings, "PINGREQ") => Holds(outbox', "PINGREQ")
            /\ Holds(inbox, "PINGRESP") /\ Head(inbox).type # "PINGRESP" /\ ~dropped' =>
                  Holds(inbox', "PINGRESP")
        BY <2>2, <1>1, <1>3, ProcessedLively
      <3>2. pingOutstanding' => (pingOutstanding \/ PingDue) /\ Head(inbox).type # "PINGRESP"
        BY <2>2, <1>1 DEF StillOutstanding
      <3> QED  BY <3>1, <3>2, <1>3
    <2> QED  BY <2>1, <2>2
  <1>5. CASE PingDue
    <2>1. sinceIn' = 0 /\ sinceOut' = 0 /\ waited' = 0 /\ UnderWay'
      BY <1>1, <1>3, <1>4, <1>5 DEF UnderWay
    <2> QED  BY <2>1 DEF Lively
  <1>6. CASE ~PingDue
    BY <1>1, <1>4, <1>6, LivelyKept DEF PingGoesOn
  <1> QED  BY <1>5, <1>6

LEMMA WaitStepLively ==
    ASSUME IInv, TInv, PastOK, Lively, WaitStep
    PROVE  Lively'
  <1>0. stack # <<>> /\ Top.msg \in Sent /\ inbox \in Seq(Received) /\ UNCHANGED <<silent, waited>>
        /\ Top.msg.type \in Numbered \cup {"PUBREC", "CONNECT"}
    <2>1. stack # <<>> /\ UNCHANGED <<silent, waited>>
      BY DEF WaitStep, WaitInput, WaitExpired, WaitCheck, WaitTooLate, ReadReply, ReadOther,
             AfterOther, Waiting, broker, past
    <2> QED  BY <2>1, StackFacts, TopFacts, TypeFacts
  <1>1. CASE WaitInput \/ WaitCheck
    <2>1. UNCHANGED <<pingOutstanding, dropped, sinceIn, sinceOut, tcp, outbox, inbox>>
      BY <1>1 DEF WaitInput, WaitCheck, alive, network, past
    <2> QED  BY <2>1, <1>0, LivelyKept DEF PingGoesOn
  <1>2. CASE WaitExpired \/ WaitTooLate
    <2>1. WaitFailed(inbox) /\ UNCHANGED <<pingOutstanding, sinceIn, dropped>>
      BY <1>2 DEF WaitExpired, WaitTooLate, past
    <2> QED  BY <2>1, <1>0, FailedWaitLively
  <1>3. CASE ReadReply
    <2>1. /\ inbox # <<>> /\ Head(inbox).type = ResponseType(Top.msg.type) /\ sinceIn' = 0
          /\ UNCHANGED <<pingOutstanding, dropped>>
      BY <1>3 DEF ReadReply, past
    <2>2. Head(inbox).type # "PINGRESP"
      BY <2>1, <1>0 DEF ResponseType, Numbered
    <2>3. Holds(inbox, "PINGRESP") => Holds(Tail(inbox), "PINGRESP")
      BY <2>1, <2>2, <1>0, HoldsTail
    <2>4. CASE Matches
      <3>1. WaitSucceeded /\ inbox' = Tail(inbox) /\ UNCHANGED tcp
        BY <1>3, <2>4 DEF ReadReply
      <3> QED  BY <3>1, <2>1, <2>3, <1>0, SuccessfulWaitLively
    <2>5. CASE ~Matches
      <3>1. WaitFailed(Tail(inbox))
        BY <1>3, <2>5 DEF ReadReply
      <3> QED  BY <3>1, <2>1, <2>3, <1>0, FailedWaitLively
    <2> QED  BY <2>4, <2>5
  <1>4. CASE ReadOther
    <2> DEFINE base == <<[Top EXCEPT !.phase = "after"]>> \o Rest
    <2>1. /\ inbox # <<>> /\ UNCHANGED <<call, tcp>>
          /\ pingOutstanding' = StillOutstanding(pingOutstanding, Head(inbox))
          /\ Process(Head(inbox), base, <<>>)
      BY <1>4 DEF ReadOther
    <2> HIDE DEF base
    <2>2. CASE tcp
      <3>0. <<>> \in Seq(Sent)
        OBVIOUS
      <3>1. /\ sinceIn' = 0 /\ sinceOut' \in {0, sinceOut} /\ (~dropped' => ~dropped)
            /\ Holds(outbox, "PINGREQ") => Holds(outbox', "PINGREQ")
            /\ Holds(inbox, "PINGRESP") /\ Head(inbox).type # "PINGRESP" /\ ~dropped' =>
                  Holds(inbox', "PINGRESP")
        BY <2>1, <2>2, <3>0, ProcessedLively
      <3>2. pingOutstanding' /\ ~dropped' => pingOutstanding /\ ~dropped /\ PingGoesOn
        BY <2>1, <3>1 DEF StillOutstanding, PingGoesOn
      <3> QED  BY <2>1, <3>1, <3>2, <1>0, LivelyKept
    <2>3. CASE ~tcp
      BY <2>1, <2>3 DEF Lively
    <2> QED  BY <2>2, <2>3
  <1>5. CASE AfterOther
    <2>1. UNCHANGED <<pingOutstanding, sinceIn, dropped>>
      BY <1>5 DEF AfterOther, past
    <2>2. CASE Top.msg.type = "SUBSCRIBE" /\ isSubAckFound
      <3>1. WaitFailed(inbox)
        BY <1>5, <2>2 DEF AfterOther
      <3> QED  BY <3>1, <2>1, <2>2, <1>0, FailedWaitLively
    <2>3. CASE ~(Top.msg.type = "SUBSCRIBE" /\ isSubAckFound)
      <3>1. UNCHANGED <<call, sinceOut, tcp, outbox, inbox>>
        BY <1>5, <2>3 DEF AfterOther, network
      <3> QED  BY <2>1, <3>1, <1>0, LivelyKept DEF PingGoesOn
    <2> QED  BY <2>2, <2>3
  <1> QED  BY <1>1, <1>2, <1>3, <1>4, <1>5 DEF WaitStep

\* The broker answers a ping.
LEMMA BrokerLively ==
    ASSUME IInv, PastOK, Lively, BrokerReceive
    PROVE  Lively'
  <1> DEFINE msg == Head(outbox)
  <1>1. /\ outbox # <<>> /\ outbox' = Tail(outbox) /\ inbox' = inbox \o BrokerReply(msg)
        /\ UNCHANGED <<pingOutstanding, sinceIn, sinceOut, tcp, silent, waited, dropped>>
    BY DEF BrokerReceive, client, alive, past
  <1>2. outbox \in Seq(Sent) /\ inbox \in Seq(Received) /\ msg \in Sent
    BY <1>1, TypeFacts, TailFacts
  <1>3. msg.id \in Nat
    BY <1>2, BoundsAssumption DEF Sent, Publications
  <1>4. BrokerReply(msg) \in Seq(Received)
    BY <1>3, ReplyTyped
  <1>5. msg.type = "PINGREQ" => Holds(BrokerReply(msg), "PINGRESP")
    <2>1. Msg("PINGRESP", 0, 0).type = "PINGRESP"
      BY DEF Msg
    <2>2. msg.type = "PINGREQ" => BrokerReply(msg) = <<Msg("PINGRESP", 0, 0)>>
      BY DEF BrokerReply
    <2> QED  BY <2>1, <2>2, HoldsOne
  <1> HIDE DEF msg
  <1>6. Holds(inbox, "PINGRESP") \/ Holds(BrokerReply(msg), "PINGRESP") => Holds(inbox', "PINGRESP")
    BY <1>1, <1>2, <1>4, HoldsMore
  <1>7. Holds(outbox, "PINGREQ") /\ msg.type # "PINGREQ" => Holds(outbox', "PINGREQ")
    BY <1>1, <1>2, HoldsTail DEF msg
  <1>8. PingGoesOn
    BY <1>5, <1>6, <1>7 DEF PingGoesOn
  <1> QED  BY <1>1, <1>8, LivelyKept

LEMMA ApplicationLively ==
    ASSUME IInv, PastOK, Lively, Application
    PROVE  Lively'
  <1>1. CASE Connect
    <2>1. pingOutstanding' = FALSE
      BY <1>1 DEF Connect
    <2> QED  BY <2>1 DEF Lively
  <1>2. ASSUME NEW op \in Requests, Request(op)
        PROVE  Lively'
    <2> DEFINE msg == Msg(TypeOf(op), nextMsgId', calls')
    <2>1. /\ Transmit(<<msg>>) /\ sinceOut' = 0 /\ tcp
          /\ UNCHANGED <<pingOutstanding, sinceIn, tcp, inbox, silent, waited, dropped>>
      BY <1>2 DEF Request, broker, past
    <2>2. outbox \in Seq(Sent)
      BY TypeFacts
    <2> HIDE DEF msg
    <2>3. outbox' = outbox \o <<msg>>
      BY <2>1 DEF Transmit
    <2>4. Holds(outbox, "PINGREQ") => Holds(outbox', "PINGREQ")
      <3>1. outbox \in Seq(Sent \cup {msg}) /\ <<msg>> \in Seq(Sent \cup {msg})
        BY <2>2
      <3> QED  BY <2>3, <3>1, HoldsMore
    <2> QED  BY <2>1, <2>4, LivelyKept DEF PingGoesOn
  <1>3. CASE PublishQos0
    <2> DEFINE msg == Msg("PUBLISH0", 0, 0)
    <2>1. /\ Transmit(<<msg>>) /\ sinceOut' = 0 /\ tcp
          /\ UNCHANGED <<pingOutstanding, sinceIn, tcp, inbox, silent, waited, dropped>>
      BY <1>3 DEF PublishQos0, broker, past
    <2>2. msg \in Sent
      BY DEF Msg, Sent, Plain
    <2> HIDE DEF msg
    <2>3. Holds(outbox, "PINGREQ") => Holds(outbox', "PINGREQ")
      BY <2>1, <2>2, OneMessage, TransmitHolds
    <2> QED  BY <2>1, <2>3, LivelyKept DEF PingGoesOn
  <1>4. CASE Disconnect
    BY <1>4 DEF Disconnect, Lively
  <1> QED  BY <1>1, <1>2, <1>3, <1>4 DEF Application

\* The clock counts for a ping that is under way as it does for the ages.
LEMMA TickLively ==
    ASSUME IInv, PastOK, Lively, Tick
    PROVE  Lively'
  <1>1. /\ UNCHANGED <<pingOutstanding, tcp, outbox, inbox, silent, dropped>>
        /\ sinceIn' = Older(sinceIn) /\ sinceOut' = Older(sinceOut)
        /\ waited' = IF UnderWay THEN Older(waited) ELSE waited
    BY DEF Tick, network, broker, UnderWay
  <1>2. /\ KeepAlive \in Nat /\ sinceIn \in Age /\ sinceOut \in Age /\ waited \in Age
    BY TypeFacts, BoundsAssumption DEF Scalars, PastOK
  <1>3. \A a, b \in Age : a <= b => Older(a) <= Older(b)
    BY <1>2 DEF Age, Older
  <1>4. UnderWay' = UnderWay
    BY <1>1 DEF UnderWay
  <1> QED  BY <1>1, <1>2, <1>3, <1>4 DEF Lively

LEMMA OthersLively ==
    ASSUME IInv, PastOK, Lively,
           \/ LoopStop \/ LoopOffline \/ Vanish \/ BrokerFallsSilent \/ ConnectionLost
           \/ UNCHANGED vars \/ \E qos \in Inbound : BrokerPublish(qos)
    PROVE  Lively'
  <1>1. CASE LoopOffline \/ UNCHANGED vars
    <2>1. UNCHANGED <<pingOutstanding, sinceIn, sinceOut, tcp, outbox, inbox, silent, waited, dropped>>
      BY <1>1 DEF LoopOffline, vars, alive, network, broker, past
    <2> QED  BY <2>1, LivelyKept DEF PingGoesOn
  <1>2. CASE Vanish
    <2>1. silent /\ UNCHANGED silent
      BY <1>2 DEF Vanish, broker
    <2> QED  BY <2>1 DEF Lively
  <1>3. CASE BrokerFallsSilent
    BY <1>3 DEF BrokerFallsSilent, Lively
  <1>4. CASE LoopStop \/ ConnectionLost
    BY <1>4 DEF LoopStop, ConnectionLost, Lively
  <1>5. ASSUME NEW qos \in Inbound, BrokerPublish(qos)
        PROVE  Lively'
    <2>1. PICK m : inbox' = Append(inbox, m)
      BY <1>5 DEF BrokerPublish
    <2>2. UNCHANGED <<pingOutstanding, sinceIn, sinceOut, tcp, outbox, silent, waited, dropped>>
      BY <1>5 DEF BrokerPublish, alive, past
    <2>3. inbox \in Seq(Received)
      BY TypeFacts
    <2>4. Holds(inbox, "PINGRESP") => Holds(inbox', "PINGRESP")
      <3>1. /\ inbox \in Seq(Received \cup {m}) /\ <<m>> \in Seq(Received \cup {m})
            /\ inbox' = inbox \o <<m>>
        BY <2>1, <2>3
      <3> QED  BY <3>1, HoldsMore
    <2> QED  BY <2>2, <2>4, LivelyKept DEF PingGoesOn
  <1> QED  BY <1>1, <1>2, <1>3, <1>4, <1>5

LEMMA StepLively ==
    ASSUME IInv, TInv, PastOK, Lively, [Next]_vars
    PROVE  Lively'
  <1>1. CASE Application
    BY <1>1, ApplicationLively
  <1>2. CASE LoopRun
    BY <1>2, LoopLively
  <1>3. CASE WaitStep
    BY <1>3, WaitStepLively
  <1>4. CASE BrokerReceive
    BY <1>4, BrokerLively
  <1>5. CASE Tick
    BY <1>5, TickLively
  <1>6. CASE \/ LoopStop \/ LoopOffline \/ Vanish \/ BrokerFallsSilent \/ ConnectionLost
             \/ UNCHANGED vars \/ \E qos \in Inbound : BrokerPublish(qos)
    BY <1>6, OthersLively
  <1> QED  BY <1>1, <1>2, <1>3, <1>4, <1>5, <1>6 DEF Next, Loop, Broker

\* loop() closes a connection to a broker that answers only when a ping and its
\* answer were under way for more than a whole period, or the callback has
\* discarded the answer: whatever the device is busy with meanwhile, whatever
\* calls wait and nest, and whatever it sends and receives itself.
THEOREM LiveBrokerStays == Spec => LiveBrokerKept
  <1>1. Init => Lively
    BY DEF Init, Lively
  <1>2. IInv /\ PastOK /\ Lively => [LoopStop => silent \/ dropped \/ waited > KeepAlive]_vars
    <2> SUFFICES ASSUME IInv, PastOK, Lively, LoopStop, ~silent, ~dropped
                 PROVE  waited > KeepAlive
      OBVIOUS
    <2>1. sinceIn <= waited /\ sinceOut <= waited /\ PingDue
      BY DEF LoopStop, Lively
    <2>2. KeepAlive \in Nat /\ sinceIn \in Nat /\ sinceOut \in Nat /\ waited \in Nat
      BY TypeFacts, BoundsAssumption DEF Scalars, Age, PastOK
    <2> QED  BY <2>1, <2>2 DEF PingDue
  <1>3. IInv /\ TInv /\ PastOK /\ Lively /\ [Next]_vars => Lively'
    BY StepLively
  <1> QED  BY <1>1, <1>2, <1>3, InitDone, StepDone, Inductive, PastCorrect, PTL DEF Spec, LiveBrokerKept
=============================================================================
