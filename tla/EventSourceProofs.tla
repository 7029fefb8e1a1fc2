-------------------------- MODULE EventSourceProofs --------------------------
(***************************************************************************)
(* Proofs about the server-sent events, for any number of listeners and    *)
(* events, and any sizes.                                                  *)
(*                                                                         *)
(* That no event is sent twice follows from the queues alone.  That they   *)
(* are sent in order does not: an acknowledgement takes messages out of    *)
(* the queue by counting bytes, and must never take one that has not been  *)
(* sent.  The invariant counts what can still be acknowledged: it is less  *)
(* than the messages sent and one more of the queue, because the first     *)
(* acknowledgement, which makes the client, is not counted against them.   *)
(***************************************************************************)
EXTENDS EventSource, FiniteSetTheorems, WellFoundedInduction, TLAPS

Messages  == [event : Nat, sent : BOOLEAN, acked : Nat]
Clients   == [st : {"none", "response", "client", "gone"}, queue : Seq(Messages)]

Types ==
    /\ even \in BOOLEAN
    /\ listener \in [Listeners -> Clients]
    /\ out \in [Listeners -> Seq(Nat)] /\ meant \in [Listeners -> Seq(Nat)]
    /\ flight \in [Listeners -> Nat] /\ reports \in [Listeners -> Seq(Nat \ {0})]
    /\ event \in Nat
    /\ task \in [todo : Seq(Listeners), at : Nat, event : Nat, left : Nat]

\* The task credits bytes to one listener, or runs the queue of the first of some
\* who get an event; the others have not got it yet.
TaskFits ==
    /\ \/ task = Idle
       \/ task.at > 0 /\ task.left = 0 /\ task.todo # <<>>
       \/ task.at = 0 /\ task.left > 0 /\ Len(task.todo) = 1
    /\ IsInjective(task.todo) /\ task.event <= event
    /\ \A i \in DOMAIN task.todo :
          /\ listener[task.todo[i]].st = "client"
          /\ i > 1 => task.event \notin ToSet(meant[task.todo[i]])

\* Each event is queued once for a client, and sent once: "o" has been sent to
\* it of what was meant for it, "m".
Apart(client, o, m, last) ==
    /\ client.st # "client" => client.queue = <<>>
    /\ client.st \in {"none", "response"} => o = <<>>
    /\ \A i \in DOMAIN m : m[i] <= last
    /\ \A i \in DOMAIN o : o[i] \in ToSet(m)
    /\ IsInjective(o)
    /\ \A i \in DOMAIN client.queue :
          /\ client.queue[i].event \in ToSet(m)
          /\ ~client.queue[i].sent => client.queue[i].event \notin ToSet(o)
          /\ \A j \in DOMAIN client.queue : i # j => client.queue[i].event # client.queue[j].event
Separate == \A c \in Listeners : Apart(listener[c], out[c], meant[c], event)

\* The first k messages of the queue are the ones that have been sent.
InOrder(queue, o, m, k) ==
    /\ k \in 0 .. Len(queue)
    /\ \A i \in DOMAIN queue : queue[i].sent <=> i <= k
    /\ m = o \o Behind(queue, k)

\* sums[i] is what the first i reports add up to.
Sums(r, sums) ==
    /\ sums \in [0 .. Len(r) -> Nat] /\ sums[0] = 0
    /\ \A i \in DOMAIN r : sums[i] = sums[i - 1] + r[i]
\* With "more", what is in flight and what is reported add up to "most" at most.
Owed(f, r, more, most) == \E sums : Sums(r, sums) /\ more + f + sums[Len(r)] <= most

\* Only the message in front has been acknowledged a part.
FrontAcked(queue) == IF queue = <<>> THEN 0 ELSE Head(queue).acked
Counted(queue, f, r, more, k) ==
    /\ \A i \in DOMAIN queue : i > 1 => queue[i].acked = 0
    /\ Owed(f, r, more + FrontAcked(queue), k * EventSize + EventSize - 1)

Credits(c) == IF task.left > 0 /\ Head(task.todo) = c THEN task.left ELSE 0

\* With events of one size, a message that is passed over finds no room, and
\* those behind it find none either.
InLine(c, k) ==
    /\ InOrder(listener[c].queue, out[c], meant[c], k)
    /\ Counted(listener[c].queue, flight[c], reports[c], Credits(c), k)
    /\ task.at > k + 1 /\ Head(task.todo) = c => EventSpace(c) < EventSize
Straight(c) ==
    /\ listener[c].st = "none" => flight[c] = 0 /\ reports[c] = <<>>
    /\ listener[c].st = "response" => Owed(flight[c], reports[c], 0, EventHead)
    /\ listener[c].st = "client" => \E k \in Nat : InLine(c, k)
AllStraight == even => \A c \in Listeners : Straight(c)

EInv == Types /\ TaskFits /\ Separate /\ AllStraight

-----------------------------------------------------------------------------
(* Sequences                                                                 *)

LEMMA TailFacts ==
    ASSUME NEW S, NEW s \in Seq(S), s # <<>>
    PROVE  /\ Head(s) = s[1] /\ Head(s) \in S /\ Tail(s) \in Seq(S)
           /\ 1 \in DOMAIN s /\ Len(s) \in Nat /\ Len(Tail(s)) = Len(s) - 1
           /\ \A i \in DOMAIN Tail(s) : i \in Nat /\ i # 0 /\ i + 1 \in DOMAIN s /\ Tail(s)[i] = s[i + 1]
  OBVIOUS

LEMMA AppendFacts ==
    ASSUME NEW S, NEW s \in Seq(S), NEW x \in S
    PROVE  /\ Append(s, x) \in Seq(S) /\ Len(s) \in Nat /\ Len(Append(s, x)) = Len(s) + 1
           /\ DOMAIN s = 1 .. Len(s) /\ DOMAIN Append(s, x) = 1 .. Len(s) + 1
           /\ \A i \in DOMAIN s : i \in DOMAIN Append(s, x) /\ Append(s, x)[i] = s[i]
           /\ Append(s, x)[Len(s) + 1] = x
           /\ \A i \in DOMAIN Append(s, x) : i \in DOMAIN s \/ i = Len(s) + 1
           /\ Append(s, x) # <<>>
  OBVIOUS

LEMMA HeadAppend ==
    ASSUME NEW S, NEW s \in Seq(S), NEW x \in S
    PROVE  Head(Append(s, x)) = IF s = <<>> THEN x ELSE Head(s)
  <1>1. Append(s, x) # <<>> /\ Append(s, x) \in Seq(S) /\ Len(s) \in Nat
    BY AppendFacts
  <1>2. Head(Append(s, x)) = Append(s, x)[1]
    BY <1>1, TailFacts
  <1>3. CASE s = <<>>
    <2>1. Len(s) + 1 = 1
      BY <1>3
    <2>2. Append(s, x)[Len(s) + 1] = x
      BY AppendFacts
    <2> QED  BY <1>2, <1>3, <2>1, <2>2
  <1>4. CASE s # <<>>
    BY <1>2, <1>4, TailFacts, AppendFacts
  <1> QED  BY <1>3, <1>4

LEMMA FrontFacts ==
    ASSUME NEW S, NEW s \in Seq(S), s # <<>>, NEW x \in S
    PROVE  /\ <<x>> \o Tail(s) \in Seq(S) /\ <<x>> \o Tail(s) # <<>> /\ Head(<<x>> \o Tail(s)) = x
           /\ Len(<<x>> \o Tail(s)) = Len(s) /\ DOMAIN (<<x>> \o Tail(s)) = DOMAIN s
           /\ (<<x>> \o Tail(s))[1] = x
           /\ \A i \in DOMAIN s : i # 1 => (<<x>> \o Tail(s))[i] = s[i]
  OBVIOUS

LEMMA InjectiveAppend ==
    ASSUME NEW S, NEW s \in Seq(S), NEW x \in S, IsInjective(s), \A i \in DOMAIN s : s[i] # x
    PROVE  IsInjective(Append(s, x))
  <1>1. \A i, j \in DOMAIN Append(s, x) : Append(s, x)[i] = Append(s, x)[j] => i = j
    BY AppendFacts DEF IsInjective
  <1> QED  BY <1>1 DEF IsInjective

LEMMA BehindFacts ==
    ASSUME NEW queue \in Seq(Messages), NEW k \in 0 .. Len(queue)
    PROVE  /\ Behind(queue, k) \in Seq(Nat) /\ Len(Behind(queue, k)) = Len(queue) - k
           /\ \A i \in DOMAIN Behind(queue, k) :
                 i \in Nat /\ i # 0 /\ k + i \in DOMAIN queue /\ Behind(queue, k)[i] = queue[k + i].event
  <1>1. Len(queue) \in Nat /\ \A i \in 1 .. Len(queue) - k : k + i \in DOMAIN queue
    OBVIOUS
  <1>2. \A i \in 1 .. Len(queue) - k : queue[k + i].event \in Nat
    <2>1. \A j \in DOMAIN queue : queue[j] \in Messages
      OBVIOUS
    <2> QED  BY <2>1, <1>1 DEF Messages
  <1>3. PICK n \in Nat : n = Len(queue) - k
    BY <1>1
  <1>4. PICK b : b = [i \in 1 .. n |-> queue[k + i].event]
    OBVIOUS
  <1>5. \A i \in 1 .. n : b[i] \in Nat /\ b[i] = queue[k + i].event
    BY <1>2, <1>3, <1>4
  <1>6. b \in [1 .. n -> Nat]
    BY <1>4, <1>5
  <1>7. b \in Seq(Nat) /\ Len(b) = n /\ DOMAIN b = 1 .. n
    BY <1>6
  <1>8. Behind(queue, k) = b
    BY <1>3, <1>4 DEF Behind
  <1>9. \A i \in 1 .. n : i \in Nat /\ i # 0 /\ k + i \in DOMAIN queue
    BY <1>1, <1>3
  <1> QED  BY <1>3, <1>5, <1>7, <1>8, <1>9

\* Two sequences that agree.
LEMMA SameSeq ==
    ASSUME NEW S, NEW s \in Seq(S), NEW t \in Seq(S), Len(s) = Len(t),
           \A i \in 1 .. Len(s) : s[i] = t[i]
    PROVE  s = t
  OBVIOUS

\* An event is queued.
LEMMA BehindAppend ==
    ASSUME NEW queue \in Seq(Messages), NEW k \in 0 .. Len(queue), NEW m \in Messages
    PROVE  Behind(Append(queue, m), k) = Append(Behind(queue, k), m.event)
  <1> DEFINE a == Behind(Append(queue, m), k)
             b == Append(Behind(queue, k), m.event)
  <1>1. /\ Append(queue, m) \in Seq(Messages) /\ Len(Append(queue, m)) = Len(queue) + 1 /\ Len(queue) \in Nat
        /\ \A i \in DOMAIN queue : Append(queue, m)[i] = queue[i]
        /\ Append(queue, m)[Len(queue) + 1] = m /\ m.event \in Nat
    BY AppendFacts DEF Messages
  <1>2. k \in 0 .. Len(Append(queue, m))
    BY <1>1
  <1>3. /\ a \in Seq(Nat) /\ Len(a) = Len(queue) + 1 - k
        /\ \A i \in DOMAIN a : a[i] = Append(queue, m)[k + i].event
    <2>1. PICK q : q = Append(queue, m)
      OBVIOUS
    <2>2. /\ Behind(q, k) \in Seq(Nat) /\ Len(Behind(q, k)) = Len(q) - k
          /\ \A i \in DOMAIN Behind(q, k) : Behind(q, k)[i] = q[k + i].event
      BY <1>1, <1>2, <2>1, BehindFacts
    <2> QED  BY <1>1, <2>1, <2>2
  <1>4. /\ Behind(queue, k) \in Seq(Nat) /\ Len(Behind(queue, k)) = Len(queue) - k
        /\ \A i \in DOMAIN Behind(queue, k) : k + i \in DOMAIN queue /\ Behind(queue, k)[i] = queue[k + i].event
    BY BehindFacts
  <1>5. /\ b \in Seq(Nat) /\ Len(b) = Len(queue) - k + 1
        /\ \A i \in DOMAIN Behind(queue, k) : b[i] = queue[k + i].event
        /\ b[Len(queue) - k + 1] = m.event
    BY <1>1, <1>4, AppendFacts
  <1> HIDE DEF a, b
  <1>6. ASSUME NEW i \in 1 .. Len(a)  PROVE a[i] = b[i]
    <2>1. CASE i = Len(queue) - k + 1
      BY <2>1, <1>1, <1>3, <1>5
    <2>2. CASE i # Len(queue) - k + 1
      <3>1. i \in DOMAIN Behind(queue, k) /\ i \in DOMAIN a
        BY <2>2, <1>1, <1>3, <1>4, <1>6
      <3> QED  BY <3>1, <1>1, <1>3, <1>4, <1>5
    <2> QED  BY <2>1, <2>2
  <1>7. a = b
    BY <1>1, <1>3, <1>5, <1>6, SameSeq
  <1> QED  BY <1>7 DEF a, b

\* The first message behind those sent is sent too.
LEMMA BehindSent ==
    ASSUME NEW queue \in Seq(Messages), NEW next \in Seq(Messages), NEW k \in 0 .. Len(queue),
           k < Len(queue), Len(next) = Len(queue),
           \A i \in DOMAIN queue : next[i].event = queue[i].event
    PROVE  Behind(queue, k) = <<queue[k + 1].event>> \o Behind(next, k + 1)
  <1> DEFINE a == Behind(queue, k)
             rest == Behind(next, k + 1)
             b == <<queue[k + 1].event>> \o rest
  <1>1. /\ a \in Seq(Nat) /\ Len(a) = Len(queue) - k /\ Len(queue) \in Nat
        /\ \A i \in DOMAIN a : a[i] = queue[k + i].event
    <2>1. /\ Behind(queue, k) \in Seq(Nat) /\ Len(Behind(queue, k)) = Len(queue) - k
          /\ \A i \in DOMAIN Behind(queue, k) : Behind(queue, k)[i] = queue[k + i].event
      BY BehindFacts
    <2> QED  BY <2>1
  <1>2. k + 1 \in 0 .. Len(next) /\ k + 1 \in DOMAIN queue
    BY <1>1
  <1>3. /\ rest \in Seq(Nat) /\ Len(rest) = Len(queue) - k - 1
        /\ \A i \in DOMAIN rest : rest[i] = next[k + 1 + i].event
    <2>1. PICK j \in 0 .. Len(next) : j = k + 1
      BY <1>2
    <2>2. /\ Behind(next, j) \in Seq(Nat) /\ Len(Behind(next, j)) = Len(next) - j
          /\ \A i \in DOMAIN Behind(next, j) : Behind(next, j)[i] = next[j + i].event
      BY BehindFacts
    <2> QED  BY <1>1, <2>1, <2>2
  <1>4. queue[k + 1].event \in Nat
    <2>1. queue[k + 1] \in Messages
      BY <1>2
    <2> QED  BY <2>1 DEF Messages
  <1> HIDE DEF a, rest
  <1>5. /\ b \in Seq(Nat) /\ Len(b) = Len(queue) - k
        /\ b[1] = queue[k + 1].event
        /\ \A i \in 2 .. Len(queue) - k : i - 1 \in DOMAIN rest /\ b[i] = rest[i - 1]
    BY <1>1, <1>3, <1>4
  <1> HIDE DEF b
  <1>6. ASSUME NEW i \in 1 .. Len(a)  PROVE a[i] = b[i]
    <2>1. CASE i = 1
      <3>1. i \in DOMAIN a
        BY <1>1, <1>6
      <3> QED  BY <2>1, <3>1, <1>1, <1>5
    <2>2. CASE i # 1
      <3>1. i \in 2 .. Len(queue) - k /\ i \in DOMAIN a /\ k + i \in DOMAIN queue
        BY <2>2, <1>1, <1>6
      <3>2. b[i] = next[k + 1 + (i - 1)].event
        BY <3>1, <1>3, <1>5
      <3>3. k + 1 + (i - 1) = k + i
        BY <3>1
      <3> QED  BY <3>1, <3>2, <3>3, <1>1
    <2> QED  BY <2>1, <2>2
  <1>7. a = b
    BY <1>1, <1>5, <1>6, SameSeq
  <1> QED  BY <1>7 DEF a, b, rest

\* The message in front leaves, and was sent.
LEMMA BehindTail ==
    ASSUME NEW queue \in Seq(Messages), NEW k \in 1 .. Len(queue)
    PROVE  Behind(Tail(queue), k - 1) = Behind(queue, k)
  <1>1. queue # <<>> /\ Len(queue) \in Nat
    OBVIOUS
  <1>2. /\ Tail(queue) \in Seq(Messages) /\ Len(Tail(queue)) = Len(queue) - 1
        /\ \A i \in DOMAIN Tail(queue) : Tail(queue)[i] = queue[i + 1]
    BY <1>1, TailFacts
  <1>3. k - 1 \in 0 .. Len(Tail(queue)) /\ k \in 0 .. Len(queue)
    BY <1>1, <1>2
  <1>4. /\ Behind(queue, k) \in Seq(Nat) /\ Len(Behind(queue, k)) = Len(queue) - k
        /\ \A i \in DOMAIN Behind(queue, k) : Behind(queue, k)[i] = queue[k + i].event
    BY <1>3, BehindFacts
  <1>5. /\ Behind(Tail(queue), k - 1) \in Seq(Nat) /\ Len(Behind(Tail(queue), k - 1)) = Len(queue) - k
        /\ \A i \in DOMAIN Behind(Tail(queue), k - 1) :
              /\ i \in Nat /\ (k - 1) + i \in DOMAIN Tail(queue)
              /\ Behind(Tail(queue), k - 1)[i] = Tail(queue)[(k - 1) + i].event
    <2>1. Len(Tail(queue)) - (k - 1) = Len(queue) - k
      BY <1>1, <1>2
    <2> QED  BY <2>1, <1>2, <1>3, BehindFacts
  <1>6. ASSUME NEW i \in 1 .. Len(queue) - k
        PROVE  Behind(Tail(queue), k - 1)[i] = Behind(queue, k)[i]
    <2>1. i \in DOMAIN Behind(Tail(queue), k - 1) /\ i \in DOMAIN Behind(queue, k)
      BY <1>4, <1>5, <1>6
    <2>2. ((k - 1) + i) + 1 = k + i
      BY <1>6
    <2> QED  BY <2>1, <2>2, <1>2, <1>4, <1>5
  <1> QED  BY <1>4, <1>5, <1>6, SameSeq

LEMMA BehindSame ==
    ASSUME NEW queue \in Seq(Messages), NEW next \in Seq(Messages), NEW k \in 0 .. Len(queue),
           Len(next) = Len(queue), \A i \in DOMAIN queue : next[i].event = queue[i].event
    PROVE  Behind(next, k) = Behind(queue, k)
  <1>1. \A i \in 1 .. Len(queue) - k : k + i \in DOMAIN queue
    OBVIOUS
  <1> QED  BY <1>1 DEF Behind

-----------------------------------------------------------------------------
(* What the reports add up to                                                *)

LEMMA OwedNone ==
    ASSUME NEW f \in Nat, NEW most \in Int, f <= most
    PROVE  Owed(f, <<>>, 0, most)
  <1>1. PICK sums : sums = [i \in 0 .. Len(<<>>) |-> 0]
    OBVIOUS
  <1>2. Sums(<<>>, sums) /\ sums[Len(<<>>)] = 0
    BY <1>1 DEF Sums
  <1>3. 0 + f + sums[Len(<<>>)] <= most
    BY <1>2
  <1> QED  BY <1>2, <1>3 DEF Owed

LEMMA SumsLast ==
    ASSUME NEW r \in Seq(Nat \ {0}), NEW sums, Sums(r, sums)
    PROVE  sums[Len(r)] \in Nat
  BY DEF Sums

LEMMA OwedLess ==
    ASSUME NEW f \in Nat, NEW r \in Seq(Nat \ {0}), NEW more \in Int, NEW most \in Int,
           NEW less \in Int, NEW least \in Int, less - least <= more - most, Owed(f, r, more, most)
    PROVE  Owed(f, r, less, least)
  <1>1. PICK sums : Sums(r, sums) /\ more + f + sums[Len(r)] <= most
    BY DEF Owed
  <1>2. less + f + sums[Len(r)] <= least
    BY <1>1, SumsLast
  <1> QED  BY <1>1, <1>2 DEF Owed

LEMMA LeastElement ==
    ASSUME NEW T \in SUBSET Nat, T # {}
    PROVE  \E n \in T : \A j \in T : n <= j
  <1>1. PICK n \in T : \A j \in T : ~(<<j, n>> \in OpToRel(<, Nat))
    BY NatLessThanWellFounded, WFMin, Zenon
  <1>2. \A j \in T : ~(j < n)
    BY <1>1 DEF OpToRel
  <1> QED  BY <1>2

\* The first report is handled.
LEMMA OwedTail ==
    ASSUME NEW f \in Nat, NEW r \in Seq(Nat \ {0}), r # <<>>, NEW more \in Int, NEW most \in Int,
           Owed(f, r, more, most)
    PROVE  Owed(f, Tail(r), more + Head(r), most)
  <1>1. PICK sums : Sums(r, sums) /\ more + f + sums[Len(r)] <= most
    BY DEF Owed
  <1>2. /\ Head(r) = r[1] /\ Head(r) \in Nat /\ Tail(r) \in Seq(Nat \ {0})
        /\ 1 \in DOMAIN r /\ Len(r) \in Nat /\ Len(Tail(r)) = Len(r) - 1
        /\ \A i \in DOMAIN Tail(r) : i \in Nat /\ i # 0 /\ i + 1 \in DOMAIN r /\ Tail(r)[i] = r[i + 1]
    BY TailFacts
  <1>3. /\ sums \in [0 .. Len(r) -> Nat] /\ sums[0] = 0
        /\ \A i \in DOMAIN r : sums[i] = sums[i - 1] + r[i]
    BY <1>1 DEF Sums
  <1>4. sums[1] = r[1] /\ 1 \in 0 .. Len(r)
    BY <1>2, <1>3
  \* Sums grow.
  <1>5. \A i \in DOMAIN r : sums[i] - r[1] \in Nat
    <2> DEFINE Bad == {i \in DOMAIN r : ~(sums[i] - r[1] \in Nat)}
    <2> SUFFICES ASSUME Bad # {}  PROVE FALSE
      OBVIOUS
    <2>1. PICK n \in Bad : \A j \in Bad : n <= j
      <3>1. Bad \in SUBSET Nat
        BY <1>2
      <3> QED  BY <3>1, LeastElement
    <2>2. n # 1
      BY <2>1, <1>4
    <2>3. n - 1 \in DOMAIN r /\ n - 1 \notin Bad
      BY <2>1, <2>2, <1>2
    <2>4. sums[n - 1] - r[1] \in Nat /\ sums[n] = sums[n - 1] + r[n] /\ r[n] \in Nat
      BY <2>1, <2>3, <1>3
    <2> QED  BY <2>1, <2>4, <1>2, <1>3
  <1>6. PICK rest : rest = [i \in 0 .. Len(Tail(r)) |-> sums[i + 1] - r[1]]
    OBVIOUS
  <1>7. Sums(Tail(r), rest)
    <2>1. \A i \in 0 .. Len(Tail(r)) : i + 1 \in DOMAIN r
      BY <1>2
    <2>2. rest \in [0 .. Len(Tail(r)) -> Nat]
      BY <2>1, <1>5, <1>6
    <2>3. rest[0] = 0
      BY <1>2, <1>4, <1>6
    <2>4. ASSUME NEW i \in DOMAIN Tail(r)  PROVE rest[i] = rest[i - 1] + Tail(r)[i]
      <3>1. i \in 0 .. Len(Tail(r)) /\ i - 1 \in 0 .. Len(Tail(r)) /\ (i - 1) + 1 = i /\ i \in DOMAIN r
            /\ i + 1 \in DOMAIN r /\ Tail(r)[i] = r[i + 1]
        BY <2>4, <1>2
      <3>2. rest[i] = sums[i + 1] - r[1] /\ rest[i - 1] = sums[i] - r[1]
        BY <3>1, <1>6
      <3>3. sums[i + 1] = sums[i] + r[i + 1] /\ sums[i] \in Nat /\ r[i + 1] \in Nat
        <4>1. sums[i + 1] = sums[(i + 1) - 1] + r[i + 1]
          BY <3>1, <1>3
        <4>2. i \in 0 .. Len(r) /\ (i + 1) - 1 = i
          BY <3>1
        <4> QED  BY <3>1, <4>1, <4>2, <1>3
      <3> QED  BY <3>1, <3>2, <3>3, <1>2
    <2> QED  BY <2>2, <2>3, <2>4 DEF Sums
  <1>8. rest[Len(Tail(r))] = sums[Len(r)] - r[1] /\ sums[Len(r)] \in Nat
    BY <1>2, <1>3, <1>6
  <1>9. (more + Head(r)) + f + rest[Len(Tail(r))] <= most
    BY <1>1, <1>2, <1>8
  <1> QED  BY <1>7, <1>9 DEF Owed

LEMMA OwedNext ==
    ASSUME NEW f \in Nat, NEW r \in Seq(Nat \ {0}), r # <<>>, NEW more \in Int, NEW most \in Int,
           Owed(f, r, more, most), NEW next, next = more + Head(r)
    PROVE  Owed(f, Tail(r), next, most)
  BY OwedTail

\* Bytes in flight are acknowledged.
LEMMA OwedAppend ==
    ASSUME NEW f \in Nat, NEW r \in Seq(Nat \ {0}), NEW n \in Nat \ {0}, n <= f,
           NEW more \in Int, NEW most \in Int, Owed(f, r, more, most)
    PROVE  Owed(f - n, Append(r, n), more, most)
  <1>1. PICK sums : Sums(r, sums) /\ more + f + sums[Len(r)] <= most
    BY DEF Owed
  <1>2. /\ sums \in [0 .. Len(r) -> Nat] /\ sums[0] = 0 /\ Len(r) \in Nat
        /\ \A i \in DOMAIN r : sums[i] = sums[i - 1] + r[i]
    BY <1>1 DEF Sums
  <1>3. /\ Len(Append(r, n)) = Len(r) + 1
        /\ \A i \in DOMAIN Append(r, n) : i \in DOMAIN r \/ i = Len(r) + 1
        /\ \A i \in DOMAIN r : Append(r, n)[i] = r[i]
        /\ Append(r, n)[Len(r) + 1] = n /\ DOMAIN r = 1 .. Len(r)
    BY AppendFacts
  <1>4. PICK next : next = [i \in 0 .. Len(r) + 1 |-> IF i = Len(r) + 1 THEN sums[Len(r)] + n ELSE sums[i]]
    OBVIOUS
  <1>5. /\ next \in [0 .. Len(r) + 1 -> Nat] /\ next[0] = 0 /\ next[Len(r) + 1] = sums[Len(r)] + n
        /\ \A i \in 0 .. Len(r) : next[i] = sums[i]
    <2>1. \A i \in 0 .. Len(r) + 1 :
             next[i] \in Nat /\ (i # Len(r) + 1 => next[i] = sums[i])
      <3>1. \A i \in 0 .. Len(r) + 1 : i = Len(r) + 1 \/ i \in 0 .. Len(r)
        BY <1>2
      <3>2. sums[Len(r)] + n \in Nat
        BY <1>2
      <3> QED  BY <3>1, <3>2, <1>2, <1>4
    <2>2. next[Len(r) + 1] = sums[Len(r)] + n /\ 0 \in 0 .. Len(r) + 1 /\ 0 # Len(r) + 1
      BY <1>2, <1>4
    <2> QED  BY <2>1, <2>2, <1>2, <1>4
  <1>6. ASSUME NEW i \in DOMAIN Append(r, n)  PROVE next[i] = next[i - 1] + Append(r, n)[i]
    <2>1. CASE i \in DOMAIN r
      <3>1. i \in 1 .. Len(r) /\ i \in 0 .. Len(r) /\ i - 1 \in 0 .. Len(r)
        BY <2>1, <1>2, <1>3
      <3>2. next[i] = sums[i] /\ next[i - 1] = sums[i - 1]
        BY <3>1, <1>5
      <3> QED  BY <2>1, <3>2, <1>2, <1>3
    <2>2. CASE i = Len(r) + 1
      <3>1. i - 1 = Len(r) /\ i - 1 \in 0 .. Len(r)
        BY <2>2, <1>2
      <3>2. next[i] = sums[Len(r)] + n /\ next[i - 1] = sums[Len(r)]
        BY <2>2, <3>1, <1>5
      <3>3. Append(r, n)[i] = n
        BY <2>2, <1>3
      <3> QED  BY <3>2, <3>3
    <2> QED  BY <2>1, <2>2, <1>3
  <1>7. Sums(Append(r, n), next)
    BY <1>3, <1>5, <1>6 DEF Sums
  <1>8. more + (f - n) + next[Len(Append(r, n))] <= most
    BY <1>1, <1>2, <1>3, <1>5
  <1> QED  BY <1>7, <1>8 DEF Owed

-----------------------------------------------------------------------------
(* The listeners a step leaves alone                                         *)

LEMMA ListenerFacts ==
    ASSUME Types, NEW c \in Listeners
    PROVE  /\ listener[c] \in Clients /\ listener[c].queue \in Seq(Messages)
           /\ listener[c].st \in {"none", "response", "client", "gone"}
           /\ out[c] \in Seq(Nat) /\ meant[c] \in Seq(Nat)
           /\ flight[c] \in Nat /\ reports[c] \in Seq(Nat \ {0})
  BY DEF Types, Clients

LEMMA TaskFacts ==
    ASSUME Types
    PROVE  /\ task.todo \in Seq(Listeners) /\ task.at \in Nat /\ task.event \in Nat /\ task.left \in Nat
           /\ task = [todo |-> task.todo, at |-> task.at, event |-> task.event, left |-> task.left]
           /\ event \in Nat /\ even \in BOOLEAN
  BY DEF Types

LEMMA SizeFacts ==
    /\ EventSize \in Nat \ {0} /\ SmallSize \in Nat \ {0} /\ EventHead \in Nat \ {0} /\ EventHead <= EventSize
    /\ EventRoom \in Int
    /\ \A e \in Nat : Size(e) \in Nat \ {0} /\ (even => Size(e) = EventSize)
  <1>1. /\ EventSize \in Nat \ {0} /\ SmallSize \in Nat \ {0} /\ EventHead \in Nat \ {0} /\ EventHead <= EventSize
        /\ EventRoom \in Int
    BY EventAssumption
  <1>2. \A e \in Nat : (Size(e) = EventSize \/ Size(e) = SmallSize) /\ (even => Size(e) = EventSize)
    BY DEF Size
  <1> QED  BY <1>1, <1>2

LEMMA ApartLater ==
    ASSUME NEW client, NEW o, NEW m \in Seq(Nat), NEW last \in Nat, NEW next \in Nat, last <= next,
           Apart(client, o, m, last)
    PROVE  Apart(client, o, m, next)
  <1>1. \A i \in DOMAIN m : m[i] \in Nat
    OBVIOUS
  <1>2. \A i \in DOMAIN m : m[i] <= next
    BY <1>1 DEF Apart
  <1> QED  BY <1>2 DEF Apart

\* The task is with another listener, or does not credit and starts in front.
Aside(c) == Head(task.todo) # c \/ (task.left = 0 /\ task.at <= 1)

Kept(c) ==
    /\ listener'[c] = listener[c] /\ out'[c] = out[c] /\ meant'[c] = meant[c]
    /\ flight'[c] = flight[c] /\ reports'[c] = reports[c]

LEMMA FrontType ==
    ASSUME NEW queue \in Seq(Messages)
    PROVE  FrontAcked(queue) \in Nat
  <1>1. queue # <<>> => Head(queue) \in Messages
    BY TailFacts
  <1> QED  BY <1>1 DEF FrontAcked, Messages

LEMMA CountedLess ==
    ASSUME NEW queue \in Seq(Messages), NEW f \in Nat, NEW r \in Seq(Nat \ {0}), NEW more \in Nat,
           NEW less \in Nat, less <= more, NEW k \in Nat, Counted(queue, f, r, more, k)
    PROVE  Counted(queue, f, r, less, k)
  <1>1. FrontAcked(queue) \in Nat
    BY FrontType
  <1>2. k * EventSize + EventSize - 1 \in Int
    BY SizeFacts
  <1>3. Owed(f, r, more + FrontAcked(queue), k * EventSize + EventSize - 1)
    BY DEF Counted
  <1>4. PICK a \in Int, b \in Int, most \in Int :
          a = more + FrontAcked(queue) /\ b = less + FrontAcked(queue) /\ most = k * EventSize + EventSize - 1
    BY <1>1, <1>2
  <1>5. Owed(f, r, b, most)
    <2>1. b - most <= a - most
      BY <1>1, <1>4
    <2> QED  BY <2>1, <1>3, <1>4, OwedLess
  <1> QED  BY <1>4, <1>5 DEF Counted

LEMMA CountedNone ==
    ASSUME Types, NEW c \in Listeners, NEW more \in Nat, NEW k \in Nat,
           Counted(listener[c].queue, flight[c], reports[c], more, k)
    PROVE  Counted(listener[c].queue, flight[c], reports[c], 0, k)
  <1>1. PICK queue \in Seq(Messages), f \in Nat, r \in Seq(Nat \ {0}) :
          queue = listener[c].queue /\ f = flight[c] /\ r = reports[c]
    BY ListenerFacts
  <1>2. Counted(queue, f, r, more, k) /\ 0 \in Nat /\ 0 <= more
    BY <1>1
  <1>3. Counted(queue, f, r, 0, k)
    BY <1>2, CountedLess, Zenon
  <1> QED  BY <1>1, <1>3

LEMMA OtherListener ==
    ASSUME EInv, NEW c \in Listeners, Kept(c), even' = even, Types', event <= event',
           task' = task \/ Aside(c)'
    PROVE  Apart(listener'[c], out'[c], meant'[c], event') /\ (even => Straight(c)')
  <1>1. Types
    BY DEF EInv
  <1>2. event \in Nat /\ event' \in Nat /\ task.at \in Nat /\ task.left \in Nat /\ task'.at \in Nat
    BY <1>1 DEF Types
  <1>3. Apart(listener'[c], out'[c], meant'[c], event')
    <2>1. Apart(listener[c], out[c], meant[c], event)
      BY DEF EInv, Separate
    <2>2. Apart(listener[c], out[c], meant[c], event')
      BY <1>1, <1>2, <2>1, ListenerFacts, ApartLater
    <2> QED  BY <2>2 DEF Kept
  <1>4. ASSUME even  PROVE Straight(c)'
    <2>1. Straight(c)
      BY <1>4 DEF EInv, AllStraight
    <2>2. ASSUME listener'[c].st = "client"
          PROVE  \E k \in Nat : InLine(c, k)'
      <3>1. PICK k \in Nat : InLine(c, k)
        BY <2>1, <2>2 DEF Straight, Kept
      <3>2. InOrder(listener'[c].queue, out'[c], meant'[c], k)
        BY <3>1 DEF InLine, Kept
      <3>3. Counted(listener[c].queue, flight[c], reports[c], Credits(c), k)
        BY <3>1 DEF InLine
      <3>4. CASE task' = task
        BY <3>1, <3>4 DEF InLine, Kept, Credits, EventSpace
      <3>5. CASE Aside(c)'
        <4>1. Credits(c)' = 0 /\ Credits(c) \in Nat
          BY <3>5, <1>2 DEF Aside, Credits
        <4>2. Counted(listener[c].queue, flight[c], reports[c], 0, k)
          <5>1. PICK more \in Nat : more = Credits(c)
            BY <4>1
          <5>2. Counted(listener[c].queue, flight[c], reports[c], more, k)
            BY <3>3, <5>1
          <5> QED  BY <1>1, <5>2, CountedNone
        <4>3. Counted(listener'[c].queue, flight'[c], reports'[c], Credits(c)', k)
          BY <4>1, <4>2 DEF Kept
        <4>4. ~(task'.at > k + 1 /\ Head(task'.todo) = c)
          BY <3>5, <1>2 DEF Aside
        <4> QED  BY <3>2, <4>3, <4>4 DEF InLine
      <3> QED  BY <3>4, <3>5
    <2> QED  BY <2>1, <2>2 DEF Straight, Kept
  <1> QED  BY <1>3, <1>4

\* A step of one listener.
LEMMA StepOf ==
    ASSUME EInv, Types', TaskFits', NEW c \in Listeners, even' = even, event <= event',
           \A d \in Listeners : d # c => Kept(d) /\ (task' = task \/ Aside(d)'),
           Apart(listener'[c], out'[c], meant'[c], event'), even => Straight(c)'
    PROVE  EInv'
  <1>1. \A d \in Listeners : Apart(listener'[d], out'[d], meant'[d], event') /\ (even => Straight(d)')
    BY OtherListener
  <1>2. Separate'
    BY <1>1 DEF Separate
  <1>3. AllStraight'
    BY <1>1 DEF AllStraight
  <1> QED  BY <1>2, <1>3 DEF EInv

-----------------------------------------------------------------------------
(* An event is queued                                                        *)

LEMMA MessageFacts ==
    ASSUME NEW e \in Nat
    PROVE  Message(e) \in Messages /\ Message(e).event = e /\ Message(e).sent = FALSE /\ Message(e).acked = 0
  BY DEF Message, Messages

LEMMA QueuedApart ==
    ASSUME NEW client \in Clients, client.st = "client", NEW o \in Seq(Nat), NEW m \in Seq(Nat),
           NEW last \in Nat, Apart(client, o, m, last), NEW e \in Nat, e <= last, e \notin ToSet(m)
    PROVE  Apart([client EXCEPT !.queue = Append(client.queue, Message(e))], o, Append(m, e), last)
  <1>1. PICK queue \in Seq(Messages) : queue = client.queue
    BY DEF Clients
  <1>2. PICK next : next = Append(queue, Message(e))
    OBVIOUS
  <1>3. PICK more : more = Append(m, e)
    OBVIOUS
  <1>4. PICK after : after = [client EXCEPT !.queue = Append(client.queue, Message(e))]
    OBVIOUS
  <1>5. after.st = "client" /\ after.queue = next
    BY <1>1, <1>2, <1>4 DEF Clients
  <1>6. /\ Len(queue) \in Nat /\ DOMAIN queue = 1 .. Len(queue) /\ DOMAIN next = 1 .. Len(queue) + 1
        /\ \A i \in DOMAIN queue : next[i] = queue[i]
        /\ next[Len(queue) + 1] = Message(e)
        /\ \A i \in DOMAIN next : i \in DOMAIN queue \/ i = Len(queue) + 1
    BY <1>2, MessageFacts, AppendFacts
  <1>7. ToSet(more) = ToSet(m) \cup {e}
    <2>1. /\ Len(m) \in Nat /\ DOMAIN m = 1 .. Len(m) /\ DOMAIN more = 1 .. Len(m) + 1
          /\ \A i \in DOMAIN m : i \in DOMAIN more /\ more[i] = m[i]
          /\ more[Len(m) + 1] = e
          /\ \A i \in DOMAIN more : i \in DOMAIN m \/ i = Len(m) + 1
      BY <1>3, AppendFacts
    <2>2. Len(m) + 1 \in DOMAIN more
      BY <2>1
    <2> QED  BY <2>1, <2>2 DEF ToSet
  <1>8. \A i \in DOMAIN more : more[i] <= last
    <2>1. /\ \A i \in DOMAIN m : more[i] = m[i]
          /\ more[Len(m) + 1] = e
          /\ \A i \in DOMAIN more : i \in DOMAIN m \/ i = Len(m) + 1
      BY <1>3, AppendFacts
    <2> QED  BY <2>1 DEF Apart
  <1>9. \A i \in DOMAIN o : o[i] \in ToSet(more)
    BY <1>7 DEF Apart
  <1>10. e \notin ToSet(o)
    BY DEF Apart, ToSet
  <1>11. ASSUME NEW i \in DOMAIN next
         PROVE  /\ next[i].event \in ToSet(more)
                /\ ~next[i].sent => next[i].event \notin ToSet(o)
                /\ \A j \in DOMAIN next : i # j => next[i].event # next[j].event
    <2>1. \A j \in DOMAIN queue :
             /\ queue[j].event \in ToSet(m)
             /\ ~queue[j].sent => queue[j].event \notin ToSet(o)
             /\ \A l \in DOMAIN queue : j # l => queue[j].event # queue[l].event
      BY <1>1 DEF Apart
    <2>2. CASE i \in DOMAIN queue
      <3>1. next[i].event \in ToSet(m) /\ (~next[i].sent => next[i].event \notin ToSet(o))
        BY <1>6, <2>1, <2>2
      <3>2. \A j \in DOMAIN next : i # j => next[i].event # next[j].event
        <4>1. ASSUME NEW j \in DOMAIN next, i # j  PROVE next[i].event # next[j].event
          <5>1. CASE j \in DOMAIN queue
            BY <5>1, <4>1, <1>6, <2>1, <2>2
          <5>2. CASE j = Len(queue) + 1
            BY <5>2, <3>1, <1>6, MessageFacts
          <5> QED  BY <5>1, <5>2, <1>6
        <4> QED  BY <4>1
      <3> QED  BY <1>7, <3>1, <3>2
    <2>3. CASE i = Len(queue) + 1
      <3>1. next[i].event = e
        BY <1>6, <2>3, MessageFacts
      <3>2. \A j \in DOMAIN next : i # j => j \in DOMAIN queue /\ next[j].event \in ToSet(m)
        BY <1>6, <2>1, <2>3
      <3> QED  BY <1>7, <1>10, <3>1, <3>2
    <2> QED  BY <2>2, <2>3, <1>6
  <1>12. Apart(after, o, more, last)
    BY <1>5, <1>8, <1>9, <1>11 DEF Apart
  <1> QED  BY <1>3, <1>4, <1>12

LEMMA ConcatAppend ==
    ASSUME NEW s \in Seq(Nat), NEW t \in Seq(Nat), NEW x \in Nat
    PROVE  Append(s \o t, x) = s \o Append(t, x)
  <1>1. /\ s \o t \in Seq(Nat) /\ Len(s \o t) = Len(s) + Len(t) /\ Len(s) \in Nat /\ Len(t) \in Nat
        /\ Append(t, x) \in Seq(Nat) /\ Len(Append(t, x)) = Len(t) + 1
    OBVIOUS
  <1>2. /\ Append(s \o t, x) \in Seq(Nat) /\ Len(Append(s \o t, x)) = Len(s) + Len(t) + 1
        /\ s \o Append(t, x) \in Seq(Nat) /\ Len(s \o Append(t, x)) = Len(s) + Len(t) + 1
    BY <1>1
  <1>3. ASSUME NEW i \in 1 .. Len(s) + Len(t) + 1  PROVE Append(s \o t, x)[i] = (s \o Append(t, x))[i]
    BY <1>1, <1>3
  <1> QED  BY <1>2, <1>3, SameSeq

LEMMA QueuedInOrder ==
    ASSUME NEW queue \in Seq(Messages), NEW o \in Seq(Nat), NEW m \in Seq(Nat), NEW k, NEW e \in Nat,
           InOrder(queue, o, m, k)
    PROVE  InOrder(Append(queue, Message(e)), o, Append(m, e), k)
  <1>1. PICK next : next = Append(queue, Message(e))
    OBVIOUS
  <1>2. /\ Len(queue) \in Nat /\ Len(next) = Len(queue) + 1
        /\ \A i \in DOMAIN queue : next[i] = queue[i]
        /\ next[Len(queue) + 1] = Message(e)
        /\ \A i \in DOMAIN next : i \in DOMAIN queue \/ i = Len(queue) + 1
    BY <1>1, MessageFacts, AppendFacts
  <1>3. k \in 0 .. Len(queue) /\ (\A i \in DOMAIN queue : queue[i].sent <=> i <= k) /\ m = o \o Behind(queue, k)
    BY DEF InOrder
  <1>4. k \in 0 .. Len(next)
    BY <1>2, <1>3
  <1>5. \A i \in DOMAIN next : next[i].sent <=> i <= k
    <2>1. ~(Len(queue) + 1 <= k) /\ ~next[Len(queue) + 1].sent
      <3>1. ~(Len(queue) + 1 <= k)
        BY <1>2, <1>3
      <3>2. next[Len(queue) + 1].sent = FALSE
        BY <1>2, MessageFacts, Zenon
      <3> QED  BY <3>1, <3>2
    <2>2. \A i \in DOMAIN queue : next[i].sent <=> i <= k
      BY <1>2, <1>3
    <2> QED  BY <1>2, <2>1, <2>2
  <1>6. Append(m, e) = o \o Behind(next, k)
    <2>1. Behind(next, k) = Append(Behind(queue, k), e)
      BY <1>1, <1>3, MessageFacts, BehindAppend
    <2>2. PICK b \in Seq(Nat) : b = Behind(queue, k)
      BY <1>3, BehindFacts
    <2>3. Append(o \o b, e) = o \o Append(b, e)
      BY ConcatAppend, Zenon
    <2> QED  BY <1>3, <2>1, <2>2, <2>3
  <1>7. InOrder(next, o, Append(m, e), k)
    BY <1>4, <1>5, <1>6 DEF InOrder
  <1> QED  BY <1>1, <1>7

LEMMA QueuedCounted ==
    ASSUME NEW queue \in Seq(Messages), NEW f, NEW r, NEW more, NEW k, NEW e \in Nat,
           Counted(queue, f, r, more, k)
    PROVE  Counted(Append(queue, Message(e)), f, r, more, k)
  <1>1. PICK next : next = Append(queue, Message(e))
    OBVIOUS
  <1>2. /\ \A i \in DOMAIN queue : next[i] = queue[i]
        /\ next[Len(queue) + 1] = Message(e)
        /\ \A i \in DOMAIN next : i \in DOMAIN queue \/ i = Len(queue) + 1
        /\ next # <<>>
    BY <1>1, MessageFacts, AppendFacts
  <1>3. \A i \in DOMAIN next : i > 1 => next[i].acked = 0
    BY <1>2, MessageFacts DEF Counted
  <1>4. FrontAcked(next) = FrontAcked(queue)
    <2>1. Head(next) = IF queue = <<>> THEN Message(e) ELSE Head(queue)
      BY <1>1, MessageFacts, HeadAppend
    <2> QED  BY <1>2, <2>1, MessageFacts DEF FrontAcked
  <1>5. Counted(next, f, r, more, k)
    BY <1>3, <1>4 DEF Counted
  <1> QED  BY <1>1, <1>5

\* QueueEvent() with events of one size.
LEMMA QueuedStraight ==
    ASSUME EInv, NEW c \in Listeners, listener[c].st = "client", NEW e \in Nat,
           QueueEvent(c, e), flight' = flight, reports' = reports, out' = out,
           task.left = 0, task'.left = 0, task'.at <= 1, task'.at \in Nat, even
    PROVE  Straight(c)'
  <1>1. Types
    BY DEF EInv
  <1>2. /\ listener[c] \in Clients /\ listener[c].queue \in Seq(Messages)
        /\ out[c] \in Seq(Nat) /\ meant[c] \in Seq(Nat)
    BY <1>1, ListenerFacts
  <1>3. /\ listener'[c] = [listener[c] EXCEPT !.queue = Append(listener[c].queue, Message(e))]
        /\ meant'[c] = Append(meant[c], e)
    BY <1>1 DEF QueueEvent, Types
  <1>4. listener'[c].st = "client" /\ listener'[c].queue = Append(listener[c].queue, Message(e))
    BY <1>2, <1>3 DEF Clients
  <1>5. PICK k \in Nat : InLine(c, k)
    BY DEF EInv, AllStraight, Straight
  <1>6. InOrder(listener'[c].queue, out'[c], meant'[c], k)
    <2>1. InOrder(listener[c].queue, out[c], meant[c], k)
      BY <1>5 DEF InLine
    <2> QED  BY <2>1, <1>2, <1>3, <1>4, QueuedInOrder
  <1>7. Counted(listener'[c].queue, flight'[c], reports'[c], Credits(c)', k)
    <2>1. Counted(listener[c].queue, flight[c], reports[c], Credits(c), k)
      BY <1>5 DEF InLine
    <2>2. Credits(c) = 0 /\ Credits(c)' = 0
      BY DEF Credits
    <2>3. Counted(Append(listener[c].queue, Message(e)), flight[c], reports[c], 0, k)
      BY <2>1, <2>2, <1>2, QueuedCounted
    <2> QED  BY <2>2, <2>3, <1>4
  <1>8. ~(task'.at > k + 1)
    OBVIOUS
  <1>9. InLine(c, k)'
    BY <1>6, <1>7, <1>8 DEF InLine
  <1> QED  BY <1>4, <1>9 DEF Straight

\* The types, when an event is queued.
LEMMA QueuedTypes ==
    ASSUME Types, NEW c \in Listeners, NEW e \in Nat, QueueEvent(c, e)
    PROVE  listener' \in [Listeners -> Clients] /\ meant' \in [Listeners -> Seq(Nat)]
  <1>1. Append(listener[c].queue, Message(e)) \in Seq(Messages) /\ Append(meant[c], e) \in Seq(Nat)
    <2>1. listener[c].queue \in Seq(Messages) /\ meant[c] \in Seq(Nat) /\ Message(e) \in Messages
      BY ListenerFacts, MessageFacts
    <2> QED  BY <2>1, AppendFacts
  <1>2. [listener[c] EXCEPT !.queue = Append(listener[c].queue, Message(e))] \in Clients
    BY <1>1, ListenerFacts DEF Clients
  <1>3. listener' = [listener EXCEPT ![c] = [listener[c] EXCEPT !.queue = Append(listener[c].queue, Message(e))]]
    BY DEF QueueEvent, Types
  <1> QED  BY <1>1, <1>2, <1>3 DEF QueueEvent, Types

LEMMA NotBusy ==
    ASSUME EInv, ~Busy
    PROVE  task.todo = <<>> /\ task.at = 0 /\ task.left = 0 /\ task = Idle
  BY DEF Busy, Idle

LEMMA IdleFits ==
    ASSUME task' = Idle, event' \in Nat
    PROVE  TaskFits' /\ task' \in [todo : Seq(Listeners), at : Nat, event : Nat, left : Nat]
  BY DEF TaskFits, Idle, Hello, IsInjective

\* The task turns to one listener.
LEMMA OneFits ==
    ASSUME NEW c \in Listeners, listener'[c].st = "client", event' \in Nat,
           \/ task' = Run(<<c>>, Hello)
           \/ \E n \in Nat \ {0} : task' = Credit(c, n)
    PROVE  /\ TaskFits' /\ task' \in [todo : Seq(Listeners), at : Nat, event : Nat, left : Nat]
           /\ Head(task'.todo) = c /\ task'.at <= 1 /\ task'.at \in Nat
  <1>1. /\ task'.todo = <<c>> /\ task'.event = 0 /\ task'.at \in {0, 1} /\ task'.left \in Nat
        /\ task' = [todo |-> task'.todo, at |-> task'.at, event |-> task'.event, left |-> task'.left]
        /\ (task'.at = 1 /\ task'.left = 0) \/ (task'.at = 0 /\ task'.left > 0)
    BY DEF Run, Credit, Hello
  <1>2. <<c>> \in Seq(Listeners) /\ Len(<<c>>) = 1 /\ <<c>>[1] = c /\ <<c>> # <<>> /\ Head(<<c>>) = c
    OBVIOUS
  <1>3. \A i \in DOMAIN task'.todo : i = 1 /\ task'.todo[i] = c
    BY <1>1, <1>2
  <1>4. IsInjective(task'.todo)
    BY <1>3 DEF IsInjective
  <1>5. task' \in [todo : Seq(Listeners), at : Nat, event : Nat, left : Nat]
    <2>1. task'.todo \in Seq(Listeners) /\ task'.at \in Nat /\ task'.event \in Nat /\ task'.left \in Nat
      BY <1>1, <1>2
    <2> QED  BY <1>1, <2>1
  <1>6. TaskFits'
    BY <1>1, <1>2, <1>3, <1>4 DEF TaskFits
  <1> QED  BY <1>1, <1>2, <1>5, <1>6

-----------------------------------------------------------------------------
(* The callbacks                                                             *)

LEMMA InitHolds ==
    ASSUME EventSourceInit
    PROVE  EInv
  <1> USE DEF EventSourceInit
  <1>1. NoListener \in Clients /\ NoListener.st = "none" /\ NoListener.queue = <<>>
    BY DEF NoListener, Clients
  <1>2. Types
    <2>1. <<>> \in Seq(Nat) /\ <<>> \in Seq(Nat \ {0}) /\ <<>> \in Seq(Listeners)
      OBVIOUS
    <2> QED  BY <1>1, <2>1 DEF Types, Idle, Hello
  <1>3. TaskFits
    BY DEF TaskFits, Idle, Hello, IsInjective
  <1>4. Separate
    <2>1. ASSUME NEW c \in Listeners  PROVE Apart(listener[c], out[c], meant[c], event)
      <3>1. listener[c].queue = <<>> /\ out[c] = <<>> /\ meant[c] = <<>>
        BY <1>1
      <3> QED  BY <3>1 DEF Apart, IsInjective
    <2> QED  BY <2>1 DEF Separate
  <1>5. AllStraight
    BY <1>1 DEF AllStraight, Straight
  <1> QED  BY <1>2, <1>3, <1>4, <1>5 DEF EInv

LEMMA ListenStep ==
    ASSUME EInv, NEW c \in Listeners, Listen(c)
    PROVE  EInv'
  <1>1. Types /\ Apart(listener[c], out[c], meant[c], event) /\ (even => Straight(c))
    BY DEF EInv, Separate, AllStraight
  <1>2. /\ listener[c] \in Clients /\ listener[c].st = "none" /\ task' = task /\ event' = event /\ even' = even
        /\ listener'[c] = [listener[c] EXCEPT !.st = "response"]
        /\ flight'[c] = EventHead /\ reports'[c] = reports[c] /\ out' = out /\ meant' = meant
        /\ \A d \in Listeners : d # c => Kept(d)
    BY <1>1, ListenerFacts DEF Listen, Types, Kept
  <1>3. listener'[c].st = "response" /\ listener'[c].queue = listener[c].queue /\ listener'[c] \in Clients
    BY <1>2 DEF Clients
  <1>4. Types'
    BY <1>1, <1>3, SizeFacts DEF Types, Listen
  <1>5. TaskFits'
    BY <1>1, <1>2, NotBusy, IdleFits DEF Listen, Types
  <1>6. Apart(listener'[c], out'[c], meant'[c], event')
    BY <1>1, <1>2, <1>3 DEF Apart
  <1>7. ASSUME even  PROVE Straight(c)'
    <2>1. Owed(EventHead, <<>>, 0, EventHead)
      BY SizeFacts, OwedNone
    <2>2. reports[c] = <<>>
      BY <1>1, <1>2, <1>7 DEF Straight
    <2>3. Owed(flight'[c], reports'[c], 0, EventHead)
      BY <2>1, <2>2, <1>2
    <2> QED  BY <1>3, <2>3 DEF Straight
  <1>8. event <= event'
    BY <1>1, <1>2 DEF Types
  <1> QED  BY <1>2, <1>4, <1>5, <1>6, <1>7, <1>8, StepOf

LEMMA ResponseAckStep ==
    ASSUME EInv, NEW c \in Listeners, ResponseAck(c)
    PROVE  EInv'
  <1>1. Types /\ Apart(listener[c], out[c], meant[c], event) /\ (even => Straight(c))
    BY DEF EInv, Separate, AllStraight
  <1>2. PICK client : client = [st |-> "client", queue |-> <<Message(Hello)>>]
    OBVIOUS
  <1>3. /\ listener[c].st = "response" /\ reports[c] # <<>> /\ event' = event /\ even' = even
        /\ listener'[c] = client /\ meant'[c] = <<Hello>> /\ out' = out /\ flight' = flight
        /\ reports'[c] = Tail(reports[c]) /\ task' = Run(<<c>>, Hello)
        /\ \A d \in Listeners : d # c => Kept(d)
    BY <1>1, <1>2 DEF ResponseAck, Reported, Types, Kept
  <1>4. Hello \in Nat /\ Hello = 0
    BY DEF Hello
  <1>5. /\ client.st = "client" /\ client.queue = <<Message(Hello)>> /\ <<Message(Hello)>> \in Seq(Messages)
        /\ client \in Clients
    <2>1. <<Message(Hello)>> \in Seq(Messages)
      <3>1. PICK x \in Messages : x = Message(Hello)
        BY <1>4, MessageFacts
      <3> QED  BY <3>1
    <2> QED  BY <1>2, <2>1 DEF Clients
  <1>6. /\ Head(reports[c]) \in Nat \ {0} /\ Tail(reports[c]) \in Seq(Nat \ {0}) /\ reports[c] \in Seq(Nat \ {0})
        /\ flight[c] \in Nat
    BY <1>1, <1>3, ListenerFacts, TailFacts
  <1>7. event \in Nat /\ event' \in Nat /\ event <= event'
    BY <1>1, <1>3 DEF Types
  <1>8. TaskFits' /\ task' \in [todo : Seq(Listeners), at : Nat, event : Nat, left : Nat]
    BY <1>3, <1>5, <1>7, OneFits
  <1>9. Types'
    <2>1. <<Hello>> \in Seq(Nat)
      BY <1>4
    <2> QED  BY <1>1, <1>2, <1>3, <1>5, <1>6, <1>8, <2>1 DEF Types, ResponseAck
  <1>10. out[c] = <<>>
    BY <1>1, <1>3 DEF Apart
  <1>11. Apart(listener'[c], out'[c], meant'[c], event')
    <2>1. ToSet(<<Hello>>) = {Hello} /\ \A i \in DOMAIN <<Hello>> : <<Hello>>[i] = 0
      BY <1>4 DEF ToSet
    <2>2. \A i \in DOMAIN client.queue : i = 1 /\ client.queue[i] = Message(Hello)
      BY <1>5
    <2>3. Message(Hello).event = Hello
      BY <1>4, MessageFacts
    <2>4. DOMAIN out'[c] = {} /\ ToSet(out'[c]) = {}
      BY <1>3, <1>10 DEF ToSet
    <2>5. IsInjective(out'[c])
      BY <2>4 DEF IsInjective
    <2> QED  BY <1>3, <1>5, <1>7, <1>10, <2>1, <2>2, <2>3, <2>4, <2>5 DEF Apart
  <1>12. ASSUME even  PROVE Straight(c)'
    <2>1. PICK q \in Seq(Messages) : q = <<>>
      <3>1. <<>> \in Seq(Messages)
        OBVIOUS
      <3> QED  BY <3>1
    <2>2. PICK s \in Seq(Nat) : s = <<>>
      <3>1. <<>> \in Seq(Nat)
        OBVIOUS
      <3> QED  BY <3>1
    <2>3. Append(q, Message(Hello)) = <<Message(Hello)>> /\ Append(s, Hello) = <<Hello>>
      BY <2>1, <2>2
    <2>4. InOrder(q, s, s, 0)
      <3>1. Behind(q, 0) \in Seq(Nat) /\ Len(Behind(q, 0)) = 0
        <4>1. Len(q) = 0 /\ 0 \in 0 .. Len(q)
          BY <2>1
        <4>2. Behind(q, 0) \in Seq(Nat) /\ Len(Behind(q, 0)) = Len(q) - 0
          BY <4>1, BehindFacts
        <4> QED  BY <4>1, <4>2
      <3>2. Behind(q, 0) = <<>>
        BY <3>1
      <3> QED  BY <2>1, <2>2, <3>2 DEF InOrder
    <2>5. InOrder(listener'[c].queue, out'[c], meant'[c], 0)
      <3>1. InOrder(Append(q, Message(Hello)), s, Append(s, Hello), 0)
        BY <1>4, <2>4, QueuedInOrder
      <3> QED  BY <1>3, <1>5, <1>10, <2>2, <2>3, <3>1
    <2>6. Owed(flight[c], Tail(reports[c]), 0, EventSize - 1)
      <3>1. Owed(flight[c], reports[c], 0, EventHead)
        BY <1>1, <1>3, <1>12 DEF Straight
      <3>2. PICK a \in Nat : a = Head(reports[c]) /\ a > 0
        BY <1>6
      <3>3. PICK most \in Int : most = EventSize - 1 /\ 0 - most <= a - EventHead
        <4>1. EventSize \in Nat /\ EventHead \in Nat /\ EventHead <= EventSize
          BY SizeFacts
        <4>2. EventSize - 1 \in Int /\ 0 - (EventSize - 1) <= a - EventHead
          BY <3>2, <4>1
        <4> QED  BY <4>2
      <3>4. Owed(flight[c], Tail(reports[c]), a, EventHead)
        <4>1. a = 0 + Head(reports[c]) /\ 0 \in Int /\ EventHead \in Int /\ a \in Int
          BY <3>2, SizeFacts
        <4> QED  BY <1>3, <1>6, <3>1, <4>1, OwedNext
      <3>5. Owed(flight[c], Tail(reports[c]), 0, most)
        <4>1. 0 \in Int /\ EventHead \in Int /\ a \in Int
          BY <3>2, SizeFacts
        <4>2. PICK rest \in Seq(Nat \ {0}), f \in Nat : rest = Tail(reports[c]) /\ f = flight[c]
          BY <1>6
        <4>3. Owed(f, rest, a, EventHead)
          BY <3>4, <4>2
        <4>4. Owed(f, rest, 0, most)
          BY <3>3, <4>1, <4>3, OwedLess, Zenon
        <4> QED  BY <4>2, <4>4
      <3> QED  BY <3>3, <3>5
    <2>7. Counted(listener'[c].queue, flight'[c], reports'[c], Credits(c)', 0)
      <3>1. Credits(c)' = 0
        BY <1>3 DEF Credits, Run
      <3>2. FrontAcked(<<Message(Hello)>>) = 0
        <4>1. PICK x \in Messages : x = Message(Hello) /\ x.acked = 0
          BY <1>4, MessageFacts
        <4>2. Head(<<x>>) = x /\ <<x>> # <<>>
          OBVIOUS
        <4> QED  BY <4>1, <4>2 DEF FrontAcked
      <3>3. 0 * EventSize + EventSize - 1 = EventSize - 1 /\ 0 + 0 = 0
        BY SizeFacts
      <3>4. \A i \in DOMAIN <<Message(Hello)>> : ~(i > 1)
        OBVIOUS
      <3> QED  BY <1>3, <1>5, <2>6, <3>1, <3>2, <3>3, <3>4 DEF Counted
    <2>8. ~(task'.at > 0 + 1)
      BY <1>3 DEF Run
    <2>9. InLine(c, 0)'
      BY <2>5, <2>7, <2>8 DEF InLine
    <2> QED  BY <1>3, <1>5, <2>9 DEF Straight
  <1>13. \A d \in Listeners : d # c => Kept(d) /\ Aside(d)'
    BY <1>3 DEF Aside, Run
  <1> QED  BY <1>3, <1>7, <1>8, <1>9, <1>11, <1>12, <1>13, StepOf

\* The client starts over at the front of its queue.
LEMMA RunStraight ==
    ASSUME EInv, NEW c \in Listeners, even, Kept(c), Aside(c)', task'.at \in Nat
    PROVE  Straight(c)'
  <1>1. Types /\ Straight(c)
    BY DEF EInv, AllStraight
  <1>2. ASSUME listener[c].st = "client"
        PROVE  \E k \in Nat : InLine(c, k)'
    <2>1. PICK k \in Nat : InLine(c, k)
      BY <1>1, <1>2 DEF Straight
    <2>2. Credits(c)' = 0 /\ Credits(c) \in Nat
      BY <1>1 DEF Aside, Credits, Types
    <2>3. PICK more \in Nat : more = Credits(c)
      BY <2>2
    <2>4. Counted(listener[c].queue, flight[c], reports[c], more, k)
      BY <2>1, <2>3 DEF InLine
    <2>5. Counted(listener[c].queue, flight[c], reports[c], 0, k)
      BY <1>1, <2>4, CountedNone
    <2>6. ~(task'.at > k + 1 /\ Head(task'.todo) = c)
      BY DEF Aside
    <2>7. InLine(c, k)'
      BY <2>1, <2>2, <2>5, <2>6 DEF InLine, Kept
    <2> QED  BY <2>7
  <1> QED  BY <1>1, <1>2 DEF Straight, Kept

\* The queue of one client is run, nothing else happens.
LEMMA RunStep ==
    ASSUME EInv, NEW c \in Listeners, listener[c].st = "client", task' = Run(<<c>>, Hello),
           UNCHANGED <<even, listener, out, flight, reports, meant, event>>
    PROVE  EInv'
  <1>1. Types /\ event \in Nat /\ event' = event /\ even' = even
    BY DEF EInv, Types
  <1>2. \A d \in Listeners : Kept(d) /\ Aside(d)'
    BY DEF Kept, Aside, Run
  <1>3. TaskFits' /\ task' \in [todo : Seq(Listeners), at : Nat, event : Nat, left : Nat] /\ task'.at \in Nat
    BY <1>1, OneFits
  <1>4. Types'
    BY <1>1, <1>3 DEF Types
  <1>5. Apart(listener'[c], out'[c], meant'[c], event')
    BY <1>2 DEF EInv, Separate, Kept
  <1>6. even => Straight(c)'
    BY <1>2, <1>3, RunStraight
  <1>7. event <= event'
    BY <1>1
  <1> QED  BY <1>1, <1>2, <1>3, <1>4, <1>5, <1>6, <1>7, StepOf

LEMMA ListenerPollStep ==
    ASSUME EInv, NEW c \in Listeners, ListenerPoll(c)
    PROVE  EInv'
  <1>1. listener[c].st = "client"
    BY DEF EInv, Separate, Apart, ListenerPoll
  <1> QED  BY <1>1, RunStep DEF ListenerPoll

LEMMA CreditDoneStep ==
    ASSUME EInv, CreditDone
    PROVE  EInv'
  <1>1. Types /\ TaskFits /\ task.left > 0
    BY DEF EInv, CreditDone, Crediting
  <1>2. task.left # 0 /\ task.todo \in Seq(Listeners)
    BY <1>1 DEF Types
  <1>3. Len(task.todo) = 1 /\ \A i \in DOMAIN task.todo : listener[task.todo[i]].st = "client"
    BY <1>2 DEF EInv, TaskFits, Idle
  <1>4. PICK c \in Listeners : task.todo = <<c>> /\ listener[c].st = "client"
    <2>1. task.todo = <<task.todo[1]>> /\ 1 \in DOMAIN task.todo /\ task.todo[1] \in Listeners
      BY <1>2, <1>3
    <2> QED  BY <1>3, <2>1
  <1> QED  BY <1>4, RunStep DEF CreditDone

LEMMA ListenerAckStep ==
    ASSUME EInv, NEW c \in Listeners, ListenerAck(c)
    PROVE  EInv'
  <1>1. Types /\ Apart(listener[c], out[c], meant[c], event) /\ (even => Straight(c))
    BY DEF EInv, Separate, AllStraight
  <1>2. /\ listener[c].st = "client" /\ reports[c] # <<>> /\ event' = event /\ even' = even
        /\ listener' = listener /\ out' = out /\ flight' = flight /\ meant' = meant
        /\ reports'[c] = Tail(reports[c]) /\ task' = Credit(c, Head(reports[c]))
        /\ \A d \in Listeners : d # c => Kept(d)
    BY <1>1 DEF ListenerAck, Reported, Types, Kept
  <1>3. /\ reports[c] \in Seq(Nat \ {0}) /\ flight[c] \in Nat /\ listener[c].queue \in Seq(Messages)
        /\ Head(reports[c]) \in Nat \ {0} /\ Tail(reports[c]) \in Seq(Nat \ {0})
    BY <1>1, <1>2, ListenerFacts, TailFacts
  <1>4. event \in Nat /\ event' \in Nat /\ event <= event'
    BY <1>1, <1>2 DEF Types
  <1>5. TaskFits' /\ task' \in [todo : Seq(Listeners), at : Nat, event : Nat, left : Nat]
    BY <1>2, <1>3, <1>4, OneFits
  <1>6. Types'
    BY <1>1, <1>2, <1>3, <1>5 DEF Types, ListenerAck
  <1>7. Apart(listener'[c], out'[c], meant'[c], event')
    BY <1>1, <1>2
  <1>8. ASSUME even  PROVE Straight(c)'
    <2>1. PICK k \in Nat : InLine(c, k)
      BY <1>1, <1>2, <1>8 DEF Straight
    <2>2. Credits(c) = 0
      <3>1. task.left = 0
        BY NotBusy DEF ListenerAck, Reported
      <3> QED  BY <3>1 DEF Credits
    <2>3. PICK n \in Nat \ {0} : n = Head(reports[c])
      BY <1>3
    <2>4. Credits(c)' = n
      BY <1>2, <2>3 DEF Credits, Credit
    <2>5. Counted(listener[c].queue, flight[c], Tail(reports[c]), n, k)
      <3>1. Counted(listener[c].queue, flight[c], reports[c], 0, k)
        BY <2>1, <2>2 DEF InLine
      <3>2. PICK acked \in Nat : acked = FrontAcked(listener[c].queue)
        BY <1>3, FrontType
      <3>3. PICK most \in Int : most = k * EventSize + EventSize - 1
        <4>1. k * EventSize + EventSize - 1 \in Int
          BY SizeFacts
        <4> QED  BY <4>1
      <3>4. Owed(flight[c], reports[c], acked, most)
        <4>1. Owed(flight[c], reports[c], 0 + acked, most)
          BY <3>1, <3>2, <3>3 DEF Counted
        <4>2. 0 + acked = acked
          OBVIOUS
        <4> QED  BY <4>1, <4>2
      <3>5. n + acked = acked + Head(reports[c])
        BY <2>3
      <3>6. Owed(flight[c], Tail(reports[c]), n + acked, most)
        BY <1>2, <1>3, <3>4, <3>5, OwedNext
      <3> QED  BY <3>1, <3>2, <3>3, <3>6 DEF Counted
    <2>6. ~(task'.at > k + 1)
      BY <1>2 DEF Credit
    <2>7. InLine(c, k)'
      BY <1>2, <2>1, <2>4, <2>5, <2>6 DEF InLine
    <2> QED  BY <1>2, <2>7 DEF Straight
  <1>9. \A d \in Listeners : d # c => Aside(d)'
    BY <1>2 DEF Aside, Credit
  <1> QED  BY <1>2, <1>4, <1>5, <1>6, <1>7, <1>8, <1>9, StepOf

LEMMA ListenerGoneStep ==
    ASSUME EInv, NEW c \in Listeners, ListenerGone(c)
    PROVE  EInv'
  <1>1. Types /\ Apart(listener[c], out[c], meant[c], event)
    BY DEF EInv, Separate
  <1>2. PICK client \in Clients : client = [st |-> "gone", queue |-> <<>>]
    <2>1. <<>> \in Seq(Messages)
      OBVIOUS
    <2> QED  BY <2>1 DEF Clients
  <1>3. /\ event' = event /\ even' = even /\ task' = task /\ out' = out /\ flight' = flight
        /\ meant' = meant /\ reports' = reports
        /\ listener' = [listener EXCEPT ![c] = client] /\ listener'[c] = client
        /\ client.st = "gone" /\ client.queue = <<>>
        /\ \A d \in Listeners : d # c => Kept(d)
    BY <1>1, <1>2 DEF ListenerGone, Types, Kept
  <1>4. event \in Nat /\ event' \in Nat /\ event <= event'
    BY <1>1, <1>3 DEF Types
  <1>5. TaskFits'
    BY <1>3, <1>4, NotBusy, IdleFits DEF ListenerGone
  <1>6. Types'
    BY <1>1, <1>3 DEF Types
  <1>7. Apart(listener'[c], out'[c], meant'[c], event')
    BY <1>1, <1>3 DEF Apart
  <1>8. Straight(c)'
    BY <1>3 DEF Straight
  <1> QED  BY <1>3, <1>4, <1>5, <1>6, <1>7, <1>8, StepOf

LEMMA PeerAckStep ==
    ASSUME EInv, NEW c \in Listeners, PeerAck(c)
    PROVE  EInv'
  <1>1. Types /\ TaskFits /\ Apart(listener[c], out[c], meant[c], event) /\ (even => Straight(c))
    BY DEF EInv, Separate, AllStraight
  <1>2. /\ event' = event /\ even' = even /\ task' = task /\ out' = out /\ meant' = meant /\ listener' = listener
        /\ flight[c] > 0 /\ flight[c] \in Nat /\ reports[c] \in Seq(Nat \ {0})
    BY <1>1, ListenerFacts DEF PeerAck, PeerCanAck
  <1>3. PICK n \in EventAcks[c] \cup {flight[c]} :
          /\ 0 < n /\ n <= flight[c]
          /\ flight' = [flight EXCEPT ![c] = @ - n]
          /\ reports' = [reports EXCEPT ![c] = Append(@, n)]
    BY DEF PeerAck
  <1>4. n \in Nat \ {0}
    <2>1. EventAcks[c] \in SUBSET (Nat \ {0})
      BY EventAssumption
    <2> QED  BY <1>2, <1>3, <2>1
  <1>5. flight[c] - n \in Nat /\ Append(reports[c], n) \in Seq(Nat \ {0})
    BY <1>2, <1>3, <1>4
  <1>6. /\ flight'[c] = flight[c] - n /\ reports'[c] = Append(reports[c], n)
        /\ \A d \in Listeners : d # c => Kept(d)
    BY <1>1, <1>2, <1>3 DEF Types, Kept
  <1>7. Types'
    BY <1>1, <1>2, <1>3, <1>5 DEF Types
  <1>8. TaskFits'
    BY <1>1, <1>2 DEF TaskFits
  <1>9. event <= event'
    BY <1>1, <1>2 DEF Types
  <1>10. Apart(listener'[c], out'[c], meant'[c], event')
    BY <1>1, <1>2
  <1>11. ASSUME even  PROVE Straight(c)'
    <2>1. listener[c].st # "none"
      BY <1>1, <1>2, <1>11 DEF Straight
    <2>2. ASSUME listener[c].st = "response"
          PROVE  Owed(flight'[c], reports'[c], 0, EventHead)
      <3>1. Owed(flight[c], reports[c], 0, EventHead)
        BY <1>1, <1>11, <2>2 DEF Straight
      <3>2. 0 \in Int /\ EventHead \in Int
        BY SizeFacts
      <3>3. Owed(flight[c] - n, Append(reports[c], n), 0, EventHead)
        BY <1>2, <1>3, <1>4, <3>1, <3>2, OwedAppend
      <3> QED  BY <1>6, <3>3
    <2>3. ASSUME listener[c].st = "client"
          PROVE  \E k \in Nat : InLine(c, k)'
      <3>1. PICK k \in Nat : InLine(c, k)
        BY <1>1, <1>11, <2>3 DEF Straight
      <3>2. Counted(listener[c].queue, flight[c], reports[c], Credits(c), k)
        BY <3>1 DEF InLine
      <3>3. PICK more \in Int : more = Credits(c) + FrontAcked(listener[c].queue)
        <4>1. Credits(c) \in Nat
          BY <1>1 DEF Credits, Types
        <4>2. FrontAcked(listener[c].queue) \in Nat
          BY <1>1, ListenerFacts, FrontType
        <4> QED  BY <4>1, <4>2
      <3>4. PICK most \in Int : most = k * EventSize + EventSize - 1
        <4>1. k * EventSize + EventSize - 1 \in Int
          BY SizeFacts
        <4> QED  BY <4>1
      <3>5. Owed(flight[c] - n, Append(reports[c], n), more, most)
        <4>1. Owed(flight[c], reports[c], more, most)
          BY <3>2, <3>3, <3>4 DEF Counted
        <4> QED  BY <1>2, <1>3, <1>4, <4>1, OwedAppend
      <3>6. Counted(listener[c].queue, flight'[c], reports'[c], Credits(c), k)
        BY <1>6, <3>2, <3>3, <3>4, <3>5 DEF Counted
      <3>7. ~(task.at > k + 1)
        BY <1>1, <1>11 DEF PeerAck, PeerCanAck, Running, Types
      <3>8. Credits(c)' = Credits(c)
        BY <1>2 DEF Credits
      <3>9. InLine(c, k)'
        BY <1>2, <3>1, <3>6, <3>7, <3>8 DEF InLine
      <3> QED  BY <3>9
    <2> QED  BY <1>2, <2>1, <2>2, <2>3 DEF Straight
  <1> QED  BY <1>2, <1>6, <1>7, <1>8, <1>9, <1>10, <1>11, StepOf

-----------------------------------------------------------------------------
(* Bytes are credited                                                        *)

\* The client that is being credited, or whose queue is being run.
LEMMA TaskOf ==
    ASSUME EInv, Busy
    PROVE  /\ task.todo # <<>> /\ Head(task.todo) \in Listeners /\ listener[Head(task.todo)].st = "client"
           /\ task.at > 0 <=> ~(task.left > 0)
           /\ task.at > 0 => task.left = 0
           /\ task.left > 0 => task.at = 0 /\ Len(task.todo) = 1
  <1>1. task.todo \in Seq(Listeners) /\ task.at \in Nat /\ task.left \in Nat
    BY DEF EInv, Types
  <1>2. \/ task.at > 0 /\ task.left = 0 /\ task.todo # <<>>
        \/ task.at = 0 /\ task.left > 0 /\ Len(task.todo) = 1
    BY DEF EInv, TaskFits, Busy
  <1>3. task.todo # <<>>
    BY <1>2
  <1>4. 1 \in DOMAIN task.todo /\ Head(task.todo) = task.todo[1] /\ task.todo[1] \in Listeners
    BY <1>1, <1>3, TailFacts
  <1>5. listener[task.todo[1]].st = "client"
    BY <1>4 DEF EInv, TaskFits
  <1> QED  BY <1>1, <1>2, <1>3, <1>4, <1>5

\* A queue without its front: of the others, nothing is new.
LEMMA TailApart ==
    ASSUME NEW client \in Clients, NEW next \in Clients, NEW o, NEW m, NEW last, client.st = "client",
           Apart(client, o, m, last), next.st = client.st, client.queue # <<>>, next.queue = Tail(client.queue)
    PROVE  Apart(next, o, m, last)
  <1>1. client.queue \in Seq(Messages)
    BY DEF Clients
  <1>2. PICK queue, rest : queue \in Seq(Messages) /\ queue = client.queue /\ rest = Tail(queue)
    BY <1>1
  <1>3. \A i \in DOMAIN rest : i \in Nat /\ i + 1 \in DOMAIN queue /\ rest[i] = queue[i + 1]
    BY <1>2, TailFacts
  <1>4. \A i \in DOMAIN queue :
          /\ queue[i].event \in ToSet(m)
          /\ ~queue[i].sent => queue[i].event \notin ToSet(o)
          /\ \A j \in DOMAIN queue : i # j => queue[i].event # queue[j].event
    BY <1>2 DEF Apart
  <1>5. ASSUME NEW i \in DOMAIN rest
        PROVE  /\ rest[i].event \in ToSet(m)
               /\ ~rest[i].sent => rest[i].event \notin ToSet(o)
               /\ \A j \in DOMAIN rest : i # j => rest[i].event # rest[j].event
    <2>1. \A j \in DOMAIN rest : i # j => i + 1 # j + 1
      BY <1>3
    <2> QED  BY <1>3, <1>4, <2>1
  <1> QED  BY <1>2, <1>5 DEF Apart

\* A queue with the same messages; of those not sent, some may now be sent.
LEMMA SameApart ==
    ASSUME NEW client, NEW next, NEW o, NEW m, NEW last, client.st = "client", next.st = "client",
           Apart(client, o, m, last), DOMAIN next.queue = DOMAIN client.queue,
           \A i \in DOMAIN client.queue : next.queue[i].event = client.queue[i].event
                                          /\ next.queue[i].sent = client.queue[i].sent
    PROVE  Apart(next, o, m, last)
  BY DEF Apart

LEMMA CreditFront ==
    ASSUME NEW queue \in Seq(Messages), NEW rest \in Seq(Messages), NEW m \in Messages, NEW o, NEW ms, NEW k,
           queue # <<>>, rest = <<m>> \o Tail(queue), m.event = Head(queue).event, m.sent = Head(queue).sent,
           InOrder(queue, o, ms, k)
    PROVE  InOrder(rest, o, ms, k)
  <1>1. /\ Len(rest) = Len(queue) /\ DOMAIN rest = DOMAIN queue /\ rest[1] = m
        /\ \A i \in DOMAIN queue : i # 1 => rest[i] = queue[i]
    BY FrontFacts
  <1>2. Head(queue) = queue[1]
    BY TailFacts
  <1>3. \A i \in DOMAIN queue : rest[i].event = queue[i].event /\ rest[i].sent = queue[i].sent
    BY <1>1, <1>2
  <1>4. Behind(rest, k) = Behind(queue, k)
    BY <1>1, <1>3, BehindSame DEF InOrder
  <1> QED  BY <1>1, <1>3, <1>4 DEF InOrder

\* What is credited is less than the messages that are out and one more.
LEMMA CreditBound ==
    ASSUME NEW queue \in Seq(Messages), NEW f \in Nat, NEW r \in Seq(Nat \ {0}), NEW more \in Nat, NEW k \in Nat,
           Counted(queue, f, r, more, k)
    PROVE  more + FrontAcked(queue) <= k * EventSize + EventSize - 1
  <1>1. PICK sums : Sums(r, sums) /\ more + FrontAcked(queue) + f + sums[Len(r)] <= k * EventSize + EventSize - 1
    BY DEF Counted, Owed
  <1>2. sums[Len(r)] \in Nat /\ FrontAcked(queue) \in Nat
    BY <1>1, SumsLast, FrontType
  <1>3. k * EventSize + EventSize - 1 \in Int
    BY SizeFacts
  <1> QED  BY <1>1, <1>2, <1>3

\* The message in front has all of its bytes, which it can only have if it is out.
LEMMA FinishCounted ==
    ASSUME NEW queue \in Seq(Messages), queue # <<>>, NEW f \in Nat, NEW r \in Seq(Nat \ {0}), NEW more \in Nat,
           NEW k \in Nat, Counted(queue, f, r, more, k), NEW left \in Nat,
           left = Head(queue).acked + more - EventSize
    PROVE  k >= 1 /\ Counted(Tail(queue), f, r, left, k - 1)
  <1>1. /\ Tail(queue) \in Seq(Messages) /\ Head(queue) \in Messages
        /\ \A i \in DOMAIN Tail(queue) : i \in Nat /\ i # 0 /\ i + 1 \in DOMAIN queue /\ Tail(queue)[i] = queue[i + 1]
    BY TailFacts
  <1>2. PICK acked \in Nat : acked = Head(queue).acked /\ FrontAcked(queue) = acked
    BY <1>1 DEF Messages, FrontAcked
  <1>3. PICK size \in Nat : size = EventSize /\ size # 0
    BY SizeFacts
  <1>4. more + acked <= k * size + size - 1 /\ left = acked + more - size
    BY <1>2, <1>3, CreditBound
  <1>5. k >= 1
    <2>1. k = 0 => k * size = 0
      BY <1>3
    <2> QED  BY <1>3, <1>4, <2>1
  <1>6. (k - 1) * size + size = k * size /\ k * size \in Nat /\ k - 1 \in Nat
    BY <1>3, <1>5
  <1>7. \A i \in DOMAIN Tail(queue) : Tail(queue)[i].acked = 0
    <2>1. \A i \in DOMAIN Tail(queue) : i + 1 > 1 /\ i + 1 \in DOMAIN queue /\ Tail(queue)[i] = queue[i + 1]
      BY <1>1
    <2> QED  BY <2>1 DEF Counted
  <1>8. FrontAcked(Tail(queue)) = 0
    <2>1. CASE Tail(queue) = <<>>
      BY <2>1 DEF FrontAcked
    <2>2. CASE Tail(queue) # <<>>
      <3>1. Head(Tail(queue)) = Tail(queue)[1] /\ 1 \in DOMAIN Tail(queue)
        BY <1>1, <2>2, TailFacts
      <3> QED  BY <2>2, <3>1, <1>7 DEF FrontAcked
    <2> QED  BY <2>1, <2>2
  <1>9. Owed(f, r, left + 0, (k - 1) * size + size - 1)
    <2>1. PICK a \in Int, b \in Int, c \in Int, d \in Int :
            a = more + acked /\ b = k * size + size - 1 /\ c = left + 0 /\ d = (k - 1) * size + size - 1
      <3>1. more + acked \in Int /\ k * size + size - 1 \in Int /\ left + 0 \in Int /\ (k - 1) * size + size - 1 \in Int
        BY <1>6
      <3> QED  BY <3>1
    <2>2. Owed(f, r, a, b)
      BY <1>2, <1>3, <2>1 DEF Counted
    <2>3. d = b - size /\ c = a - size
      BY <1>4, <1>6, <2>1
    <2>4. c - d <= a - b
      BY <2>3
    <2>5. Owed(f, r, c, d)
      BY <2>2, <2>4, OwedLess
    <2> QED  BY <2>1, <2>5
  <1> QED  BY <1>3, <1>5, <1>7, <1>8, <1>9 DEF Counted

\* The message in front gets all there is.
LEMMA FrontCounted ==
    ASSUME NEW queue \in Seq(Messages), queue # <<>>, NEW f, NEW r, NEW more \in Nat,
           NEW k, Counted(queue, f, r, more, k), NEW m \in Messages, m.acked = Head(queue).acked + more
    PROVE  Counted(<<m>> \o Tail(queue), f, r, 0, k)
  <1>1. /\ Head(<<m>> \o Tail(queue)) = m /\ <<m>> \o Tail(queue) # <<>>
        /\ DOMAIN (<<m>> \o Tail(queue)) = DOMAIN queue
        /\ \A i \in DOMAIN queue : i # 1 => (<<m>> \o Tail(queue))[i] = queue[i]
    BY FrontFacts
  <1>2. \A i \in DOMAIN queue : i > 1 => i # 1
    OBVIOUS
  <1>3. Head(queue).acked \in Nat
    <2>1. Head(queue) \in Messages
      BY TailFacts
    <2> QED  BY <2>1 DEF Messages
  <1>4. 0 + FrontAcked(<<m>> \o Tail(queue)) = more + FrontAcked(queue)
    BY <1>1, <1>3 DEF FrontAcked
  <1>5. \A i \in DOMAIN (<<m>> \o Tail(queue)) : i > 1 => (<<m>> \o Tail(queue))[i].acked = 0
    BY <1>1, <1>2 DEF Counted
  <1> QED  BY <1>4, <1>5 DEF Counted

LEMMA CreditOneStep ==
    ASSUME EInv, CreditOne
    PROVE  EInv'
  <1>1. Types /\ event \in Nat /\ task.left \in Nat
    BY DEF EInv, Types
  <1>2. Busy /\ task.left > 0
    <2>1. Idle.left = 0
      BY DEF Idle
    <2> QED  BY <2>1, <1>1 DEF CreditOne, Crediting, Busy
  <1>3. PICK c \in Listeners : c = Head(task.todo) /\ listener[c].st = "client"
    BY <1>2, TaskOf
  <1>4. PICK queue \in Seq(Messages) : queue = listener[c].queue /\ queue # <<>>
    BY <1>1, <1>3, ListenerFacts DEF CreditOne
  <1>5. PICK m \in Messages : m = Head(queue)
    BY <1>4, TailFacts
  <1>6. PICK more \in Nat : more = task.left /\ more > 0
    BY <1>1, <1>2
  <1>7. m.acked \in Nat /\ m.event \in Nat /\ m.sent \in BOOLEAN /\ Size(m.event) \in Nat /\ (even => Size(m.event) = EventSize)
    <2>1. m.acked \in Nat /\ m.event \in Nat /\ m.sent \in BOOLEAN
      BY <1>5 DEF Messages
    <2> QED  BY <2>1, SizeFacts
  <1>8. PICK finished \in BOOLEAN : finished <=> m.acked + more >= Size(m.event)
    OBVIOUS
  <1>9. PICK front \in Messages : front = [m EXCEPT !.acked = m.acked + more]
    <2>1. m.acked + more \in Nat
      BY <1>7
    <2>2. [m EXCEPT !.acked = m.acked + more] \in Messages
      BY <2>1 DEF Messages
    <2> QED  BY <2>2
  <1>10. front.event = m.event /\ front.sent = m.sent /\ front.acked = m.acked + more
    BY <1>9, <1>5 DEF Messages
  <1>11. Tail(queue) \in Seq(Messages) /\ <<front>> \o Tail(queue) \in Seq(Messages)
    BY <1>4, TailFacts, FrontFacts
  <1>12. PICK rest \in Seq(Messages) : rest = IF finished THEN Tail(queue) ELSE <<front>> \o Tail(queue)
    BY <1>11
  <1>13. PICK left \in Nat : left = IF finished THEN m.acked + more - Size(m.event) ELSE 0
    BY <1>7, <1>8
  <1>14. /\ listener' = [listener EXCEPT ![c].queue = rest]
         /\ task' = IF left = 0 THEN Run(<<c>>, Hello) ELSE Credit(c, left)
         /\ UNCHANGED <<even, out, flight, reports, meant, event>>
    BY <1>3, <1>4, <1>5, <1>6, <1>8, <1>9, <1>12, <1>13, Zenon DEF CreditOne, Extra
  <1>15. PICK next \in Clients : next = [listener[c] EXCEPT !.queue = rest]
    BY <1>1, ListenerFacts DEF Clients
  <1>16. listener' = [listener EXCEPT ![c] = next] /\ listener'[c] = next
    BY <1>1, <1>14, <1>15 DEF Types
  <1>17. next.st = "client" /\ next.queue = rest
    BY <1>1, <1>3, <1>15, ListenerFacts DEF Clients
  <1>18. /\ TaskFits' /\ task' \in [todo : Seq(Listeners), at : Nat, event : Nat, left : Nat]
         /\ Head(task'.todo) = c /\ task'.at <= 1 /\ task'.at \in Nat
    <2>1. listener'[c].st = "client" /\ event' \in Nat
      BY <1>1, <1>14, <1>16, <1>17
    <2>2. CASE left = 0
      BY <1>14, <2>1, <2>2, OneFits
    <2>3. CASE left # 0
      BY <1>14, <2>1, <2>3, OneFits
    <2> QED  BY <2>2, <2>3
  <1>19. Types'
    BY <1>1, <1>14, <1>16, <1>18 DEF Types
  <1>20. \A d \in Listeners : d # c => Kept(d) /\ Aside(d)'
    BY <1>1, <1>14, <1>16, <1>18 DEF Kept, Aside, Types
  <1>21. Apart(listener'[c], out'[c], meant'[c], event')
    <2>1. Apart(listener[c], out[c], meant[c], event) /\ listener[c] \in Clients
      BY <1>1, ListenerFacts DEF EInv, Separate
    <2>2. CASE finished
      <3>1. Apart(next, out[c], meant[c], event)
        BY <1>3, <1>4, <1>12, <1>17, <2>1, <2>2, TailApart
      <3> QED  BY <3>1, <1>14, <1>16
    <2>3. CASE ~finished
      <3>1. /\ DOMAIN rest = DOMAIN queue /\ rest[1] = front
            /\ \A i \in DOMAIN queue : i # 1 => rest[i] = queue[i]
        BY <1>4, <1>12, <2>3, FrontFacts
      <3>2. queue[1] = m
        BY <1>4, <1>5, TailFacts
      <3>3. \A i \in DOMAIN queue : rest[i].event = queue[i].event /\ rest[i].sent = queue[i].sent
        BY <1>10, <3>1, <3>2
      <3>4. Apart(next, out[c], meant[c], event)
        BY <1>3, <1>4, <1>17, <2>1, <3>1, <3>3, SameApart
      <3> QED  BY <3>4, <1>14, <1>16
    <2> QED  BY <2>2, <2>3
  <1>22. ASSUME even  PROVE Straight(c)'
    <2>1. PICK k \in Nat : InLine(c, k)
      BY <1>3, <1>22 DEF EInv, AllStraight, Straight
    <2>2. /\ InOrder(queue, out[c], meant[c], k)
          /\ Counted(queue, flight[c], reports[c], more, k)
      BY <2>1, <1>3, <1>4, <1>6 DEF InLine, Credits
    <2>3. Credits(c)' = left
      BY <1>14, <1>13 DEF Credits, Run, Credit
    <2>4. \A l \in Nat : ~(task'.at > l + 1)
      BY <1>18
    <2>5. flight[c] \in Nat /\ reports[c] \in Seq(Nat \ {0})
      BY <1>1, ListenerFacts
    <2>6. CASE finished
      <3>1. left = Head(queue).acked + more - EventSize
        BY <1>5, <1>7, <1>13, <1>22, <2>6
      <3>2. k >= 1 /\ Counted(Tail(queue), flight[c], reports[c], left, k - 1)
        BY <1>4, <2>2, <2>5, <3>1, FinishCounted
      <3>3. PICK l \in Nat : l = k - 1
        BY <3>2
      <3>4. InOrder(Tail(queue), out[c], meant[c], l)
        <4>1. k \in 1 .. Len(queue) /\ Behind(Tail(queue), l) = Behind(queue, k)
          BY <1>4, <2>2, <3>2, <3>3, BehindTail DEF InOrder
        <4>2. /\ Len(Tail(queue)) = Len(queue) - 1 /\ Len(queue) \in Nat
              /\ \A i \in DOMAIN Tail(queue) : i \in Nat /\ i + 1 \in DOMAIN queue /\ Tail(queue)[i] = queue[i + 1]
          BY <1>4, TailFacts
        <4>3. ASSUME NEW i \in DOMAIN Tail(queue)  PROVE Tail(queue)[i].sent <=> i <= l
          <5>1. queue[i + 1].sent <=> i + 1 <= k
            BY <4>2, <2>2 DEF InOrder
          <5>2. i + 1 <= k <=> i <= l
            BY <4>2, <3>3
          <5> QED  BY <4>2, <5>1, <5>2
        <4>4. l \in 0 .. Len(Tail(queue))
          BY <4>1, <4>2, <3>3
        <4> QED  BY <4>1, <4>3, <4>4, <2>2 DEF InOrder
      <3>5. InLine(c, l)'
        BY <1>12, <1>14, <1>16, <1>17, <2>3, <2>4, <2>6, <3>2, <3>3, <3>4 DEF InLine
      <3> QED  BY <1>16, <1>17, <3>5 DEF Straight
    <2>7. CASE ~finished
      <3>1. rest = <<front>> \o Tail(queue) /\ left = 0
        BY <1>12, <1>13, <2>7
      <3>2. Counted(rest, flight[c], reports[c], 0, k)
        BY <1>4, <1>5, <1>10, <2>2, <3>1, FrontCounted
      <3>3. InOrder(rest, out[c], meant[c], k)
        BY <1>4, <1>5, <1>10, <2>2, <3>1, CreditFront
      <3>4. InLine(c, k)'
        BY <1>14, <1>16, <1>17, <2>3, <2>4, <3>1, <3>2, <3>3 DEF InLine
      <3> QED  BY <1>16, <1>17, <3>4 DEF Straight
    <2> QED  BY <2>6, <2>7
  <1>23. event <= event' /\ even' = even
    BY <1>1, <1>14
  <1> QED  BY <1>18, <1>19, <1>20, <1>21, <1>22, <1>23, StepOf

-----------------------------------------------------------------------------
(* The queue is run                                                          *)

\* Message i is sent.
LEMMA SentApart ==
    ASSUME NEW client \in Clients, NEW next \in Clients, NEW o \in Seq(Nat), NEW m \in Seq(Nat), NEW last,
           client.st = "client", next.st = "client", Apart(client, o, m, last),
           NEW i \in DOMAIN client.queue, ~client.queue[i].sent,
           DOMAIN next.queue = DOMAIN client.queue,
           \A j \in DOMAIN client.queue :
              next.queue[j].event = client.queue[j].event /\ (j # i => next.queue[j].sent = client.queue[j].sent),
           next.queue[i].sent = TRUE
    PROVE  Apart(next, Append(o, client.queue[i].event), m, last)
  <1>1. PICK e \in Nat : e = client.queue[i].event
    <2>1. client.queue[i] \in Messages
      BY DEF Clients
    <2> QED  BY <2>1 DEF Messages
  <1>2. e \in ToSet(m) /\ e \notin ToSet(o)
    BY <1>1 DEF Apart
  <1>3. PICK more \in Seq(Nat) : more = Append(o, e)
    <2>1. Append(o, e) \in Seq(Nat)
      OBVIOUS
    <2> QED  BY <2>1
  <1>4. /\ \A j \in DOMAIN o : more[j] = o[j]
        /\ more[Len(o) + 1] = e
        /\ \A j \in DOMAIN more : j \in DOMAIN o \/ j = Len(o) + 1
    BY <1>3, AppendFacts
  <1>5. \A j \in DOMAIN more : more[j] \in ToSet(m)
    BY <1>2, <1>4 DEF Apart
  <1>6. IsInjective(more)
    <2>1. \A j \in DOMAIN o : o[j] # e
      BY <1>2 DEF ToSet
    <2> QED  BY <1>1, <1>3, <2>1, InjectiveAppend DEF Apart
  <1>7. ToSet(more) \subseteq ToSet(o) \cup {e}
    BY <1>4 DEF ToSet
  <1>8. ASSUME NEW j \in DOMAIN next.queue
        PROVE  /\ next.queue[j].event \in ToSet(m)
               /\ ~next.queue[j].sent => next.queue[j].event \notin ToSet(more)
               /\ \A l \in DOMAIN next.queue : j # l => next.queue[j].event # next.queue[l].event
    <2>1. /\ client.queue[j].event \in ToSet(m)
          /\ ~client.queue[j].sent => client.queue[j].event \notin ToSet(o)
          /\ \A l \in DOMAIN client.queue : j # l => client.queue[j].event # client.queue[l].event
      BY DEF Apart
    <2>2. ~next.queue[j].sent => j # i
      OBVIOUS
    <2>3. ASSUME ~next.queue[j].sent  PROVE next.queue[j].event \notin ToSet(more)
      <3>1. j # i /\ next.queue[j].sent = client.queue[j].sent
        BY <2>2, <2>3
      <3>2. client.queue[j].event \notin ToSet(o) /\ client.queue[j].event # e
        BY <1>1, <2>1, <2>3, <3>1
      <3> QED  BY <1>7, <3>2
    <2> QED  BY <2>1, <2>3
  <1>9. next.st # "none" /\ next.st # "response"
    OBVIOUS
  <1>10. \A j \in DOMAIN m : m[j] <= last
    BY DEF Apart
  <1>11. Apart(next, more, m, last)
    BY <1>5, <1>6, <1>8, <1>9, <1>10 DEF Apart
  <1> QED  BY <1>1, <1>3, <1>11

LEMMA ConcatOne ==
    ASSUME NEW s \in Seq(Nat), NEW t \in Seq(Nat), NEW x \in Nat
    PROVE  s \o (<<x>> \o t) = Append(s, x) \o t
  <1>1. /\ s \o (<<x>> \o t) \in Seq(Nat) /\ Len(s \o (<<x>> \o t)) = Len(s) + 1 + Len(t)
        /\ Append(s, x) \o t \in Seq(Nat) /\ Len(Append(s, x) \o t) = Len(s) + 1 + Len(t)
        /\ Len(s) \in Nat /\ Len(t) \in Nat
    OBVIOUS
  <1>2. ASSUME NEW i \in 1 .. Len(s) + 1 + Len(t)  PROVE (s \o (<<x>> \o t))[i] = (Append(s, x) \o t)[i]
    BY <1>1, <1>2
  <1> QED  BY <1>1, <1>2, SameSeq

\* The first message that is not out is sent.
LEMMA SentInOrder ==
    ASSUME NEW queue \in Seq(Messages), NEW next \in Seq(Messages), NEW o \in Seq(Nat), NEW m, NEW k,
           InOrder(queue, o, m, k), k + 1 \in DOMAIN queue, Len(next) = Len(queue),
           \A j \in DOMAIN queue :
              next[j].event = queue[j].event /\ (j # k + 1 => next[j].sent = queue[j].sent),
           next[k + 1].sent = TRUE
    PROVE  InOrder(next, Append(o, queue[k + 1].event), m, k + 1)
  <1>1. k \in 0 .. Len(queue) /\ Len(queue) \in Nat /\ DOMAIN next = DOMAIN queue /\ k \in Nat /\ k < Len(queue)
        /\ (\A j \in DOMAIN queue : queue[j].sent <=> j <= k) /\ m = o \o Behind(queue, k)
    BY DEF InOrder
  <1>2. PICK l \in Nat : l = k + 1
    BY <1>1
  <1>3. l \in 0 .. Len(next)
    BY <1>1, <1>2
  <1>4. ASSUME NEW j \in DOMAIN next  PROVE next[j].sent <=> j <= l
    <2>1. CASE j = l
      BY <1>1, <1>2, <2>1
    <2>2. CASE j # l
      <3>1. next[j].sent = queue[j].sent /\ (queue[j].sent <=> j <= k)
        BY <1>1, <1>2, <2>2
      <3>2. j <= k <=> j <= l
        BY <1>1, <1>2, <2>2
      <3> QED  BY <3>1, <3>2
    <2> QED  BY <2>1, <2>2
  <1>5. PICK e \in Nat : e = queue[l].event
    <2>1. queue[l] \in Messages
      BY <1>2
    <2> QED  BY <2>1 DEF Messages
  <1>6. PICK rest \in Seq(Nat) : rest = Behind(next, l)
    BY <1>3, BehindFacts
  <1>7. Behind(queue, k) = <<e>> \o rest
    BY <1>1, <1>2, <1>5, <1>6, BehindSent
  <1>8. m = Append(o, e) \o rest
    <2>1. m = o \o (<<e>> \o rest)
      BY <1>1, <1>7
    <2>2. o \o (<<e>> \o rest) = Append(o, e) \o rest
      BY ConcatOne, Zenon
    <2> QED  BY <2>1, <2>2
  <1>9. InOrder(next, Append(o, e), m, l)
    BY <1>3, <1>4, <1>6, <1>8 DEF InOrder
  <1> QED  BY <1>2, <1>5, <1>9

\* An event more is out: what can be acknowledged and what may be grow alike.
LEMMA SentCounted ==
    ASSUME NEW queue \in Seq(Messages), NEW next \in Seq(Messages), NEW f \in Nat, NEW r \in Seq(Nat \ {0}),
           NEW k \in Nat, Counted(queue, f, r, 0, k), Len(next) = Len(queue), queue # <<>>,
           \A j \in DOMAIN queue : next[j].acked = queue[j].acked
    PROVE  Counted(next, f + EventSize, r, 0, k + 1)
  <1>1. DOMAIN next = DOMAIN queue /\ next # <<>>
    BY TailFacts
  <1>2. FrontAcked(next) = FrontAcked(queue)
    BY <1>1, TailFacts DEF FrontAcked
  <1>3. PICK sums : Sums(r, sums) /\ 0 + FrontAcked(queue) + f + sums[Len(r)] <= k * EventSize + EventSize - 1
    BY DEF Counted, Owed
  <1>4. sums[Len(r)] \in Nat /\ FrontAcked(queue) \in Nat
    BY <1>3, SumsLast, FrontType
  <1>5. PICK size \in Nat : size = EventSize
    BY SizeFacts
  <1>6. (k + 1) * size = k * size + size /\ k * size \in Nat
    BY <1>5
  <1>7. 0 + FrontAcked(next) + (f + size) + sums[Len(r)] <= (k + 1) * size + size - 1
    BY <1>2, <1>3, <1>4, <1>5, <1>6
  <1>8. \A j \in DOMAIN next : j > 1 => next[j].acked = 0
    BY <1>1 DEF Counted
  <1> QED  BY <1>3, <1>5, <1>7, <1>8 DEF Counted, Owed

LEMMA SendOneStep ==
    ASSUME EInv, SendOne
    PROVE  EInv'
  <1>1. Types /\ TaskFits /\ event \in Nat /\ task.at \in Nat /\ task.todo \in Seq(Listeners)
    BY DEF EInv, Types
  <1>2. Busy /\ task.at > 0 /\ task.left = 0
    <2>1. Idle.at = 0
      BY DEF Idle
    <2>2. Busy /\ task.at > 0
      BY <2>1, <1>1 DEF SendOne, Running, Busy
    <2> QED  BY <2>2, TaskOf
  <1>3. PICK c \in Listeners : c = Head(task.todo) /\ listener[c].st = "client"
    BY <1>2, TaskOf
  <1>4. PICK queue \in Seq(Messages) : queue = listener[c].queue
    BY <1>1, ListenerFacts
  <1>5. PICK i \in Nat : i = task.at /\ i \in DOMAIN queue /\ i > 0
    BY <1>1, <1>2, <1>3, <1>4 DEF SendOne
  <1>6. PICK m \in Messages : m = queue[i]
    BY <1>5
  <1>7. PICK e \in Nat : e = m.event /\ Size(e) \in Nat /\ (even => Size(e) = EventSize)
    <2>1. m.event \in Nat
      BY <1>6 DEF Messages
    <2> QED  BY <2>1, SizeFacts
  <1>8. task' = [task EXCEPT !.at = i + 1] /\ UNCHANGED <<even, reports, meant, event>>
    BY <1>5 DEF SendOne
  <1>9. /\ task'.at = i + 1 /\ task'.todo = task.todo /\ task'.left = 0 /\ task'.event = task.event
        /\ task' \in [todo : Seq(Listeners), at : Nat, event : Nat, left : Nat]
    <2>1. task = [todo |-> task.todo, at |-> task.at, event |-> task.event, left |-> task.left] /\ task.event \in Nat
      BY <1>1, TaskFacts
    <2>2. task' = [todo |-> task.todo, at |-> i + 1, event |-> task.event, left |-> task.left]
      BY <1>8, <2>1
    <2> QED  BY <1>1, <1>2, <1>5, <2>1, <2>2
  <1>10. event <= event' /\ even' = even
    BY <1>1, <1>8
  <1>11. flight[c] \in Nat /\ reports[c] \in Seq(Nat \ {0}) /\ out[c] \in Seq(Nat) /\ meant[c] \in Seq(Nat)
         /\ listener[c] \in Clients /\ Apart(listener[c], out[c], meant[c], event)
    BY <1>1, ListenerFacts DEF EInv, Separate
  <1>12. \A d \in Listeners : d # c => Aside(d)'
    BY <1>3, <1>9 DEF Aside
  <1>13. ASSUME \A d \in Listeners : listener'[d].st = listener[d].st  PROVE TaskFits'
    <2>1. task.todo # <<>> /\ task'.at > 0
      BY <1>2, <1>5, <1>9, TaskOf
    <2>2. \A j \in DOMAIN task.todo : task.todo[j] \in Listeners
      BY <1>1
    <2> QED  BY <1>1, <1>8, <1>9, <1>13, <2>1, <2>2 DEF TaskFits
  <1>14. ASSUME even  PROVE \E k \in Nat : InLine(c, k)
    BY <1>3, <1>14 DEF EInv, AllStraight, Straight
  <1>15. Credits(c) = 0 /\ Credits(c)' = 0
    BY <1>2, <1>9 DEF Credits
  <1>16. CASE ~m.sent /\ Size(e) <= EventSpace(c)
    <2>1. PICK sent \in Messages : sent = [m EXCEPT !.sent = TRUE]
      <3>1. [m EXCEPT !.sent = TRUE] \in Messages
        BY <1>6 DEF Messages
      <3> QED  BY <3>1
    <2>2. sent.event = e /\ sent.acked = m.acked /\ sent.sent = TRUE
      BY <1>6, <1>7, <2>1 DEF Messages
    <2>3. PICK rest \in Seq(Messages) : rest = [queue EXCEPT ![i] = sent]
      <3>1. [queue EXCEPT ![i] = sent] \in Seq(Messages)
        BY <1>5
      <3> QED  BY <3>1
    <2>4. /\ DOMAIN rest = DOMAIN queue /\ Len(rest) = Len(queue) /\ rest[i] = sent
          /\ \A j \in DOMAIN queue : j # i => rest[j] = queue[j]
      BY <1>5, <2>3
    <2>5. PICK next \in Clients : next = [listener[c] EXCEPT !.queue = rest]
      <3>1. [listener[c] EXCEPT !.queue = rest] \in Clients
        BY <1>11 DEF Clients
      <3> QED  BY <3>1
    <2>6. next.st = "client" /\ next.queue = rest
      BY <1>3, <1>11, <2>5 DEF Clients
    <2>7. /\ out' = [out EXCEPT ![c] = Append(@, e)]
          /\ flight' = [flight EXCEPT ![c] = @ + Size(e)]
          /\ listener' = [listener EXCEPT ![c].queue[i].sent = TRUE]
      BY <1>3, <1>4, <1>5, <1>6, <1>7, <1>16 DEF SendOne
    <2>8. listener' = [listener EXCEPT ![c] = next]
      <3>1. listener' = [listener EXCEPT ![c] = [listener[c] EXCEPT !.queue = [listener[c].queue EXCEPT ![i] =
                             [listener[c].queue[i] EXCEPT !.sent = TRUE]]]]
        BY <2>7
      <3> QED  BY <3>1, <1>4, <1>6, <2>1, <2>3, <2>5
    <2>9. /\ listener'[c] = next /\ out'[c] = Append(out[c], e) /\ flight'[c] = flight[c] + Size(e)
          /\ reports'[c] = reports[c] /\ meant'[c] = meant[c]
          /\ \A d \in Listeners : d # c => Kept(d)
      BY <1>1, <1>8, <2>7, <2>8 DEF Types, Kept
    <2>10. Types'
      <3>1. Append(out[c], e) \in Seq(Nat)
        BY <1>11, AppendFacts
      <3>2. flight[c] + Size(e) \in Nat
        BY <1>7, <1>11
      <3> QED  BY <1>1, <1>8, <1>9, <2>7, <2>8, <3>1, <3>2 DEF Types
    <2>11. TaskFits'
      <3>1. \A d \in Listeners : listener'[d].st = listener[d].st
        BY <1>3, <2>6, <2>9 DEF Kept
      <3> QED  BY <3>1, <1>13
    <2>12. \A j \in DOMAIN queue : rest[j].event = queue[j].event /\ rest[j].acked = queue[j].acked
                                   /\ (j # i => rest[j].sent = queue[j].sent)
      BY <1>6, <1>7, <2>2, <2>4
    <2>13. Apart(listener'[c], out'[c], meant'[c], event')
      <3>1. Apart(next, Append(out[c], listener[c].queue[i].event), meant[c], event)
        BY <1>3, <1>4, <1>5, <1>6, <1>11, <1>16, <2>2, <2>4, <2>6, <2>12, SentApart
      <3> QED  BY <3>1, <1>4, <1>6, <1>7, <1>8, <2>9
    <2>14. ASSUME even  PROVE Straight(c)'
      <3>1. PICK k \in Nat : InLine(c, k)
        BY <1>14, <2>14
      <3>2. InOrder(queue, out[c], meant[c], k) /\ Counted(queue, flight[c], reports[c], 0, k)
        BY <3>1, <1>4, <1>15 DEF InLine
      <3>3. i = k + 1
        <4>1. ~(i <= k)
          BY <3>2, <1>5, <1>6, <1>16 DEF InOrder
        <4>2. ~(i > k + 1)
          <5>1. EventSpace(c) \in Int /\ EventSize \in Nat /\ Size(e) = EventSize
            BY <1>7, <1>11, <2>14, SizeFacts DEF EventSpace
          <5> QED  BY <3>1, <1>3, <1>5, <1>16, <5>1 DEF InLine
        <4> QED  BY <4>1, <4>2
      <3>4. PICK l \in Nat : l = k + 1
        OBVIOUS
      <3>5. InOrder(rest, Append(out[c], e), meant[c], l)
        <4>1. InOrder(rest, Append(out[c], queue[k + 1].event), meant[c], k + 1)
          BY <1>5, <1>11, <2>2, <2>4, <2>12, <3>2, <3>3, SentInOrder
        <4> QED  BY <4>1, <1>6, <1>7, <3>3, <3>4
      <3>6. Counted(rest, flight[c] + EventSize, reports[c], 0, l)
        <4>1. queue # <<>>
          BY <1>5
        <4>2. Counted(rest, flight[c] + EventSize, reports[c], 0, k + 1)
          BY <1>11, <2>4, <2>12, <3>2, <4>1, SentCounted
        <4> QED  BY <4>2, <3>4
      <3>7. ~(task'.at > l + 1)
        BY <1>9, <3>3, <3>4
      <3>8. InLine(c, l)'
        BY <1>7, <1>15, <2>6, <2>9, <2>14, <3>5, <3>6, <3>7 DEF InLine
      <3> QED  BY <2>6, <2>9, <3>8 DEF Straight
    <2> QED  BY <1>10, <1>12, <2>9, <2>10, <2>11, <2>13, <2>14, StepOf
  <1>17. CASE ~(~m.sent /\ Size(e) <= EventSpace(c))
    <2>1. UNCHANGED <<out, flight, listener>>
      BY <1>3, <1>4, <1>5, <1>6, <1>7, <1>17 DEF SendOne
    <2>2. \A d \in Listeners : Kept(d)
      BY <1>8, <2>1 DEF Kept
    <2>3. Types'
      BY <1>1, <1>8, <1>9, <2>1 DEF Types
    <2>4. TaskFits'
      BY <1>13, <2>1
    <2>5. Apart(listener'[c], out'[c], meant'[c], event')
      BY <1>8, <1>11, <2>1
    <2>6. ASSUME even  PROVE Straight(c)'
      <3>1. PICK k \in Nat : InLine(c, k)
        BY <1>14, <2>6
      <3>2. InOrder(queue, out[c], meant[c], k)
        BY <3>1, <1>4 DEF InLine
      <3>3. EventSpace(c) \in Int /\ EventSize \in Nat /\ Size(e) = EventSize /\ EventSpace(c)' = EventSpace(c)
        BY <1>7, <1>11, <2>1, <2>6, SizeFacts DEF EventSpace
      <3>4. i + 1 > k + 1 => EventSpace(c) < EventSize
        <4>1. CASE i > k + 1
          BY <3>1, <1>3, <1>5, <4>1 DEF InLine
        <4>2. CASE i <= k
          BY <4>2
        <4>3. CASE i = k + 1
          <5>1. ~m.sent
            BY <3>2, <1>5, <1>6, <4>3 DEF InOrder
          <5> QED  BY <5>1, <1>17, <3>3
        <4> QED  BY <4>1, <4>2, <4>3
      <3>5. InLine(c, k)'
        BY <1>8, <1>9, <1>15, <2>1, <3>1, <3>3, <3>4 DEF InLine
      <3> QED  BY <1>3, <2>1, <3>5 DEF Straight
    <2> QED  BY <1>10, <1>12, <2>2, <2>3, <2>4, <2>5, <2>6, StepOf
  <1> QED  BY <1>16, <1>17

\* The clients of send(), one after the other.
LEMMA ClientsListed ==
    ASSUME NEW S \in SUBSET Listeners, S # {}
    PROVE  /\ SetToSeq(S) \in Seq(Listeners) /\ SetToSeq(S) # <<>> /\ IsInjective(SetToSeq(S))
           /\ \A i \in DOMAIN SetToSeq(S) : SetToSeq(S)[i] \in S
  <1>1. IsFiniteSet(S)
    BY EventAssumption, FS_Subset
  <1>2. PICK n \in Nat : n = Cardinality(S) /\ n # 0 /\ ExistsBijection(1 .. n, S)
    BY <1>1, FS_CardinalityType, FS_EmptySet
  <1>3. PICK f \in [1 .. n -> S] : IsInjective(f)
    BY <1>2 DEF ExistsBijection, Bijection, Injection
  <1>4. PICK s : s = SetToSeq(S)
    OBVIOUS
  <1>5. s \in [1 .. n -> S] /\ IsInjective(s)
    BY <1>2, <1>3, <1>4 DEF SetToSeq
  <1>6. s \in Seq(Listeners) /\ DOMAIN s = 1 .. n /\ s # <<>>
    <2>1. s \in [1 .. n -> Listeners]
      BY <1>5
    <2>2. s \in Seq(Listeners) /\ Len(s) = n
      BY <2>1, <1>2
    <2> QED  BY <2>1, <2>2, <1>2
  <1> QED  BY <1>4, <1>5, <1>6

\* The next client gets the event, and its queue is run.
LEMMA QueueStep ==
    ASSUME EInv, NEW clients \in Seq(Listeners), clients # <<>>, IsInjective(clients), NEW e \in Nat, e <= event',
           \A i \in DOMAIN clients : listener[clients[i]].st = "client" /\ e \notin ToSet(meant[clients[i]]),
           QueueEvent(Head(clients), e), task' = Run(clients, e), task.left = 0,
           UNCHANGED <<even, out, flight, reports>>, event' \in Nat, event <= event'
    PROVE  EInv'
  <1>1. Types /\ event \in Nat
    BY DEF EInv, Types
  <1>2. PICK c \in Listeners : c = Head(clients) /\ c = clients[1] /\ 1 \in DOMAIN clients
    BY TailFacts
  <1>3. listener[c].st = "client" /\ e \notin ToSet(meant[c])
    BY <1>2
  <1>4. /\ listener[c] \in Clients /\ meant[c] \in Seq(Nat) /\ out[c] \in Seq(Nat)
        /\ Apart(listener[c], out[c], meant[c], event)
    BY <1>1, ListenerFacts DEF EInv, Separate
  <1>5. /\ listener'[c] = [listener[c] EXCEPT !.queue = Append(listener[c].queue, Message(e))]
        /\ meant'[c] = Append(meant[c], e)
        /\ \A d \in Listeners : d # c => Kept(d)
    BY <1>1, <1>2 DEF QueueEvent, Types, Kept
  <1>6. /\ task'.todo = clients /\ task'.at = 1 /\ task'.event = e /\ task'.left = 0
        /\ task' \in [todo : Seq(Listeners), at : Nat, event : Nat, left : Nat]
    BY DEF Run
  <1>7. Types'
    BY <1>1, <1>2, <1>6, QueuedTypes DEF Types
  <1>8. TaskFits'
    <2>1. listener'[c].st = "client"
      BY <1>3, <1>4, <1>5 DEF Clients
    <2>2. ASSUME NEW i \in DOMAIN clients
          PROVE  listener'[clients[i]].st = "client" /\ (i > 1 => e \notin ToSet(meant'[clients[i]]))
      <3>1. clients[i] \in Listeners /\ listener[clients[i]].st = "client" /\ e \notin ToSet(meant[clients[i]])
        OBVIOUS
      <3>2. CASE clients[i] = c
        <4>1. i = 1
          BY <1>2, <3>2 DEF IsInjective
        <4> QED  BY <2>1, <3>2, <4>1
      <3>3. CASE clients[i] # c
        BY <3>1, <3>3, <1>5 DEF Kept
      <3> QED  BY <3>2, <3>3
    <2> QED  BY <1>6, <2>2 DEF TaskFits
  <1>9. Apart(listener'[c], out'[c], meant'[c], event')
    <2>1. Apart(listener[c], out[c], meant[c], event')
      BY <1>1, <1>4, ApartLater
    <2>2. Apart([listener[c] EXCEPT !.queue = Append(listener[c].queue, Message(e))], out[c], Append(meant[c], e), event')
      BY <1>3, <1>4, <2>1, QueuedApart
    <2> QED  BY <1>5, <2>2
  <1>10. even => Straight(c)'
    BY <1>2, <1>3, <1>6, QueuedStraight
  <1>11. \A d \in Listeners : d # c => Aside(d)'
    BY <1>2, <1>6 DEF Aside
  <1> QED  BY <1>5, <1>7, <1>8, <1>9, <1>10, <1>11, StepOf

LEMMA IdleStep ==
    ASSUME EInv, task' = Idle, UNCHANGED <<even, listener, out, flight, reports, meant>>,
           event' \in Nat, event <= event'
    PROVE  EInv'
  <1>1. Types
    BY DEF EInv
  <1>2. TaskFits' /\ task' \in [todo : Seq(Listeners), at : Nat, event : Nat, left : Nat]
    BY IdleFits
  <1>3. Types'
    BY <1>1, <1>2 DEF Types
  <1>4. \A c \in Listeners : Kept(c) /\ Aside(c)'
    BY DEF Kept, Aside, Idle
  <1>5. \A c \in Listeners : Apart(listener'[c], out'[c], meant'[c], event') /\ (even => Straight(c)')
    BY <1>3, <1>4, OtherListener
  <1>6. Separate'
    BY <1>5 DEF Separate
  <1>7. AllStraight'
    BY <1>5 DEF AllStraight
  <1> QED  BY <1>2, <1>3, <1>6, <1>7 DEF EInv

LEMMA RunDoneStep ==
    ASSUME EInv, RunDone
    PROVE  EInv'
  <1>1. Types /\ TaskFits /\ event \in Nat /\ task.at \in Nat /\ task.todo \in Seq(Listeners) /\ task.event \in Nat
    BY DEF EInv, Types
  <1>2. Busy /\ task.left = 0 /\ task.todo # <<>>
    <2>1. Idle.at = 0
      BY DEF Idle
    <2>2. Busy /\ task.at > 0
      BY <2>1, <1>1 DEF RunDone, Running, Busy
    <2> QED  BY <2>2, TaskOf
  <1>3. PICK rest \in Seq(Listeners) : rest = Tail(task.todo)
    BY <1>1, <1>2, TailFacts
  <1>4. UNCHANGED <<even, out, flight, reports, event>> /\ event' \in Nat /\ event <= event'
    BY <1>1 DEF RunDone
  <1>5. CASE rest = <<>>
    <2>1. task' = Idle /\ UNCHANGED <<listener, meant>>
      BY <1>3, <1>5 DEF RunDone
    <2> QED  BY <2>1, <1>4, IdleStep
  <1>6. CASE rest # <<>>
    <2>1. QueueEvent(Head(rest), task.event) /\ task' = Run(rest, task.event)
      BY <1>3, <1>6 DEF RunDone
    <2>2. \A i \in DOMAIN rest : i \in Nat /\ i # 0 /\ i + 1 \in DOMAIN task.todo /\ rest[i] = task.todo[i + 1]
      BY <1>1, <1>2, <1>3, TailFacts
    <2>3. IsInjective(rest)
      <3>1. \A i, j \in DOMAIN rest : rest[i] = rest[j] => i + 1 = j + 1
        BY <1>1, <2>2 DEF TaskFits, IsInjective
      <3>2. \A i, j \in DOMAIN rest : i + 1 = j + 1 => i = j
        BY <2>2
      <3> QED  BY <3>1, <3>2 DEF IsInjective
    <2>4. \A i \in DOMAIN rest : listener[rest[i]].st = "client" /\ task.event \notin ToSet(meant[rest[i]])
      <3>1. \A i \in DOMAIN rest : i + 1 > 1
        BY <2>2
      <3> QED  BY <1>1, <2>2, <3>1 DEF TaskFits
    <2>5. task.event <= event'
      BY <1>1, <1>4 DEF TaskFits
    <2> QED  BY <1>1, <1>2, <1>4, <1>6, <2>1, <2>3, <2>4, <2>5, QueueStep
  <1> QED  BY <1>5, <1>6

LEMMA SendStep ==
    ASSUME EInv, send
    PROVE  EInv'
  <1>1. Types /\ event \in Nat
    BY DEF EInv, Types
  <1>2. /\ ~Busy /\ event' = event + 1 /\ event' \in Nat /\ event <= event'
        /\ UNCHANGED <<even, out, flight, reports>>
    BY <1>1 DEF send
  <1>3. task = Idle /\ task.left = 0
    BY <1>2, NotBusy
  <1>4. CASE Connected = {}
    BY <1>2, <1>3, <1>4, IdleStep DEF send
  <1>5. CASE Connected # {}
    <2>1. PICK clients : clients = SetToSeq(Connected)
      OBVIOUS
    <2>2. /\ clients \in Seq(Listeners) /\ clients # <<>> /\ IsInjective(clients)
          /\ \A i \in DOMAIN clients : clients[i] \in Connected
      <3>1. Connected \in SUBSET Listeners
        BY DEF Connected
      <3> QED  BY <1>5, <2>1, <3>1, ClientsListed
    <2>3. PICK e \in Nat : e = event + 1
      BY <1>1
    <2>4. QueueEvent(Head(clients), e) /\ task' = Run(clients, e)
      BY <1>5, <2>1, <2>3 DEF send
    <2>5. ASSUME NEW i \in DOMAIN clients
          PROVE  listener[clients[i]].st = "client" /\ e \notin ToSet(meant[clients[i]])
      <3>1. PICK c \in Listeners : c = clients[i] /\ listener[c].st = "client"
        BY <2>2 DEF Connected
      <3>2. meant[c] \in Seq(Nat) /\ \A j \in DOMAIN meant[c] : meant[c][j] <= event
        BY <1>1, ListenerFacts DEF EInv, Separate, Apart
      <3>3. \A j \in DOMAIN meant[c] : meant[c][j] \in Nat /\ meant[c][j] # e
        BY <1>1, <2>3, <3>2
      <3> QED  BY <3>1, <3>3 DEF ToSet
    <2> QED  BY <1>2, <1>3, <2>2, <2>3, <2>4, <2>5, QueueStep
  <1> QED  BY <1>4, <1>5

-----------------------------------------------------------------------------
LEMMA StepHolds ==
    ASSUME EInv, [EventSourceNext]_eventVars
    PROVE  EInv'
  <1>1. ASSUME NEW c \in Listeners,
               \/ Listen(c) \/ ResponseAck(c) \/ ListenerAck(c) \/ ListenerPoll(c)
               \/ ListenerGone(c) \/ PeerAck(c)
        PROVE  EInv'
    BY <1>1, ListenStep, ResponseAckStep, ListenerAckStep, ListenerPollStep, ListenerGoneStep, PeerAckStep
  <1>2. ASSUME UNCHANGED eventVars  PROVE EInv'
    <2>1. UNCHANGED <<even, listener, out, flight, reports, meant, event, task>>
      BY <1>2 DEF eventVars
    <2>2. Types' /\ TaskFits' /\ Separate'
      BY <2>1 DEF EInv, Types, TaskFits, Separate
    <2>3. \A c \in Listeners : Credits(c)' = Credits(c)
      BY <2>1 DEF Credits
    <2>4. ASSUME NEW c \in Listeners, Straight(c)  PROVE Straight(c)'
      BY <2>1, <2>3, <2>4 DEF Straight, InLine, EventSpace
    <2>5. AllStraight'
      BY <2>1, <2>4 DEF EInv, AllStraight
    <2> QED  BY <2>2, <2>5 DEF EInv
  <1> QED  BY <1>1, <1>2, CreditOneStep, CreditDoneStep, SendOneStep, RunDoneStep, SendStep DEF EventSourceNext

LEMMA EInvGivesOrder ==
    ASSUME EInv
    PROVE  EventsInOrder
  <1>1. ASSUME NEW c \in Listeners
        PROVE  /\ IsInjective(out[c])
               /\ ToSet(out[c]) \subseteq ToSet(meant[c])
               /\ even /\ listener[c].st = "client" =>
                     \E k \in 0 .. Len(listener[c].queue) :
                        /\ \A i \in DOMAIN listener[c].queue : listener[c].queue[i].sent <=> i <= k
                        /\ meant[c] = out[c] \o Behind(listener[c].queue, k)
    <2>1. IsInjective(out[c]) /\ \A i \in DOMAIN out[c] : out[c][i] \in ToSet(meant[c])
      BY DEF EInv, Separate, Apart
    <2>2. ToSet(out[c]) \subseteq ToSet(meant[c])
      <3>1. \A x \in ToSet(out[c]) : \E i \in DOMAIN out[c] : x = out[c][i]
        BY DEF ToSet
      <3> QED  BY <2>1, <3>1
    <2>3. ASSUME even, listener[c].st = "client"
          PROVE  \E k \in Nat : InOrder(listener[c].queue, out[c], meant[c], k)
      BY <2>3 DEF EInv, AllStraight, Straight, InLine
    <2> QED  BY <2>1, <2>2, <2>3 DEF InOrder
  <1> QED  BY <1>1 DEF EventsInOrder

\* No listener gets an event twice, or one that was not meant for it; and with
\* events of one size, and no room made while a queue is being run, it gets
\* them in the order in which send() was called, none left out.
THEOREM EventsAreInOrder == Spec => []EventsInOrder
  <1>1. EventSourceInit => EInv
    BY InitHolds
  <1>2. EInv /\ [EventSourceNext]_eventVars => EInv'
    BY StepHolds
  <1>3. EInv => EventsInOrder
    BY EInvGivesOrder
  <1> QED  BY <1>1, <1>2, <1>3, PTL DEF Spec


=============================================================================
