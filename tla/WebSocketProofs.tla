--------------------------- MODULE WebSocketProofs ---------------------------
(***************************************************************************)
(* Proofs about the web socket, for every set of connections and scripts,  *)
(* any number of calls, every size of text, buffer and queue.              *)
(*                                                                         *)
(* One induction, SInv, of three parts.  Texts ties, of one client, the    *)
(* frames that have gone out to the texts queued for it and to the queue:  *)
(* the queue is the end of what was queued, only its first text has begun, *)
(* and the last frame is where that text is.  Counted ties each buffer to  *)
(* the clients that have its text in their queue; a step of one client is  *)
(* reasoned about with what the others use held apart (Counts, Good).      *)
(* Reading ties what the handler of the program was given to the frame the *)
(* client is inside of.  An operation on the queues either Keeps all this  *)
(* or deletes the client (Serves).                                         *)
(***************************************************************************)
EXTENDS WebSocket, FunctionTheorems, FiniteSetTheorems, SequenceTheorems, TLAPS

Message ==
    [id : Nat, kind : {"basic", "multi"}, sent : Nat, ack : Int, acked : Int, state : {"SENDING", "SENT"}]
Frame == [op : {"TEXT", "BINARY", "CONTINUATION"}, final : {0, 1}, id : Nat, from : Nat, len : Nat]

LEMMA Sizes ==
    /\ TextLen \in Nat /\ TextLen > 0 /\ MaxQueued \in Nat /\ Calls \in Nat /\ SocketRoom \in Nat
    /\ Opcodes \in [1 .. Calls -> {"TEXT", "BINARY"}]
  BY SocketAssumption

-----------------------------------------------------------------------------
(* Sequences                                                                 *)

LEMMA FirstReplaced ==
    ASSUME NEW S, NEW s \in Seq(S), s # <<>>, NEW x \in S, NEW t, t = [s EXCEPT ![1] = x]
    PROVE  /\ t \in Seq(S) /\ Len(t) = Len(s) /\ DOMAIN t = DOMAIN s /\ t # <<>> /\ 1 \in DOMAIN s
           /\ t[1] = x /\ \A i \in DOMAIN s : i # 1 => t[i] = s[i]
  OBVIOUS

LEMMA Rest ==
    ASSUME NEW S, NEW s \in Seq(S), NEW n \in 1 .. Len(s) + 1, NEW t, t = SubSeq(s, n, Len(s))
    PROVE  /\ t \in Seq(S) /\ Len(t) = Len(s) + 1 - n /\ DOMAIN t = 1 .. Len(t)
           /\ \A i \in 1 .. Len(t) : t[i] = s[n - 1 + i]
           /\ n = 1 => t = s
  OBVIOUS

LEMMA Pushed ==
    ASSUME NEW S, NEW s \in Seq(S), NEW x \in S, NEW t, t = Append(s, x)
    PROVE  /\ t \in Seq(S) /\ Len(t) = Len(s) + 1 /\ t # <<>> /\ DOMAIN t = 1 .. Len(s) + 1
           /\ \A i \in 1 .. Len(s) : t[i] = s[i]
           /\ t[Len(s) + 1] = x
  OBVIOUS

LEMMA OfSeq ==
    ASSUME NEW S, NEW s \in Seq(S)
    PROVE  Len(s) \in Nat /\ DOMAIN s = 1 .. Len(s) /\ (s = <<>> <=> Len(s) = 0) /\ \A i \in DOMAIN s : s[i] \in S
  OBVIOUS

-----------------------------------------------------------------------------
(* Frames                                                                    *)

Begins(f)       == f.op = Opcodes[f.id] /\ f.from = 0
Continues(f, e) == f.op = "CONTINUATION" /\ f.id = e.id /\ f.from = e.from + e.len
Follows(f, e, queued) == \E j \in 1 .. Len(queued) - 1 : queued[j] = e.id /\ queued[j + 1] = f.id

\* What FramesAreTexts says of one connection.
FollowsUp(frames, queued, i) ==
    IF i = 1 THEN Begins(frames[i]) /\ frames[i].id = queued[1]
    ELSE IF frames[i - 1].final = 1 THEN Begins(frames[i]) /\ Follows(frames[i], frames[i - 1], queued)
    ELSE Continues(frames[i], frames[i - 1])

Framed(frames, queued) ==
    \A i \in DOMAIN frames :
       /\ FollowsUp(frames, queued, i)
       /\ frames[i].final = 1 <=> frames[i].from + frames[i].len = TextLen

\* The number of texts that have left the queue.
Left(messages, queued) == Len(queued) - Len(messages)

\* The last frame is one of the text in front or, if none of it has gone out, the
\* last of the text before it.
LastFrame(messages, queued, frames) ==
    LET f == frames[Len(frames)] IN
    IF messages # <<>> /\ messages[1].sent > 0
    THEN frames # <<>> /\ f.id = messages[1].id /\ f.from + f.len = messages[1].sent
    ELSE IF Left(messages, queued) = 0 THEN frames = <<>>
    ELSE frames # <<>> /\ f.id = queued[Left(messages, queued)] /\ f.final = 1

\* The queue holds the last of the texts queued; only of the first has anything
\* gone out, and it is sent when it has gone out.
InQueue(messages, queued) ==
    /\ Len(messages) <= MaxQueued /\ Len(messages) <= Len(queued)
    /\ \A i \in DOMAIN messages :
         /\ messages[i].id = queued[Left(messages, queued) + i]
         /\ messages[i].state = "SENT" => messages[i].sent = TextLen
         /\ i > 1 => messages[i].sent = 0

\* Texts are queued once, in order.
Queued(queued, last) ==
    /\ \A i \in DOMAIN queued : queued[i] \in 1 .. last
    /\ \A i, j \in DOMAIN queued : i < j => queued[i] < queued[j]

Typed(messages, queued, frames, last) ==
    /\ messages \in Seq(Message) /\ queued \in Seq(Nat) /\ frames \in Seq(Frame) /\ last \in 0 .. Calls
    /\ \A i \in DOMAIN messages : messages[i].sent <= TextLen

Texts(messages, queued, frames, last) ==
    /\ Typed(messages, queued, frames, last)
    /\ Framed(frames, queued) /\ LastFrame(messages, queued, frames)
    /\ InQueue(messages, queued) /\ Queued(queued, last)

\* A frame of the text in front goes out.
LEMMA FrameGoes ==
    ASSUME NEW messages, NEW queued, NEW frames, NEW last, Texts(messages, queued, frames, last), messages # <<>>,
           NEW size \in Nat \ {0}, messages[1].sent + size <= TextLen,
           NEW m \in Message, m.id = messages[1].id, m.state = messages[1].state,
           m.sent = messages[1].sent + size,
           NEW f \in Frame, f.id = m.id, f.from = messages[1].sent, f.len = size,
           f.op = IF messages[1].sent = 0 THEN Opcodes[m.id] ELSE "CONTINUATION",
           f.final = 1 <=> m.sent = TextLen,
           NEW sent, sent = [messages EXCEPT ![1] = m],
           NEW out, out = Append(frames, f)
    PROVE  Texts(sent, queued, out, last)
  <1> DEFINE first == messages[1]
             n == Len(frames)
             e == frames[n]
             before == Left(messages, queued)
  <1>1. /\ messages \in Seq(Message) /\ queued \in Seq(Nat) /\ frames \in Seq(Frame) /\ TextLen \in Nat
        /\ last \in 0 .. Calls /\ \A i \in DOMAIN messages : messages[i].sent <= TextLen
    BY Sizes DEF Texts, Typed
  <1>2. /\ DOMAIN sent = DOMAIN messages /\ Len(sent) = Len(messages) /\ sent[1] = m /\ sent \in Seq(Message)
        /\ \A i \in DOMAIN messages : i # 1 => sent[i] = messages[i]
        /\ sent # <<>> /\ 1 \in DOMAIN messages
    BY <1>1, FirstReplaced
  <1>3. /\ n \in Nat /\ Len(out) = n + 1 /\ out[n + 1] = f /\ DOMAIN out = 1 .. n + 1
        /\ \A i \in 1 .. n : out[i] = frames[i]
        /\ DOMAIN frames = 1 .. n /\ (frames = <<>> <=> n = 0) /\ out \in Seq(Frame) /\ out # <<>>
    <2>1. n \in Nat /\ DOMAIN frames = 1 .. n /\ (frames = <<>> <=> n = 0)
      BY <1>1, OfSeq
    <2>2. /\ out \in Seq(Frame) /\ Len(out) = Len(frames) + 1 /\ out # <<>> /\ DOMAIN out = 1 .. Len(frames) + 1
          /\ \A i \in 1 .. Len(frames) : out[i] = frames[i]
          /\ out[Len(frames) + 1] = f
      <3> HIDE DEF n
      <3>1. out = Append(frames, f) /\ frames \in Seq(Frame) /\ f \in Frame
        BY <1>1
      <3>2. out \in Seq(Frame) /\ Len(out) = Len(frames) + 1 /\ out[Len(frames) + 1] = f
        BY <3>1
      <3>3. out # <<>> /\ DOMAIN out = 1 .. Len(frames) + 1
        <4>1. DOMAIN out = 1 .. Len(out) /\ (out = <<>> <=> Len(out) = 0) /\ Len(frames) \in Nat
          BY <3>1, <3>2, OfSeq
        <4> QED  BY <3>2, <4>1
      <3>4. \A i \in 1 .. Len(frames) : out[i] = frames[i]
        BY <3>1
      <3> QED  BY <3>2, <3>3, <3>4
    <2> QED  BY <2>1, <2>2
  <1>4. Len(messages) \in Nat /\ Len(queued) \in Nat /\ DOMAIN messages = 1 .. Len(messages)
    BY <1>1
  <1>5. first \in Message /\ first.sent \in Nat /\ f.len = size /\ f.from \in Nat
    <2>1. first \in Message
      BY <1>1, <1>2, OfSeq
    <2> QED  BY <2>1 DEF Message
  <1>6. InQueue(messages, queued) /\ LastFrame(messages, queued, frames) /\ Framed(frames, queued) /\ Queued(queued, last)
    BY DEF Texts
  <1>7. /\ Left(sent, queued) = before /\ before \in Nat /\ first.id = queued[before + 1]
        /\ before + 1 <= Len(queued)
    BY <1>2, <1>4, <1>6 DEF Left, InQueue
  <1>8. InQueue(sent, queued)
    <2>1. m.state # "SENT"
      <3>1. first.state = "SENT" => first.sent = TextLen
        BY <1>2, <1>6 DEF InQueue
      <3>2. first.sent # TextLen
        BY <1>1, <1>5
      <3> QED  BY <3>1, <3>2
    <2>2. ASSUME NEW i \in DOMAIN sent
          PROVE  /\ sent[i].id = queued[before + i]
                 /\ sent[i].state = "SENT" => sent[i].sent = TextLen
                 /\ i > 1 => sent[i].sent = 0
      BY <1>2, <1>6, <1>7, <2>1 DEF InQueue
    <2> QED  BY <1>2, <1>6, <1>7, <2>2 DEF InQueue
  <1>9. LastFrame(sent, queued, out)
    <2>1. m.sent > 0 /\ f.from + f.len = m.sent
      BY <1>5
    <2> QED  BY <1>2, <1>3, <2>1 DEF LastFrame
  <1>10. Framed(out, queued)
    <2>2. f.final = 1 <=> f.from + f.len = TextLen
      BY <1>5
    <2>3. FollowsUp(out, queued, n + 1)
      <3>1. CASE first.sent > 0
        <4>1. n > 0 /\ e.id = first.id /\ e.from + e.len = first.sent
          BY <1>2, <1>3, <1>6, <3>1 DEF LastFrame
        <4>2. e.final # 1
          <5>0. n \in DOMAIN frames
            BY <1>3, <4>1
          <5>1. e.final = 1 <=> e.from + e.len = TextLen
            BY <1>6, <5>0 DEF Framed
          <5>2. first.sent # TextLen
            BY <1>1, <1>5
          <5> QED  BY <4>1, <5>1, <5>2
        <4>3. Continues(f, e)
          BY <3>1, <4>1 DEF Continues
        <4>4. out[n + 1] = f /\ out[n + 1 - 1] = e /\ n + 1 # 1
          <5>1. n + 1 - 1 = n /\ n \in 1 .. n /\ n + 1 # 1
            BY <1>3, <4>1
          <5> QED  BY <1>3, <5>1
        <4> QED  BY <4>2, <4>3, <4>4 DEF FollowsUp
      <3>2. CASE first.sent = 0 /\ before = 0
        <4>1. n = 0 /\ Begins(f) /\ f.id = queued[1]
          BY <1>3, <1>6, <1>7, <3>2 DEF LastFrame, Begins
        <4> QED  BY <1>3, <4>1 DEF FollowsUp
      <3>3. CASE first.sent = 0 /\ before # 0
        <4>1. n > 0 /\ e.id = queued[before] /\ e.final = 1 /\ Begins(f)
          BY <1>3, <1>6, <3>3 DEF LastFrame, Begins
        <4>2. Follows(f, e, queued)
          <5>1. before \in 1 .. Len(queued) - 1
            BY <1>4, <1>7, <3>3
          <5> QED  BY <1>7, <4>1, <5>1 DEF Follows
        <4>4. out[n + 1] = f /\ out[n + 1 - 1] = e /\ n + 1 # 1
          <5>1. n + 1 - 1 = n /\ n \in 1 .. n /\ n + 1 # 1
            BY <1>3, <4>1
          <5> QED  BY <1>3, <5>1
        <4> QED  BY <4>1, <4>2, <4>4 DEF FollowsUp
      <3> QED  BY <1>5, <3>1, <3>2, <3>3
    <2>4. ASSUME NEW i \in 1 .. n
          PROVE  FollowsUp(out, queued, i) /\ (out[i].final = 1 <=> out[i].from + out[i].len = TextLen)
      <3>1. out[i] = frames[i] /\ (i # 1 => out[i - 1] = frames[i - 1])
        BY <1>3
      <3>2. FollowsUp(frames, queued, i) /\ (frames[i].final = 1 <=> frames[i].from + frames[i].len = TextLen)
        BY <1>3, <1>6 DEF Framed
      <3> QED  BY <3>1, <3>2 DEF FollowsUp
    <2>5. \A i \in 1 .. n + 1 : i \in 1 .. n \/ i = n + 1
      BY <1>3
    <2> QED  BY <1>3, <2>2, <2>3, <2>4, <2>5 DEF Framed
  <1>11. Typed(sent, queued, out, last)
    BY <1>1, <1>2, <1>3 DEF Typed
  <1> QED  BY <1>6, <1>8, <1>9, <1>10, <1>11 DEF Texts

\* The texts in front leave that have gone out.
LEMMA FrontLeaves ==
    ASSUME NEW messages, NEW queued, NEW frames, NEW last, Texts(messages, queued, frames, last),
           NEW first \in 1 .. Len(messages) + 1,
           \A i \in 1 .. first - 1 : messages[i].state = "SENT",
           NEW rest, rest = SubSeq(messages, first, Len(messages))
    PROVE  Texts(rest, queued, frames, last)
  <1> DEFINE before == Left(messages, queued)
  <1>1. /\ messages \in Seq(Message) /\ queued \in Seq(Nat) /\ frames \in Seq(Frame)
        /\ TextLen \in Nat /\ TextLen > 0 /\ MaxQueued \in Nat
        /\ last \in 0 .. Calls /\ \A i \in DOMAIN messages : messages[i].sent <= TextLen
    BY Sizes DEF Texts, Typed
  <1>2. /\ rest \in Seq(Message) /\ Len(rest) = Len(messages) + 1 - first /\ DOMAIN rest = 1 .. Len(rest)
        /\ \A i \in 1 .. Len(rest) : rest[i] = messages[first - 1 + i]
        /\ first = 1 => rest = messages
    BY <1>1, Rest
  <1>3. Len(messages) \in Nat /\ Len(queued) \in Nat /\ DOMAIN messages = 1 .. Len(messages)
    BY <1>1
  <1>4. InQueue(messages, queued) /\ LastFrame(messages, queued, frames) /\ Framed(frames, queued) /\ Queued(queued, last)
    BY DEF Texts
  <1>5. first \in {1, 2}
    <2> SUFFICES ASSUME first > 2  PROVE FALSE
      BY <1>3
    <2>1. 2 \in DOMAIN messages /\ messages[2].state = "SENT" /\ 2 > 1
      BY <1>3
    <2>2. messages[2].sent = TextLen
      BY <1>4, <2>1 DEF InQueue
    <2>3. messages[2].sent = 0
      BY <1>4, <2>1 DEF InQueue
    <2> QED  BY <1>1, <2>2, <2>3
  <1>6. CASE first = 1
    BY <1>2, <1>6
  <1>7. CASE first = 2
    <2> DEFINE f == frames[Len(frames)]
    <2>1. /\ Left(rest, queued) = before + 1 /\ before \in Nat /\ Len(rest) = Len(messages) - 1
          /\ Len(rest) \in Nat /\ 1 \in DOMAIN messages /\ messages # <<>>
      BY <1>2, <1>3, <1>4, <1>7 DEF Left, InQueue
    <2>2. ASSUME NEW i \in DOMAIN rest
          PROVE  /\ rest[i].id = queued[Left(rest, queued) + i]
                 /\ rest[i].state = "SENT" => rest[i].sent = TextLen
                 /\ rest[i].sent = 0 /\ rest[i].sent <= TextLen
      <3>1. rest[i] = messages[i + 1] /\ i + 1 \in DOMAIN messages /\ i + 1 > 1
        BY <1>2, <1>3, <1>7, <2>1
      <3>2. Left(rest, queued) + i = before + (i + 1)
        BY <1>2, <2>1
      <3> QED  BY <1>1, <1>4, <3>1, <3>2 DEF InQueue
    <2>3. InQueue(rest, queued)
      <3>1. Len(rest) <= MaxQueued /\ Len(rest) <= Len(queued)
        BY <1>1, <1>3, <1>4, <2>1 DEF InQueue
      <3> QED  BY <2>2, <3>1 DEF InQueue
    <2>4. messages[1].sent = TextLen /\ messages[1].id = queued[before + 1]
      BY <1>4, <1>7, <2>1 DEF InQueue
    <2>5. frames # <<>> /\ f.id = queued[Left(rest, queued)] /\ f.from + f.len = TextLen
      BY <1>1, <1>4, <2>1, <2>4 DEF LastFrame
    <2>6. f.final = 1
      <3>1. Len(frames) \in DOMAIN frames
        BY <1>1, <2>5
      <3> QED  BY <1>4, <2>5, <3>1 DEF Framed
    <2>7. rest # <<>> => rest[1].sent = 0
      <3>1. rest # <<>> => 1 \in DOMAIN rest
        BY <1>2, <2>1
      <3> QED  BY <2>2, <3>1
    <2>8. LastFrame(rest, queued, frames)
      BY <2>1, <2>5, <2>6, <2>7 DEF LastFrame
    <2>9. Typed(rest, queued, frames, last)
      BY <1>1, <1>2, <2>2 DEF Typed
    <2> QED  BY <1>4, <2>3, <2>8, <2>9 DEF Texts
  <1> QED  BY <1>5, <1>6, <1>7

\* The text in front is acknowledged, or found to have gone out.
LEMMA FrontIsAcked ==
    ASSUME NEW messages, NEW queued, NEW frames, NEW last, Texts(messages, queued, frames, last),
           messages # <<>>,
           NEW m \in Message, m.id = messages[1].id, m.sent = messages[1].sent,
           m.state = messages[1].state \/ m.sent = TextLen,
           NEW acked, acked = [messages EXCEPT ![1] = m]
    PROVE  Texts(acked, queued, frames, last)
  <1>1. /\ messages \in Seq(Message) /\ queued \in Seq(Nat) /\ frames \in Seq(Frame)
        /\ last \in 0 .. Calls /\ \A i \in DOMAIN messages : messages[i].sent <= TextLen
    BY DEF Texts, Typed
  <1>2. /\ DOMAIN acked = DOMAIN messages /\ Len(acked) = Len(messages) /\ acked[1] = m /\ acked \in Seq(Message)
        /\ \A i \in DOMAIN messages : i # 1 => acked[i] = messages[i]
        /\ acked # <<>> /\ 1 \in DOMAIN messages
    BY <1>1, FirstReplaced
  <1>3. Left(acked, queued) = Left(messages, queued)
    BY <1>2 DEF Left
  <1>4. InQueue(messages, queued) /\ LastFrame(messages, queued, frames) /\ Framed(frames, queued) /\ Queued(queued, last)
    BY DEF Texts
  <1>5. InQueue(acked, queued)
    <2>1. m.state = "SENT" => m.sent = TextLen
      BY <1>2, <1>4 DEF InQueue
    <2>2. ASSUME NEW i \in DOMAIN acked
          PROVE  /\ acked[i].id = queued[Left(acked, queued) + i]
                 /\ acked[i].state = "SENT" => acked[i].sent = TextLen
                 /\ i > 1 => acked[i].sent = 0
      BY <1>2, <1>3, <1>4, <2>1 DEF InQueue
    <2> QED  BY <1>2, <1>4, <2>2 DEF InQueue
  <1>6. LastFrame(acked, queued, frames)
    BY <1>2, <1>3, <1>4 DEF LastFrame
  <1>7. Typed(acked, queued, frames, last)
    <2>1. \A i \in DOMAIN acked : acked[i].sent <= TextLen
      BY <1>1, <1>2
    <2> QED  BY <1>1, <1>2, <2>1 DEF Typed
  <1> QED  BY <1>4, <1>5, <1>6, <1>7 DEF Texts

\* A text joins the queue.
LEMMA TextJoins ==
    ASSUME NEW messages, NEW queued, NEW frames, NEW last, Texts(messages, queued, frames, last),
           Len(messages) < MaxQueued, last > 0,
           \A i \in DOMAIN queued : queued[i] < last,
           NEW m \in Message, m.id = last, m.sent = 0, m.state = "SENDING",
           NEW longer, longer = Append(messages, m),
           NEW queue, queue = Append(queued, last)
    PROVE  Texts(longer, queue, frames, last)
  <1> DEFINE n == Len(messages)
             before == Left(messages, queued)
  <1>1. /\ messages \in Seq(Message) /\ queued \in Seq(Nat) /\ frames \in Seq(Frame)
        /\ TextLen \in Nat /\ TextLen > 0 /\ MaxQueued \in Nat /\ Calls \in Nat
        /\ last \in 0 .. Calls /\ \A i \in DOMAIN messages : messages[i].sent <= TextLen
    BY Sizes DEF Texts, Typed
  <1>2. /\ n \in Nat /\ DOMAIN messages = 1 .. n /\ (messages = <<>> <=> n = 0)
        /\ longer \in Seq(Message) /\ Len(longer) = n + 1 /\ DOMAIN longer = 1 .. n + 1 /\ longer # <<>>
        /\ \A i \in 1 .. n : longer[i] = messages[i]
        /\ longer[n + 1] = m
    <2>1. n \in Nat /\ DOMAIN messages = 1 .. n /\ (messages = <<>> <=> n = 0)
      BY <1>1, OfSeq
    <2>2. /\ longer \in Seq(Message) /\ Len(longer) = Len(messages) + 1 /\ longer # <<>>
          /\ DOMAIN longer = 1 .. Len(messages) + 1
          /\ \A i \in 1 .. Len(messages) : longer[i] = messages[i]
          /\ longer[Len(messages) + 1] = m
      <3> HIDE DEF n
      <3> QED  BY <1>1
    <2> QED  BY <2>1, <2>2
  <1>3. last \in Nat
    BY <1>1
  <1>4. /\ Len(queued) \in Nat /\ DOMAIN queued = 1 .. Len(queued) /\ queue \in Seq(Nat)
        /\ Len(queue) = Len(queued) + 1 /\ DOMAIN queue = 1 .. Len(queued) + 1
        /\ \A i \in 1 .. Len(queued) : queue[i] = queued[i]
        /\ queue[Len(queued) + 1] = last
    BY <1>1, <1>3, Pushed, OfSeq
  <1>5. InQueue(messages, queued) /\ LastFrame(messages, queued, frames) /\ Framed(frames, queued) /\ Queued(queued, last)
    BY DEF Texts
  <1>6. Left(longer, queue) = before /\ before \in Nat /\ before + n = Len(queued)
    BY <1>2, <1>4, <1>5 DEF Left, InQueue
  <1>7. before # 0 => before \in 1 .. Len(queued) /\ queue[before] = queued[before]
    BY <1>2, <1>4, <1>6
  <1>8. InQueue(longer, queue)
    <2>1. Len(longer) <= MaxQueued /\ Len(longer) <= Len(queue)
      BY <1>1, <1>2, <1>4, <1>5 DEF InQueue
    <2>2. ASSUME NEW i \in 1 .. n
          PROVE  /\ longer[i].id = queue[before + i]
                 /\ longer[i].state = "SENT" => longer[i].sent = TextLen
                 /\ i > 1 => longer[i].sent = 0
      <3>1. longer[i] = messages[i] /\ queue[before + i] = queued[before + i]
        <4>1. before + i \in 1 .. Len(queued)
          BY <1>2, <1>4, <1>6
        <4> QED  BY <1>2, <1>4, <4>1
      <3> QED  BY <1>2, <1>5, <3>1 DEF InQueue
    <2>3. longer[n + 1].id = queue[before + (n + 1)] /\ longer[n + 1].sent = 0 /\ longer[n + 1].state # "SENT"
      <3>1. before + (n + 1) = Len(queued) + 1
        BY <1>2, <1>4, <1>6
      <3> QED  BY <1>2, <1>4, <3>1
    <2>4. \A i \in 1 .. n + 1 : i \in 1 .. n \/ i = n + 1
      BY <1>2
    <2> QED  BY <1>2, <1>6, <2>1, <2>2, <2>3, <2>4 DEF InQueue
  <1>9. Queued(queue, last)
    <2>1. ASSUME NEW i \in 1 .. Len(queued) + 1  PROVE queue[i] \in 1 .. last
      <3>1. CASE i = Len(queued) + 1
        BY <1>3, <1>4, <3>1
      <3>2. CASE i # Len(queued) + 1
        <4>1. i \in 1 .. Len(queued)
          BY <1>4, <3>2
        <4> QED  BY <1>4, <1>5, <4>1 DEF Queued
      <3> QED  BY <3>1, <3>2
    <2>2. ASSUME NEW i \in 1 .. Len(queued) + 1, NEW j \in 1 .. Len(queued) + 1, i < j  PROVE queue[i] < queue[j]
      <3>1. i \in 1 .. Len(queued) /\ queue[i] = queued[i]
        BY <1>4, <2>2
      <3>2. CASE j = Len(queued) + 1
        BY <1>4, <3>1, <3>2
      <3>3. CASE j # Len(queued) + 1
        <4>1. j \in 1 .. Len(queued) /\ queue[j] = queued[j]
          BY <1>4, <3>3
        <4> QED  BY <1>4, <1>5, <2>2, <3>1, <4>1 DEF Queued
      <3> QED  BY <3>2, <3>3
    <2> QED  BY <1>4, <2>1, <2>2 DEF Queued
  <1>10. LastFrame(longer, queue, frames)
    <2>1. CASE n = 0
      <3>1. longer[1].sent = 0 /\ messages = <<>>
        BY <1>2, <2>1
      <3> QED  BY <1>5, <1>6, <1>7, <3>1 DEF LastFrame
    <2>2. CASE n # 0
      <3>1. longer[1] = messages[1] /\ messages # <<>>
        BY <1>2, <2>2
      <3> QED  BY <1>2, <1>5, <1>6, <1>7, <3>1 DEF LastFrame
    <2> QED  BY <2>1, <2>2
  <1>11. Framed(frames, queue)
    <2>1. ASSUME NEW f, NEW e, Follows(f, e, queued)  PROVE Follows(f, e, queue)
      <3>1. PICK j \in 1 .. Len(queued) - 1 : queued[j] = e.id /\ queued[j + 1] = f.id
        BY <2>1 DEF Follows
      <3>2. queue[j] = queued[j] /\ queue[j + 1] = queued[j + 1] /\ j \in 1 .. Len(queue) - 1
        BY <1>4
      <3> QED  BY <3>1, <3>2 DEF Follows
    <2>2. frames # <<>> => Len(queued) > 0
      <3>1. CASE n # 0
        BY <1>2, <1>4, <1>6, <3>1
      <3>2. CASE n = 0
        <4>1. messages = <<>>
          BY <1>2, <3>2
        <4> QED  BY <1>4, <1>5, <1>6, <3>2, <4>1 DEF LastFrame
      <3> QED  BY <3>1, <3>2
    <2>3. frames # <<>> => queue[1] = queued[1]
      BY <1>4, <2>2
    <2>4. \A i \in DOMAIN frames : frames # <<>>
      OBVIOUS
    <2>5. ASSUME NEW i \in DOMAIN frames  PROVE FollowsUp(frames, queue, i)
      <3>1. FollowsUp(frames, queued, i)
        BY <1>5 DEF Framed
      <3> QED  BY <2>1, <2>3, <2>4, <3>1 DEF FollowsUp
    <2> QED  BY <1>5, <2>5 DEF Framed
  <1>12. Typed(longer, queue, frames, last)
    <2>1. m.sent <= TextLen
      BY <1>1
    <2>2. \A i \in 1 .. n + 1 : longer[i].sent <= TextLen
      <3>1. \A i \in 1 .. n + 1 : i = n + 1 \/ i \in 1 .. n
        BY <1>2
      <3> QED  BY <1>1, <1>2, <2>1, <3>1
    <2> QED  BY <1>1, <1>2, <1>4, <2>2 DEF Typed
  <1> QED  BY <1>8, <1>9, <1>10, <1>11, <1>12 DEF Texts

-----------------------------------------------------------------------------
(* What one client holds: its fields, its line, and what the buffers count  *)

ClientFields == {"st", "status", "controls", "messages", "pstate", "op", "len", "index"}
LineFields   == {"frames", "flight", "reports", "queued"}

LineShape(l) == l = [f \in LineFields |-> l[f]]

Shape(h) ==
    /\ h = [f \in {"ws", "line", "buffers"} |-> h[f]]
    /\ h.ws = [f \in ClientFields |-> h.ws[f]]
    /\ LineShape(h.line)

\* Whether a text in a buffer of all is in a queue.
Has(id, messages) == \E i \in DOMAIN messages : messages[i].id = id /\ messages[i].kind = "multi"

Distinct(messages) == \A i, j \in DOMAIN messages : messages[i].id = messages[j].id => i = j

\* The buffers count this queue's messages and those of the other clients, rest.
Counts(messages, bs, last, rest) ==
    /\ bs = [id \in DOMAIN bs |-> bs[id]] /\ DOMAIN bs \subseteq 1 .. last
    /\ \A id \in DOMAIN bs : bs[id] \in Nat /\ bs[id] = rest[id] + Uses(id, messages)
    /\ \A id \in 1 .. last : rest[id] \in Nat /\ (rest[id] + Uses(id, messages) > 0 => id \in DOMAIN bs)

Good(h, last, rest) ==
    /\ Shape(h)
    /\ Texts(h.ws.messages, h.line.queued, h.line.frames, last)
    /\ h.line.flight \in Seq(Int) /\ h.line.reports \in Seq(Int)
    /\ Counts(h.ws.messages, h.buffers, last, rest)

\* What the queues leave alone of a client.
Parsed(w) == <<w.st, w.pstate, w.op, w.len, w.index>>

-----------------------------------------------------------------------------
LEMMA IdsDiffer ==
    ASSUME NEW messages, NEW queued, NEW frames, NEW last, Texts(messages, queued, frames, last)
    PROVE  Distinct(messages)
  <1>1. messages \in Seq(Message) /\ queued \in Seq(Nat) /\ InQueue(messages, queued) /\ Queued(queued, last)
    BY DEF Texts, Typed
  <1>2. /\ Len(messages) \in Nat /\ DOMAIN messages = 1 .. Len(messages)
        /\ Len(queued) \in Nat /\ DOMAIN queued = 1 .. Len(queued) /\ \A i \in DOMAIN queued : queued[i] \in Nat
        /\ Left(messages, queued) = Len(queued) - Len(messages) /\ Len(messages) <= Len(queued)
    BY <1>1 DEF InQueue, Left
  <1>3. ASSUME NEW i \in DOMAIN messages, NEW j \in DOMAIN messages, i < j
        PROVE  messages[i].id # messages[j].id
    <2>1. PICK a, b : a = Left(messages, queued) + i /\ b = Left(messages, queued) + j
      OBVIOUS
    <2>2. a \in DOMAIN queued /\ b \in DOMAIN queued /\ a < b
      BY <1>2, <1>3, <2>1
    <2>3. queued[a] < queued[b] /\ queued[a] \in Nat /\ queued[b] \in Nat
      BY <1>1, <1>2, <2>2 DEF Queued
    <2>4. messages[i].id = queued[a] /\ messages[j].id = queued[b]
      BY <1>1, <2>1 DEF InQueue
    <2> QED  BY <2>3, <2>4
  <1>4. \A i, j \in DOMAIN messages : i = j \/ i < j \/ j < i
    BY <1>2
  <1> QED  BY <1>3, <1>4 DEF Distinct

LEMMA UsesOnce ==
    ASSUME NEW messages, Distinct(messages), NEW id
    PROVE  Uses(id, messages) = IF Has(id, messages) THEN 1 ELSE 0
  <1> DEFINE s == {i \in DOMAIN messages : messages[i].id = id /\ messages[i].kind = "multi"}
  <1>1. CASE Has(id, messages)
    <2>1. PICK i \in DOMAIN messages : messages[i].id = id /\ messages[i].kind = "multi"
      BY <1>1 DEF Has
    <2>2. s = {i}
      BY <2>1 DEF Distinct
    <2> QED  BY <1>1, <2>2, FS_Singleton DEF Uses
  <1>2. CASE ~ Has(id, messages)
    <2>1. s = {}
      BY <1>2 DEF Has
    <2> QED  BY <1>2, <2>1, FS_EmptySet DEF Uses
  <1> QED  BY <1>1, <1>2

LEMMA UsesIsNat ==
    ASSUME NEW messages, Distinct(messages), NEW id
    PROVE  Uses(id, messages) \in {0, 1}
  BY UsesOnce

LEMMA UsesKept ==
    ASSUME NEW messages, NEW other, NEW id, DOMAIN messages = DOMAIN other,
           \A i \in DOMAIN messages : messages[i].id = other[i].id /\ messages[i].kind = other[i].kind
    PROVE  Uses(id, messages) = Uses(id, other)
  <1>1. {i \in DOMAIN messages : messages[i].id = id /\ messages[i].kind = "multi"}
      = {i \in DOMAIN other : other[i].id = id /\ other[i].kind = "multi"}
    OBVIOUS
  <1> QED  BY <1>1 DEF Uses

\* The texts in front go, those behind them stay.
LEMMA UsesSplit ==
    ASSUME NEW messages \in Seq(Message), Distinct(messages), NEW id,
           NEW first \in 1 .. Len(messages) + 1,
           NEW front, front = SubSeq(messages, 1, first - 1),
           NEW behind, behind = SubSeq(messages, first, Len(messages))
    PROVE  Uses(id, messages) = Uses(id, front) + Uses(id, behind) /\ Uses(id, front) \in {0, 1} /\ Uses(id, behind) \in {0, 1}
  <1>1. /\ front \in Seq(Message) /\ DOMAIN front = 1 .. first - 1
        /\ \A i \in 1 .. first - 1 : front[i] = messages[i]
    OBVIOUS
  <1>2. /\ DOMAIN behind = 1 .. Len(messages) + 1 - first
        /\ \A i \in 1 .. Len(messages) + 1 - first : behind[i] = messages[first - 1 + i]
    <2>1. /\ Len(behind) = Len(messages) + 1 - first /\ DOMAIN behind = 1 .. Len(behind)
          /\ \A i \in 1 .. Len(behind) : behind[i] = messages[first - 1 + i]
      BY Rest
    <2> QED  BY <2>1
  <1>3. DOMAIN messages = 1 .. Len(messages) /\ Len(messages) \in Nat
    OBVIOUS
  <1>4. Distinct(front)
    BY <1>1, <1>3 DEF Distinct
  <1>5. Distinct(behind)
    <2>1. ASSUME NEW i \in DOMAIN behind, NEW j \in DOMAIN behind, behind[i].id = behind[j].id
          PROVE  i = j
      <3>1. first - 1 + i \in DOMAIN messages /\ first - 1 + j \in DOMAIN messages
        BY <1>2, <1>3
      <3>2. first - 1 + i = first - 1 + j
        BY <1>2, <2>1, <3>1 DEF Distinct
      <3> QED  BY <1>2, <3>2
    <2> QED  BY <2>1 DEF Distinct
  <1>6. Has(id, front) => Has(id, messages)
    BY <1>1, <1>3 DEF Has
  <1>7. Has(id, behind) => Has(id, messages)
    <2>1. \A i \in DOMAIN behind : first - 1 + i \in DOMAIN messages /\ behind[i] = messages[first - 1 + i]
      BY <1>2, <1>3
    <2> QED  BY <2>1 DEF Has
  <1>8. Has(id, messages) => Has(id, front) \/ Has(id, behind)
    <2>1. SUFFICES ASSUME NEW i \in DOMAIN messages, messages[i].id = id, messages[i].kind = "multi"
                   PROVE  Has(id, front) \/ Has(id, behind)
      BY DEF Has
    <2>2. CASE i < first
      <3>1. i \in DOMAIN front /\ front[i] = messages[i]
        BY <1>1, <1>3, <2>2
      <3> QED  BY <2>1, <3>1 DEF Has
    <2>3. CASE i >= first
      <3>1. PICK j : j = i - first + 1
        OBVIOUS
      <3>2. j \in DOMAIN behind /\ behind[j] = messages[i]
        <4>1. j \in 1 .. Len(messages) + 1 - first /\ first - 1 + j = i
          BY <1>3, <2>3, <3>1
        <4> QED  BY <1>2, <4>1
      <3> QED  BY <2>1, <3>2 DEF Has
    <2> QED  BY <1>3, <2>2, <2>3
  <1>9. ~ (Has(id, front) /\ Has(id, behind))
    <2>1. SUFFICES ASSUME NEW i \in DOMAIN front, front[i].id = id, NEW j \in DOMAIN behind, behind[j].id = id
                   PROVE  FALSE
      BY DEF Has
    <2>2. i \in DOMAIN messages /\ front[i] = messages[i] /\ i < first
      BY <1>1, <1>3
    <2>3. PICK k : k = first - 1 + j
      OBVIOUS
    <2>4. k \in DOMAIN messages /\ behind[j] = messages[k] /\ k >= first
      BY <1>2, <1>3, <2>3
    <2>5. i = k
      BY <2>1, <2>2, <2>4 DEF Distinct
    <2> QED  BY <1>3, <2>2, <2>4, <2>5
  <1> QED  BY <1>4, <1>5, <1>6, <1>7, <1>8, <1>9, UsesOnce

LEMMA UsesOfOne ==
    ASSUME NEW m, NEW id
    PROVE  Uses(id, <<m>>) = IF m.id = id /\ m.kind = "multi" THEN 1 ELSE 0
  <1>1. Distinct(<<m>>)
    BY DEF Distinct
  <1>2. Has(id, <<m>>) <=> m.id = id /\ m.kind = "multi"
    BY DEF Has
  <1> QED  BY <1>1, <1>2, UsesOnce

LEMMA UsesJoined ==
    ASSUME NEW messages, NEW m, NEW longer, NEW n \in Nat, DOMAIN messages = 1 .. n, DOMAIN longer = 1 .. n + 1,
           \A i \in 1 .. n : longer[i] = messages[i], longer[n + 1] = m,
           Distinct(longer), NEW id
    PROVE  Uses(id, longer) = Uses(id, messages) + Uses(id, <<m>>)
  <1>1. /\ n \in Nat /\ DOMAIN messages = 1 .. n /\ DOMAIN longer = 1 .. n + 1
        /\ longer[n + 1] = m
    OBVIOUS
  <1>2. \A i \in 1 .. n : longer[i] = messages[i]
    OBVIOUS
  <1>3. Distinct(messages)
    BY <1>1, <1>2 DEF Distinct
  <1>4. Has(id, messages) => Has(id, longer) /\ ~ (m.id = id)
    <2>1. SUFFICES ASSUME NEW i \in DOMAIN messages, messages[i].id = id, messages[i].kind = "multi"
                   PROVE  Has(id, longer) /\ m.id # id
      BY DEF Has
    <2>2. i \in DOMAIN longer /\ longer[i] = messages[i] /\ n + 1 \in DOMAIN longer /\ i # n + 1
      BY <1>1, <1>2
    <2>3. Has(id, longer)
      BY <2>1, <2>2 DEF Has
    <2>4. m.id # id
      BY <1>1, <2>1, <2>2 DEF Distinct
    <2> QED  BY <2>3, <2>4
  <1>5. m.id = id /\ m.kind = "multi" => Has(id, longer)
    <2>1. n + 1 \in DOMAIN longer
      BY <1>1
    <2> QED  BY <1>1, <2>1 DEF Has
  <1>6. Has(id, longer) => Has(id, messages) \/ (m.id = id /\ m.kind = "multi")
    <2>1. SUFFICES ASSUME NEW i \in DOMAIN longer, longer[i].id = id, longer[i].kind = "multi"
                   PROVE  Has(id, messages) \/ (m.id = id /\ m.kind = "multi")
      BY DEF Has
    <2>2. CASE i = n + 1
      BY <1>1, <2>1, <2>2
    <2>3. CASE i # n + 1
      <3>1. i \in DOMAIN messages /\ longer[i] = messages[i]
        BY <1>1, <1>2, <2>3
      <3> QED  BY <2>1, <3>1 DEF Has
    <2> QED  BY <2>2, <2>3
  <1> QED  BY <1>3, <1>4, <1>5, <1>6, UsesOnce, UsesOfOne

-----------------------------------------------------------------------------
(* A frame goes out                                                         *)

LEMMA CountsKept ==
    ASSUME NEW messages, NEW bs, NEW last, NEW rest, Counts(messages, bs, last, rest),
           NEW other, \A id : Uses(id, other) = Uses(id, messages)
    PROVE  Counts(other, bs, last, rest)
  BY DEF Counts

LEMMA CountsWithout ==
    ASSUME NEW messages, NEW bs, NEW last, NEW rest, Counts(messages, bs, last, rest),
           NEW front, NEW behind,
           \A id : /\ Uses(id, messages) = Uses(id, front) + Uses(id, behind)
                   /\ Uses(id, front) \in Nat /\ Uses(id, behind) \in Nat
    PROVE  Counts(behind, Without(bs, front), last, rest)
  <1> DEFINE new == Without(bs, front)
  <1>1. /\ new = [id \in DOMAIN new |-> new[id]] /\ DOMAIN new = DOMAIN bs /\ DOMAIN new \subseteq 1 .. last
        /\ \A id \in DOMAIN bs : new[id] = bs[id] - Uses(id, front)
    BY DEF Counts, Without
  <1>2. ASSUME NEW id \in DOMAIN new
        PROVE  new[id] \in Nat /\ new[id] = rest[id] + Uses(id, behind)
    <2>1. id \in DOMAIN bs /\ id \in 1 .. last
      BY <1>1
    <2>2. bs[id] = rest[id] + Uses(id, messages) /\ rest[id] \in Nat
      BY <2>1 DEF Counts
    <2> QED  BY <1>1, <2>1, <2>2
  <1>3. ASSUME NEW id \in 1 .. last
        PROVE  rest[id] \in Nat /\ (rest[id] + Uses(id, behind) > 0 => id \in DOMAIN new)
    <2>1. rest[id] \in Nat /\ (rest[id] + Uses(id, messages) > 0 => id \in DOMAIN bs)
      BY DEF Counts
    <2>2. rest[id] + Uses(id, behind) > 0 => rest[id] + Uses(id, messages) > 0
      BY <2>1
    <2> QED  BY <1>1, <2>1, <2>2
  <1> HIDE DEF new
  <1>4. Counts(behind, new, last, rest)
    BY <1>1, <1>2, <1>3 DEF Counts
  <1> QED  BY <1>4 DEF new

LEMMA CountsAdded ==
    ASSUME NEW messages, NEW bs, NEW last, NEW rest, Counts(messages, bs, last, rest),
           NEW m, m.id \in Nat, NEW longer,
           \A id : Uses(id, longer) = Uses(id, messages) + Uses(id, <<m>>) /\ Uses(id, messages) \in Nat,
           m.kind = "multi" => m.id \in DOMAIN bs,
           NEW new, new = [id \in DOMAIN bs |-> bs[id] + Uses(id, <<m>>)]
    PROVE  Counts(longer, new, last, rest)
  <1>1. /\ new = [id \in DOMAIN new |-> new[id]] /\ DOMAIN new = DOMAIN bs /\ DOMAIN new \subseteq 1 .. last
        /\ \A id \in DOMAIN bs : new[id] = bs[id] + Uses(id, <<m>>)
    BY DEF Counts
  <1>2. \A id : Uses(id, <<m>>) = IF m.id = id /\ m.kind = "multi" THEN 1 ELSE 0
    BY UsesOfOne
  <1>3. \A id : Uses(id, <<m>>) \in Nat
    BY <1>2
  <1>4. ASSUME NEW id \in DOMAIN new
        PROVE  new[id] \in Nat /\ new[id] = rest[id] + Uses(id, longer)
    <2>1. id \in DOMAIN bs /\ id \in 1 .. last
      BY <1>1
    <2>2. bs[id] = rest[id] + Uses(id, messages) /\ rest[id] \in Nat /\ bs[id] \in Nat
      BY <2>1 DEF Counts
    <2> QED  BY <1>1, <1>3, <2>1, <2>2
  <1>5. ASSUME NEW id \in 1 .. last
        PROVE  rest[id] \in Nat /\ (rest[id] + Uses(id, longer) > 0 => id \in DOMAIN new)
    <2>1. rest[id] \in Nat /\ (rest[id] + Uses(id, messages) > 0 => id \in DOMAIN bs)
      BY DEF Counts
    <2>2. CASE Uses(id, <<m>>) = 0
      BY <1>1, <2>1, <2>2
    <2>3. CASE Uses(id, <<m>>) # 0
      BY <1>1, <1>2, <2>1, <2>3
    <2> QED  BY <2>2, <2>3
  <1> QED  BY <1>1, <1>4, <1>5 DEF Counts

LEMMA CountsClean ==
    ASSUME NEW messages, NEW bs, NEW last, NEW rest, Counts(messages, bs, last, rest),
           \A id : Uses(id, messages) \in Nat
    PROVE  Counts(messages, _cleanBuffers(bs), last, rest)
  <1> DEFINE new == _cleanBuffers(bs)
  <1>1. /\ new = [id \in DOMAIN new |-> new[id]] /\ DOMAIN new = {i \in DOMAIN bs : bs[i] > 0} /\ DOMAIN new \subseteq 1 .. last
        /\ \A id \in DOMAIN new : new[id] = bs[id]
    BY DEF Counts, _cleanBuffers
  <1>2. ASSUME NEW id \in DOMAIN new
        PROVE  new[id] \in Nat /\ new[id] = rest[id] + Uses(id, messages)
    BY <1>1 DEF Counts
  <1>3. ASSUME NEW id \in 1 .. last
        PROVE  rest[id] \in Nat /\ (rest[id] + Uses(id, messages) > 0 => id \in DOMAIN new)
    <2>1. rest[id] \in Nat /\ (rest[id] + Uses(id, messages) > 0 => id \in DOMAIN bs)
      BY DEF Counts
    <2>2. id \in DOMAIN bs => bs[id] = rest[id] + Uses(id, messages)
      BY DEF Counts
    <2> QED  BY <1>1, <2>1, <2>2
  <1> HIDE DEF new
  <1>4. Counts(messages, new, last, rest)
    BY <1>1, <1>2, <1>3 DEF Counts
  <1> QED  BY <1>4 DEF new

LEMMA UsesNone ==
    ASSUME NEW id  PROVE Uses(id, <<>>) = 0
  <1>1. {i \in DOMAIN <<>> : <<>>[i].id = id /\ <<>>[i].kind = "multi"} = {}
    OBVIOUS
  <1> QED  BY <1>1, FS_EmptySet DEF Uses

-----------------------------------------------------------------------------
(* The queues                                                                *)

LEMMA HeadIsInt ==
    ASSUME NEW len  PROVE FrameHead(len) \in Int
  BY DEF FrameHead

LEMMA FlightGrows ==
    ASSUME NEW flight \in Seq(Int), NEW l, l.flight = flight, NEW len \in Int
    PROVE  Append(flight, InFlight(l) + len + FrameHead(len)) \in Seq(Int)
  <1>1. InFlight(l) \in Int
    <2>1. CASE flight = <<>>
      BY <2>1 DEF InFlight
    <2>2. CASE flight # <<>>
      <3>1. Last(flight) \in Int
        BY <2>2 DEF Last
      <3> QED  BY <2>2, <3>1 DEF InFlight
    <2> QED  BY <2>1, <2>2
  <1>2. PICK n : n = InFlight(l) + len + FrameHead(len)
    OBVIOUS
  <1>3. n \in Int
    BY <1>1, <1>2, HeadIsInt
  <1>4. Append(flight, n) \in Seq(Int)
    BY <1>3
  <1> QED  BY <1>2, <1>4

LEMMA FrameSent ==
    ASSUME NEW l, LineShape(l), l.flight \in Seq(Int), NEW op, NEW final, NEW id, id # 0, NEW from, NEW len \in Int, NEW k,
           k = SendFrame(l, op, final, id, from, len),
           NEW f, f = [op |-> op, final |-> final, id |-> id, from |-> from, len |-> len]
    PROVE  /\ LineShape(k) /\ k.queued = l.queued /\ k.reports = l.reports /\ k.flight \in Seq(Int)
           /\ k.frames = Append(l.frames, f)
  <1>1. /\ LineShape(k)
        /\ k.frames = Append(l.frames, f)
        /\ k.queued = l.queued /\ k.reports = l.reports
        /\ k.flight = Append(l.flight, InFlight(l) + len + FrameHead(len))
    BY DEF SendFrame, LineShape, LineFields
  <1> QED  BY <1>1, FlightGrows

LEMMA ControlFrameSent ==
    ASSUME NEW l, LineShape(l), l.flight \in Seq(Int), NEW op, NEW k, k = SendFrame(l, op, 1, 0, 0, 0)
    PROVE  /\ LineShape(k) /\ k.queued = l.queued /\ k.reports = l.reports /\ k.flight \in Seq(Int)
           /\ k.frames = l.frames
  <1>1. /\ LineShape(k) /\ k.frames = l.frames /\ k.queued = l.queued /\ k.reports = l.reports
        /\ k.flight = Append(l.flight, InFlight(l) + 0 + FrameHead(0))
    BY DEF SendFrame, LineShape, LineFields
  <1>2. PICK len \in Int : len = 0
    OBVIOUS
  <1>3. Append(l.flight, InFlight(l) + len + FrameHead(len)) \in Seq(Int)
    BY FlightGrows
  <1> QED  BY <1>1, <1>2, <1>3

\* What the steps of a queue keep.
Keeps(h, g, last, rest) ==
    Good(g, last, rest) /\ Parsed(g.ws) = Parsed(h.ws) /\ g.line.queued = h.line.queued

LEMMA ControlKeeps ==
    ASSUME NEW h, NEW last, NEW rest, Good(h, last, rest)
    PROVE  Keeps(h, SendControl(h), last, rest)
  <1>1. PICK controls : controls = [h.ws.controls EXCEPT ![1].finished = TRUE]
    OBVIOUS
  <1>2. PICK k : k = SendFrame(h.line, Head(h.ws.controls).op, 1, 0, 0, 0)
    OBVIOUS
  <1>3. PICK g : g = SendControl(h)
    OBVIOUS
  <1>4. LineShape(k) /\ k.frames = h.line.frames /\ k.queued = h.line.queued /\ k.reports = h.line.reports /\ k.flight \in Seq(Int)
    <2>1. PICK l : l = h.line
      OBVIOUS
    <2>2. PICK op : op = Head(h.ws.controls).op
      OBVIOUS
    <2>3. LineShape(l) /\ l.flight \in Seq(Int) /\ k = SendFrame(l, op, 1, 0, 0, 0)
      BY <1>2, <2>1, <2>2 DEF Good, Shape
    <2>4. LineShape(k) /\ k.frames = l.frames /\ k.queued = l.queued /\ k.reports = l.reports /\ k.flight \in Seq(Int)
      BY <2>3, ControlFrameSent
    <2> QED  BY <2>1, <2>4
  <1>5. g = [h EXCEPT !.ws.controls = controls, !.line = k]
    BY <1>1, <1>2, <1>3 DEF SendControl, Good, Shape, LineShape, ClientFields
  <1>6. /\ Shape(g) /\ g.ws.messages = h.ws.messages /\ Parsed(g.ws) = Parsed(h.ws)
        /\ g.line = k /\ g.buffers = h.buffers
    BY <1>4, <1>5 DEF Good, Shape, LineShape, ClientFields, Parsed
  <1> QED  BY <1>3, <1>4, <1>6 DEF Good, Keeps

\* What is known of the message in front.
LEMMA FirstIs ==
    ASSUME NEW messages, NEW queued, NEW frames, NEW last, Texts(messages, queued, frames, last),
           messages # <<>>, NEW first, first = messages[1]
    PROVE  /\ messages \in Seq(Message) /\ first \in Message /\ Head(messages) = first
           /\ first.sent \in Nat /\ first.sent <= TextLen /\ first.id \in 1 .. last /\ last \in Nat
           /\ Opcodes[first.id] \in {"TEXT", "BINARY"} /\ first.ack \in Int /\ first.acked \in Int
  <1>3. /\ messages \in Seq(Message) /\ queued \in Seq(Nat) /\ last \in 0 .. Calls
        /\ \A i \in DOMAIN messages : messages[i].sent <= TextLen
        /\ Calls \in Nat /\ Opcodes \in [1 .. Calls -> {"TEXT", "BINARY"}]
    BY Sizes DEF Texts, Typed
  <1>4. 1 \in DOMAIN messages /\ Len(messages) \in Nat \ {0} /\ Len(queued) \in Nat /\ DOMAIN queued = 1 .. Len(queued)
    BY <1>3
  <1>5. first \in Message /\ Head(messages) = first
    BY <1>3, <1>4, OfSeq
  <1>6. first.sent \in Nat /\ first.ack \in Int /\ first.acked \in Int
    BY <1>5 DEF Message
  <1>7. first.id \in 1 .. last
    <2>0. InQueue(messages, queued) /\ Queued(queued, last)
      BY DEF Texts
    <2>1. first.id = queued[Len(queued) - Len(messages) + 1] /\ Len(messages) <= Len(queued)
      BY <1>4, <2>0 DEF InQueue, Left
    <2>2. PICK n : n = Len(queued) - Len(messages) + 1
      OBVIOUS
    <2>3. n \in DOMAIN queued
      BY <1>4, <2>1, <2>2
    <2> QED  BY <2>0, <2>1, <2>2, <2>3 DEF Queued
  <1>8. Opcodes[first.id] \in {"TEXT", "BINARY"}
    <2>1. first.id \in 1 .. Calls
      BY <1>3, <1>7
    <2>2. Opcodes[first.id] \in {"TEXT", "BINARY"}
      BY <1>3, <2>1
    <2> QED  BY <2>2
  <1>9. last \in Nat /\ first.sent <= TextLen
    BY <1>3, <1>4
  <1> QED  BY <1>3, <1>5, <1>6, <1>7, <1>8, <1>9

\* Good, when the message in front is replaced.
LEMMA UsesReplaced ==
    ASSUME NEW messages \in Seq(Message), messages # <<>>, NEW m \in Message,
           m.id = messages[1].id, m.kind = messages[1].kind,
           NEW other, other = [messages EXCEPT ![1] = m], NEW id
    PROVE  Uses(id, other) = Uses(id, messages)
  <1>1. DOMAIN other = DOMAIN messages /\ other[1] = m /\ \A i \in DOMAIN messages : i # 1 => other[i] = messages[i]
    BY FirstReplaced
  <1>2. \A i \in DOMAIN other : other[i].id = messages[i].id /\ other[i].kind = messages[i].kind
    BY <1>1
  <1> QED  BY <1>1, <1>2, UsesKept

LEMMA WindowIsInt ==
    ASSUME NEW l, l.flight \in Seq(Int)
    PROVE  Window(l) \in Int
  <1>1. InFlight(l) \in Int
    <2>1. CASE l.flight = <<>>
      BY <2>1 DEF InFlight
    <2>2. CASE l.flight # <<>>
      <3>1. Last(l.flight) \in Int
        BY <2>2 DEF Last
      <3> QED  BY <2>2, <3>1 DEF InFlight
    <2> QED  BY <2>1, <2>2
  <1>2. SocketRoom \in Int
    BY Sizes
  <1> QED  BY <1>1, <1>2 DEF Window, SocketSpace

LEMMA MessageKeeps ==
    ASSUME NEW h, NEW last, NEW rest, Good(h, last, rest),
           h.ws.messages # <<>>, Window(h.line) > 0
    PROVE  Keeps(h, SendMessage(h), last, rest)
  <1>1. PICK messages, queued, frames : messages = h.ws.messages /\ queued = h.line.queued /\ frames = h.line.frames
    OBVIOUS
  <1>2. PICK first : first = messages[1]
    OBVIOUS
  <1>3. /\ Texts(messages, queued, frames, last) /\ messages # <<>>
        /\ messages \in Seq(Message) /\ first \in Message /\ Head(messages) = first
        /\ first.sent \in Nat /\ first.sent <= TextLen /\ first.id \in 1 .. last
        /\ Opcodes[first.id] \in {"TEXT", "BINARY"} /\ first.ack \in Int
        /\ last \in Nat /\ TextLen \in Nat /\ Counts(messages, h.buffers, last, rest)
    <2>1. Texts(messages, queued, frames, last) /\ messages # <<>> /\ Counts(messages, h.buffers, last, rest)
      BY <1>1 DEF Good
    <2>2. TextLen \in Nat
      BY Sizes
    <2> QED  BY <1>2, <2>1, <2>2, FirstIs
  <1>4. PICK g : g = SendMessage(h)
    OBVIOUS
  <1>5. CASE TextLen - first.sent = 0
    <2>1. PICK m : m = [first EXCEPT !.state = "SENT"]
      OBVIOUS
    <2>2. m \in Message /\ m.id = first.id /\ m.sent = first.sent /\ m.kind = first.kind /\ m.sent = TextLen
      <3>1. m \in Message /\ m.id = first.id /\ m.sent = first.sent /\ m.kind = first.kind
        BY <1>3, <2>1 DEF Message
      <3>2. first.sent = TextLen
        BY <1>3, <1>5
      <3> QED  BY <3>1, <3>2
    <2>3. g = [h EXCEPT !.ws.messages[1] = m]
      BY <1>1, <1>2, <1>3, <1>4, <1>5, <2>1 DEF SendMessage, Good, Shape, LineShape, ClientFields
    <2>4. PICK acked : acked = [messages EXCEPT ![1] = m]
      OBVIOUS
    <2>5. /\ Shape(g) /\ g.ws.messages = acked /\ Parsed(g.ws) = Parsed(h.ws)
          /\ g.line = h.line /\ g.buffers = h.buffers
      BY <1>1, <2>3, <2>4 DEF Good, Shape, LineShape, ClientFields, LineFields, Parsed
    <2>6. Texts(acked, queued, frames, last)
      BY <1>2, <1>3, <2>2, <2>4, FrontIsAcked
    <2>7. ASSUME NEW id  PROVE Uses(id, acked) = Uses(id, messages)
      <3>1. m \in Message /\ m.id = messages[1].id /\ m.kind = messages[1].kind /\ messages \in Seq(Message) /\ messages # <<>>
        BY <1>2, <1>3, <2>2
      <3> QED  BY <2>4, <3>1, UsesReplaced
    <2>8. Counts(acked, h.buffers, last, rest)
      BY <1>3, <2>7, CountsKept
    <2> QED  BY <1>1, <1>4, <2>5, <2>6, <2>8 DEF Good, Keeps
  <1>6. CASE TextLen - first.sent # 0
    <2>1. PICK size : size = IF TextLen - first.sent < Window(h.line) THEN TextLen - first.sent ELSE Window(h.line)
      OBVIOUS
    <2>2. size \in Nat \ {0} /\ first.sent + size <= TextLen /\ (TextLen - first.sent = size <=> first.sent + size = TextLen)
      <3>1. Window(h.line) \in Int
        BY WindowIsInt DEF Good
      <3> QED  BY <1>3, <1>6, <2>1, <3>1
    <2>3. PICK m : m = [first EXCEPT !.sent = @ + size, !.ack = @ + size + FrameHead(size)]
      OBVIOUS
    <2>4. /\ m \in Message /\ m.id = first.id /\ m.sent = first.sent + size /\ m.kind = first.kind
          /\ m.state = first.state
      <3>1. PICK sent \in Nat, ack \in Int : sent = first.sent + size /\ ack = first.ack + size + FrameHead(size)
        <4>1. PICK head \in Int : head = FrameHead(size)
          BY HeadIsInt
        <4> QED  BY <1>3, <2>2, <4>1
      <3>2. PICK m1 : m1 = [first EXCEPT !.sent = sent]
        OBVIOUS
      <3>3. m1 \in Message /\ m1.id = first.id /\ m1.sent = sent /\ m1.kind = first.kind /\ m1.state = first.state /\ m1.ack = first.ack
        BY <1>3, <3>2 DEF Message
      <3>4. m = [m1 EXCEPT !.ack = ack]
        BY <2>3, <3>1, <3>2, <3>3
      <3> QED  BY <3>1, <3>3, <3>4 DEF Message
    <2>5. PICK op : op = IF first.sent = 0 THEN Opcodes[first.id] ELSE "CONTINUATION"
      OBVIOUS
    <2>6. PICK final : final = IF TextLen - first.sent = size THEN 1 ELSE 0
      OBVIOUS
    <2>7. PICK k : k = SendFrame(h.line, op, final, first.id, first.sent, size)
      OBVIOUS
    <2>8. PICK f : f = [op |-> op, final |-> final, id |-> first.id, from |-> first.sent, len |-> size]
      OBVIOUS
    <2>9. /\ f \in Frame /\ f.id = m.id /\ f.from = first.sent /\ f.len = size /\ f.op = op /\ f.final = final
      <3>1. op \in {"TEXT", "BINARY", "CONTINUATION"} /\ final \in {0, 1} /\ first.id \in Nat /\ first.sent \in Nat /\ size \in Nat
        BY <1>3, <2>2, <2>5, <2>6
      <3> QED  BY <2>4, <2>8, <3>1 DEF Frame
    <2>10. g = [h EXCEPT !.ws.messages[1] = m, !.line = k]
      BY <1>1, <1>2, <1>3, <1>4, <1>6, <2>1, <2>3, <2>5, <2>6, <2>7 DEF SendMessage
    <2>11. /\ LineShape(k) /\ k.queued = queued /\ k.reports = h.line.reports /\ k.flight \in Seq(Int)
           /\ k.frames = Append(frames, f)
      <3>1. PICK l : l = h.line
        OBVIOUS
      <3>2. PICK id, from : id = first.id /\ from = first.sent
        OBVIOUS
      <3>3. /\ LineShape(l) /\ l.flight \in Seq(Int) /\ id # 0
            /\ k = SendFrame(l, op, final, id, from, size)
        BY <1>3, <2>2, <2>7, <3>1, <3>2 DEF Good, Shape
      <3> size \in Int
        BY <2>2
      <3>4. f = [op |-> op, final |-> final, id |-> id, from |-> from, len |-> size]
        BY <2>8, <3>2
      <3>5. LineShape(k)
        BY <3>3, <3>4, FrameSent
      <3>6. k.queued = l.queued
        BY <3>3, <3>4, FrameSent
      <3>7. k.reports = l.reports
        BY <3>3, <3>4, FrameSent
      <3>8. k.flight \in Seq(Int)
        BY <3>3, <3>4, FrameSent
      <3>9. k.frames = Append(l.frames, f)
        BY <3>3, <3>4 DEF SendFrame, LineShape, LineFields
      <3> QED  BY <1>1, <3>1, <3>5, <3>6, <3>7, <3>8, <3>9
    <2>12. PICK sent : sent = [messages EXCEPT ![1] = m]
      OBVIOUS
    <2>13. /\ Shape(g) /\ g.ws.messages = sent /\ Parsed(g.ws) = Parsed(h.ws)
           /\ g.line = k /\ g.buffers = h.buffers
      BY <1>1, <2>10, <2>11, <2>12 DEF Good, Shape, LineShape, ClientFields, LineFields, Parsed
    <2>14. Texts(sent, queued, k.frames, last)
      <3>1. f.final = 1 <=> m.sent = TextLen
        BY <2>2, <2>4, <2>6, <2>9
      <3>2. f.op = IF first.sent = 0 THEN Opcodes[m.id] ELSE "CONTINUATION"
        BY <2>4, <2>5, <2>9
      <3>3. /\ messages # <<>> /\ messages[1].sent + size <= TextLen /\ m.id = messages[1].id /\ m.state = messages[1].state
            /\ m.sent = messages[1].sent + size /\ f.from = messages[1].sent
            /\ f.op = IF messages[1].sent = 0 THEN Opcodes[m.id] ELSE "CONTINUATION"
        BY <1>2, <1>3, <2>2, <2>4, <2>9, <3>2
      <3>4. /\ size \in Nat \ {0} /\ m \in Message /\ f \in Frame /\ f.id = m.id /\ f.len = size
            /\ Texts(messages, queued, frames, last)
        BY <1>3, <2>2, <2>4, <2>9
      <3>5. PICK out : out = k.frames
        OBVIOUS
      <3>6. out = Append(frames, f)
        BY <2>11, <3>5
      <3>7. Texts(sent, queued, out, last)
        BY <2>12, <3>1, <3>3, <3>4, <3>6, FrameGoes
      <3> QED  BY <3>5, <3>7
    <2>15. ASSUME NEW id  PROVE Uses(id, sent) = Uses(id, messages)
      <3>1. m \in Message /\ m.id = messages[1].id /\ m.kind = messages[1].kind /\ messages \in Seq(Message) /\ messages # <<>>
        BY <1>2, <1>3, <2>4
      <3> QED  BY <2>12, <3>1, UsesReplaced
    <2>16. Counts(sent, h.buffers, last, rest)
      BY <1>3, <2>15, CountsKept
    <2> QED  BY <1>1, <1>4, <2>11, <2>13, <2>14, <2>16 DEF Good, Keeps
  <1> QED  BY <1>5, <1>6

-----------------------------------------------------------------------------
(* The queues of a client are run                                           *)

\* Only the message in front can be finished.
LEMMA RemoveKeeps ==
    ASSUME NEW h, NEW last, NEW rest, Good(h, last, rest)
    PROVE  Keeps(h, RemoveFinished(h), last, rest)
  <1>1. PICK messages : messages = h.ws.messages
    OBVIOUS
  <1>2. PICK queued, frames : queued = h.line.queued /\ frames = h.line.frames
    OBVIOUS
  <1>3. Texts(messages, queued, frames, last) /\ Counts(messages, h.buffers, last, rest)
    BY <1>1, <1>2 DEF Good
  <1>4. messages \in Seq(Message) /\ Len(messages) \in Nat /\ DOMAIN messages = 1 .. Len(messages)
    BY <1>3 DEF Texts, Typed
  <1>5. PICK unfinished : unfinished = {i \in DOMAIN messages : messages[i].state = "SENDING"}
    OBVIOUS
  <1>6. PICK first : first = IF unfinished = {} THEN Len(messages) + 1
                             ELSE CHOOSE i \in unfinished : \A j \in unfinished : i <= j
    OBVIOUS
  <1>7. ASSUME NEW i \in DOMAIN messages, i > 1  PROVE i \in unfinished
    <2>1. messages[i].sent = 0 /\ (messages[i].state = "SENT" => messages[i].sent = TextLen)
      BY <1>3, <1>7 DEF Texts, InQueue
    <2>2. messages[i].state \in {"SENDING", "SENT"}
      <3>1. messages[i] \in Message
        BY <1>4
      <3> QED  BY <3>1 DEF Message
    <2> QED  BY <1>5, <2>1, <2>2, Sizes
  <1>8. first \in 1 .. Len(messages) + 1 /\ \A i \in 1 .. first - 1 : messages[i].state = "SENT"
    <2>1. CASE unfinished = {}
      <3>1. ASSUME NEW i \in DOMAIN messages  PROVE messages[i].state = "SENT"
        <4>1. messages[i] \in Message
          BY <1>4
        <4>2. messages[i].state \in {"SENDING", "SENT"}
          BY <4>1 DEF Message
        <4> QED  BY <1>5, <2>1, <4>2
      <3>2. first = Len(messages) + 1
        BY <1>6, <2>1
      <3> QED  BY <1>4, <3>1, <3>2
    <2>2. CASE unfinished # {} /\ 1 \in unfinished
      <3>1. \A j \in unfinished : 1 <= j
        BY <1>4, <1>5
      <3>2. first \in unfinished /\ \A j \in unfinished : first <= j
        BY <1>6, <2>2, <3>1
      <3>3. first = 1
        BY <1>4, <1>5, <2>2, <3>2
      <3> QED  BY <1>4, <3>3
    <2>3. CASE unfinished # {} /\ 1 \notin unfinished
      <3>1. PICK k \in unfinished : TRUE
        BY <2>3
      <3>2. k \in 1 .. Len(messages) /\ k # 1
        BY <1>4, <1>5, <2>3, <3>1
      <3>3. 1 \in DOMAIN messages /\ 2 \in DOMAIN messages /\ 2 \in unfinished
        BY <1>4, <1>7, <3>2
      <3>4. \A j \in unfinished : 2 <= j
        BY <1>4, <1>5, <2>3
      <3>5. first \in unfinished /\ \A j \in unfinished : first <= j
        BY <1>6, <2>3, <3>3, <3>4
      <3>6. first = 2
        BY <1>4, <1>5, <3>3, <3>4, <3>5
      <3>7. messages[1].state = "SENT"
        <4>1. messages[1] \in Message
          BY <1>4, <3>3
        <4>2. messages[1].state \in {"SENDING", "SENT"}
          BY <4>1 DEF Message
        <4> QED  BY <1>5, <2>3, <3>3, <4>2
      <3> QED  BY <1>4, <3>2, <3>6, <3>7
    <2> QED  BY <2>1, <2>2, <2>3
  <1>9. PICK front, behind : front = SubSeq(messages, 1, first - 1) /\ behind = SubSeq(messages, first, Len(messages))
    OBVIOUS
  <1>10. PICK g : g = RemoveFinished(h)
    OBVIOUS
  <1>11. g = [h EXCEPT !.ws.messages = behind, !.buffers = Without(h.buffers, front)]
    <2>1. PICK bs : bs = Without(h.buffers, front)
      OBVIOUS
    <2>2. RemoveFinished(h) = [h EXCEPT !.ws.messages = behind, !.buffers = Without(@, front)]
      BY <1>1, <1>5, <1>6, <1>9 DEF RemoveFinished
    <2> QED  BY <1>10, <2>2 DEF Good, Shape
  <1>12. /\ Shape(g) /\ g.ws.messages = behind /\ Parsed(g.ws) = Parsed(h.ws)
         /\ g.line = h.line /\ g.buffers = Without(h.buffers, front)
    <2>1. PICK bs : bs = Without(h.buffers, front)
      OBVIOUS
    <2>2. g = [h EXCEPT !.ws.messages = behind, !.buffers = bs]
      BY <1>11, <2>1
    <2> QED  BY <2>1, <2>2 DEF Good, Shape, LineShape, ClientFields, LineFields, Parsed
  <1>13. Texts(behind, queued, frames, last)
    BY <1>3, <1>8, <1>9, FrontLeaves
  <1>14. Counts(behind, Without(h.buffers, front), last, rest)
    <2>1. Distinct(messages)
      BY <1>3, IdsDiffer
    <2>2. ASSUME NEW id
          PROVE  Uses(id, messages) = Uses(id, front) + Uses(id, behind) /\ Uses(id, front) \in Nat /\ Uses(id, behind) \in Nat
      <3>1. first \in 1 .. Len(messages) + 1 /\ messages \in Seq(Message)
        BY <1>4, <1>8
      <3>2. Uses(id, messages) = Uses(id, front) + Uses(id, behind)
        BY <1>9, <2>1, <3>1, UsesSplit
      <3>3. Uses(id, front) \in {0, 1}
        BY <1>9, <2>1, <3>1, UsesSplit
      <3>4. Uses(id, behind) \in {0, 1}
        BY <1>9, <2>1, <3>1, UsesSplit
      <3> QED  BY <3>2, <3>3, <3>4
    <2> QED  BY <1>3, <2>2, CountsWithout
  <1> QED  BY <1>2, <1>10, <1>12, <1>13, <1>14 DEF Good, Keeps

LEMMA KeepsOn ==
    ASSUME NEW h, NEW g, NEW k, NEW last, NEW rest, Keeps(h, g, last, rest), Keeps(g, k, last, rest)
    PROVE  Keeps(h, k, last, rest)
  BY DEF Keeps

LEMMA KeepsSame ==
    ASSUME NEW h, NEW last, NEW rest, Good(h, last, rest)
    PROVE  Keeps(h, h, last, rest)
  BY DEF Keeps

LEMMA QueueKeeps ==
    ASSUME NEW h, NEW last, NEW rest, Good(h, last, rest)
    PROVE  Keeps(h, _runQueue(h), last, rest)
  <1>1. PICK g : g = RemoveFinished(h)
    OBVIOUS
  <1>2. Keeps(h, g, last, rest) /\ Good(g, last, rest)
    BY <1>1, RemoveKeeps DEF Keeps
  <1>3. \/ _runQueue(h) = SendControl(g)
        \/ _runQueue(h) = SendMessage(g) /\ g.ws.messages # <<>> /\ Window(g.line) > 0
        \/ _runQueue(h) = g
    BY <1>1 DEF _runQueue
  <1>4. Keeps(g, SendControl(g), last, rest)
    BY <1>2, ControlKeeps
  <1>5. g.ws.messages # <<>> /\ Window(g.line) > 0 => Keeps(g, SendMessage(g), last, rest)
    BY <1>2, MessageKeeps
  <1> QED  BY <1>2, <1>3, <1>4, <1>5, KeepsOn

LEMMA RoomKeeps ==
    ASSUME NEW h, NEW last, NEW rest, Good(h, last, rest)
    PROVE  Keeps(h, RunIfRoom(h), last, rest)
  BY QueueKeeps, KeepsSame DEF RunIfRoom

LEMMA QueueControlKeeps ==
    ASSUME NEW h, NEW last, NEW rest, Good(h, last, rest), NEW op
    PROVE  Keeps(h, _queueControl(h, op), last, rest)
  <1>1. PICK controls : controls = Append(h.ws.controls, [op |-> op, finished |-> FALSE])
    OBVIOUS
  <1>2. PICK g : g = [h EXCEPT !.ws.controls = controls]
    OBVIOUS
  <1>3. /\ Shape(g) /\ g.ws.messages = h.ws.messages /\ Parsed(g.ws) = Parsed(h.ws)
        /\ g.line = h.line /\ g.buffers = h.buffers
    BY <1>2 DEF Good, Shape, LineShape, ClientFields, LineFields, Parsed
  <1>4. Keeps(h, g, last, rest)
    BY <1>3 DEF Good, Keeps
  <1>5. _queueControl(h, op) = RunIfRoom(g)
    BY <1>1, <1>2 DEF _queueControl
  <1>6. Keeps(g, RunIfRoom(g), last, rest)
    BY <1>4, RoomKeeps DEF Keeps
  <1> QED  BY <1>4, <1>5, <1>6, KeepsOn

\* What runs a queue takes no buffer away.
LEMMA QueueDomain ==
    ASSUME NEW h, NEW last, NEW rest, Good(h, last, rest)
    PROVE  DOMAIN (_runQueue(h)).buffers = DOMAIN h.buffers
  <1>1. PICK g : g = RemoveFinished(h)
    OBVIOUS
  <1>2. Shape(h) /\ Shape(g)
    BY <1>1, RemoveKeeps DEF Keeps, Good
  <1>3. DOMAIN g.buffers = DOMAIN h.buffers
    <2>1. PICK first : g = [h EXCEPT !.ws.messages = SubSeq(h.ws.messages, first, Len(h.ws.messages)),
                                    !.buffers = Without(@, SubSeq(h.ws.messages, 1, first - 1))]
      BY <1>1 DEF RemoveFinished
    <2>2. PICK messages, bs : messages = SubSeq(h.ws.messages, first, Len(h.ws.messages))
                              /\ bs = Without(h.buffers, SubSeq(h.ws.messages, 1, first - 1))
      OBVIOUS
    <2>3. g = [h EXCEPT !.ws.messages = messages, !.buffers = bs]
      BY <1>2, <2>1, <2>2 DEF Shape
    <2>4. g.buffers = bs
      BY <1>2, <2>3 DEF Shape
    <2> QED  BY <2>2, <2>4 DEF Without
  <1>4. (SendControl(g)).buffers = g.buffers
    BY <1>2 DEF SendControl, Shape
  <1>5. (SendMessage(g)).buffers = g.buffers
    BY <1>2 DEF SendMessage, Shape
  <1>6. _runQueue(h) \in {SendControl(g), SendMessage(g), g}
    BY <1>1 DEF _runQueue
  <1> QED  BY <1>3, <1>4, <1>5, <1>6

\* What the program's messages keep: the queue of one client grows.
LEMMA QueueMessageKeeps ==
    ASSUME NEW h, NEW last, NEW rest, Good(h, last, rest), last > 0,
           \A i \in DOMAIN h.line.queued : h.line.queued[i] < last,
           NEW m \in Message, m.id = last, m.sent = 0, m.state = "SENDING",
           m.kind = "multi" => last \in DOMAIN h.buffers
    PROVE  /\ Good(_queueMessage(h, m), last, rest) /\ Parsed((_queueMessage(h, m)).ws) = Parsed(h.ws)
           /\ DOMAIN (_queueMessage(h, m)).buffers = DOMAIN h.buffers
  <1>0. \A g : Good(g, last, rest) => DOMAIN (RunIfRoom(g)).buffers = DOMAIN g.buffers
    BY QueueDomain DEF RunIfRoom
  <1>1. CASE h.ws.status # "CONNECTED"
    BY <1>1 DEF _queueMessage
  <1>2. CASE h.ws.status = "CONNECTED" /\ Len(h.ws.messages) >= MaxQueued
    <2>1. _queueMessage(h, m) = RunIfRoom(h)
      BY <1>2 DEF _queueMessage
    <2> QED  BY <1>0, <2>1, RoomKeeps DEF Keeps
  <1>3. CASE h.ws.status = "CONNECTED" /\ ~ (Len(h.ws.messages) >= MaxQueued)
    <2>1. PICK messages, queued, frames, bs :
             messages = h.ws.messages /\ queued = h.line.queued /\ frames = h.line.frames /\ bs = h.buffers
      OBVIOUS
    <2>2. PICK longer, queue, new : /\ longer = Append(messages, m) /\ queue = Append(queued, last)
                                    /\ new = [id \in DOMAIN bs |-> bs[id] + Uses(id, <<m>>)]
      OBVIOUS
    <2>3. PICK g : g = [h EXCEPT !.ws.messages = longer, !.line.queued = queue, !.buffers = new]
      OBVIOUS
    <2>4. _queueMessage(h, m) = RunIfRoom(g)
      <3>1. [h EXCEPT !.ws.messages = Append(@, m), !.line.queued = Append(@, m.id),
                      !.buffers = [id \in DOMAIN @ |-> @[id] + Uses(id, <<m>>)]] = g
        BY <2>1, <2>2, <2>3 DEF Good, Shape, LineShape, ClientFields, LineFields
      <3> QED  BY <1>3, <3>1 DEF _queueMessage
    <2>5. /\ Shape(g) /\ g.ws.messages = longer /\ Parsed(g.ws) = Parsed(h.ws)
          /\ g.line.queued = queue /\ g.line.frames = frames /\ g.line.flight = h.line.flight /\ g.line.reports = h.line.reports
          /\ g.buffers = new
      BY <2>1, <2>3 DEF Good, Shape, LineShape, ClientFields, LineFields, Parsed
    <2>6. Texts(messages, queued, frames, last) /\ Counts(messages, bs, last, rest) /\ messages \in Seq(Message)
      BY <2>1 DEF Good, Texts, Typed
    <2>7. Texts(longer, queue, frames, last)
      <3>1. Len(messages) < MaxQueued
        BY <1>3, <2>1, <2>6, Sizes
      <3> QED  BY <2>1, <2>2, <2>6, <3>1, TextJoins
    <2>8. Counts(longer, new, last, rest)
      <3>1. Distinct(longer)
        BY <2>7, IdsDiffer
      <3>2. ASSUME NEW id
            PROVE  Uses(id, longer) = Uses(id, messages) + Uses(id, <<m>>) /\ Uses(id, messages) \in Nat
        <4>1. Uses(id, longer) = Uses(id, messages) + Uses(id, <<m>>)
          <5>1. PICK n : n = Len(messages)
            OBVIOUS
          <5>2. n \in Nat /\ DOMAIN messages = 1 .. n
            BY <2>6, <5>1
          <5>3. DOMAIN longer = 1 .. n + 1 /\ longer[n + 1] = m /\ \A i \in 1 .. n : longer[i] = messages[i]
            BY <2>2, <2>6, <5>1, Pushed
          <5> QED  BY <3>1, <5>2, <5>3, UsesJoined
        <4>2. Uses(id, messages) \in {0, 1}
          BY <2>6, IdsDiffer, UsesIsNat
        <4> QED  BY <4>1, <4>2
      <3>3. m.id \in Nat
        BY DEF Message
      <3>4. m.kind = "multi" => m.id \in DOMAIN bs
        BY <2>1
      <3>5. \A id : Uses(id, longer) = Uses(id, messages) + Uses(id, <<m>>) /\ Uses(id, messages) \in Nat
        BY <3>2
      <3>6. new = [id \in DOMAIN bs |-> bs[id] + Uses(id, <<m>>)] /\ Counts(messages, bs, last, rest)
        BY <2>2, <2>6
      <3> QED  BY ONLY <3>3, <3>4, <3>5, <3>6, CountsAdded
    <2>9. Good(g, last, rest)
      BY <2>5, <2>7, <2>8 DEF Good
    <2>10. DOMAIN new = DOMAIN h.buffers
      BY <2>1, <2>2
    <2> QED  BY <1>0, <2>4, <2>5, <2>9, <2>10, RoomKeeps DEF Keeps
  <1> QED  BY <1>1, <1>2, <1>3

\* Nothing is queued, sent or used.
LEMMA NoTexts ==
    ASSUME NEW last \in 0 .. Calls  PROVE Texts(<<>>, <<>>, <<>>, last)
  <1>1. <<>> \in Seq(Message) /\ <<>> \in Seq(Nat) /\ <<>> \in Seq(Frame)
    OBVIOUS
  <1>2. Len(<<>>) = 0 /\ DOMAIN <<>> = {}
    OBVIOUS
  <1>3. Left(<<>>, <<>>) = 0
    BY <1>2 DEF Left
  <1> QED  BY <1>1, <1>2, <1>3, Sizes DEF Texts, Typed, Framed, LastFrame, InQueue, Queued

LEMMA GoneGood ==
    ASSUME NEW h, NEW last, NEW rest, Good(h, last, rest)
    PROVE  Good(Gone(h), last, rest) /\ (Gone(h)).ws = [NewClient EXCEPT !.st = "gone"] /\ (Gone(h)).line = NewLine
  <1>1. PICK g : g = Gone(h)
    OBVIOUS
  <1>2. PICK messages, bs : messages = h.ws.messages /\ bs = h.buffers
    OBVIOUS
  <1>3. PICK new, w : new = Without(bs, messages) /\ w = [NewClient EXCEPT !.st = "gone"]
    OBVIOUS
  <1>4. g = [h EXCEPT !.ws = w, !.line = NewLine, !.buffers = new]
    BY <1>1, <1>2, <1>3 DEF Gone, Good, Shape
  <1>5. /\ Shape(g) /\ g.ws = w /\ g.ws.messages = <<>>
        /\ g.line = NewLine /\ g.line.queued = <<>> /\ g.line.frames = <<>> /\ g.line.flight = <<>> /\ g.line.reports = <<>>
        /\ g.buffers = new
    BY <1>3, <1>4 DEF Good, Shape, LineShape, ClientFields, LineFields, NewClient, NewLine
  <1>6. Texts(messages, h.line.queued, h.line.frames, last) /\ Counts(messages, bs, last, rest)
    BY <1>2 DEF Good
  <1>7. Texts(<<>>, <<>>, <<>>, last)
    BY <1>6, NoTexts DEF Texts, Typed
  <1>8. Counts(<<>>, new, last, rest)
    <2>1. ASSUME NEW id
          PROVE  Uses(id, messages) = Uses(id, messages) + Uses(id, <<>>) /\ Uses(id, messages) \in Nat /\ Uses(id, <<>>) \in Nat
      <3>1. Uses(id, messages) \in {0, 1}
        BY <1>6, IdsDiffer, UsesIsNat
      <3> QED  BY <3>1, UsesNone
    <2> QED  BY <1>3, <1>6, <2>1, CountsWithout
  <1>9. <<>> \in Seq(Int)
    OBVIOUS
  <1> QED  BY <1>1, <1>3, <1>5, <1>7, <1>8, <1>9 DEF Good

-----------------------------------------------------------------------------
(* A report, and the end of a frame                                         *)

LEMMA AckOfMessage ==
    ASSUME NEW m \in Message, NEW len \in Int, NEW a, a = MessageAck(m, len)
    PROVE  /\ a \in Message /\ a.id = m.id /\ a.kind = m.kind /\ a.sent = m.sent
           /\ a.state = m.state \/ a.sent = TextLen
  <1>1. PICK acked : acked = m.acked + len
    OBVIOUS
  <1>2. acked \in Int
    BY <1>1 DEF Message
  <1>3. PICK state : /\ state = m.state \/ (m.sent = TextLen /\ state = "SENT")
                     /\ a = [m EXCEPT !.acked = acked, !.state = state]
    <2>1. CASE m.kind = "multi"
      <3>1. PICK state : state = IF m.sent = TextLen /\ acked >= m.ack THEN "SENT" ELSE m.state
        OBVIOUS
      <3>2. a = [m EXCEPT !.acked = acked, !.state = state]
        BY <1>1, <2>1, <3>1 DEF MessageAck, MultiAck, Message
      <3>3. state = m.state \/ (m.sent = TextLen /\ state = "SENT")
        BY <3>1
      <3> QED  BY <3>2, <3>3
    <2>2. CASE m.kind # "multi"
      <3>1. PICK state : state = IF m.sent = TextLen /\ acked = m.ack THEN "SENT" ELSE m.state
        OBVIOUS
      <3>2. a = [m EXCEPT !.acked = acked, !.state = state]
        BY <1>1, <2>2, <3>1 DEF MessageAck, BasicAck, Message
      <3>3. state = m.state \/ (m.sent = TextLen /\ state = "SENT")
        BY <3>1
      <3> QED  BY <3>2, <3>3
    <2> QED  BY <2>1, <2>2
  <1>4. state \in {"SENDING", "SENT"}
    <2>1. m.state \in {"SENDING", "SENT"}
      BY DEF Message
    <2> QED  BY <1>3, <2>1
  <1>5. PICK b : b = [m EXCEPT !.acked = acked]
    OBVIOUS
  <1>6. b \in Message /\ b.id = m.id /\ b.kind = m.kind /\ b.sent = m.sent /\ b.state = m.state
    BY <1>2, <1>5 DEF Message
  <1>7. a = [b EXCEPT !.state = state]
    BY <1>3, <1>5 DEF Message
  <1>8. a \in Message /\ a.id = m.id /\ a.kind = m.kind /\ a.sent = m.sent /\ a.state = state
    BY <1>4, <1>6, <1>7 DEF Message
  <1> QED  BY <1>3, <1>8

LEMMA AckKeeps ==
    ASSUME NEW h, NEW last, NEW rest, Good(h, last, rest), h.ws.messages # <<>>, NEW len \in Int,
           NEW g, g = [h EXCEPT !.ws.messages[1] = MessageAck(@, len)]
    PROVE  Keeps(h, g, last, rest)
  <1>1. PICK messages, queued, frames : messages = h.ws.messages /\ queued = h.line.queued /\ frames = h.line.frames
    OBVIOUS
  <1>2. PICK first, m : first = messages[1] /\ m = MessageAck(first, len)
    OBVIOUS
  <1>3. Texts(messages, queued, frames, last) /\ messages # <<>> /\ Counts(messages, h.buffers, last, rest)
    BY <1>1 DEF Good
  <1>4. first \in Message /\ messages \in Seq(Message)
    BY <1>2, <1>3, FirstIs
  <1>5. m \in Message /\ m.id = first.id /\ m.kind = first.kind /\ m.sent = first.sent
    BY <1>2, <1>4, AckOfMessage
  <1>6. m.state = first.state \/ m.sent = TextLen
    BY <1>2, <1>4, AckOfMessage
  <1>7. PICK acked : acked = [messages EXCEPT ![1] = m]
    OBVIOUS
  <1>8. g = [h EXCEPT !.ws.messages[1] = m]
    BY <1>1, <1>2 DEF Good, Shape, LineShape, ClientFields
  <1>9. /\ Shape(g) /\ g.ws.messages = acked /\ Parsed(g.ws) = Parsed(h.ws)
        /\ g.line = h.line /\ g.buffers = h.buffers
    BY <1>1, <1>7, <1>8 DEF Good, Shape, LineShape, ClientFields, LineFields, Parsed
  <1>10. Texts(acked, queued, frames, last)
    BY <1>2, <1>3, <1>5, <1>6, <1>7, FrontIsAcked
  <1>11. ASSUME NEW id  PROVE Uses(id, acked) = Uses(id, messages)
    <2>1. m.id = messages[1].id /\ m.kind = messages[1].kind
      BY <1>2, <1>5
    <2> QED  BY <1>3, <1>4, <1>5, <1>7, <2>1, UsesReplaced
  <1>12. Counts(acked, h.buffers, last, rest)
    BY <1>3, <1>11, CountsKept
  <1> QED  BY <1>1, <1>9, <1>10, <1>12 DEF Good, Keeps

\* The queue is served, or the client has gone.
GoneClient == [NewClient EXCEPT !.st = "gone"]

Serves(h, g, last, rest) ==
    Good(g, last, rest) /\ (Parsed(g.ws) = Parsed(h.ws) \/ g.ws = GoneClient)

LEMMA KeepsServes ==
    ASSUME NEW h, NEW g, NEW last, NEW rest, Keeps(h, g, last, rest)
    PROVE  Serves(h, g, last, rest)
  BY DEF Keeps, Serves

LEMMA GoneServes ==
    ASSUME NEW h, NEW last, NEW rest, Good(h, last, rest)
    PROVE  Serves(h, Gone(h), last, rest)
  BY GoneGood DEF Serves, GoneClient

LEMMA ControlGone ==
    ASSUME NEW h, NEW last, NEW rest, Good(h, last, rest), NEW controls, NEW g, g = [h EXCEPT !.ws.controls = controls]
    PROVE  Keeps(h, g, last, rest) /\ g.ws.messages = h.ws.messages
  <1>1. /\ Shape(g) /\ g.ws.messages = h.ws.messages /\ Parsed(g.ws) = Parsed(h.ws)
        /\ g.line = h.line /\ g.buffers = h.buffers
    BY DEF Good, Shape, LineShape, ClientFields, LineFields, Parsed
  <1> QED  BY <1>1 DEF Good, Keeps

LEMMA CleanKeeps ==
    ASSUME NEW h, NEW last, NEW rest, Good(h, last, rest), NEW g, g = [h EXCEPT !.buffers = _cleanBuffers(@)]
    PROVE  Keeps(h, g, last, rest)
  <1>1. PICK new : new = _cleanBuffers(h.buffers)
    OBVIOUS
  <1>2. g = [h EXCEPT !.buffers = new]
    BY <1>1 DEF Good, Shape
  <1>3. Shape(g) /\ g.ws = h.ws /\ g.line = h.line /\ g.buffers = new
    BY <1>2 DEF Good, Shape
  <1>4. PICK messages, queued, frames : messages = h.ws.messages /\ queued = h.line.queued /\ frames = h.line.frames
    OBVIOUS
  <1>5. Texts(messages, queued, frames, last) /\ Counts(messages, h.buffers, last, rest)
    BY <1>4 DEF Good
  <1>6. ASSUME NEW id  PROVE Uses(id, messages) \in Nat
    <2>1. Uses(id, messages) \in {0, 1}
      BY <1>5, IdsDiffer, UsesIsNat
    <2> QED  BY <2>1
  <1>7. Counts(messages, new, last, rest)
    BY <1>1, <1>5, <1>6, CountsClean
  <1> QED  BY <1>3, <1>4, <1>5, <1>7 DEF Good, Keeps

LEMMA AckServes ==
    ASSUME NEW h, NEW last, NEW rest, Good(h, last, rest), NEW report \in Int
    PROVE  Serves(h, AckQueues(h, report), last, rest)
  <1> DEFINE control == h.ws.controls # <<>> /\ Head(h.ws.controls).finished
             len == IF control THEN report - 2 ELSE report
             h1 == IF control THEN [h EXCEPT !.ws.controls = Tail(@)] ELSE h
             h2 == IF len > 0 /\ h.ws.messages # <<>>
                   THEN [h1 EXCEPT !.ws.messages[1] = MessageAck(@, len)] ELSE h1
             h3 == [h2 EXCEPT !.buffers = _cleanBuffers(@)]
  <1>1. AckQueues(h, report) = IF control /\ h.ws.status = "DISCONNECTING" /\ Head(h.ws.controls).op = "CLOSE"
                               THEN Gone(h) ELSE _runQueue(h3)
    BY DEF AckQueues
  <1>2. len \in Int
    OBVIOUS
  <1>3. h1 = h \/ h1 = [h EXCEPT !.ws.controls = Tail(@)]
    OBVIOUS
  <1> HIDE DEF control, len, h1
  <1>6. AckQueues(h, report) \in {Gone(h), _runQueue(h3)}
    BY <1>1, Zenon
  <1>7. Keeps(h, h1, last, rest) /\ h1.ws.messages = h.ws.messages
    <2>1. CASE h1 = [h EXCEPT !.ws.controls = Tail(@)]
      <3>1. PICK controls : controls = Tail(h.ws.controls)
        OBVIOUS
      <3>2. h1 = [h EXCEPT !.ws.controls = controls]
        BY <2>1, <3>1 DEF Good, Shape, ClientFields
      <3> QED  BY <3>2, ControlGone
    <2>2. CASE h1 = h
      BY <2>2, KeepsSame
    <2> QED  BY <1>3, <2>1, <2>2
  <1>8. Keeps(h1, h2, last, rest)
    <2>1. Good(h1, last, rest)
      BY <1>7 DEF Keeps
    <2>2. CASE len > 0 /\ h.ws.messages # <<>>
      <3>1. h1.ws.messages # <<>> /\ h2 = [h1 EXCEPT !.ws.messages[1] = MessageAck(@, len)]
        BY <1>7, <2>2
      <3> QED  BY <1>2, <2>1, <3>1, AckKeeps
    <2>3. CASE ~ (len > 0 /\ h.ws.messages # <<>>)
      <3>1. h2 = h1
        BY <2>3
      <3> QED  BY <2>1, <3>1, KeepsSame
    <2> QED  BY <2>2, <2>3
  <1> HIDE DEF h2
  <1>9. Keeps(h2, h3, last, rest)
    BY <1>8, CleanKeeps DEF Keeps
  <1> HIDE DEF h3
  <1>10. Keeps(h3, _runQueue(h3), last, rest)
    BY <1>9, QueueKeeps DEF Keeps
  <1>11. Keeps(h, _runQueue(h3), last, rest)
    BY <1>7, <1>8, <1>9, <1>10, KeepsOn
  <1> QED  BY <1>6, <1>11, KeepsServes, GoneServes

LEMMA EndServes ==
    ASSUME NEW h, NEW last, NEW rest, Good(h, last, rest)
    PROVE  Serves(h, FrameEnds(h), last, rest)
  <1>1. PICK g : g = [h EXCEPT !.ws.status = "DISCONNECTING"]
    OBVIOUS
  <1>2. FrameEnds(h) \in {Gone(h), _queueControl(g, "CLOSE"), _queueControl(h, "PONG"), h}
    BY <1>1 DEF FrameEnds
  <1>3. Keeps(h, g, last, rest)
    <2>1. /\ Shape(g) /\ g.ws.messages = h.ws.messages /\ Parsed(g.ws) = Parsed(h.ws)
          /\ g.line = h.line /\ g.buffers = h.buffers
      BY <1>1 DEF Good, Shape, LineShape, ClientFields, LineFields, Parsed
    <2> QED  BY <2>1 DEF Good, Keeps
  <1>4. Keeps(g, _queueControl(g, "CLOSE"), last, rest)
    BY <1>3, QueueControlKeeps DEF Keeps
  <1>5. Keeps(h, _queueControl(g, "CLOSE"), last, rest)
    BY <1>3, <1>4, KeepsOn
  <1> QED  BY <1>2, <1>5, QueueControlKeeps, KeepsSame, KeepsServes, GoneServes

-----------------------------------------------------------------------------
(* The buffers, counted over all clients                                    *)

\* What comes from a peer, and what the handler is given of it.
In   == [op : STRING, len : Nat]
Data == [len : Nat, index : Nat, n : Nat]

LocalTo(w, l, last) ==
    /\ w = [f \in ClientFields |-> w[f]] /\ LineShape(l)
    /\ Texts(w.messages, l.queued, l.frames, last)
    /\ l.flight \in Seq(Int) /\ l.reports \in Seq(Int)

\* The clients that have a text in a buffer of all in their queue.
Holders(clients, id) == {c \in Sockets : Has(id, clients[c].messages)}

\* The part of BufferIsCounted.
Counted(clients, bs, last) ==
    /\ bs = [id \in DOMAIN bs |-> bs[id]] /\ DOMAIN bs \subseteq 1 .. last
    /\ \A id \in DOMAIN bs : bs[id] = Cardinality(Holders(clients, id))
    /\ \A c \in Sockets : \A i \in DOMAIN clients[c].messages :
          clients[c].messages[i].kind = "multi" => clients[c].messages[i].id \in DOMAIN bs

\* What the other clients use.
Others(clients, c) == [id \in 1 .. Calls |-> Cardinality(Holders(clients, id) \ {c})]

-----------------------------------------------------------------------------
LEMMA OneApart ==
    ASSUME NEW S, IsFiniteSet(S), NEW c
    PROVE  /\ Cardinality(S \ {c}) \in Nat
           /\ Cardinality(S) = Cardinality(S \ {c}) + IF c \in S THEN 1 ELSE 0
  <1>1. IsFiniteSet(S \ {c}) /\ Cardinality(S \ {c}) \in Nat
    BY FS_RemoveElement, FS_CardinalityType
  <1>2. CASE c \in S
    <2>1. Cardinality((S \ {c}) \cup {c}) = Cardinality(S \ {c}) + 1
      <3>1. c \notin S \ {c}
        OBVIOUS
      <3> QED  BY <1>1, <3>1, FS_AddElement
    <2>2. (S \ {c}) \cup {c} = S
      BY <1>2
    <2> QED  BY <1>1, <1>2, <2>1, <2>2
  <1>3. CASE c \notin S
    <2>1. S \ {c} = S
      BY <1>3
    <2> QED  BY <1>1, <1>3, <2>1
  <1> QED  BY <1>2, <1>3

LEMMA HoldersFinite ==
    ASSUME NEW clients, NEW id  PROVE IsFiniteSet(Holders(clients, id)) /\ Cardinality(Holders(clients, id)) \in Nat
  <1>1. Holders(clients, id) \subseteq Sockets
    BY DEF Holders
  <1> QED  BY <1>1, SocketAssumption, FS_Subset, FS_CardinalityType

LEMMA TextsLater ==
    ASSUME NEW messages, NEW queued, NEW frames, NEW last, Texts(messages, queued, frames, last),
           NEW later \in 0 .. Calls, last <= later
    PROVE  Texts(messages, queued, frames, later)
  <1>1. last \in 0 .. Calls /\ Queued(queued, last) /\ Typed(messages, queued, frames, last)
    BY DEF Texts, Typed
  <1>2. Queued(queued, later)
    BY <1>1, Sizes DEF Queued
  <1>3. Typed(messages, queued, frames, later)
    BY <1>1 DEF Typed
  <1> QED  BY <1>2, <1>3 DEF Texts

\* A text in a queue is one of those so far.
LEMMA IdsSoFar ==
    ASSUME NEW messages, NEW queued, NEW frames, NEW last, Texts(messages, queued, frames, last),
           NEW i \in DOMAIN messages
    PROVE  messages[i].id \in 1 .. last
  <1>1. /\ messages \in Seq(Message) /\ queued \in Seq(Nat) /\ InQueue(messages, queued) /\ Queued(queued, last)
    BY DEF Texts, Typed
  <1>2. PICK n : n = Left(messages, queued) + i
    OBVIOUS
  <1>3. Len(messages) <= Len(queued) /\ messages[i].id = queued[n]
    BY <1>1, <1>2 DEF InQueue
  <1>4. n \in DOMAIN queued
    BY <1>1, <1>2, <1>3 DEF Left
  <1> QED  BY <1>1, <1>3, <1>4 DEF Queued

LEMMA CountsAt ==
    ASSUME NEW clients, NEW bs, NEW last, Counted(clients, bs, last), NEW c \in Sockets,
           NEW later \in 0 .. Calls, last <= later, last \in 0 .. Calls,
           Distinct(clients[c].messages)
    PROVE  Counts(clients[c].messages, bs, later, Others(clients, c))
  <1> DEFINE messages == clients[c].messages
             rest == Others(clients, c)
  <1>1. DOMAIN bs \subseteq 1 .. later /\ DOMAIN bs \subseteq 1 .. Calls
    BY Sizes DEF Counted
  <1>2. ASSUME NEW id \in 1 .. Calls
        PROVE  /\ rest[id] \in Nat /\ Uses(id, messages) \in Nat
               /\ Cardinality(Holders(clients, id)) = rest[id] + Uses(id, messages)
    <2>1. rest[id] = Cardinality(Holders(clients, id) \ {c})
      BY DEF Others
    <2>2. Uses(id, messages) = IF c \in Holders(clients, id) THEN 1 ELSE 0
      BY UsesOnce DEF Holders
    <2>3. /\ Cardinality(Holders(clients, id) \ {c}) \in Nat
          /\ Cardinality(Holders(clients, id)) = Cardinality(Holders(clients, id) \ {c}) + IF c \in Holders(clients, id) THEN 1 ELSE 0
      BY HoldersFinite, OneApart
    <2> QED  BY <2>1, <2>2, <2>3
  <1>3. ASSUME NEW id \in DOMAIN bs  PROVE bs[id] \in Nat /\ bs[id] = rest[id] + Uses(id, messages)
    <2>1. id \in 1 .. Calls /\ bs[id] = Cardinality(Holders(clients, id))
      BY <1>1 DEF Counted
    <2> QED  BY <1>2, <2>1, HoldersFinite
  <1>4. ASSUME NEW id \in 1 .. later
        PROVE  rest[id] \in Nat /\ (rest[id] + Uses(id, messages) > 0 => id \in DOMAIN bs)
    <2>1. id \in 1 .. Calls
      BY Sizes
    <2>2. rest[id] \in Nat
      BY <1>2, <2>1
    <2>3. SUFFICES ASSUME rest[id] + Uses(id, messages) > 0  PROVE id \in DOMAIN bs
      BY <2>2
    <2>4. Cardinality(Holders(clients, id)) > 0
      BY <1>2, <2>1, <2>3
    <2>5. Holders(clients, id) # {}
      BY <2>4, FS_EmptySet
    <2>6. PICK d \in Sockets : Has(id, clients[d].messages)
      BY <2>5 DEF Holders
    <2> QED  BY <2>6 DEF Counted, Has
  <1>5. bs = [id \in DOMAIN bs |-> bs[id]]
    BY DEF Counted
  <1> HIDE DEF messages, rest
  <1>6. Counts(messages, bs, later, rest)
    BY <1>1, <1>3, <1>4, <1>5 DEF Counts
  <1> QED  BY <1>6 DEF messages, rest

LEMMA CountedBy ==
    ASSUME NEW clients, NEW old, NEW bs, NEW last \in 0 .. Calls, NEW c \in Sockets,
           \A d \in Sockets : d # c => clients[d] = old[d],
           Counts(clients[c].messages, bs, last, Others(old, c)), Distinct(clients[c].messages),
           \A d \in Sockets : \A i \in DOMAIN clients[d].messages : clients[d].messages[i].id \in 1 .. last
    PROVE  Counted(clients, bs, last)
  <1> DEFINE messages == clients[c].messages
             rest == Others(old, c)
  <1>1. ASSUME NEW id \in 1 .. Calls
        PROVE  /\ rest[id] \in Nat /\ Uses(id, messages) \in Nat
               /\ Cardinality(Holders(clients, id)) = rest[id] + Uses(id, messages)
    <2>1. Holders(clients, id) \ {c} = Holders(old, id) \ {c}
      BY DEF Holders
    <2>2. rest[id] = Cardinality(Holders(clients, id) \ {c})
      BY <2>1 DEF Others
    <2>3. Uses(id, messages) = IF c \in Holders(clients, id) THEN 1 ELSE 0
      BY UsesOnce DEF Holders
    <2>4. /\ Cardinality(Holders(clients, id) \ {c}) \in Nat
          /\ Cardinality(Holders(clients, id)) = Cardinality(Holders(clients, id) \ {c}) + IF c \in Holders(clients, id) THEN 1 ELSE 0
      BY HoldersFinite, OneApart
    <2> QED  BY <2>2, <2>3, <2>4
  <1>2. /\ bs = [id \in DOMAIN bs |-> bs[id]] /\ DOMAIN bs \subseteq 1 .. last
        /\ \A id \in DOMAIN bs : bs[id] = rest[id] + Uses(id, messages)
        /\ \A id \in 1 .. last : rest[id] + Uses(id, messages) > 0 => id \in DOMAIN bs
    BY DEF Counts
  <1>3. 1 .. last \subseteq 1 .. Calls
    BY Sizes
  <1>4. ASSUME NEW d \in Sockets, NEW i \in DOMAIN clients[d].messages, clients[d].messages[i].kind = "multi"
        PROVE  clients[d].messages[i].id \in DOMAIN bs
    <2>1. PICK id : id = clients[d].messages[i].id
      OBVIOUS
    <2>2. id \in 1 .. last /\ id \in 1 .. Calls
      BY <1>3, <2>1
    <2>3. d \in Holders(clients, id)
      BY <1>4, <2>1 DEF Holders, Has
    <2>4. Cardinality(Holders(clients, id)) # 0
      BY <2>3, HoldersFinite, FS_EmptySet
    <2>5. rest[id] + Uses(id, messages) > 0
      BY <1>1, <2>2, <2>4
    <2> QED  BY <1>2, <2>1, <2>2, <2>5
  <1>5. ASSUME NEW id \in DOMAIN bs  PROVE bs[id] = Cardinality(Holders(clients, id))
    <2>1. id \in 1 .. Calls
      BY <1>2, <1>3
    <2> QED  BY <1>1, <1>2, <2>1
  <1> QED  BY <1>2, <1>4, <1>5 DEF Counted

-----------------------------------------------------------------------------
(* The invariant                                                            *)

Whole(d) == d.index + d.n = d.len

\* What HandedInOrder says of one connection.
OrderAt(data, i) ==
    /\ data[i].index + data[i].n <= data[i].len
    /\ IF i = 1 \/ Whole(data[i - 1]) THEN data[i].index = 0
       ELSE data[i].index = data[i - 1].index + data[i - 1].n /\ data[i].len = data[i - 1].len

InOrder(data) == \A i \in DOMAIN data : OrderAt(data, i)

\* The handler has been given a text frame up to where the client is inside it.
GivenSoFar(w, data) ==
    IF w.pstate = 1 /\ w.op = "TEXT"
    THEN data # <<>> /\ Last(data).index + Last(data).n = w.index /\ Last(data).len = w.len
    ELSE data = <<>> \/ Whole(Last(data))

Reading(w, data) ==
    /\ w.len \in Nat /\ w.index \in Nat /\ w.pstate \in {0, 1}
    /\ w.pstate = 1 => w.index < w.len
    /\ data \in Seq(Data) /\ InOrder(data)
    /\ w.st # "gone" => GivenSoFar(w, data)

TaskFits(t, clients, lines, bs, last) ==
    /\ t = [does |-> t.does, todo |-> t.todo, data |-> t.data]
    /\ t.todo \subseteq Sockets /\ t.data \in Seq(In)
    /\ t.does = "data" => t.data # <<>> /\ \E c \in Sockets : t.todo = {c} /\ clients[c].st = "open"
    /\ t.does = "text" => /\ last \in DOMAIN bs
                          /\ \A c \in t.todo : \A i \in DOMAIN lines[c].queued : lines[c].queued[i] < last

SInv ==
    /\ ws = [c \in Sockets |-> ws[c]] /\ line = [c \in Sockets |-> line[c]] /\ handed = [c \in Sockets |-> handed[c]]
    /\ calls \in 0 .. Calls /\ coming \in [Sockets -> Seq(In)]
    /\ \A c \in Sockets : LocalTo(ws[c], line[c], calls)
    /\ \A c \in Sockets : Reading(ws[c], handed[c])
    /\ Counted(ws, buffers, calls)
    /\ TaskFits(task, ws, line, buffers, calls)

-----------------------------------------------------------------------------
LEMMA LocalLater ==
    ASSUME NEW w, NEW l, NEW last, LocalTo(w, l, last), NEW later \in 0 .. Calls, last <= later
    PROVE  LocalTo(w, l, later)
  BY TextsLater DEF LocalTo

LEMMA GoodAt ==
    ASSUME SInv, NEW c \in Sockets, NEW later \in 0 .. Calls, calls <= later
    PROVE  Good(On(c), later, Others(ws, c))
  <1>1. PICK h : h = On(c)
    OBVIOUS
  <1>2. /\ h = [f \in {"ws", "line", "buffers"} |-> h[f]] /\ h.ws = ws[c] /\ h.line = line[c] /\ h.buffers = buffers
    BY <1>1 DEF On
  <1>3. LocalTo(ws[c], line[c], calls) /\ calls \in 0 .. Calls /\ Counted(ws, buffers, calls)
    BY DEF SInv
  <1>4. LocalTo(ws[c], line[c], later)
    BY <1>3, LocalLater
  <1>5. Distinct(ws[c].messages)
    BY <1>3, IdsDiffer DEF LocalTo
  <1>6. Counts(ws[c].messages, buffers, later, Others(ws, c))
    BY <1>3, <1>5, CountsAt
  <1> QED  BY <1>1, <1>2, <1>4, <1>6 DEF Good, Shape, LocalTo

\* A step of one client keeps what is said of the queues of all.
LEMMA ClientMoves ==
    ASSUME SInv, NEW c \in Sockets, NEW later \in 0 .. Calls, calls <= later,
           NEW g, Good(g, later, Others(ws, c)), After(c, g)
    PROVE  /\ ws' = [d \in Sockets |-> ws'[d]] /\ line' = [d \in Sockets |-> line'[d]]
           /\ ws'[c] = g.ws /\ line'[c] = g.line /\ buffers' = g.buffers
           /\ \A d \in Sockets : d # c => ws'[d] = ws[d] /\ line'[d] = line[d]
           /\ \A d \in Sockets : LocalTo(ws'[d], line'[d], later)
           /\ Counted(ws', buffers', later)
  <1>1. ws' = [ws EXCEPT ![c] = g.ws] /\ line' = [line EXCEPT ![c] = g.line] /\ buffers' = g.buffers
    BY DEF After
  <1>2. ws = [d \in Sockets |-> ws[d]] /\ line = [d \in Sockets |-> line[d]] /\ calls \in 0 .. Calls
    BY DEF SInv
  <1>3. /\ ws' = [d \in Sockets |-> ws'[d]] /\ line' = [d \in Sockets |-> line'[d]]
        /\ ws'[c] = g.ws /\ line'[c] = g.line
        /\ \A d \in Sockets : d # c => ws'[d] = ws[d] /\ line'[d] = line[d]
    BY <1>1, <1>2
  <1>4. ASSUME NEW d \in Sockets  PROVE LocalTo(ws'[d], line'[d], later)
    <2>1. CASE d = c
      BY <1>3, <2>1 DEF Good, Shape, LocalTo
    <2>2. CASE d # c
      <3>1. LocalTo(ws[d], line[d], calls)
        BY DEF SInv
      <3>2. LocalTo(ws[d], line[d], later)
        BY <1>2, <3>1, LocalLater
      <3> QED  BY <1>3, <2>2, <3>2
    <2> QED  BY <2>1, <2>2
  <1>5. Counted(ws', buffers', later)
    <2>1. PICK clients, bs : clients = ws' /\ bs = buffers'
      OBVIOUS
    <2>2. Counts(clients[c].messages, bs, later, Others(ws, c))
      BY <1>1, <1>3, <2>1 DEF Good
    <2>3. ASSUME NEW d \in Sockets
          PROVE  Distinct(clients[d].messages) /\ \A i \in DOMAIN clients[d].messages : clients[d].messages[i].id \in 1 .. later
      <3>1. PICK messages, queued, frames : messages = clients[d].messages /\ queued = line'[d].queued /\ frames = line'[d].frames
        OBVIOUS
      <3>2. Texts(messages, queued, frames, later)
        BY <1>4, <2>1, <3>1 DEF LocalTo
      <3> QED  BY <3>1, <3>2, IdsDiffer, IdsSoFar
    <2>4. \A d \in Sockets : d # c => clients[d] = ws[d]
      BY <1>3, <2>1
    <2>5. Counted(clients, bs, later)
      BY <2>2, <2>3, <2>4, CountedBy
    <2> QED  BY <2>1, <2>5
  <1> QED  BY <1>1, <1>3, <1>4, <1>5

LEMMA ReadingKept ==
    ASSUME NEW w, NEW v, NEW data, Reading(w, data), Parsed(v) = Parsed(w) \/ v = GoneClient
    PROVE  Reading(v, data)
  <1>1. CASE Parsed(v) = Parsed(w)
    <2>1. v.st = w.st /\ v.pstate = w.pstate /\ v.op = w.op /\ v.len = w.len /\ v.index = w.index
      BY <1>1 DEF Parsed
    <2> QED  BY <2>1 DEF Reading, GivenSoFar
  <1>2. CASE v = GoneClient
    BY <1>2 DEF Reading, GoneClient, NewClient
  <1> QED  BY <1>1, <1>2

\* A step of one client, outside of a task.
LEMMA ServedStep ==
    ASSUME SInv, NEW c \in Sockets, NEW later \in 0 .. Calls, calls <= later, calls' = later,
           NEW g, Good(g, later, Others(ws, c)), After(c, g), Reading(g.ws, handed[c]),
           task' = task, task = Idle, coming' = coming, handed' = handed
    PROVE  SInv'
  <1>1. /\ ws' = [d \in Sockets |-> ws'[d]] /\ line' = [d \in Sockets |-> line'[d]]
        /\ ws'[c] = g.ws /\ \A d \in Sockets : d # c => ws'[d] = ws[d]
        /\ \A d \in Sockets : LocalTo(ws'[d], line'[d], later)
        /\ Counted(ws', buffers', later)
    BY ClientMoves
  <1>2. \A d \in Sockets : Reading(ws'[d], handed'[d])
    BY <1>1 DEF SInv
  <1>3. TaskFits(task', ws', line', buffers', calls')
    <2>1. TaskFits(task, ws, line, buffers, calls)
      BY DEF SInv
    <2>2. task.does = "nothing"
      BY DEF Idle
    <2> QED  BY <2>1, <2>2 DEF TaskFits
  <1> QED  BY <1>1, <1>2, <1>3 DEF SInv

-----------------------------------------------------------------------------
(* Steps that serve one client                                              *)

LEMMA Now ==
    ASSUME SInv, NEW c \in Sockets
    PROVE  /\ calls \in 0 .. Calls /\ calls <= calls /\ Good(On(c), calls, Others(ws, c))
           /\ Reading(ws[c], handed[c]) /\ (On(c)).ws = ws[c] /\ (On(c)).line = line[c] /\ (On(c)).buffers = buffers
  <1>1. calls \in 0 .. Calls /\ calls <= calls
    BY Sizes DEF SInv
  <1>2. Good(On(c), calls, Others(ws, c))
    BY <1>1, GoodAt
  <1> QED  BY <1>1, <1>2 DEF SInv, On

\* A step in which the queues of a client have been served.
LEMMA AfterServing ==
    ASSUME SInv, NEW c \in Sockets, NEW h, Serves(On(c), h, calls, Others(ws, c)), After(c, h),
           task' = task, task = Idle, coming' = coming, handed' = handed, calls' = calls
    PROVE  SInv'
  <1>1. Reading(h.ws, handed[c])
    <2>1. PICK w, v, data : w = ws[c] /\ v = h.ws /\ data = handed[c]
      OBVIOUS
    <2>2. Parsed(v) = Parsed(w) \/ v = GoneClient
      BY <2>1, Now DEF Serves
    <2>3. Reading(w, data)
      BY <2>1, Now
    <2> QED  BY <2>1, <2>2, <2>3, ReadingKept
  <1>2. Good(h, calls, Others(ws, c))
    BY DEF Serves
  <1> QED  BY <1>1, <1>2, Now, ServedStep

LEMMA ReportTaken ==
    ASSUME NEW h, NEW last, NEW rest, Good(h, last, rest), h.line.reports # <<>>,
           NEW g, g = [h EXCEPT !.line.reports = Tail(@)]
    PROVE  Keeps(h, g, last, rest) /\ g.ws = h.ws /\ Head(h.line.reports) \in Int
  <1>1. PICK reports : reports = h.line.reports
    OBVIOUS
  <1>2. reports \in Seq(Int) /\ reports # <<>>
    BY <1>1 DEF Good
  <1>3. Tail(reports) \in Seq(Int) /\ Head(reports) \in Int
    BY <1>2
  <1>4. PICK t : t = Tail(reports)
    OBVIOUS
  <1>5. g = [h EXCEPT !.line.reports = t]
    BY <1>1, <1>4 DEF Good, Shape, LineShape, LineFields
  <1>6. /\ Shape(g) /\ g.ws = h.ws /\ g.line.frames = h.line.frames /\ g.line.queued = h.line.queued
        /\ g.line.flight = h.line.flight /\ g.line.reports = t /\ g.buffers = h.buffers
    BY <1>5 DEF Good, Shape, LineShape, LineFields
  <1> QED  BY <1>1, <1>3, <1>4, <1>6 DEF Good, Keeps

LEMMA AckStep ==
    ASSUME SInv, NEW c \in Sockets, _onAck(c)
    PROVE  SInv'
  <1>1. PICK h : h = On(c)
    OBVIOUS
  <1>2. PICK rest : rest = Others(ws, c)
    OBVIOUS
  <1>3. Good(h, calls, rest) /\ h.ws = ws[c] /\ h.line = line[c] /\ Reading(ws[c], handed[c]) /\ h.line.reports # <<>>
    BY <1>1, <1>2, Now DEF _onAck, AckReady
  <1>4. PICK taken : taken = [h EXCEPT !.line.reports = Tail(@)]
    OBVIOUS
  <1>5. Keeps(h, taken, calls, rest) /\ taken.ws = h.ws /\ Head(h.line.reports) \in Int
    BY <1>3, <1>4, ReportTaken
  <1>6. Good(taken, calls, rest)
    BY <1>5 DEF Keeps
  <1>7. task' = task /\ task = Idle /\ coming' = coming /\ handed' = handed /\ calls' = calls
    BY DEF _onAck, AckReady
  <1>8. CASE h.ws.st = "response"
    <2>1. PICK g : g = [taken EXCEPT !.ws.st = "open"]
      OBVIOUS
    <2>2. After(c, g)
      BY <1>1, <1>4, <1>8, <2>1 DEF _onAck
    <2>3. /\ Shape(g) /\ g.ws.messages = taken.ws.messages /\ g.ws.st = "open" /\ g.line = taken.line /\ g.buffers = taken.buffers
          /\ g.ws.pstate = h.ws.pstate /\ g.ws.op = h.ws.op /\ g.ws.len = h.ws.len /\ g.ws.index = h.ws.index
      BY <1>5, <1>6, <2>1 DEF Good, Shape, LineShape, ClientFields, LineFields
    <2>4. Good(g, calls, rest)
      BY <1>6, <2>3 DEF Good
    <2>5. Reading(g.ws, handed[c])
      BY <1>3, <1>8, <2>3 DEF Reading, GivenSoFar
    <2> QED  BY <1>2, <1>7, <2>2, <2>4, <2>5, Now, ServedStep
  <1>9. CASE h.ws.st # "response"
    <2>1. PICK g : g = AckQueues(taken, Head(h.line.reports))
      OBVIOUS
    <2>2. After(c, g)
      BY <1>1, <1>4, <1>9, <2>1 DEF _onAck
    <2>3. PICK report : report = Head(h.line.reports)
      OBVIOUS
    <2>4. Serves(taken, g, calls, rest)
      BY <1>5, <1>6, <2>1, <2>3, AckServes
    <2>5. Serves(h, g, calls, rest)
      BY <1>5, <2>4 DEF Serves
    <2> QED  BY <1>1, <1>2, <1>7, <2>2, <2>5, AfterServing
  <1> QED  BY <1>8, <1>9

LEMMA PollStep ==
    ASSUME SInv, NEW c \in Sockets, _onPoll(c)
    PROVE  SInv'
  <1>1. Serves(On(c), _runQueue(On(c)), calls, Others(ws, c))
    BY Now, QueueKeeps, KeepsServes
  <1>2. /\ task' = task /\ task = Idle /\ coming' = coming /\ handed' = handed /\ calls' = calls
        /\ After(c, _runQueue(On(c)))
    BY DEF _onPoll
  <1> QED  BY <1>1, <1>2, AfterServing

LEMMA DisconnectStep ==
    ASSUME SInv, NEW c \in Sockets, _onDisconnect(c)
    PROVE  SInv'
  <1>1. Serves(On(c), Gone(On(c)), calls, Others(ws, c))
    BY Now, GoneServes
  <1>2. /\ task' = task /\ task = Idle /\ coming' = coming /\ handed' = handed /\ calls' = calls
        /\ After(c, Gone(On(c)))
    BY DEF _onDisconnect
  <1> QED  BY <1>1, <1>2, AfterServing

LEMMA BasicTyped ==
    ASSUME NEW id \in Nat
    PROVE  /\ NewBasicMessage(id) \in Message /\ (NewBasicMessage(id)).id = id /\ (NewBasicMessage(id)).kind = "basic"
           /\ (NewBasicMessage(id)).sent = 0 /\ (NewBasicMessage(id)).state = "SENDING"
           /\ NewMultiMessage(id) \in Message /\ (NewMultiMessage(id)).id = id /\ (NewMultiMessage(id)).kind = "multi"
           /\ (NewMultiMessage(id)).sent = 0 /\ (NewMultiMessage(id)).state = "SENDING"
  BY DEF NewBasicMessage, NewMultiMessage, Message

LEMMA CallStep ==
    ASSUME SInv, NEW c \in Sockets, text(c) \/ PingOrClose(c)
    PROVE  SInv'
  <1>1. /\ task' = task /\ task = Idle /\ coming' = coming /\ handed' = handed /\ calls' = calls + 1 /\ calls < Calls
    BY DEF text, PingOrClose, MayCall
  <1>2. calls \in Nat /\ calls + 1 \in 0 .. Calls /\ calls <= calls + 1
    BY <1>1, Now, Sizes
  <1>3. PICK h, rest, later : h = On(c) /\ rest = Others(ws, c) /\ later = calls + 1
    OBVIOUS
  <1>4. Good(h, later, rest) /\ h.ws = ws[c] /\ h.line = line[c] /\ Reading(ws[c], handed[c]) /\ later \in Nat /\ later > 0
        /\ later \in 0 .. Calls /\ calls <= later /\ calls' = later
    <2>1. Good(h, later, rest)
      BY <1>2, <1>3, GoodAt
    <2> QED  BY <1>1, <1>2, <1>3, <2>1, Now
  <1>5. CASE text(c)
    <2>1. PICK m : m = NewBasicMessage(later)
      OBVIOUS
    <2>2. m \in Message /\ m.id = later /\ m.kind = "basic" /\ m.sent = 0 /\ m.state = "SENDING"
      BY <1>4, <2>1, BasicTyped
    <2>3. PICK g : g = _queueMessage(h, m)
      OBVIOUS
    <2>4. After(c, g)
      BY <1>3, <1>5, <2>1, <2>3 DEF text
    <2>5. \A i \in DOMAIN h.line.queued : h.line.queued[i] < later
      <3>1. Queued(line[c].queued, calls)
        BY DEF SInv, LocalTo, Texts
      <3> QED  BY <1>2, <1>3, <1>4, <3>1 DEF Queued
    <2>6. Good(g, later, rest) /\ Parsed(g.ws) = Parsed(h.ws)
      <3>1. m.kind = "multi" => later \in DOMAIN h.buffers
        BY <2>2
      <3> QED  BY <1>4, <2>2, <2>3, <2>5, <3>1, QueueMessageKeeps
    <2>7. Reading(g.ws, handed[c])
      BY <1>4, <2>6, ReadingKept
    <2> QED  BY <1>1, <1>3, <1>4, <2>4, <2>6, <2>7, ServedStep
  <1>6. CASE PingOrClose(c)
    <2>1. PICK op \in {"PING", "CLOSE"} : After(c, _queueControl(h, op))
      BY <1>3, <1>6 DEF PingOrClose
    <2>2. PICK g : g = _queueControl(h, op)
      OBVIOUS
    <2>3. Good(g, later, rest) /\ Parsed(g.ws) = Parsed(h.ws) /\ After(c, g)
      BY <1>4, <2>1, <2>2, QueueControlKeeps DEF Keeps
    <2>4. Reading(g.ws, handed[c])
      BY <1>4, <2>3, ReadingKept
    <2> QED  BY <1>1, <1>3, <1>4, <2>3, <2>4, ServedStep
  <1> QED  BY <1>5, <1>6

-----------------------------------------------------------------------------
(* The other steps, and those of a task that goes through the clients       *)

LEMMA UpgradeStep ==
    ASSUME SInv, NEW c \in Sockets, Upgrade(c)
    PROVE  SInv'
  <1>1. PICK h, rest : h = On(c) /\ rest = Others(ws, c)
    OBVIOUS
  <1>2. Good(h, calls, rest) /\ h.ws = ws[c] /\ h.line = line[c] /\ h.buffers = buffers /\ Reading(ws[c], handed[c])
    BY <1>1, Now
  <1>3. PICK flight : flight = <<SocketHead>>
    OBVIOUS
  <1>4. flight \in Seq(Int)
    <2>1. SocketHead \in Int
      BY SocketAssumption
    <2> QED  BY <1>3, <2>1
  <1>5. PICK g : g = [h EXCEPT !.ws.st = "response", !.line.flight = flight]
    OBVIOUS
  <1>6. /\ Shape(g) /\ g.ws = [ws[c] EXCEPT !.st = "response"] /\ g.line = [line[c] EXCEPT !.flight = flight]
        /\ g.ws.messages = h.ws.messages /\ g.line.frames = h.line.frames /\ g.line.queued = h.line.queued
        /\ g.line.flight = flight /\ g.line.reports = h.line.reports /\ g.buffers = buffers
        /\ g.ws.st = "response" /\ g.ws.pstate = h.ws.pstate /\ g.ws.op = h.ws.op /\ g.ws.len = h.ws.len /\ g.ws.index = h.ws.index
    BY <1>2, <1>5 DEF Good, Shape, LineShape, ClientFields, LineFields
  <1>7. Good(g, calls, rest)
    BY <1>2, <1>4, <1>6 DEF Good
  <1>8. Reading(g.ws, handed[c])
    <2>1. ws[c].st = "none"
      BY DEF Upgrade
    <2> QED  BY <1>2, <1>6, <2>1 DEF Reading, GivenSoFar
  <1>9. After(c, g)
    <2>1. ws' = [ws EXCEPT ![c] = [ws[c] EXCEPT !.st = "response"]]
      BY DEF Upgrade
    <2>2. line' = [line EXCEPT ![c] = [line[c] EXCEPT !.flight = flight]]
      BY <1>3 DEF Upgrade
    <2>3. buffers' = buffers
      BY DEF Upgrade
    <2> QED  BY <1>6, <2>1, <2>2, <2>3 DEF After
  <1>10. task' = task /\ task = Idle /\ coming' = coming /\ handed' = handed /\ calls' = calls
    BY DEF Upgrade
  <1> QED  BY <1>1, <1>7, <1>8, <1>9, <1>10, Now, ServedStep

LEMMA AcknowledgedStep ==
    ASSUME SInv, NEW c \in Sockets, Acknowledged(c)
    PROVE  SInv'
  <1>1. PICK l : l = line[c]
    OBVIOUS
  <1>2. LocalTo(ws[c], l, calls) /\ LineShape(l) /\ l.flight \in Seq(Int) /\ l.reports \in Seq(Int)
    BY <1>1 DEF SInv, LocalTo
  <1>3. PICK n \in DOMAIN l.flight :
           line' = [line EXCEPT ![c].flight = [i \in 1 .. Len(@) - n |-> @[n + i] - @[n]],
                                ![c].reports = Append(@, line[c].flight[n])]
    BY <1>1 DEF Acknowledged
  <1>4. PICK flight : flight = [i \in 1 .. Len(l.flight) - n |-> l.flight[n + i] - l.flight[n]]
    OBVIOUS
  <1>5. PICK reports : reports = Append(l.reports, l.flight[n])
    OBVIOUS
  <1>6. flight \in Seq(Int)
    <2>1. PICK f : f = l.flight
      OBVIOUS
    <2>2. f \in Seq(Int) /\ Len(f) \in Nat /\ n \in 1 .. Len(f) /\ DOMAIN f = 1 .. Len(f)
      BY <1>2, <2>1
    <2>3. PICK k \in Nat : k = Len(f) - n
      BY <2>2
    <2>4. ASSUME NEW i \in 1 .. k  PROVE f[n + i] - f[n] \in Int
      <3>1. n + i \in DOMAIN f /\ n \in DOMAIN f
        BY <2>2, <2>3
      <3>2. f[n + i] \in Int /\ f[n] \in Int
        BY <2>2, <3>1
      <3> QED  BY <3>2
    <2>5. flight = [i \in 1 .. k |-> f[n + i] - f[n]]
      BY <1>4, <2>1, <2>3
    <2>6. flight \in [1 .. k -> Int]
      BY <2>4, <2>5
    <2> QED  BY <2>6
  <1>7. reports \in Seq(Int)
    <2>1. l.flight[n] \in Int
      BY <1>2, <1>3
    <2> QED  BY <1>2, <1>5, <2>1
  <1>8. PICK k : k = [l EXCEPT !.flight = flight, !.reports = reports]
    OBVIOUS
  <1>9. LineShape(k) /\ k.frames = l.frames /\ k.queued = l.queued /\ k.flight = flight /\ k.reports = reports
    BY <1>2, <1>8 DEF LineShape, LineFields
  <1>10. line = [d \in Sockets |-> line[d]]
    BY DEF SInv
  <1>11. line' = [line EXCEPT ![c] = k]
    BY <1>1, <1>2, <1>3, <1>4, <1>5, <1>8, <1>10 DEF LineShape, LineFields
  <1>12. /\ line' = [d \in Sockets |-> line'[d]] /\ line'[c] = k /\ \A d \in Sockets : d # c => line'[d] = line[d]
    BY <1>10, <1>11
  <1>13. UNCHANGED <<ws, buffers, task, calls, coming, handed>>
    BY DEF Acknowledged
  <1>14. ASSUME NEW d \in Sockets  PROVE LocalTo(ws[d], line'[d], calls)
    <2>1. CASE d = c
      BY <1>2, <1>6, <1>7, <1>9, <1>12, <2>1 DEF LocalTo
    <2>2. CASE d # c
      BY <1>12, <2>2 DEF SInv
    <2> QED  BY <2>1, <2>2
  <1>15. TaskFits(task, ws, line', buffers, calls)
    <2>1. TaskFits(task, ws, line, buffers, calls)
      BY DEF SInv
    <2>2. \A d \in Sockets : line'[d].queued = line[d].queued
      BY <1>1, <1>9, <1>12
    <2> QED  BY <2>1, <2>2 DEF TaskFits
  <1> QED  BY <1>12, <1>13, <1>14, <1>15 DEF SInv

LEMMA DataStep ==
    ASSUME SInv, NEW c \in Sockets, _onData(c)
    PROVE  SInv'
  <1>1. PICK s : s = coming[c]
    OBVIOUS
  <1>2. s \in Seq(In) /\ s # <<>> /\ Len(s) \in Nat \ {0} /\ ws[c].st = "open"
    BY <1>1 DEF SInv, _onData, DataReady
  <1>3. PICK n \in {k \in Cuts : k < Len(s)} \cup {Len(s)} :
           /\ task' = [does |-> "data", todo |-> {c}, data |-> SubSeq(s, 1, n)]
           /\ coming' = [coming EXCEPT ![c] = SubSeq(s, n + 1, Len(s))]
    BY <1>1 DEF _onData
  <1>4. n \in 1 .. Len(s)
    <2>1. Cuts \subseteq Nat \ {0}
      BY SocketAssumption
    <2>2. PICK len : len = Len(s)
      OBVIOUS
    <2>3. len \in Nat \ {0} /\ (n = len \/ (n \in Nat \ {0} /\ n < len))
      BY <1>2, <2>1, <2>2
    <2> QED  BY <2>2, <2>3
  <1>5. PICK data, left : data = SubSeq(s, 1, n) /\ left = SubSeq(s, n + 1, Len(s))
    OBVIOUS
  <1>6. data \in Seq(In) /\ data # <<>> /\ left \in Seq(In)
    <2>1. data \in Seq(In) /\ Len(data) = n
      BY <1>2, <1>4, <1>5
    <2>2. left \in Seq(In)
      BY <1>2, <1>4, <1>5
    <2> QED  BY <1>4, <2>1, <2>2
  <1>7. coming' \in [Sockets -> Seq(In)]
    <2>1. coming \in [Sockets -> Seq(In)] /\ coming' = [coming EXCEPT ![c] = left]
      BY <1>3, <1>5 DEF SInv
    <2> QED  BY <1>6, <2>1
  <1>8. UNCHANGED <<ws, buffers, calls, line, handed>>
    BY DEF _onData
  <1>9. TaskFits(task', ws, line, buffers, calls)
    <2>1. PICK t : t = task'
      OBVIOUS
    <2>2. t = [does |-> "data", todo |-> {c}, data |-> data]
      BY <1>3, <1>5, <2>1
    <2>3. t.does = "data" /\ t.todo = {c} /\ t.data = data /\ t = [does |-> t.does, todo |-> t.todo, data |-> t.data]
      BY <2>2
    <2>4. TaskFits(t, ws, line, buffers, calls)
      BY <1>2, <1>6, <2>3 DEF TaskFits
    <2> QED  BY <2>1, <2>4
  <1> QED  BY <1>7, <1>8, <1>9 DEF SInv

-----------------------------------------------------------------------------
\* A handler is at its end.
LEMMA IdleFits ==
    ASSUME NEW clients, NEW lines, NEW bs, NEW last  PROVE TaskFits(Idle, clients, lines, bs, last)
  <1>1. <<>> \in Seq(In)
    OBVIOUS
  <1> QED  BY <1>1 DEF TaskFits, Idle

LEMMA AllDoneStep ==
    ASSUME SInv, AllDone
    PROVE  SInv'
  <1>1. task' = Idle /\ UNCHANGED <<ws, calls, line, coming, handed>> /\ buffers' \in {_cleanBuffers(buffers), buffers}
    BY DEF AllDone
  <1>2. Counted(ws, buffers, calls) /\ calls \in 0 .. Calls
    BY DEF SInv
  <1>3. Counted(ws, _cleanBuffers(buffers), calls)
    <2>1. PICK new : new = _cleanBuffers(buffers)
      OBVIOUS
    <2>2. /\ new = [id \in DOMAIN new |-> new[id]] /\ DOMAIN new = {id \in DOMAIN buffers : buffers[id] > 0}
          /\ \A id \in DOMAIN new : new[id] = buffers[id]
      BY <2>1 DEF _cleanBuffers
    <2>3. ASSUME NEW c \in Sockets, NEW i \in DOMAIN ws[c].messages, ws[c].messages[i].kind = "multi"
          PROVE  ws[c].messages[i].id \in DOMAIN new
      <3>1. PICK id : id = ws[c].messages[i].id
        OBVIOUS
      <3>2. id \in DOMAIN buffers /\ buffers[id] = Cardinality(Holders(ws, id))
        BY <1>2, <2>3, <3>1 DEF Counted
      <3>3. c \in Holders(ws, id)
        BY <2>3, <3>1 DEF Holders, Has
      <3>4. Cardinality(Holders(ws, id)) > 0
        BY <3>3, HoldersFinite, FS_EmptySet
      <3> QED  BY <2>2, <3>1, <3>2, <3>4
    <2>4. Counted(ws, new, calls)
      BY <1>2, <2>2, <2>3 DEF Counted
    <2> QED  BY <2>1, <2>4
  <1>4. Counted(ws, buffers', calls)
    BY <1>1, <1>2, <1>3
  <1>5. TaskFits(task', ws, line, buffers', calls)
    BY <1>1, IdleFits
  <1> QED  BY <1>1, <1>4, <1>5 DEF SInv

LEMMA BeginStep ==
    ASSUME SInv, textAll \/ PingOrCloseAll
    PROVE  SInv'
  <1>1. /\ calls' = calls + 1 /\ calls < Calls /\ coming' = coming /\ handed' = handed
        /\ ws' = ws /\ line' = line
    BY DEF textAll, PingOrCloseAll, MayCallAll, MayCall
  <1>2. PICK later : later = calls + 1
    OBVIOUS
  <1>3. calls \in Nat /\ calls \in 0 .. Calls /\ later \in Nat /\ later \in 0 .. Calls /\ calls <= later /\ later \notin 1 .. calls
        /\ later \in 1 .. later /\ 1 .. calls \subseteq 1 .. later
    <2>1. calls \in 0 .. Calls /\ Calls \in Nat
      BY Sizes DEF SInv
    <2> QED  BY <1>1, <1>2, <2>1
  <1>4. ASSUME NEW c \in Sockets
        PROVE  /\ LocalTo(ws[c], line[c], later)
               /\ \A i \in DOMAIN line[c].queued : line[c].queued[i] < later
               /\ \A i \in DOMAIN ws[c].messages : ws[c].messages[i].id \in 1 .. calls
    <2>1. LocalTo(ws[c], line[c], calls)
      BY DEF SInv
    <2>2. \A i \in DOMAIN ws[c].messages : ws[c].messages[i].id \in 1 .. calls
      <3>1. PICK messages, queued, frames : messages = ws[c].messages /\ queued = line[c].queued /\ frames = line[c].frames
        OBVIOUS
      <3>2. Texts(messages, queued, frames, calls)
        BY <2>1, <3>1 DEF LocalTo
      <3> QED  BY <3>1, <3>2, IdsSoFar
    <2>3. Queued(line[c].queued, calls)
      BY <2>1 DEF LocalTo, Texts
    <2>4. \A i \in DOMAIN line[c].queued : line[c].queued[i] < later
      BY <1>2, <1>3, <2>3 DEF Queued
    <2> QED  BY <1>3, <2>1, <2>2, <2>4, LocalLater
  <1>5. Counted(ws, buffers, calls)
    BY DEF SInv
  <1>6. Counted(ws, buffers, later)
    BY <1>3, <1>5 DEF Counted
  <1>7. CASE textAll
    <2>1. PICK new : new = makeBuffer(buffers, later)
      OBVIOUS
    <2>2. /\ new = [id \in DOMAIN new |-> new[id]] /\ DOMAIN new = DOMAIN buffers \cup {later}
          /\ new[later] = 0 /\ \A id \in DOMAIN buffers : id # later => new[id] = buffers[id]
      BY <2>1 DEF makeBuffer
    <2>3. later \notin DOMAIN buffers
      BY <1>3, <1>5 DEF Counted
    <2>4. Holders(ws, later) = {}
      BY <1>3, <1>4 DEF Holders, Has
    <2>5. Cardinality(Holders(ws, later)) = 0
      BY <2>4, FS_EmptySet
    <2>6. ASSUME NEW id \in DOMAIN new  PROVE new[id] = Cardinality(Holders(ws, id))
      <3>1. CASE id = later
        BY <2>2, <2>5, <3>1
      <3>2. CASE id # later
        BY <1>5, <2>2, <3>2 DEF Counted
      <3> QED  BY <3>1, <3>2
    <2>7. Counted(ws, new, later)
      BY <1>3, <1>6, <2>2, <2>6 DEF Counted
    <2>8. PICK todo : todo = {c \in Sockets : IsConnected(c)}
      OBVIOUS
    <2>9. PICK t : t = task'
      OBVIOUS
    <2>10. t = [does |-> "text", todo |-> todo, data |-> <<>>] /\ buffers' = new
      BY <1>2, <1>7, <2>1, <2>8, <2>9 DEF textAll, Begin
    <2>11. TaskFits(t, ws, line, new, later)
      <3>1. <<>> \in Seq(In)
        OBVIOUS
      <3>2. t.does = "text" /\ t.todo = todo /\ t.data = <<>> /\ t = [does |-> t.does, todo |-> t.todo, data |-> t.data]
        BY <2>10
      <3>3. todo \subseteq Sockets
        BY <2>8
      <3> QED  BY <1>4, <2>2, <3>1, <3>2, <3>3 DEF TaskFits
    <2> QED  BY <1>1, <1>2, <1>3, <1>4, <2>7, <2>9, <2>10, <2>11 DEF SInv
  <1>8. CASE PingOrCloseAll
    <2>1. PICK op \in {"PING", "CLOSE"} : Begin(op)
      BY <1>8 DEF PingOrCloseAll
    <2>2. PICK todo : todo = {c \in Sockets : IsConnected(c)}
      OBVIOUS
    <2>3. PICK t : t = task'
      OBVIOUS
    <2>4. t = [does |-> op, todo |-> todo, data |-> <<>>] /\ buffers' = buffers
      BY <1>8, <2>1, <2>2, <2>3 DEF PingOrCloseAll, Begin
    <2>5. TaskFits(t, ws, line, buffers, later)
      <3>1. <<>> \in Seq(In)
        OBVIOUS
      <3>2. t.does = op /\ t.todo = todo /\ t.data = <<>> /\ t = [does |-> t.does, todo |-> t.todo, data |-> t.data]
        BY <2>4
      <3>3. todo \subseteq Sockets
        BY <2>2
      <3>4. t.does # "data" /\ t.does # "text"
        BY <2>1, <3>2
      <3> QED  BY <3>1, <3>2, <3>3, <3>4 DEF TaskFits
    <2> QED  BY <1>1, <1>2, <1>3, <1>4, <1>6, <2>3, <2>4, <2>5 DEF SInv
  <1> QED  BY <1>7, <1>8

LEMMA ForOneStep ==
    ASSUME SInv, NEW c \in Sockets, ForOne(c)
    PROVE  SInv'
  <1>1. PICK h, rest, later, t : h = On(c) /\ rest = Others(ws, c) /\ later = calls /\ t = task'
    OBVIOUS
  <1>2. /\ Good(h, later, rest) /\ h.ws = ws[c] /\ h.line = line[c] /\ h.buffers = buffers /\ Reading(ws[c], handed[c])
        /\ later \in 0 .. Calls /\ calls <= later
    BY <1>1, Now
  <1>3. task.does \in {"text", "PING", "CLOSE"} /\ c \in task.todo /\ calls' = calls /\ coming' = coming /\ handed' = handed
    BY DEF ForOne
  <1>4. TaskFits(task, ws, line, buffers, calls)
    BY DEF SInv
  <1>5. /\ t = [does |-> t.does, todo |-> t.todo, data |-> t.data] /\ t.does = task.does
        /\ t.todo = task.todo \ {c} /\ t.data = task.data
    BY <1>1, <1>4 DEF ForOne, TaskFits
  <1>6. PICK g : Good(g, later, rest) /\ Parsed(g.ws) = Parsed(h.ws) /\ After(c, g)
                 /\ (task.does = "text" => calls \in DOMAIN g.buffers)
    <2>1. CASE task.does = "text"
      <3>1. PICK m : m = NewMultiMessage(calls)
        OBVIOUS
      <3>2. calls \in DOMAIN buffers /\ \A i \in DOMAIN line[c].queued : line[c].queued[i] < calls
        BY <1>3, <1>4, <2>1 DEF TaskFits
      <3>3. calls > 0 /\ calls \in Nat
        <4>1. DOMAIN buffers \subseteq 1 .. calls /\ calls \in 0 .. Calls
          BY DEF SInv, Counted
        <4> QED  BY <3>2, <4>1, Sizes
      <3>4. m \in Message /\ m.id = calls /\ m.kind = "multi" /\ m.sent = 0 /\ m.state = "SENDING"
        BY <3>1, <3>3, BasicTyped
      <3>5. PICK g : g = _queueMessage(h, m)
        OBVIOUS
      <3>6. After(c, g)
        BY <1>1, <2>1, <3>1, <3>5 DEF ForOne
      <3>7. Good(g, later, rest) /\ Parsed(g.ws) = Parsed(h.ws) /\ DOMAIN g.buffers = DOMAIN h.buffers
        BY <1>1, <1>2, <3>2, <3>3, <3>4, <3>5, QueueMessageKeeps
      <3>8. calls \in DOMAIN g.buffers
        BY <1>2, <3>2, <3>7
      <3> QED  BY <3>6, <3>7, <3>8
    <2>2. CASE task.does # "text"
      <3>1. PICK op : op = task.does
        OBVIOUS
      <3>2. PICK g : g = _queueControl(h, op)
        OBVIOUS
      <3>3. After(c, g)
        BY <1>1, <2>2, <3>1, <3>2 DEF ForOne
      <3> QED  BY <1>2, <2>2, <3>2, <3>3, QueueControlKeeps DEF Keeps
    <2> QED  BY <2>1, <2>2
  <1>7. /\ ws' = [d \in Sockets |-> ws'[d]] /\ line' = [d \in Sockets |-> line'[d]]
        /\ ws'[c] = g.ws /\ \A d \in Sockets : d # c => ws'[d] = ws[d] /\ line'[d] = line[d]
        /\ \A d \in Sockets : LocalTo(ws'[d], line'[d], later)
        /\ Counted(ws', buffers', later) /\ buffers' = g.buffers
    BY <1>1, <1>2, <1>6, ClientMoves
  <1>8. Reading(g.ws, handed[c])
    BY <1>2, <1>6, ReadingKept
  <1>9. \A d \in Sockets : Reading(ws'[d], handed'[d])
    BY <1>3, <1>7, <1>8 DEF SInv
  <1>10. TaskFits(t, ws', line', buffers', calls')
    <2>1. t.todo \subseteq Sockets /\ t.data \in Seq(In) /\ t.does # "data"
      BY <1>3, <1>4, <1>5 DEF TaskFits
    <2>2. ASSUME t.does = "text"
          PROVE  /\ calls \in DOMAIN buffers'
                 /\ \A d \in t.todo : \A i \in DOMAIN line'[d].queued : line'[d].queued[i] < calls
      <3>1. \A d \in t.todo : d \in Sockets /\ d # c /\ d \in task.todo
        BY <1>5, <2>1
      <3>2. \A d \in t.todo : line'[d] = line[d]
        BY <1>7, <3>1
      <3>3. \A d \in task.todo : \A i \in DOMAIN line[d].queued : line[d].queued[i] < calls
        BY <1>4, <1>5, <2>2 DEF TaskFits
      <3> QED  BY <1>5, <1>6, <1>7, <2>2, <3>1, <3>2, <3>3
    <2> QED  BY <1>3, <1>5, <2>1, <2>2 DEF TaskFits
  <1> QED  BY <1>1, <1>2, <1>3, <1>7, <1>9, <1>10 DEF SInv

-----------------------------------------------------------------------------
(* What the handler is given                                                *)

\* v is the frame a client is inside of, or one that begins.
Within(w, v) ==
    (w.pstate = 1 /\ v.op = w.op /\ v.len = w.len /\ v.index = w.index) \/ (w.pstate = 0 /\ v.index = 0)

\* u has read n more bytes of it.
HasRead(u, v, n) ==
    \/ (u.pstate = 0 /\ v.index + n = v.len /\ u.index \in Nat)
    \/ (u.pstate = 1 /\ v.index + n < v.len /\ u.index = v.index + n)

\* The handler is given n more bytes of a frame.
LEMMA Given ==
    ASSUME NEW w, NEW data, Reading(w, data), w.st # "gone",
           NEW v, v.len \in Nat, v.index \in Nat, v.index <= v.len,
           Within(w, v),
           NEW n \in Nat, v.index + n <= v.len,
           NEW u, u.op = v.op, u.len = v.len, u.st = w.st,
           HasRead(u, v, n),
           NEW more, more = HandData(data, v, n)
    PROVE  Reading(u, more)
  <1>0. /\ (w.pstate = 1 /\ v.op = w.op /\ v.len = w.len /\ v.index = w.index) \/ (w.pstate = 0 /\ v.index = 0)
        /\ \/ (u.pstate = 0 /\ v.index + n = v.len /\ u.index \in Nat)
           \/ (u.pstate = 1 /\ v.index + n < v.len /\ u.index = v.index + n)
    BY DEF Within, HasRead
  <1>1. data \in Seq(Data) /\ InOrder(data) /\ GivenSoFar(w, data) /\ w.pstate \in {0, 1}
    BY DEF Reading
  <1>2. /\ u.len \in Nat /\ u.index \in Nat /\ u.pstate \in {0, 1} /\ (u.pstate = 1 => u.index < u.len)
    BY <1>0
  <1>3. CASE v.op = "TEXT"
    <2>1. PICK d : d = [len |-> v.len, index |-> v.index, n |-> n]
      OBVIOUS
    <2>2. d \in Data /\ d.len = v.len /\ d.index = v.index /\ d.n = n
      BY <2>1 DEF Data
    <2>3. PICK k : k = Len(data)
      OBVIOUS
    <2>4. /\ k \in Nat /\ DOMAIN data = 1 .. k /\ (data = <<>> <=> k = 0) /\ \A i \in DOMAIN data : data[i] \in Data
      BY <1>1, <2>3, OfSeq
    <2>5. more = Append(data, d)
      BY <1>3, <2>1 DEF HandData
    <2>6. more \in Seq(Data) /\ Len(more) = k + 1 /\ more # <<>> /\ DOMAIN more = 1 .. k + 1
      BY <1>1, <2>2, <2>3, <2>5, Pushed
    <2>7. \A i \in 1 .. k : more[i] = data[i]
      BY <1>1, <2>2, <2>3, <2>5, Pushed
    <2>8. more[k + 1] = d
      BY <1>1, <2>2, <2>3, <2>5, Pushed
    <2>9. Last(more) = d
      BY <2>6, <2>8 DEF Last
    <2>10. k > 0 => Last(data) = data[k]
      BY <2>3 DEF Last
    <2>11. /\ d.index + d.n <= d.len
           /\ IF k = 0 \/ Whole(data[k]) THEN d.index = 0
              ELSE d.index = data[k].index + data[k].n /\ d.len = data[k].len
      <3>1. CASE w.pstate = 1 /\ w.op = "TEXT"
        <4>1. data # <<>> /\ Last(data).index + Last(data).n = w.index /\ Last(data).len = w.len /\ w.index < w.len
          BY <1>1, <3>1 DEF GivenSoFar, Reading
        <4>2. v.len = w.len /\ v.index = w.index
          BY <1>0, <3>1
        <4>3. k > 0 /\ data[k].index + data[k].n = w.index /\ data[k].len = w.len
          BY <2>4, <2>10, <4>1
        <4>4. k # 0 /\ ~ Whole(data[k])
          BY <4>1, <4>2, <4>3 DEF Whole
        <4> QED  BY <2>2, <4>2, <4>3, <4>4
      <3>2. CASE ~ (w.pstate = 1 /\ w.op = "TEXT")
        <4>1. data = <<>> \/ Whole(Last(data))
          BY <1>1, <3>2 DEF GivenSoFar
        <4>2. k = 0 \/ Whole(data[k])
          BY <2>4, <2>10, <4>1
        <4>3. w.pstate = 0 /\ v.index = 0
          BY <1>0, <1>3, <3>2
        <4> QED  BY <2>2, <4>2, <4>3
      <3> QED  BY <3>1, <3>2
    <2>12. InOrder(more)
      <3>1. ASSUME NEW i \in 1 .. k  PROVE OrderAt(more, i)
        <4>1. more[i] = data[i] /\ (i # 1 => more[i - 1] = data[i - 1])
          BY <2>4, <2>7
        <4>2. OrderAt(data, i)
          BY <1>1, <2>4 DEF InOrder
        <4>3. CASE i = 1
          BY <4>1, <4>2, <4>3 DEF OrderAt
        <4>4. CASE i # 1
          BY <4>1, <4>2, <4>4 DEF OrderAt
        <4> QED  BY <4>3, <4>4
      <3>2. OrderAt(more, k + 1)
        <4>1. k + 1 - 1 = k /\ (k # 0 => more[k] = data[k]) /\ (k + 1 = 1 <=> k = 0)
          BY <2>4, <2>7
        <4>2. CASE k = 0
          BY <2>8, <2>11, <4>2 DEF OrderAt
        <4>3. CASE k # 0
          <5>1. PICK e, j : e = data[k] /\ j = k + 1
            OBVIOUS
          <5>2. more[j] = d /\ more[j - 1] = e /\ j # 1
            <6>1. j - 1 = k /\ j # 1
              BY <2>4, <4>3, <5>1
            <6> QED  BY <2>8, <4>1, <4>3, <5>1, <6>1
          <5>3. /\ d.index + d.n <= d.len
                /\ IF Whole(e) THEN d.index = 0 ELSE d.index = e.index + e.n /\ d.len = e.len
            BY <2>11, <4>3, <5>1
          <5>4. OrderAt(more, j)
            BY <5>2, <5>3 DEF OrderAt
          <5> QED  BY <5>1, <5>4
        <4> QED  BY <4>2, <4>3
      <3>3. \A i \in 1 .. k + 1 : i \in 1 .. k \/ i = k + 1
        BY <2>4
      <3>4. \A i \in 1 .. k + 1 : OrderAt(more, i)
        BY <3>1, <3>2, <3>3
      <3> QED  BY <2>6, <3>4 DEF InOrder
    <2>13. GivenSoFar(u, more)
      <3>1. CASE u.pstate = 0
        <4>1. d.index + d.n = d.len
          BY <1>0, <2>2, <3>1
        <4> QED  BY <2>9, <3>1, <4>1 DEF GivenSoFar, Whole
      <3>2. CASE u.pstate = 1
        <4>1. d.index + d.n = u.index /\ d.len = u.len
          BY <1>0, <2>2, <3>2
        <4> QED  BY <1>3, <2>6, <2>9, <3>2, <4>1 DEF GivenSoFar
      <3> QED  BY <1>2, <3>1, <3>2
    <2> QED  BY <1>2, <2>6, <2>12, <2>13 DEF Reading
  <1>4. CASE v.op # "TEXT"
    <2>1. more = data
      BY <1>4 DEF HandData
    <2>2. ~ (w.pstate = 1 /\ w.op = "TEXT")
      BY <1>0, <1>4
    <2>3. data = <<>> \/ Whole(Last(data))
      BY <1>1, <2>2 DEF GivenSoFar
    <2>4. GivenSoFar(u, more)
      BY <1>0, <1>4, <2>1, <2>3 DEF GivenSoFar
    <2> QED  BY <1>1, <1>2, <2>1, <2>4 DEF Reading
  <1> QED  BY <1>3, <1>4

-----------------------------------------------------------------------------
(* A segment is read                                                        *)

\* What follows the header, how much of it is of the frame, and the client then.
Behind(w, data)  == IF w.pstate = 1 THEN data ELSE Tail(data)
Part(rest, v)    == IF Len(rest) < v.len - v.index THEN Len(rest) ELSE v.len - v.index
ReadOn(v, n)     == [v EXCEPT !.pstate = IF n < v.len - v.index THEN 1 ELSE 0,
                              !.index = IF n < v.len - v.index THEN @ + n ELSE @]

\* What is read of a segment: v is the frame the client is inside of, rest what
\* follows its header, n the bytes of it, u the client then.
LEMMA FrameRead ==
    ASSUME NEW w, w = [f \in ClientFields |-> w[f]], NEW given, Reading(w, given), w.st = "open",
           NEW data \in Seq(In), data # <<>>,
           NEW v, v = FrameOf(w, data),
           NEW rest, rest = Behind(w, data),
           NEW n, n = Part(rest, v),
           NEW u, u = ReadOn(v, n)
    PROVE  /\ u = [f \in ClientFields |-> u[f]] /\ u.messages = w.messages /\ u.st = "open"
           /\ rest \in Seq(In) /\ n \in Nat /\ Reading(u, HandData(given, v, n))
  <1>1. w.pstate \in {0, 1} /\ w.len \in Nat /\ w.index \in Nat /\ (w.pstate = 1 => w.index < w.len)
    BY DEF Reading
  <1>2. PICK first : first = data[1]
    OBVIOUS
  <1>3. first.len \in Nat /\ rest \in Seq(In) /\ Len(rest) \in Nat
    <2>1. first \in In
      BY <1>2
    <2>2. rest = data \/ rest = Tail(data)
      BY DEF Behind
    <2>3. rest \in Seq(In) /\ Len(rest) \in Nat
      BY <2>2
    <2>4. first.len \in Nat
      BY <2>1 DEF In
    <2> QED  BY <2>3, <2>4
  <1>4. /\ v = [f \in ClientFields |-> v[f]] /\ v.messages = w.messages /\ v.st = w.st
        /\ (w.pstate = 1 => v = w) /\ (w.pstate = 0 => v.index = 0 /\ v.len = first.len)
    <2>1. CASE w.pstate = 1
      BY <2>1 DEF FrameOf
    <2>2. CASE w.pstate = 0
      <3>1. v = [w EXCEPT !.op = first.op, !.len = first.len, !.index = 0]
        BY <1>2, <2>2 DEF FrameOf
      <3>2. PICK a, b : a = [w EXCEPT !.op = first.op] /\ b = [a EXCEPT !.len = first.len]
        OBVIOUS
      <3>3. a = [f \in ClientFields |-> a[f]] /\ a.messages = w.messages /\ a.st = w.st
        BY <3>2 DEF ClientFields
      <3>4. b = [f \in ClientFields |-> b[f]] /\ b.messages = w.messages /\ b.st = w.st /\ b.len = first.len
        BY <3>2, <3>3 DEF ClientFields
      <3>5. v = [b EXCEPT !.index = 0]
        BY <3>1, <3>2 DEF ClientFields
      <3>6. v = [f \in ClientFields |-> v[f]]
        BY <3>4, <3>5 DEF ClientFields
      <3>7. v.messages = w.messages /\ v.st = w.st /\ v.len = first.len /\ v.index = 0
        BY <3>4, <3>5 DEF ClientFields
      <3> QED  BY <2>2, <3>6, <3>7
    <2> QED  BY <1>1, <2>1, <2>2
  <1>5. v.len \in Nat /\ v.index \in Nat /\ v.index <= v.len
    BY <1>1, <1>3, <1>4
  <1>6. n \in Nat /\ v.index + n <= v.len
    <2>1. PICK k, a, b : k = Len(rest) /\ a = v.len /\ b = v.index
      OBVIOUS
    <2>2. k \in Nat /\ a \in Nat /\ b \in Nat /\ b <= a /\ n = IF k < a - b THEN k ELSE a - b
      BY <1>3, <1>5, <2>1 DEF Part
    <2>3. n \in Nat /\ b + n <= a
      BY <2>2
    <2> QED  BY <2>1, <2>3
  <1>7. PICK pstate, index : /\ pstate = (IF n < v.len - v.index THEN 1 ELSE 0)
                             /\ index = (IF n < v.len - v.index THEN v.index + n ELSE v.index)
    OBVIOUS
  <1>8. u = [v EXCEPT !.pstate = pstate, !.index = index]
    BY <1>7 DEF ReadOn
  <1>9. /\ u = [f \in ClientFields |-> u[f]] /\ u.messages = v.messages /\ u.st = v.st
        /\ u.op = v.op /\ u.len = v.len /\ u.pstate = pstate /\ u.index = index
    BY <1>4, <1>8 DEF ClientFields
  <1>10. HasRead(u, v, n)
    <2>1. PICK a, b : a = v.len /\ b = v.index
      OBVIOUS
    <2>2. a \in Nat /\ b \in Nat /\ b + n <= a /\ n \in Nat
      BY <1>5, <1>6, <2>1
    <2>3. CASE n < a - b
      <3>1. b + n < a /\ pstate = 1 /\ index = b + n
        BY <1>7, <2>1, <2>2, <2>3
      <3> QED  BY <1>9, <2>1, <3>1 DEF HasRead
    <2>4. CASE ~ (n < a - b)
      <3>1. b + n = a /\ pstate = 0 /\ index = b
        BY <1>7, <2>1, <2>2, <2>4
      <3> QED  BY <1>9, <2>1, <2>2, <3>1 DEF HasRead
    <2> QED  BY <2>3, <2>4
  <1>11. Within(w, v)
    BY <1>1, <1>4 DEF Within
  <1>12. PICK all : all = HandData(given, v, n)
    OBVIOUS
  <1>13. Reading(u, all)
    <2>1. w.st # "gone" /\ u.st = w.st
      BY <1>4, <1>9
    <2> QED  BY <1>5, <1>6, <1>9, <1>10, <1>11, <1>12, <2>1, Given
  <1> QED  BY <1>3, <1>4, <1>6, <1>9, <1>12, <1>13

LEMMA ReadFrameStep ==
    ASSUME SInv, NEW c \in Sockets, ReadFrame(c)
    PROVE  SInv'
  <1>1. PICK h, others, w, given, data : h = On(c) /\ others = Others(ws, c) /\ w = ws[c] /\ given = handed[c] /\ data = task.data
    OBVIOUS
  <1>2. /\ Good(h, calls, others) /\ h.ws = w /\ h.line = line[c] /\ h.buffers = buffers /\ Reading(w, given)
        /\ calls \in 0 .. Calls /\ calls <= calls
    BY <1>1, Now
  <1>3. /\ task = [does |-> task.does, todo |-> task.todo, data |-> task.data] /\ task.does = "data" /\ task.todo = {c}
        /\ data \in Seq(In) /\ data # <<>> /\ w.st = "open"
    BY <1>1 DEF SInv, TaskFits, ReadFrame
  <1>4. calls' = calls /\ coming' = coming
    BY DEF ReadFrame
  <1>5. PICK v, rest : v = FrameOf(w, data) /\ rest = Behind(w, data)
    OBVIOUS
  <1>6. PICK n : n = Part(rest, v)
    OBVIOUS
  <1>7. PICK u : u = ReadOn(v, n)
    OBVIOUS
  <1>9. PICK all, left : all = HandData(given, v, n) /\ left = SubSeq(rest, n + 1, Len(rest))
    OBVIOUS
  <1>10. PICK k, g : k = [h EXCEPT !.ws = u] /\ g = IF n < v.len - v.index THEN k ELSE FrameEnds(k)
    OBVIOUS
  <1>11. /\ After(c, g) /\ handed' = [handed EXCEPT ![c] = all]
         /\ task' = IF left = <<>> \/ g.ws.st = "gone" THEN Idle ELSE [task EXCEPT !.data = left]
    <2>1. handed' = [handed EXCEPT ![c] = HandData(handed[c], v, n)]
      BY <1>1, <1>5, <1>6 DEF ReadFrame, Behind, Part, ReadOn
    <2>2. After(c, g) /\ task' = IF left = <<>> \/ g.ws.st = "gone" THEN Idle ELSE [task EXCEPT !.data = left]
      BY <1>1, <1>5, <1>6, <1>7, <1>9, <1>10 DEF ReadFrame, Behind, Part, ReadOn
    <2> QED  BY <1>1, <1>9, <2>1, <2>2
  <1>12. /\ u = [f \in ClientFields |-> u[f]] /\ u.messages = w.messages /\ u.st = "open"
         /\ rest \in Seq(In) /\ n \in Nat /\ Reading(u, all)
    <2>1. w = [f \in ClientFields |-> w[f]]
      BY <1>2 DEF Good, Shape
    <2> QED  BY <1>2, <1>3, <1>5, <1>6, <1>7, <1>9, <2>1, FrameRead
  <1>13. Good(k, calls, others) /\ k.ws = u
    <2>1. Shape(k) /\ k.ws = u /\ k.line = h.line /\ k.buffers = h.buffers
      BY <1>2, <1>10, <1>12 DEF Good, Shape
    <2> QED  BY <1>2, <1>12, <2>1 DEF Good
  <1>14. Good(g, calls, others) /\ (Parsed(g.ws) = Parsed(u) \/ g.ws = GoneClient)
    <2>1. CASE n < v.len - v.index
      BY <1>10, <1>13, <2>1
    <2>2. CASE ~ (n < v.len - v.index)
      <3>1. Serves(k, FrameEnds(k), calls, others)
        BY <1>13, EndServes
      <3> QED  BY <1>10, <1>13, <2>2, <3>1 DEF Serves
    <2> QED  BY <2>1, <2>2
  <1>15. PICK t : t = g.ws
    OBVIOUS
  <1>16. Reading(t, all) /\ (t.st = "open" \/ t.st = "gone")
    <2>1. Reading(t, all)
      BY <1>12, <1>14, <1>15, ReadingKept
    <2> QED  BY <1>12, <1>14, <1>15, <2>1 DEF Parsed, GoneClient, NewClient
  <1>17. /\ ws' = [d \in Sockets |-> ws'[d]] /\ line' = [d \in Sockets |-> line'[d]]
         /\ ws'[c] = g.ws /\ \A d \in Sockets : d # c => ws'[d] = ws[d]
         /\ \A d \in Sockets : LocalTo(ws'[d], line'[d], calls)
         /\ Counted(ws', buffers', calls)
    BY <1>1, <1>2, <1>11, <1>14, ClientMoves
  <1>18. /\ handed' = [d \in Sockets |-> handed'[d]] /\ handed'[c] = all
         /\ \A d \in Sockets : d # c => handed'[d] = handed[d]
    BY <1>11 DEF SInv
  <1>19. \A d \in Sockets : Reading(ws'[d], handed'[d])
    BY <1>15, <1>16, <1>17, <1>18 DEF SInv
  <1>20. TaskFits(task', ws', line', buffers', calls)
    <2>1. CASE left = <<>> \/ g.ws.st = "gone"
      BY <1>11, <2>1, IdleFits
    <2>2. CASE ~ (left = <<>> \/ g.ws.st = "gone")
      <3>1. PICK next : next = task'
        OBVIOUS
      <3>2. next = [task EXCEPT !.data = left]
        BY <1>11, <2>2, <3>1
      <3>3. /\ next = [does |-> next.does, todo |-> next.todo, data |-> next.data]
            /\ next.does = "data" /\ next.todo = {c} /\ next.data = left
        BY <1>3, <3>2
      <3>4. left \in Seq(In) /\ left # <<>>
        BY <1>9, <1>12, <2>2
      <3>5. ws'[c].st = "open"
        BY <1>15, <1>16, <1>17, <2>2
      <3>6. TaskFits(next, ws', line', buffers', calls)
        BY <3>3, <3>4, <3>5 DEF TaskFits
      <3> QED  BY <3>1, <3>6
    <2> QED  BY <2>1, <2>2
  <1> QED  BY <1>2, <1>4, <1>17, <1>18, <1>19, <1>20 DEF SInv

-----------------------------------------------------------------------------
(* The theorems                                                             *)

\* No connection, no text.
LEMMA InitHolds ==
    ASSUME SocketInit
    PROVE  SInv
  <1>1. /\ ws = [c \in Sockets |-> ws[c]] /\ line = [c \in Sockets |-> line[c]] /\ handed = [c \in Sockets |-> handed[c]]
        /\ \A c \in Sockets : ws[c] = NewClient /\ line[c] = NewLine /\ handed[c] = <<>>
    BY DEF SocketInit
  <1>2. calls = 0 /\ calls \in 0 .. Calls
    BY Sizes DEF SocketInit
  <1>3. coming \in [Sockets -> Seq(In)]
    BY SocketAssumption DEF SocketInit, In
  <1>4. LocalTo(NewClient, NewLine, 0)
    <2>1. /\ NewClient = [f \in ClientFields |-> NewClient[f]] /\ LineShape(NewLine) /\ NewClient.messages = <<>>
          /\ NewLine.queued = <<>> /\ NewLine.frames = <<>> /\ NewLine.flight = <<>> /\ NewLine.reports = <<>>
      BY DEF NewClient, NewLine, LineShape, ClientFields, LineFields
    <2>2. Texts(<<>>, <<>>, <<>>, 0)
      BY <1>2, NoTexts
    <2>3. <<>> \in Seq(Int)
      OBVIOUS
    <2> QED  BY <2>1, <2>2, <2>3 DEF LocalTo
  <1>5. Reading(NewClient, <<>>)
    <2>1. <<>> \in Seq(Data) /\ InOrder(<<>>)
      BY DEF InOrder
    <2> QED  BY <2>1 DEF Reading, GivenSoFar, NewClient
  <1>6. Counted(ws, buffers, 0)
    <2>1. PICK bs : bs = buffers
      OBVIOUS
    <2>2. bs = [id \in DOMAIN bs |-> bs[id]] /\ DOMAIN bs = {}
      BY <2>1 DEF SocketInit
    <2>3. \A c \in Sockets : DOMAIN ws[c].messages = {}
      BY <1>1 DEF NewClient
    <2>4. Counted(ws, bs, 0)
      BY <2>2, <2>3 DEF Counted
    <2> QED  BY <2>1, <2>4
  <1>7. TaskFits(task, ws, line, buffers, calls)
    BY IdleFits DEF SocketInit
  <1> QED  BY <1>1, <1>2, <1>3, <1>4, <1>5, <1>6, <1>7 DEF SInv

\* Every step keeps the invariant.
LEMMA StepHolds ==
    ASSUME SInv, [SocketNext]_socketVars
    PROVE  SInv'
  <1>1. ASSUME NEW c \in Sockets,
               \/ Upgrade(c) \/ _onAck(c) \/ _onPoll(c) \/ _onData(c) \/ _onDisconnect(c)
               \/ Acknowledged(c) \/ text(c) \/ PingOrClose(c)
        PROVE  SInv'
    BY <1>1, UpgradeStep, AckStep, PollStep, DataStep, DisconnectStep, AcknowledgedStep, CallStep
  <1>2. ASSUME TaskStep  PROVE SInv'
    BY <1>2, AllDoneStep, ReadFrameStep, ForOneStep DEF TaskStep
  <1>3. ASSUME UNCHANGED socketVars  PROVE SInv'
    BY <1>3 DEF socketVars, SInv
  <1> QED  BY <1>1, <1>2, <1>3, BeginStep DEF SocketNext

\* SInv says of each client what the three properties say of all.
LEMMA SInvGivesFrames ==
    ASSUME SInv
    PROVE  FramesAreTexts
  <1>1. ASSUME NEW c \in Sockets  PROVE Framed(line[c].frames, line[c].queued)
    BY DEF SInv, LocalTo, Texts
  <1> QED  BY <1>1 DEF FramesAreTexts, Framed, FollowsUp, Begins, Continues, Follows

LEMMA SInvGivesOrder ==
    ASSUME SInv
    PROVE  HandedInOrder
  <1>1. ASSUME NEW c \in Sockets  PROVE InOrder(handed[c])
    BY DEF SInv, Reading
  <1> QED  BY <1>1 DEF HandedInOrder, InOrder, OrderAt, Whole

\* The messages that use a buffer are as many as the clients that have one.
LEMMA SInvGivesCounts ==
    ASSUME SInv
    PROVE  BufferIsCounted
  <1> DEFINE Is(id, messages, i) == i \in DOMAIN messages /\ messages[i].kind = "multi" /\ messages[i].id = id
             used(id) == {p \in Sockets \X (1 .. MaxQueued) : Is(id, ws[p[1]].messages, p[2])}
             At(id, c) == CHOOSE i \in DOMAIN ws[c].messages : Is(id, ws[c].messages, i)
             pair(id) == [c \in Holders(ws, id) |-> <<c, At(id, c)>>]
  <1>1. Counted(ws, buffers, calls)
    BY DEF SInv
  <1>2. ASSUME NEW c \in Sockets, NEW i \in DOMAIN ws[c].messages
        PROVE  i \in 1 .. MaxQueued /\ \A j \in DOMAIN ws[c].messages : ws[c].messages[j].id = ws[c].messages[i].id => i = j
    <2>1. PICK messages, queued, frames : messages = ws[c].messages /\ queued = line[c].queued /\ frames = line[c].frames
      OBVIOUS
    <2>2. Texts(messages, queued, frames, calls)
      BY <2>1 DEF SInv, LocalTo
    <2>3. Distinct(messages)
      BY <2>2, IdsDiffer
    <2>4. messages \in Seq(Message) /\ Len(messages) <= MaxQueued /\ MaxQueued \in Nat
      BY <2>2, Sizes DEF Texts, Typed, InQueue
    <2>5. \A k \in DOMAIN messages : k \in 1 .. MaxQueued
      BY <2>4
    <2> QED  BY <2>1, <2>3, <2>5 DEF Distinct
  <1>3. ASSUME NEW id, NEW c \in Holders(ws, id)
        PROVE  c \in Sockets /\ At(id, c) \in DOMAIN ws[c].messages /\ Is(id, ws[c].messages, At(id, c))
    <2>1. c \in Sockets /\ \E i \in DOMAIN ws[c].messages : Is(id, ws[c].messages, i)
      BY DEF Holders, Has
    <2> HIDE DEF Is
    <2> QED  BY <2>1
  <1>4. ASSUME NEW id  PROVE pair(id) \in Bijection(Holders(ws, id), used(id))
    <2> HIDE DEF At
    <2>1. ASSUME NEW c \in Holders(ws, id)  PROVE <<c, At(id, c)>> \in used(id)
      BY <1>2, <1>3
    <2>2. ASSUME NEW p \in used(id)  PROVE p[1] \in Holders(ws, id) /\ p = <<p[1], At(id, p[1])>>
      <3>1. p = <<p[1], p[2]>> /\ p[1] \in Sockets /\ Is(id, ws[p[1]].messages, p[2])
        OBVIOUS
      <3>2. p[1] \in Holders(ws, id)
        BY <3>1 DEF Holders, Has
      <3>3. p[2] = At(id, p[1])
        BY <1>2, <1>3, <3>1, <3>2
      <3> QED  BY <3>1, <3>2, <3>3
    <2> HIDE DEF used
    <2>3. pair(id) \in [Holders(ws, id) -> used(id)]
      BY <2>1
    <2>4. \A c, d \in Holders(ws, id) : pair(id)[c] = pair(id)[d] => c = d
      OBVIOUS
    <2>5. \A p \in used(id) : \E c \in Holders(ws, id) : pair(id)[c] = p
      BY <2>2
    <2> HIDE DEF pair
    <2> QED  BY <2>3, <2>4, <2>5, Fun_IsBij
  <1>5. ASSUME NEW id  PROVE Cardinality(Holders(ws, id)) = Cardinality(used(id))
    <2> HIDE DEF pair, used
    <2>1. ExistsBijection(Holders(ws, id), used(id))
      BY <1>4 DEF ExistsBijection
    <2> QED  BY <2>1, HoldersFinite, FS_Bijection
  <1>6. ASSUME NEW id, used(id) # {}  PROVE id \in DOMAIN buffers
    <2>1. PICK p \in used(id) : TRUE
      BY <1>6
    <2>2. p[1] \in Sockets /\ Is(id, ws[p[1]].messages, p[2])
      OBVIOUS
    <2> QED  BY <1>1, <2>2 DEF Counted
  <1>7. ASSUME NEW id \in DOMAIN buffers  PROVE buffers[id] = Cardinality(used(id))
    <2> HIDE DEF used
    <2> QED  BY <1>1, <1>5 DEF Counted
  <1> HIDE DEF used
  <1>8. \A id \in 1 .. calls :
           /\ used(id) # {} => id \in DOMAIN buffers
           /\ id \in DOMAIN buffers => buffers[id] = Cardinality(used(id))
    BY <1>6, <1>7
  <1> QED  BY <1>8 DEF BufferIsCounted, used

\* The peer of every connection reads the texts queued for it in their order,
\* each from its first byte to its last, for every interleaving of calls,
\* acknowledgements, polls and control frames.
THEOREM FramesStayTexts == Spec => []FramesAreTexts
  <1>1. SocketInit => SInv
    BY InitHolds
  <1>2. SInv /\ [SocketNext]_socketVars => SInv'
    BY StepHolds
  <1>3. SInv => FramesAreTexts
    BY SInvGivesFrames
  <1> QED  BY <1>1, <1>2, <1>3, PTL DEF Spec

\* The handler of the program is given each frame of a peer whole and in order,
\* wherever its segments are cut.
THEOREM HandedStaysInOrder == Spec => []HandedInOrder
  <1>1. SocketInit => SInv
    BY InitHolds
  <1>2. SInv /\ [SocketNext]_socketVars => SInv'
    BY StepHolds
  <1>3. SInv => HandedInOrder
    BY SInvGivesOrder
  <1> QED  BY <1>1, <1>2, <1>3, PTL DEF Spec

\* A buffer of a text to all lives as long as a message uses it, and its count
\* is their number, also while a handler is going through the clients.
THEOREM BuffersStayCounted == Spec => []BufferIsCounted
  <1>1. SocketInit => SInv
    BY InitHolds
  <1>2. SInv /\ [SocketNext]_socketVars => SInv'
    BY StepHolds
  <1>3. SInv => BufferIsCounted
    BY SInvGivesCounts
  <1> QED  BY <1>1, <1>2, <1>3, PTL DEF Spec
=============================================================================
