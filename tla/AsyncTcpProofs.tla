---------------------------- MODULE AsyncTcpProofs ----------------------------
(***************************************************************************)
(* Proofs about AsyncTCP, for any number of clients, pcbs, connections and *)
(* pieces of data, and for every order of the steps of the two tasks.      *)
(*                                                                         *)
(* CallbacksHaveClient: Linked says the same without its condition, and is *)
(* kept by every step as long as the behaviour is followed, that is up to  *)
(* the first reuse of an address.  It is not inductive: a client is        *)
(* deleted in a later step than the one that takes its callbacks away.     *)
(* Detachments says that they are gone in between, and Known that whoever  *)
(* is named anywhere is not at a fresh address, so that no new connection  *)
(* brings them back.                                                       *)
(*                                                                         *)
(* PacketsFindTheirClient and DataInOrder rest on OrderInv: until the      *)
(* first of Mishaps, the queue is in order (Ordered).  This has to be said *)
(* of the queue while CLEAR turns it over, too: there, the packets that    *)
(* were put back come before those still to be looked at.  Of two packets  *)
(* for one client, the first is the older, ACCEPT is the first and FIN or  *)
(* ERROR the last of all; and a packet for a client that is gone has its   *)
(* CLEAR in front.  A packet may be sent into the turn when none has been  *)
(* put back yet or none is left to look at (AppendOrdered), an address be  *)
(* used again when nothing names it any more (Engaged), and a client be    *)
(* closed while the tcpip thread has a packet for it (LwipFits).           *)
(***************************************************************************)
EXTENDS AsyncTcp, TLAPS

QueueType == queue \in Seq(Message)
LwipType == lwip \in {None} \cup [packet : Message, at : {"fin", "send"}]
TaskType ==
    /\ task \in [at : {"idle", "clear", "api", "finclear", "rotate"},
                 self : Clients \cup {None}, first : {None} \cup Message, conn : Nat]
    /\ task.at # "idle" => task.self \in Clients
PcbType ==
    pcbs \in [Pcbs -> [st : {"free", "open", "closed"}, arg : Clients \cup {None},
                       conn : Nat, sent : Nat, acks : Nat, unacked : BOOLEAN]]
ClientType ==
    clients \in [Clients -> [st : {"free", "new", "used", "deleted"},
                             pcb : Pcbs \cup {None}, busy : BOOLEAN, rx : BOOLEAN, conn : Nat]]

Types ==
    /\ QueueType /\ LwipType /\ TaskType /\ PcbType /\ ClientType
    /\ born \in Nat /\ pieces \in Nat

\* The callbacks after which a connection has no other.
Final == {"fin", "error"}

\* No callback of a pcb names c.
Attached(p, c) == pcbs[p].st = "open" /\ pcbs[p].arg = c
Detached(c) == \A p \in Pcbs : ~Attached(p, c)

QueueDetached == \A i \in DOMAIN queue : queue[i].event \in Final => Detached(queue[i].arg)
LwipDetached ==
    lwip # None /\ lwip.packet.event \in Final =>
        \A p \in Pcbs : Attached(p, lwip.packet.arg) => lwip.at = "fin" /\ p = lwip.packet.pcb
TaskDetached == task.at \in {"clear", "api", "finclear"} => Detached(task.self)

Detachments == QueueDetached /\ LwipDetached /\ TaskDetached

Used(c) == clients[c].st # "free"

QueueKnown == \A i \in DOMAIN queue : Used(queue[i].arg)
LwipKnown == lwip # None => Used(lwip.packet.arg)
TaskKnown == task.at # "idle" => Used(task.self)

Known == QueueKnown /\ LwipKnown /\ TaskKnown

\* Only a callback that is about to close the connection waits before it sends.
OnlyFinWaits ==
    lwip # None /\ lwip.at = "fin" => lwip.packet.event = "fin" /\ lwip.packet.pcb \in Pcbs

\* What CallbacksHaveClient says as long as no address is reused.
Linked ==
    \A p \in Pcbs : pcbs[p].st = "open" /\ pcbs[p].arg # None =>
        Alive(pcbs[p].arg) /\ clients[pcbs[p].arg].pcb = p

IInv == Types /\ Linked /\ Detachments /\ Known /\ OnlyFinWaits

-----------------------------------------------------------------------------
(* What a step leaves alone                                                 *)

\* Nobody is called back who was not, and nobody's address becomes fresh.
NoneAttached == \A p \in Pcbs, c \in Clients : Attached(p, c)' => Attached(p, c)
AllStayUsed == \A c \in Clients : Used(c) => Used(c)'

\* The packets of the queue come from the queue before or are new ones.
From(new) ==
    /\ queue' \in Seq(Message)
    /\ \A i \in DOMAIN queue' :
          queue'[i] \in new \/ \E j \in DOMAIN queue : queue'[i] = queue[j]

LEMMA QueueSame == ASSUME QueueType, UNCHANGED queue  PROVE From({})
  BY DEF QueueType, From

LEMMA QueueTaken ==
    ASSUME QueueType, queue # <<>>, queue' = Tail(queue)
    PROVE  From({})
  <1>1. Tail(queue) \in Seq(Message) /\ Len(Tail(queue)) = Len(queue) - 1
    BY DEF QueueType
  <1>2. ASSUME NEW i \in DOMAIN Tail(queue)
        PROVE  i + 1 \in DOMAIN queue /\ Tail(queue)[i] = queue[i + 1]
    BY <1>1 DEF QueueType
  <1> QED  BY <1>1, <1>2 DEF From

LEMMA QueueFirst ==
    ASSUME QueueType, queue # <<>>
    PROVE  Head(queue) \in Message /\ 1 \in DOMAIN queue /\ queue[1] = Head(queue)
  BY DEF QueueType

LEMMA QueueSent ==
    ASSUME QueueType, NEW m \in Message, queue' = Append(queue, m)
    PROVE  From({m})
  <1>1. Append(queue, m) \in Seq(Message) /\ DOMAIN Append(queue, m) = 1 .. Len(queue) + 1
    BY DEF QueueType
  <1>2. ASSUME NEW i \in 1 .. Len(queue) + 1
        PROVE  Append(queue, m)[i] = m \/ (i \in DOMAIN queue /\ Append(queue, m)[i] = queue[i])
    BY DEF QueueType
  <1> QED  BY <1>1, <1>2 DEF From

LEMMA QueueSentFirst ==
    ASSUME QueueType, NEW m \in Message, queue' = <<m>> \o queue
    PROVE  From({m})
  <1>1. /\ <<m>> \o queue \in Seq(Message)
        /\ DOMAIN (<<m>> \o queue) = 1 .. Len(queue) + 1
    BY DEF QueueType
  <1>2. ASSUME NEW i \in 1 .. Len(queue) + 1
        PROVE  \/ (<<m>> \o queue)[i] = m
               \/ i - 1 \in DOMAIN queue /\ (<<m>> \o queue)[i] = queue[i - 1]
    BY DEF QueueType
  <1> QED  BY <1>1, <1>2 DEF From

LEMMA QueueTurned ==
    ASSUME QueueType, queue # <<>>, queue' = Append(Tail(queue), Head(queue))
    PROVE  From({})
  <1>1. /\ Tail(queue) \in Seq(Message) /\ Len(Tail(queue)) = Len(queue) - 1
        /\ Head(queue) \in Message
    BY DEF QueueType
  <1>2. /\ Append(Tail(queue), Head(queue)) \in Seq(Message)
        /\ DOMAIN Append(Tail(queue), Head(queue)) = 1 .. Len(queue)
    BY <1>1 DEF QueueType
  <1>3. ASSUME NEW i \in 1 .. Len(queue)
        PROVE  \E j \in DOMAIN queue : Append(Tail(queue), Head(queue))[i] = queue[j]
    <2>1. CASE i = Len(queue)
      <3>1. Append(Tail(queue), Head(queue))[i] = queue[1] /\ 1 \in DOMAIN queue
        BY <1>1, <2>1, QueueFirst DEF QueueType
      <3> QED  BY <3>1
    <2>2. CASE i # Len(queue)
      <3>1. i \in 1 .. Len(queue) - 1 /\ i + 1 \in 1 .. Len(queue)
        BY <2>2 DEF QueueType
      <3>2. Append(Tail(queue), Head(queue))[i] = queue[i + 1]
        BY <1>1, <3>1 DEF QueueType
      <3> QED  BY <3>1, <3>2 DEF QueueType
    <2> QED  BY <2>1, <2>2
  <1> QED  BY <1>2, <1>3 DEF From

\* The packets that stay keep what is known of them.
LEMMA QueueKeeps ==
    ASSUME IInv, NEW new, From(new), NoneAttached, AllStayUsed,
           \A m \in new : Used(m.arg)' /\ (m.event \in Final => Detached(m.arg)')
    PROVE  QueueType' /\ QueueDetached' /\ QueueKnown'
  <1>1. QueueType'
    BY DEF From, QueueType
  <1>2. ASSUME NEW m \in Message, \E j \in DOMAIN queue : m = queue[j]
        PROVE  Used(m.arg)' /\ (m.event \in Final => Detached(m.arg)')
    <2>1. m.arg \in Clients
      BY DEF Message
    <2>2. Used(m.arg) /\ (m.event \in Final => Detached(m.arg))
      BY <1>2 DEF IInv, Known, QueueKnown, Detachments, QueueDetached
    <2> QED  BY <2>1, <2>2 DEF AllStayUsed, NoneAttached, Detached
  <1>3. ASSUME NEW i \in DOMAIN queue'
        PROVE  \E m \in Message : /\ queue'[i] = m /\ Used(m.arg)'
                                  /\ m.event \in Final => Detached(m.arg)'
    <2>1. queue'[i] \in Message
      BY DEF From
    <2> QED  BY <1>2, <2>1 DEF From
  <1>4. QueueDetached'
    BY <1>3 DEF QueueDetached, Detached
  <1>5. QueueKnown'
    BY <1>3 DEF QueueKnown, Used
  <1> QED  BY <1>1, <1>4, <1>5

LEMMA LwipKeeps ==
    ASSUME IInv, UNCHANGED lwip, NoneAttached, AllStayUsed
    PROVE  LwipType' /\ LwipDetached' /\ LwipKnown' /\ OnlyFinWaits'
  <1>1. lwip # None => lwip.packet.arg \in Clients
    BY DEF IInv, Types, LwipType, Message
  <1> QED  BY <1>1 DEF IInv, Types, LwipType, Detachments, LwipDetached, Known, LwipKnown,
                       OnlyFinWaits, NoneAttached, AllStayUsed

LEMMA TaskKeeps ==
    ASSUME IInv, UNCHANGED task, NoneAttached, AllStayUsed
    PROVE  TaskType' /\ TaskDetached' /\ TaskKnown'
  <1>1. task.at # "idle" => task.self \in Clients
    BY DEF IInv, Types, TaskType
  <1> QED  BY <1>1 DEF IInv, Types, TaskType, Detachments, TaskDetached, Detached, Known,
                       TaskKnown, NoneAttached, AllStayUsed

\* A step that changes neither clients nor pcbs.
LEMMA Untouched ==
    ASSUME IInv, UNCHANGED <<pcbs, clients>>
    PROVE  /\ PcbType' /\ ClientType' /\ Linked'
           /\ NoneAttached /\ AllStayUsed
  BY DEF IInv, Types, PcbType, ClientType, Linked, Alive, NoneAttached, Attached,
         AllStayUsed, Used

-----------------------------------------------------------------------------
(* The tcpip thread                                                         *)

\* The packet of a callback joins the queue; that of a FIN was detached first.
LEMMA SendKeeps == ASSUME IInv, Send  PROVE IInv'
  <1>1. /\ PcbType' /\ ClientType' /\ Linked' /\ NoneAttached /\ AllStayUsed
        /\ TaskType' /\ TaskDetached' /\ TaskKnown'
    BY Untouched, TaskKeeps DEF Send
  <1>2. PICK m \in Message : m = lwip.packet
    BY DEF Send, IInv, Types, LwipType
  <1>3. From({m})
    BY <1>2, QueueSent, QueueSentFirst DEF Send, IInv, Types
  <1>4. Used(m.arg)' /\ (m.event \in Final => Detached(m.arg)')
    <2>1. Used(m.arg)
      BY <1>2 DEF Send, IInv, Known, LwipKnown
    <2>2. m.event \in Final => Detached(m.arg)
      BY <1>2 DEF Send, IInv, Detachments, LwipDetached, Detached
    <2> QED  BY <2>1, <2>2 DEF Send, Used, Detached, Attached
  <1>5. QueueType' /\ QueueDetached' /\ QueueKnown'
    BY <1>1, <1>3, <1>4, QueueKeeps
  <1>6. LwipType' /\ LwipDetached' /\ LwipKnown' /\ OnlyFinWaits'
    BY DEF Send, LwipType, LwipDetached, LwipKnown, OnlyFinWaits
  <1>7. born' \in Nat /\ pieces' \in Nat
    BY DEF Send, IInv, Types
  <1> QED  BY <1>1, <1>5, <1>6, <1>7 DEF IInv, Types, Detachments, Known

\* An address that nothing names: nobody named anywhere is called back.
LEMMA AcceptKeeps ==
    ASSUME IInv, NEW p \in Pcbs, NEW c \in Clients, Accept(p, c), "reuse" \notin mishaps'
    PROVE  IInv'
  <1>1. /\ clients[c].st \in {"free", "deleted"}
        /\ task.self # c /\ \A i \in DOMAIN queue : queue[i].arg # c
    <2>1. c \in Available(clients) /\ ~StillNamed(p, c)
      BY DEF Accept, Noting
    <2>2. clients[c].st \in {"free", "closed", "deleted"}
      BY <2>1 DEF Available, IInv, Types, ClientType
    <2> QED  BY <2>1, <2>2 DEF StillNamed, IInv, Types, ClientType
  <1>2. born' \in Nat /\ pieces' \in Nat /\ born' = born + 1
    BY DEF Accept, IInv, Types
  <1>3. PcbType' /\ ClientType' /\ LwipType' /\ QueueType' /\ TaskType'
    <2>1. PcbType'
      BY <1>2 DEF Accept, FreePcb, PcbType, IInv, Types
    <2>2. ClientType'
      BY <1>2 DEF Accept, NoClient, ClientType, IInv, Types
    <2>3. LwipType'
      BY <1>2 DEF Accept, Packet, Message, Events, LwipType, IInv, Types
    <2> QED  BY <2>1, <2>2, <2>3 DEF Accept, QueueType, TaskType, IInv, Types
  <1>4. /\ pcbs'[p].st = "open" /\ pcbs'[p].arg = c
        /\ \A q \in Pcbs \ {p} : pcbs'[q] = pcbs[q]
    BY DEF Accept, FreePcb, IInv, Types, PcbType
  <1>5. /\ clients'[c].st = "new" /\ clients'[c].pcb = p
        /\ \A d \in Clients \ {c} : clients'[d] = clients[d]
    BY DEF Accept, NoClient, IInv, Types, ClientType
  <1>6. \A q \in Pcbs : ~Attached(q, c)
    BY <1>1, TcpAssumption DEF IInv, Linked, Alive, Attached
  <1>7. Linked'
    <2> SUFFICES ASSUME NEW q \in Pcbs, pcbs'[q].st = "open", pcbs'[q].arg # None
                 PROVE  Alive(pcbs[q].arg)' /\ clients'[pcbs'[q].arg].pcb = q
      BY DEF Linked
    <2>1. CASE q = p
      BY <1>4, <1>5, <2>1 DEF Alive
    <2>2. CASE q # p
      <3>1. pcbs'[q] = pcbs[q] /\ pcbs[q].arg # c
        BY <1>4, <1>6, <2>2 DEF Attached
      <3>2. pcbs[q].arg \in Clients \ {c}
        BY <3>1 DEF IInv, Types, PcbType
      <3> QED  BY <1>5, <3>1, <3>2 DEF IInv, Linked, Alive
    <2> QED  BY <2>1, <2>2
  <1>8. \A d \in Clients \ {c} : Detached(d) => Detached(d)'
    BY <1>4 DEF Detached, Attached
  <1>9. QueueDetached' /\ QueueKnown'
    <2> SUFFICES ASSUME NEW i \in DOMAIN queue
                 PROVE  /\ queue[i].event \in Final => Detached(queue[i].arg)'
                        /\ clients'[queue[i].arg].st # "free"
      BY DEF Accept, QueueDetached, QueueKnown, Used, Detached, Attached
    <2>1. PICK m \in Message : m = queue[i]
      BY DEF IInv, Types, QueueType
    <2>2. m.arg \in Clients \ {c} /\ Used(m.arg) /\ (m.event \in Final => Detached(m.arg))
      BY <1>1, <2>1
      DEF IInv, Known, QueueKnown, Used, Detachments, QueueDetached, Message
    <2> QED  BY <1>5, <1>8, <2>1, <2>2 DEF Used, Accept, Detached, Attached
  <1>10. TaskDetached' /\ TaskKnown'
    <2>1. task.at # "idle" => task.self \in Clients \ {c}
      BY <1>1 DEF IInv, Types, TaskType
    <2> QED  BY <1>5, <1>8, <2>1
             DEF Accept, IInv, Known, TaskKnown, Used, Detachments, TaskDetached, Detached, Attached
  <1>11. LwipDetached' /\ LwipKnown' /\ OnlyFinWaits'
    BY <1>5 DEF Accept, Packet, LwipDetached, LwipKnown, OnlyFinWaits, Used, Final
  <1> QED  BY <1>2, <1>3, <1>7, <1>9, <1>10, <1>11 DEF IInv, Types, Detachments, Known

\* A callback that changes at most the pcb it is about names its client.
LEMMA RaiseKeeps ==
    ASSUME IInv, NEW p \in Pcbs, Data(p) \/ Acked(p) \/ Poll(p) \/ Fin(p) \/ Reset(p)
    PROVE  IInv'
  <1>1. /\ lwip = None /\ pcbs[p].st = "open" /\ pcbs[p].arg \in Clients
        /\ UNCHANGED <<queue, task, clients, born>>
    BY DEF Data, Acked, Poll, Fin, Reset, Callback, IInv, Types, PcbType
  <1>2. Alive(pcbs[p].arg) /\ clients[pcbs[p].arg].pcb = p
    BY <1>1, TcpAssumption DEF IInv, Linked
  <1>3. PcbType' /\ ClientType' /\ NoneAttached /\ AllStayUsed /\ pieces' \in Nat
    <2>1. ClientType' /\ AllStayUsed
      BY <1>1 DEF IInv, Types, ClientType, AllStayUsed, Used
    <2>2. CASE Data(p)
      BY <2>1, <2>2 DEF Data, IInv, Types, PcbType, NoneAttached, Attached
    <2>3. CASE Acked(p)
      BY <2>1, <2>3 DEF Acked, IInv, Types, PcbType, NoneAttached, Attached
    <2>4. CASE Poll(p) \/ Fin(p)
      BY <2>1, <2>4 DEF Poll, Fin, IInv, Types, PcbType, NoneAttached, Attached
    <2>5. CASE Reset(p)
      BY <2>1, <2>5 DEF Reset, IInv, Types, PcbType, NoneAttached, Attached
    <2> QED  BY <2>2, <2>3, <2>4, <2>5
  <1>4. Linked'
    BY <1>1, <1>3, TcpAssumption
    DEF Linked, IInv, Types, PcbType, NoneAttached, Attached, Alive
  <1>5. QueueType' /\ QueueDetached' /\ QueueKnown'
    BY <1>1, <1>3, QueueSame, QueueKeeps DEF IInv, Types
  <1>6. TaskType' /\ TaskDetached' /\ TaskKnown'
    BY <1>1, <1>3, TaskKeeps
  <1>7. PICK e \in {"recv", "fin", "sent", "poll", "error"}, n \in Nat :
           lwip' = [packet |-> Packet(e, pcbs[p].arg, p, pcbs[p].conn, n),
                    at |-> IF e = "fin" THEN "fin" ELSE "send"] /\ (e = "error" => Reset(p))
    BY DEF Data, Acked, Poll, Fin, Reset, Raise, IInv, Types, PcbType
  <1>8. LwipType'
    <2>1. Packet(e, pcbs[p].arg, p, pcbs[p].conn, n) \in Message
      BY <1>1 DEF Packet, Message, Events, IInv, Types, PcbType
    <2> QED  BY <1>7, <2>1 DEF LwipType
  <1>9. LwipDetached' /\ LwipKnown' /\ OnlyFinWaits'
    <2>1. lwip'.packet.arg = pcbs[p].arg /\ lwip'.packet.pcb = p /\ lwip'.packet.event = e
      BY <1>7 DEF Packet
    <2>2. LwipKnown'
      BY <1>1, <1>2, <2>1 DEF LwipKnown, Used, Alive
    <2>3. \A q \in Pcbs : Attached(q, pcbs[p].arg) => q = p
      BY <1>1, <1>2, TcpAssumption DEF IInv, Linked, Attached
    <2>4. \A q \in Pcbs : pcbs'[q].st = "open" /\ pcbs'[q].arg = pcbs[p].arg => q = p
      BY <1>1, <1>3, <2>3 DEF NoneAttached, Attached
    <2>5. e = "error" => \A q \in Pcbs : ~(pcbs'[q].st = "open" /\ pcbs'[q].arg = pcbs[p].arg)
      BY <1>1, <1>7, <2>4, TcpAssumption DEF Reset, IInv, Types, PcbType
    <2>6. LwipDetached'
      BY <1>7, <2>1, <2>4, <2>5 DEF LwipDetached, Attached, Final
    <2> QED  BY <1>7, <2>1, <2>2, <2>6 DEF OnlyFinWaits
  <1> QED  BY <1>1, <1>3, <1>4, <1>5, <1>6, <1>8, <1>9 DEF IInv, Types, Detachments, Known

\* _lwip_fin() detaches the client whose connection the peer closed.
LEMMA LwipFinKeeps == ASSUME IInv, LwipFin  PROVE IInv'
  <1>1. PICK m \in Message : m = lwip.packet
    BY DEF LwipFin, IInv, Types, LwipType
  <1>2. /\ m.arg \in Clients /\ m.event = "fin" /\ m.pcb \in Pcbs
        /\ \A q \in Pcbs : Attached(q, m.arg) => q = m.pcb
        /\ Used(m.arg)
    BY <1>1 DEF LwipFin, IInv, OnlyFinWaits, Detachments, LwipDetached, Known, LwipKnown, Message,
                Final
  <1>3. /\ UNCHANGED <<queue, task, born, pieces>>
        /\ lwip' = [lwip EXCEPT !.at = "send"]
    BY DEF LwipFin
  <1>4. /\ PcbType' /\ ClientType' /\ NoneAttached /\ AllStayUsed /\ Linked'
        /\ \A q \in Pcbs : ~(pcbs'[q].st = "open" /\ pcbs'[q].arg = m.arg)
    <2>1. CASE clients[m.arg].pcb = m.pcb
      <3>1. /\ clients' = [clients EXCEPT ![m.arg].pcb = None]
            /\ pcbs' = [pcbs EXCEPT ![m.pcb].st = "closed", ![m.pcb].arg = None]
        BY <1>1, <2>1 DEF LwipFin
      <3>2. PcbType' /\ ClientType' /\ NoneAttached /\ AllStayUsed
        <4>1. PcbType'
          BY <3>1 DEF IInv, Types, PcbType
        <4>2. ClientType' /\ AllStayUsed
          BY <3>1 DEF IInv, Types, ClientType, AllStayUsed, Used
        <4>3. NoneAttached
          BY <3>1, TcpAssumption DEF IInv, Types, PcbType, NoneAttached, Attached
        <4> QED  BY <4>1, <4>2, <4>3
      <3>3. \A q \in Pcbs : ~(pcbs'[q].st = "open" /\ pcbs'[q].arg = m.arg)
        BY <1>2, <2>1, <3>1 DEF IInv, Types, PcbType, Attached
      <3>4. \A d \in Clients \ {m.arg} : clients'[d] = clients[d]
        BY <3>1 DEF IInv, Types, ClientType
      <3>5. Linked'
        <4> SUFFICES ASSUME NEW q \in Pcbs, pcbs'[q].st = "open", pcbs'[q].arg # None
                     PROVE  Alive(pcbs[q].arg)' /\ clients'[pcbs'[q].arg].pcb = q
          BY DEF Linked
        <4>1. pcbs'[q] = pcbs[q] /\ pcbs[q].arg \in Clients \ {m.arg}
          BY <2>1, <3>1, <3>3 DEF IInv, Types, PcbType
        <4> QED  BY <3>4, <4>1 DEF IInv, Linked, Alive
      <3> QED  BY <3>2, <3>3, <3>5
    <2>2. CASE clients[m.arg].pcb # m.pcb
      <3>1. UNCHANGED <<clients, pcbs>>
        BY <1>1, <2>2 DEF LwipFin
      <3>2. \A q \in Pcbs : Attached(q, m.arg) => clients[m.arg].pcb = q
        BY <1>2, TcpAssumption DEF IInv, Linked, Attached
      <3>3. \A q \in Pcbs : ~(pcbs'[q].st = "open" /\ pcbs'[q].arg = m.arg)
        BY <1>2, <2>2, <3>1, <3>2 DEF Attached
      <3> QED  BY <3>1, <3>3, Untouched
    <2> QED  BY <2>1, <2>2
  <1>5. QueueType' /\ QueueDetached' /\ QueueKnown' /\ TaskType' /\ TaskDetached' /\ TaskKnown'
    BY <1>3, <1>4, QueueSame, QueueKeeps, TaskKeeps DEF IInv, Types
  <1>6. LwipType' /\ LwipDetached' /\ LwipKnown' /\ OnlyFinWaits'
    BY <1>1, <1>2, <1>3, <1>4
    DEF LwipFin, IInv, Types, LwipType, LwipDetached, LwipKnown, OnlyFinWaits, Attached,
        AllStayUsed, Used
  <1> QED  BY <1>3, <1>4, <1>5, <1>6 DEF IInv, Types, Detachments, Known

-----------------------------------------------------------------------------
(* The async_tcp task                                                       *)

\* A step of async_tcp sends nothing for the tcpip thread.
LEMMA AsyncStep ==
    ASSUME IInv, UNCHANGED <<lwip, born, pieces>>, NEW new, From(new),
           \A m \in new : Used(m.arg)' /\ (m.event \in Final => Detached(m.arg)'),
           PcbType', ClientType', Linked', NoneAttached, AllStayUsed,
           TaskType', TaskDetached', TaskKnown'
    PROVE  IInv'
  <1>1. QueueType' /\ QueueDetached' /\ QueueKnown'
    BY QueueKeeps
  <1>2. LwipType' /\ LwipDetached' /\ LwipKnown' /\ OnlyFinWaits'
    BY LwipKeeps
  <1> QED  BY <1>1, <1>2 DEF IInv, Types, Detachments, Known

\* The client of the packet that is taken exists, but for that of CLEAR.
LEMMA Taken ==
    ASSUME IInv, NEW event, Take(event)
    PROVE  /\ queue # <<>> /\ Self \in Clients /\ Used(Self) /\ Head(queue) \in Message
           /\ Head(queue).event = event /\ (event \in Final => Detached(Self))
           /\ event # "clear" => Alive(Self)
  BY QueueFirst
  DEF Take, Self, IInv, Types, Message, Known, QueueKnown, Detachments, QueueDetached

\* The clients keep their pcbs, and no callback appears.
LEMMA ClientsKept ==
    ASSUME IInv, PcbType', ClientType', NoneAttached,
           \A c \in Clients : /\ clients'[c].pcb = clients[c].pcb
                              /\ Alive(c) => clients'[c].st \in {"new", "used"}
                              /\ Used(c) => clients'[c].st # "free"
    PROVE  Linked' /\ AllStayUsed
  <1>1. AllStayUsed
    BY DEF AllStayUsed, Used
  <1>2. Linked'
    <2> SUFFICES ASSUME NEW q \in Pcbs, pcbs'[q].st = "open", pcbs'[q].arg # None
                 PROVE  Alive(pcbs[q].arg)' /\ clients'[pcbs'[q].arg].pcb = q
      BY DEF Linked
    <2>1. pcbs'[q].arg \in Clients
      BY DEF PcbType
    <2>2. pcbs[q].st = "open" /\ pcbs[q].arg = pcbs'[q].arg
      BY <2>1 DEF NoneAttached, Attached
    <2> QED  BY <2>1, <2>2, TcpAssumption DEF IInv, Linked, Alive
  <1> QED  BY <1>1, <1>2

\* A client is deleted when no callback names it.
LEMMA DiscardKeeps ==
    ASSUME IInv, NEW c \in Clients, clients' = Discard(clients, c), PcbType', NoneAttached,
           \A q \in Pcbs : ~(pcbs'[q].st = "open" /\ pcbs'[q].arg = c)
    PROVE  ClientType' /\ AllStayUsed /\ Linked'
  <1>1. ClientType'
    BY DEF Discard, NoClient, IInv, Types, ClientType
  <1>2. /\ clients'[c].st \in {"new", "deleted"}
        /\ \A d \in Clients \ {c} : clients'[d] = clients[d]
    BY DEF Discard, NoClient, IInv, Types, ClientType
  <1>3. AllStayUsed
    BY <1>2 DEF AllStayUsed, Used
  <1>4. Linked'
    <2> SUFFICES ASSUME NEW q \in Pcbs, pcbs'[q].st = "open", pcbs'[q].arg # None
                 PROVE  Alive(pcbs[q].arg)' /\ clients'[pcbs'[q].arg].pcb = q
      BY DEF Linked
    <2>1. pcbs'[q].arg \in Clients \ {c}
      BY DEF PcbType
    <2>2. pcbs[q].st = "open" /\ pcbs[q].arg = pcbs'[q].arg
      BY <2>1 DEF NoneAttached, Attached
    <2> QED  BY <1>2, <2>1, <2>2, TcpAssumption DEF IInv, Linked, Alive
  <1> QED  BY <1>1, <1>3, <1>4

\* _close() takes the callbacks off the pcb, so that the client is detached.
LEMMA BeginCloseDetaches ==
    ASSUME IInv, task.at = "idle", NEW c \in Clients, Used(c), NEW cls,
           clients' = cls, cls[c].pcb = clients[c].pcb, AllStayUsed,
           cls[c].conn \in Nat, BeginClose(c, cls) \/ UNCHANGED <<pcbs, task>>
    PROVE  PcbType' /\ NoneAttached /\ TaskType' /\ TaskDetached' /\ TaskKnown'
  <1>1. CASE UNCHANGED <<pcbs, task>>
    BY <1>1, TaskKeeps
    DEF IInv, Types, PcbType, NoneAttached, Attached
  <1>2. CASE BeginClose(c, cls) /\ ~UNCHANGED <<pcbs, task>>
    <2>1. /\ clients[c].pcb \in Pcbs
          /\ pcbs' = [pcbs EXCEPT ![clients[c].pcb].arg = None]
          /\ task' = [at |-> "clear", self |-> c, first |-> None, conn |-> cls[c].conn]
      BY <1>2 DEF BeginClose, IInv, Types, ClientType
    <2>2. PcbType' /\ NoneAttached
      BY <2>1, TcpAssumption DEF IInv, Types, PcbType, NoneAttached, Attached
    <2>3. \A q \in Pcbs : Attached(q, c) => q = clients[c].pcb
      BY TcpAssumption DEF IInv, Linked, Attached
    <2>4. \A q \in Pcbs : ~(pcbs'[q].st = "open" /\ pcbs'[q].arg = c)
      BY <2>1, <2>3, TcpAssumption DEF IInv, Types, PcbType, Attached
    <2>5. TaskDetached'
      BY <2>1, <2>4 DEF TaskDetached, Detached, Attached
    <2>6. TaskType' /\ TaskKnown'
      BY <2>1 DEF TaskType, TaskKnown, Used, AllStayUsed
    <2> QED  BY <2>2, <2>5, <2>6
  <1> QED  BY <1>1, <1>2

\* ACCEPT and data: the client goes on.
LEMMA ServeKeeps ==
    ASSUME IInv, HandleAccept \/ \E answer \in BOOLEAN : HandleRecv(answer)
    PROVE  IInv'
  <1>1. /\ UNCHANGED <<lwip, task, born, pieces>> /\ queue' = Tail(queue) /\ queue # <<>>
        /\ From({}) /\ Self \in Clients
    BY Taken, QueueTaken DEF HandleAccept, HandleRecv, IInv, Types, Take
  <1>2. /\ pcbs' = pcbs \/ \E p \in Pcbs : pcbs' = [pcbs EXCEPT ![p].unacked = TRUE]
        /\ \/ clients' = [clients EXCEPT ![Self].st = "used", ![Self].rx = TRUE]
           \/ \E busy, rx \in BOOLEAN :
                 clients' = [clients EXCEPT ![Self].busy = busy, ![Self].rx = rx]
    <2>1. CASE HandleAccept
      BY <2>1 DEF HandleAccept
    <2>2. CASE \E answer \in BOOLEAN : HandleRecv(answer)
      <3>1. PICK answer \in BOOLEAN : HandleRecv(answer)
        BY <2>2
      <3> DEFINE q == clients[Self].pcb
                 sends == answer /\ q # None /\ pcbs[q].st = "open"
      <3>2. /\ pcbs' = IF sends THEN [pcbs EXCEPT ![q].unacked = TRUE] ELSE pcbs
            /\ clients' = [clients EXCEPT ![Self].busy = clients[Self].busy \/ sends,
                                          ![Self].rx = clients[Self].rx /\ ~answer]
        BY <1>1, <3>1 DEF HandleRecv, CanSend, IInv, Types, ClientType
      <3>3. q \in Pcbs \cup {None} /\ clients[Self].busy \in BOOLEAN /\ clients[Self].rx \in BOOLEAN
        BY <1>1 DEF IInv, Types, ClientType
      <3>4. (clients[Self].busy \/ sends) \in BOOLEAN /\ (clients[Self].rx /\ ~answer) \in BOOLEAN
        BY <3>3
      <3> QED  BY <3>2, <3>3, <3>4
    <2> QED  BY <2>1, <2>2
  <1>3. PcbType' /\ NoneAttached
    <2>1. CASE pcbs' = pcbs
      BY <2>1 DEF IInv, Types, PcbType, NoneAttached, Attached
    <2>2. CASE \E p \in Pcbs : pcbs' = [pcbs EXCEPT ![p].unacked = TRUE]
      <3>1. PICK p \in Pcbs : pcbs' = [pcbs EXCEPT ![p].unacked = TRUE]
        BY <2>2
      <3>2. PcbType'
        BY <3>1 DEF IInv, Types, PcbType
      <3>3. \A q \in Pcbs : pcbs'[q].st = pcbs[q].st /\ pcbs'[q].arg = pcbs[q].arg
        BY <3>1 DEF IInv, Types, PcbType
      <3> QED  BY <3>2, <3>3 DEF NoneAttached, Attached
    <2> QED  BY <1>2, <2>1, <2>2
  <1>4. /\ ClientType'
        /\ \A c \in Clients : /\ clients'[c].pcb = clients[c].pcb
                              /\ Alive(c) => clients'[c].st \in {"new", "used"}
                              /\ Used(c) => clients'[c].st # "free"
    <2>1. CASE clients' = [clients EXCEPT ![Self].st = "used", ![Self].rx = TRUE]
      BY <1>1, <2>1 DEF IInv, Types, ClientType, Alive, Used
    <2>2. CASE \E busy, rx \in BOOLEAN :
                 clients' = [clients EXCEPT ![Self].busy = busy, ![Self].rx = rx]
      <3>1. PICK busy, rx \in BOOLEAN :
                    clients' = [clients EXCEPT ![Self].busy = busy, ![Self].rx = rx]
        BY <2>2
      <3>2. ClientType'
        BY <3>1 DEF IInv, Types, ClientType
      <3>3. \A c \in Clients : clients'[c].pcb = clients[c].pcb /\ clients'[c].st = clients[c].st
        BY <3>1 DEF IInv, Types, ClientType
      <3> QED  BY <3>2, <3>3 DEF Alive, Used
    <2> QED  BY <1>2, <2>1, <2>2
  <1>5. Linked' /\ AllStayUsed
    BY <1>3, <1>4, ClientsKept
  <1>6. TaskType' /\ TaskDetached' /\ TaskKnown'
    BY <1>1, <1>3, <1>5, TaskKeeps
  <1> QED  BY <1>1, <1>3, <1>4, <1>5, <1>6, AsyncStep

\* Acknowledgements and polls: the client goes on or begins to close.
LEMMA CloseKeeps ==
    ASSUME IInv, \/ \E close \in BOOLEAN : HandleSent(close)
                 \/ \E ackLate, rxLate \in BOOLEAN : HandlePoll(ackLate, rxLate)
    PROVE  IInv'
  <1>1. /\ UNCHANGED <<lwip, born, pieces>> /\ queue' = Tail(queue) /\ queue # <<>>
        /\ From({}) /\ Self \in Clients /\ Used(Self) /\ task.at = "idle"
    BY Taken, QueueTaken DEF HandleSent, HandlePoll, IInv, Types, Take
  <1>2. clients' = clients \/ clients' = [clients EXCEPT ![Self].busy = FALSE]
    BY DEF HandleSent, HandlePoll
  <1>3. BeginClose(Self, clients') \/ UNCHANGED <<pcbs, task>>
    BY DEF HandleSent, HandlePoll
  <1>4. /\ ClientType' /\ AllStayUsed
        /\ \A c \in Clients : /\ clients'[c].pcb = clients[c].pcb
                              /\ Alive(c) => clients'[c].st \in {"new", "used"}
                              /\ Used(c) => clients'[c].st # "free"
    <2>1. CASE clients' = clients
      BY <2>1 DEF IInv, Types, ClientType, Alive, Used, AllStayUsed
    <2>2. CASE clients' = [clients EXCEPT ![Self].busy = FALSE]
      BY <1>1, <2>2 DEF IInv, Types, ClientType, Alive, Used, AllStayUsed
    <2> QED  BY <1>2, <2>1, <2>2
  <1>5. clients'[Self].conn \in Nat
    BY <1>1, <1>4 DEF ClientType
  <1>6. PcbType' /\ NoneAttached /\ TaskType' /\ TaskDetached' /\ TaskKnown'
    BY <1>1, <1>3, <1>4, <1>5, BeginCloseDetaches
  <1>7. Linked'
    BY <1>4, <1>6, ClientsKept
  <1> QED  BY <1>1, <1>4, <1>6, <1>7, AsyncStep

\* An error: LwIP has freed the pcb, and the client is deleted at once.
LEMMA ErrorKeeps == ASSUME IInv, HandleError  PROVE IInv'
  <1>1. /\ UNCHANGED <<lwip, task, born, pieces>> /\ From({}) /\ Self \in Clients
    BY Taken, QueueTaken DEF HandleError, IInv, Types, Take
  <1>2. PcbType' /\ NoneAttached
    BY TcpAssumption DEF HandleError, IInv, Types, PcbType, NoneAttached, Attached
  <1>3. \A q \in Pcbs : ~(pcbs'[q].st = "open" /\ pcbs'[q].arg = Self)
    <2> SUFFICES ASSUME NEW q \in Pcbs, pcbs'[q].st = "open", pcbs'[q].arg = Self
                 PROVE  FALSE
      OBVIOUS
    <2>1. Attached(q, Self)
      BY <1>1, <1>2 DEF NoneAttached, Attached
    <2>2. clients[Self].pcb = q
      BY <1>1, <2>1, TcpAssumption DEF IInv, Linked, Attached
    <2>3. pcbs'[q].arg = None
      BY <2>2, TcpAssumption DEF HandleError, IInv, Types, PcbType
    <2> QED  BY <1>1, <2>3, TcpAssumption
  <1>4. ClientType' /\ AllStayUsed /\ Linked'
    BY <1>1, <1>2, <1>3, DiscardKeeps DEF HandleError
  <1>5. TaskType' /\ TaskDetached' /\ TaskKnown'
    BY <1>1, <1>2, <1>4, TaskKeeps
  <1> QED  BY <1>1, <1>2, <1>4, <1>5, AsyncStep

\* FIN and CLEAR: the task remembers the client; the one of FIN is detached.
LEMMA RememberKeeps == ASSUME IInv, HandleFin \/ HandleClear  PROVE IInv'
  <1>1. /\ UNCHANGED <<lwip, pcbs, clients, born, pieces>> /\ From({})
        /\ Self \in Clients /\ Used(Self) /\ (HandleFin => Detached(Self))
    BY Taken, QueueTaken DEF HandleFin, HandleClear, IInv, Types, Take, Final
  <1>2. /\ PcbType' /\ ClientType' /\ Linked' /\ NoneAttached /\ AllStayUsed
    BY <1>1, Untouched
  <1>3. task'.self = Self /\ task'.at \in {"finclear", "rotate"} /\ TaskType'
    BY <1>1 DEF HandleFin, HandleClear, TaskType, IInv, Types, ClientType
  <1>4. task'.at = "finclear" => HandleFin
    BY DEF HandleFin, HandleClear
  <1>5. TaskDetached' /\ TaskKnown'
    BY <1>1, <1>3, <1>4 DEF TaskDetached, TaskKnown, Detached, Attached, Used
  <1> QED  BY <1>1, <1>2, <1>3, <1>5, AsyncStep

\* Closing, after the callbacks are off: CLEAR is queued, then the client goes.
LEMMA ClearPacketKnown ==
    ASSUME IInv, task.at \in {"clear", "finclear"}
    PROVE  /\ ClearPacket(task.self) \in Message /\ task.self \in Clients
           /\ Used(task.self) /\ Detached(task.self)
           /\ ClearPacket(task.self).arg = task.self /\ ClearPacket(task.self).event = "clear"
  BY DEF ClearPacket, Packet, Message, Events, IInv, Types, TaskType, Known, TaskKnown, Detachments,
         TaskDetached

LEMMA CloseClearKeeps == ASSUME IInv, CloseClear  PROVE IInv'
  <1>1. PICK m \in Message : m = ClearPacket(task.self)
    BY ClearPacketKnown DEF CloseClear
  <1>2. /\ UNCHANGED <<lwip, pcbs, clients, born, pieces>> /\ From({m})
        /\ m.event = "clear" /\ Used(m.arg)
    BY <1>1, ClearPacketKnown, QueueSentFirst DEF CloseClear, IInv, Types
  <1>3. /\ PcbType' /\ ClientType' /\ Linked' /\ NoneAttached /\ AllStayUsed
        /\ Used(m.arg)'
    BY <1>2, Untouched DEF Used
  <1>4. task'.at = "api" /\ task'.self = task.self /\ TaskType'
    BY DEF CloseClear, TaskType, IInv, Types
  <1>5. TaskDetached' /\ TaskKnown'
    BY <1>2, <1>4, ClearPacketKnown
    DEF CloseClear, TaskDetached, TaskKnown, Detached, Attached, Used
  <1> QED  BY <1>2, <1>3, <1>4, <1>5, AsyncStep DEF Final

LEMMA CloseApiKeeps == ASSUME IInv, CloseApi  PROVE IInv'
  <1>1. /\ task.self \in Clients /\ Detached(task.self) /\ From({})
        /\ UNCHANGED <<queue, lwip, born, pieces>>
    BY QueueSame
    DEF CloseApi, IInv, Types, TaskType, Detachments, TaskDetached
  <1>2. PcbType' /\ NoneAttached
    <2>1. CASE clients[task.self].pcb = None
      BY <2>1 DEF CloseApi, IInv, Types, PcbType, NoneAttached, Attached
    <2>2. CASE clients[task.self].pcb # None
      <3>1. PICK p \in Pcbs : pcbs' = [pcbs EXCEPT ![p].st = "closed", ![p].arg = None]
        BY <1>1, <2>2 DEF CloseApi, IInv, Types, ClientType
      <3> QED  BY <3>1 DEF IInv, Types, PcbType, NoneAttached, Attached
    <2> QED  BY <2>1, <2>2
  <1>3. ClientType' /\ AllStayUsed /\ Linked'
    BY <1>1, <1>2, DiscardKeeps DEF CloseApi, NoneAttached, Attached, Detached
  <1>4. TaskType' /\ TaskDetached' /\ TaskKnown'
    BY DEF CloseApi, Idle, TaskType, TaskDetached, TaskKnown
  <1> QED  BY <1>1, <1>2, <1>3, <1>4, AsyncStep

LEMMA FinClearKeeps == ASSUME IInv, FinClear  PROVE IInv'
  <1>1. PICK m \in Message : m = ClearPacket(task.self)
    BY ClearPacketKnown DEF FinClear
  <1>2. /\ UNCHANGED <<lwip, pcbs, born, pieces>> /\ From({m}) /\ m.event = "clear"
        /\ m.arg = task.self /\ m.arg \in Clients /\ Used(m.arg) /\ Detached(m.arg)
    BY <1>1, ClearPacketKnown, QueueSentFirst DEF FinClear, IInv, Types
  <1>3. PcbType' /\ NoneAttached
    BY <1>2 DEF IInv, Types, PcbType, NoneAttached, Attached
  <1>4. ClientType' /\ AllStayUsed /\ Linked'
    BY <1>2, <1>3, DiscardKeeps DEF FinClear, Detached, Attached
  <1>5. Used(m.arg)'
    BY <1>2, <1>4 DEF AllStayUsed
  <1>6. TaskType' /\ TaskDetached' /\ TaskKnown'
    BY DEF FinClear, Idle, TaskType, TaskDetached, TaskKnown
  <1> QED  BY <1>2, <1>3, <1>4, <1>5, <1>6, AsyncStep DEF Final

\* Turning the queue over takes packets out of it and moves them.
LEMMA RotateKeeps == ASSUME IInv, RotateEnd \/ RotateStep  PROVE IInv'
  <1>1. UNCHANGED <<lwip, pcbs, clients, born, pieces>>
    BY DEF RotateEnd, RotateStep
  <1>2. /\ PcbType' /\ ClientType' /\ Linked' /\ NoneAttached /\ AllStayUsed
    BY <1>1, Untouched
  <1>3. From({})
    BY QueueSame, QueueTaken, QueueTurned DEF RotateEnd, RotateStep, MoreToTurn, IInv, Types
  <1>4. TaskType' /\ TaskDetached' /\ TaskKnown'
    <2>1. CASE RotateEnd
      BY <2>1 DEF RotateEnd, Idle, TaskType, TaskDetached, TaskKnown
    <2>2. CASE RotateStep
      <3>1. task'.at = "rotate" /\ task'.self = task.self /\ TaskType'
        BY <2>2, QueueFirst DEF RotateStep, MoreToTurn, IInv, Types, TaskType
      <3> QED  BY <1>1, <2>2, <3>1
               DEF RotateStep, TaskDetached, TaskKnown, IInv, Known, Used
    <2> QED  BY <2>1, <2>2
  <1> QED  BY <1>1, <1>2, <1>3, <1>4, AsyncStep

-----------------------------------------------------------------------------
LEMMA InitIInv == Init => IInv
  <1> SUFFICES ASSUME Init  PROVE IInv
    OBVIOUS
  <1>1. Types
    BY DEF Init, Types, QueueType, LwipType, TaskType, PcbType, ClientType, Idle, FreePcb, NoClient
  <1>2. Linked
    BY DEF Init, FreePcb, Linked
  <1>3. Detachments /\ Known /\ OnlyFinWaits
    BY DEF Init, Idle, Detachments, QueueDetached, LwipDetached, TaskDetached, Known,
           QueueKnown, LwipKnown, TaskKnown, OnlyFinWaits
  <1> QED  BY <1>1, <1>2, <1>3 DEF IInv

\* What has gone wrong stays so.
LEMMA MishapsStay == ASSUME [Next]_vars  PROVE mishaps \subseteq mishaps'
  BY DEF Next, Lwip, AsyncTask, Quiet, vars, Send, LwipFin, Accept, Data, Acked, Poll, Fin, Reset,
         HandleAccept, HandleRecv, HandleSent, HandlePoll, HandleError, HandleFin, HandleClear,
         CloseClear, CloseApi, FinClear, RotateEnd, RotateStep, Noting

\* The invariant is inductive while no address is reused that is still named.
LEMMA StepIInv ==
    ASSUME IInv, [Next]_vars, "reuse" \notin mishaps'
    PROVE  IInv'
  <1>1. CASE Lwip
    BY <1>1, SendKeeps, AcceptKeeps, RaiseKeeps, LwipFinKeeps DEF Lwip
  <1>2. CASE AsyncTask
    BY <1>2, ServeKeeps, CloseKeeps, ErrorKeeps, RememberKeeps, CloseClearKeeps, CloseApiKeeps,
       FinClearKeeps, RotateKeeps
    DEF AsyncTask
  <1>3. CASE UNCHANGED vars
    <2>1. UNCHANGED <<queue, lwip, task, pcbs, clients, born, pieces>>
      BY <1>3 DEF vars
    <2>2. /\ PcbType' /\ ClientType' /\ Linked' /\ NoneAttached /\ AllStayUsed
          /\ From({})
      BY <2>1, Untouched, QueueSame DEF IInv, Types
    <2>3. TaskType' /\ TaskDetached' /\ TaskKnown'
      BY <2>1, <2>2, TaskKeeps
    <2> QED  BY <2>1, <2>2, <2>3, AsyncStep
  <1>4. CASE Quiet
    BY <1>3, <1>4 DEF Quiet
  <1> QED  BY <1>1, <1>2, <1>3, <1>4 DEF Next

\* Every callback LwIP can make names a client that exists and has that pcb,
\* although _tcp_error(), _lwip_fin() and _close() take the callbacks off in
\* one task and the client is deleted in the other, at a later time.
THEOREM CallbacksSafe == Spec => []CallbacksHaveClient
  <1> DEFINE Inv == "reuse" \notin mishaps => IInv
  <1>1. Init => Inv
    BY InitIInv
  <1>2. Inv /\ [Next]_vars => Inv'
    BY StepIInv, MishapsStay
  <1>3. Inv => CallbacksHaveClient
    BY DEF IInv, Linked, CallbacksHaveClient
  <1> QED  BY <1>1, <1>2, <1>3, PTL DEF Spec

-----------------------------------------------------------------------------
(* The order of the queue, until the first mishap                           *)

\* Two packets for one client, a in front of b.
Before(a, b) ==
    a.arg = b.arg =>
        /\ ~(a.event = "clear" /\ b.event = "clear")
        /\ a.event # "clear" /\ b.event # "clear" =>
              /\ b.event # "accept" /\ a.event \notin Final
              /\ a.event = b.event => a.event \in {"recv", "sent"} /\ a.n < b.n

\* While the queue is turned over, the packets from the f-th on have been put
\* back, and come before those that are still to be looked at.
Comes(f, i, j) == IF i < f <=> j < f THEN i < j ELSE f <= i

TurnedTo(f) ==
    IF task.at # "rotate" THEN f = 1
    ELSE IF task.first = None THEN f = Len(queue) + 1
    ELSE f <= Len(queue) /\ queue[f] = task.first

InOrder(f) == \A i, j \in DOMAIN queue : Comes(f, i, j) => Before(queue[i], queue[j])

\* What is queued for a client that is gone will be taken out.
NoneForgotten(f) ==
    \A i \in DOMAIN queue : queue[i].event # "clear" =>
        \/ Alive(queue[i].arg)
        \/ \E j \in DOMAIN queue :
              Comes(f, j, i) /\ queue[j].event = "clear" /\ queue[j].arg = queue[i].arg
        \/ task.at = "rotate" /\ i < f /\ queue[i].arg = task.self

Ordered == \E f \in 1 .. Len(queue) + 1 : TurnedTo(f) /\ InOrder(f) /\ NoneForgotten(f)

\* The same when the queue is not being turned over.
Cleared(i) ==
    \E j \in 1 .. i - 1 : queue[j].event = "clear" /\ queue[j].arg = queue[i].arg
Straight ==
    \A i \in DOMAIN queue :
        /\ \A j \in 1 .. i - 1 : Before(queue[j], queue[i])
        /\ queue[i].event # "clear" => Alive(queue[i].arg) \/ Cleared(i)

LEMMA OrderedIsStraight ==
    ASSUME QueueType, task.at # "rotate"
    PROVE  Ordered <=> Straight
  <1>1. ASSUME NEW i \in DOMAIN queue, NEW j \in DOMAIN queue
        PROVE  Comes(1, j, i) <=> j \in 1 .. i - 1
    BY DEF Comes, QueueType
  <1>2. Ordered <=> InOrder(1) /\ NoneForgotten(1)
    BY DEF Ordered, TurnedTo, QueueType
  <1>3. \A i \in DOMAIN queue : \A j \in 1 .. i - 1 : j \in DOMAIN queue
    BY DEF QueueType
  <1>4. InOrder(1) <=> \A i \in DOMAIN queue : \A j \in 1 .. i - 1 : Before(queue[j], queue[i])
    BY <1>1, <1>3 DEF InOrder
  <1>5. NoneForgotten(1) <=> \A i \in DOMAIN queue :
           queue[i].event # "clear" => Alive(queue[i].arg) \/ Cleared(i)
    BY <1>1, <1>3 DEF NoneForgotten, Cleared
  <1> QED  BY <1>2, <1>4, <1>5 DEF Straight

StaysAlive(c) == clients'[c].st \in {"new", "used"}

LEMMA StraightIsOrdered ==
    ASSUME QueueType', task'.at # "rotate", Straight'
    PROVE  Ordered'
  <1>1. ASSUME NEW i \in DOMAIN queue', NEW j \in DOMAIN queue'
        PROVE  Comes(1, j, i) <=> j \in 1 .. i - 1
    BY DEF Comes, QueueType
  <1>2. InOrder(1)'
    BY <1>1 DEF InOrder, Straight
  <1>3. NoneForgotten(1)'
    <2>1. \A i \in DOMAIN queue' : \A j \in 1 .. i - 1 : j \in DOMAIN queue'
      BY DEF QueueType
    <2> QED  BY <1>1, <2>1 DEF NoneForgotten, Straight, Cleared
  <1>4. TurnedTo(1)' /\ 1 \in 1 .. Len(queue') + 1
    BY DEF TurnedTo, QueueType
  <1> QED  BY <1>2, <1>3, <1>4 DEF Ordered

\* What stays in order: the queue itself ...
LEMMA SameStraight ==
    ASSUME QueueType, Straight, UNCHANGED queue,
           \A i \in DOMAIN queue :
              queue[i].event # "clear" /\ Alive(queue[i].arg) => StaysAlive(queue[i].arg) \/ Cleared(i)
    PROVE  Straight'
  BY DEF Straight, Cleared, Alive, StaysAlive

\* ... the queue without its first packet ...
LEMMA TailStraight ==
    ASSUME QueueType, Straight, queue # <<>>, queue' = Tail(queue), Head(queue).event # "clear",
           \A i \in DOMAIN queue :
              i # 1 /\ queue[i].event # "clear" /\ Alive(queue[i].arg) => StaysAlive(queue[i].arg)
    PROVE  Straight'
  <1>1. /\ DOMAIN queue = 1 .. Len(queue) /\ DOMAIN queue' = 1 .. Len(queue) - 1
        /\ \A i \in 1 .. Len(queue) - 1 : queue'[i] = queue[i + 1]
        /\ queue[1].event # "clear" /\ Len(queue) \in Nat
    BY DEF QueueType
  <1> SUFFICES ASSUME NEW i \in 1 .. Len(queue) - 1
               PROVE  /\ \A j \in 1 .. i - 1 : Before(queue'[j], queue'[i])
                      /\ queue'[i].event # "clear" =>
                            \/ StaysAlive(queue'[i].arg)
                            \/ \E j \in 1 .. i - 1 :
                                  queue'[j].event = "clear" /\ queue'[j].arg = queue'[i].arg
    BY <1>1 DEF Straight, Cleared, Alive, StaysAlive, Before
  <1>2. i + 1 \in DOMAIN queue /\ i + 1 # 1 /\ queue'[i] = queue[i + 1]
    BY <1>1
  <1>3. \A j \in 1 .. i - 1 : j + 1 \in 1 .. (i + 1) - 1 /\ queue'[j] = queue[j + 1]
    BY <1>1
  <1>4. \A j \in 1 .. i - 1 : Before(queue'[j], queue'[i])
    BY <1>2, <1>3 DEF Straight
  <1>5. CASE Cleared(i + 1)
    <2>1. PICK j \in 1 .. (i + 1) - 1 :
             queue[j].event = "clear" /\ queue[j].arg = queue[i + 1].arg
      BY <1>5 DEF Cleared
    <2>2. j - 1 \in 1 .. i - 1 /\ queue'[j - 1] = queue[j]
      BY <1>1, <2>1
    <2> QED  BY <1>2, <1>4, <2>1, <2>2
  <1>6. CASE ~Cleared(i + 1)
    BY <1>2, <1>4, <1>6 DEF Straight, Alive
  <1> QED  BY <1>5, <1>6

\* ... with a packet behind ...
LEMMA AppendStraight ==
    ASSUME QueueType, Straight, NEW m \in Message, queue' = Append(queue, m), StaysAlive(m.arg),
           \A i \in DOMAIN queue : /\ Before(queue[i], m)
                                   /\ Alive(queue[i].arg) => StaysAlive(queue[i].arg)
    PROVE  Straight'
  <1>1. /\ DOMAIN queue = 1 .. Len(queue) /\ DOMAIN queue' = 1 .. Len(queue) + 1
        /\ \A i \in 1 .. Len(queue) : queue'[i] = queue[i]
        /\ queue'[Len(queue) + 1] = m /\ Len(queue) \in Nat
    BY DEF QueueType
  <1> SUFFICES ASSUME NEW i \in 1 .. Len(queue) + 1
               PROVE  /\ \A j \in 1 .. i - 1 : Before(queue'[j], queue'[i])
                      /\ queue'[i].event # "clear" =>
                            \/ StaysAlive(queue'[i].arg)
                            \/ \E j \in 1 .. i - 1 :
                                  queue'[j].event = "clear" /\ queue'[j].arg = queue'[i].arg
    BY <1>1 DEF Straight, Cleared, Alive, StaysAlive, Before
  <1>2. \A j \in 1 .. i - 1 : j \in DOMAIN queue /\ queue'[j] = queue[j]
    BY <1>1
  <1>3. CASE i = Len(queue) + 1
    BY <1>1, <1>2, <1>3 DEF Alive
  <1>4. CASE i # Len(queue) + 1
    <2>1. i \in DOMAIN queue /\ queue'[i] = queue[i]
      BY <1>1, <1>4
    <2> QED  BY <1>2, <2>1 DEF Straight, Cleared, Alive
  <1> QED  BY <1>3, <1>4

\* ... and with one in front.
LEMMA PushStraight ==
    ASSUME QueueType, Straight, NEW m \in Message, queue' = <<m>> \o queue,
           m.event = "clear" \/ StaysAlive(m.arg),
           \A i \in DOMAIN queue :
              /\ Before(m, queue[i])
              /\ queue[i].event # "clear" /\ Alive(queue[i].arg) =>
                    StaysAlive(queue[i].arg) \/ (m.event = "clear" /\ m.arg = queue[i].arg)
    PROVE  Straight'
  <1>1. /\ DOMAIN queue = 1 .. Len(queue) /\ DOMAIN queue' = 1 .. Len(queue) + 1
        /\ \A i \in 2 .. Len(queue) + 1 : queue'[i] = queue[i - 1]
        /\ queue'[1] = m /\ Len(queue) \in Nat
    BY DEF QueueType
  <1> SUFFICES ASSUME NEW i \in 1 .. Len(queue) + 1
               PROVE  /\ \A j \in 1 .. i - 1 : Before(queue'[j], queue'[i])
                      /\ queue'[i].event # "clear" =>
                            \/ StaysAlive(queue'[i].arg)
                            \/ \E j \in 1 .. i - 1 :
                                  queue'[j].event = "clear" /\ queue'[j].arg = queue'[i].arg
    BY <1>1 DEF Straight, Cleared, Alive, StaysAlive, Before
  <1>2. CASE i = 1
    BY <1>1, <1>2 DEF Alive
  <1>3. CASE i # 1
    <2>1. i - 1 \in DOMAIN queue /\ queue'[i] = queue[i - 1]
      BY <1>1, <1>3
    <2>2. \A j \in 1 .. i - 1 : j = 1 \/ (j - 1 \in 1 .. (i - 1) - 1 /\ queue'[j] = queue[j - 1])
      BY <1>1
    <2>3. \A j \in 1 .. i - 1 : Before(queue'[j], queue'[i])
      BY <1>1, <2>1, <2>2 DEF Straight
    <2>4. CASE Cleared(i - 1)
      <3>1. PICK j \in 1 .. (i - 1) - 1 :
               queue[j].event = "clear" /\ queue[j].arg = queue[i - 1].arg
        BY <2>4 DEF Cleared
      <3>2. j + 1 \in 1 .. i - 1 /\ queue'[j + 1] = queue[j]
        BY <1>1, <3>1
      <3> QED  BY <2>1, <2>3, <3>1, <3>2
    <2>5. CASE ~Cleared(i - 1)
      <3>1. 1 \in 1 .. i - 1
        BY <1>3
      <3> QED  BY <1>1, <2>1, <2>3, <2>5, <3>1 DEF Straight, Alive
    <2> QED  BY <2>4, <2>5
  <1> QED  BY <1>2, <1>3

\* The turn is over when the packet that was put back first is in front again: a
\* packet comes before itself only if the queue is back where it was.
LEMMA TurnedThrough ==
    ASSUME IInv, task.at = "rotate", ~MoreToTurn,
           NEW f \in 1 .. Len(queue) + 1, TurnedTo(f), InOrder(f)
    PROVE  f = 1
  <1> USE DEF IInv
  <1>1. CASE queue = <<>>
    BY <1>1
  <1>2. CASE queue # <<>>
    <2>1. PICK h \in Message : h = queue[1] /\ h = task.first /\ h # None /\ h.n \in Nat /\ 1 \in DOMAIN queue
      BY <1>2, QueueFirst, NoneAssumption DEF MoreToTurn, Types, Message
    <2>2. f \in DOMAIN queue /\ queue[f] = h
      BY <2>1 DEF TurnedTo, Types, QueueType
    <2>3. ASSUME f # 1  PROVE FALSE
      <3>1. Comes(f, f, 1)
        BY <2>3 DEF Comes
      <3>2. Before(h, h)
        BY <2>1, <2>2, <3>1 DEF InOrder
      <3> QED  BY <2>1, <3>2 DEF Before
    <2> QED  BY <2>3
  <1> QED  BY <1>1, <1>2

\* While the queue is turned over, too: the queue itself ...
LEMMA SameOrdered ==
    ASSUME Ordered, UNCHANGED <<queue, task>>,
           \A i \in DOMAIN queue : Alive(queue[i].arg) => StaysAlive(queue[i].arg)
    PROVE  Ordered'
  <1>1. PICK f \in 1 .. Len(queue) + 1 : TurnedTo(f) /\ InOrder(f) /\ NoneForgotten(f)
    BY DEF Ordered
  <1>2. TurnedTo(f)' /\ InOrder(f)'
    BY <1>1 DEF TurnedTo, InOrder, Comes, Before
  <1>3. NoneForgotten(f)'
    BY <1>1 DEF NoneForgotten, Comes, Alive, StaysAlive
  <1> QED  BY <1>1, <1>2, <1>3 DEF Ordered

\* ... with a packet behind, if there is none to be looked at behind which it
\* belongs ...
LEMMA AppendOrdered ==
    ASSUME IInv, Ordered, UNCHANGED task, NEW m \in Message, queue' = Append(queue, m),
           task.at = "rotate" /\ task.first # None => ~MoreToTurn,
           StaysAlive(m.arg),
           \A i \in DOMAIN queue : /\ Before(queue[i], m)
                                   /\ Alive(queue[i].arg) => StaysAlive(queue[i].arg)
    PROVE  Ordered'
  <1>1. PICK L \in Nat : /\ L = Len(queue) /\ DOMAIN queue = 1 .. L /\ Len(queue') = L + 1
                         /\ DOMAIN queue' = 1 .. L + 1 /\ queue'[L + 1] = m
                         /\ \A i \in 1 .. L : queue'[i] = queue[i]
    BY DEF IInv, Types, QueueType
  <1>2. PICK f \in 1 .. L + 1 : TurnedTo(f) /\ InOrder(f) /\ NoneForgotten(f)
    BY <1>1 DEF Ordered
  <1>3. PICK g \in 1 .. L + 2 :
           /\ TurnedTo(g)'
           /\ \/ f = 1 /\ g = 1
              \/ f = L + 1 /\ g = L + 2
    <2>1. CASE task.at = "rotate" /\ task.first = None
      BY <1>1, <1>2, <2>1 DEF TurnedTo
    <2>2. CASE task.at = "rotate" /\ task.first # None
      <3>1. f = 1
        BY <1>1, <1>2, <2>2, TurnedThrough
      <3>2. L >= 1 /\ queue[1] = task.first
        <4>1. f \in DOMAIN queue /\ queue[f] = task.first
          BY <1>2, <2>2 DEF TurnedTo
        <4> QED  BY <1>1, <3>1, <4>1
      <3>3. 1 \in 1 .. L /\ queue'[1] = queue[1] /\ 1 \in 1 .. L + 2 /\ 1 \in DOMAIN queue'
        BY <1>1, <3>2
      <3>4. TurnedTo(1)'
        BY <1>1, <2>2, <3>2, <3>3 DEF TurnedTo
      <3> QED  BY <3>1, <3>3, <3>4 DEF TurnedTo
    <2>3. CASE task.at # "rotate"
      BY <1>2, <2>3 DEF TurnedTo
    <2> QED  BY <2>1, <2>2, <2>3
  <1>4. /\ \A i, j \in 1 .. L : Comes(f, i, j) <=> i < j
        /\ \A i, j \in 1 .. L + 1 : Comes(g, i, j) <=> i < j
        /\ \A i \in 1 .. L : i < f => i < g
    BY <1>3 DEF Comes
  <1>5. InOrder(g)'
    <2> SUFFICES ASSUME NEW i \in 1 .. L + 1, NEW j \in 1 .. L + 1, i < j
                 PROVE  Before(queue'[i], queue'[j])
      BY <1>1, <1>4 DEF InOrder, Before, Comes
    <2>1. i \in 1 .. L
      OBVIOUS
    <2>2. CASE j = L + 1
      BY <1>1, <2>1, <2>2
    <2>3. CASE j # L + 1
      <3>1. j \in 1 .. L
        BY <2>3
      <3> QED  BY <1>1, <1>2, <1>4, <2>1, <3>1 DEF InOrder
    <2> QED  BY <2>2, <2>3
  <1>6. NoneForgotten(g)'
    <2> SUFFICES ASSUME NEW i \in 1 .. L + 1, queue'[i].event # "clear", ~StaysAlive(queue'[i].arg)
                 PROVE  \/ \E j \in 1 .. L + 1 :
                              Comes(g, j, i) /\ queue'[j].event = "clear" /\ queue'[j].arg = queue'[i].arg
                        \/ task.at = "rotate" /\ i < g /\ queue'[i].arg = task.self
      BY <1>1 DEF NoneForgotten, Comes, Alive, StaysAlive
    <2>1. i \in 1 .. L /\ queue'[i] = queue[i] /\ ~Alive(queue[i].arg)
      BY <1>1
    <2>2. CASE task.at = "rotate" /\ i < f /\ queue[i].arg = task.self
      BY <1>4, <2>1, <2>2
    <2>3. CASE ~(task.at = "rotate" /\ i < f /\ queue[i].arg = task.self)
      <3>1. PICK j \in 1 .. L :
               Comes(f, j, i) /\ queue[j].event = "clear" /\ queue[j].arg = queue[i].arg
        BY <1>1, <1>2, <2>1, <2>3 DEF NoneForgotten
      <3>2. j \in 1 .. L + 1 /\ i \in 1 .. L + 1 /\ queue'[j] = queue[j] /\ Comes(g, j, i)
        BY <1>1, <1>4, <2>1, <3>1
      <3> QED  BY <2>1, <3>1, <3>2
    <2> QED  BY <2>2, <2>3
  <1> QED  BY <1>1, <1>3, <1>5, <1>6 DEF Ordered

\* ... and with an ACCEPT in front.
LEMMA PushOrdered ==
    ASSUME IInv, Ordered, UNCHANGED task, NEW m \in Message, queue' = <<m>> \o queue,
           StaysAlive(m.arg), m.event # "clear",
           \A i \in DOMAIN queue : /\ queue[i].arg # m.arg
                                   /\ Alive(queue[i].arg) => StaysAlive(queue[i].arg)
    PROVE  Ordered'
  <1>1. PICK L \in Nat : /\ L = Len(queue) /\ DOMAIN queue = 1 .. L /\ Len(queue') = L + 1
                         /\ DOMAIN queue' = 1 .. L + 1 /\ queue'[1] = m
                         /\ \A i \in 2 .. L + 1 : queue'[i] = queue[i - 1]
    BY DEF IInv, Types, QueueType
  <1>2. \E f \in 1 .. L + 1 : /\ TurnedTo(f) /\ InOrder(f) /\ NoneForgotten(f)
                              /\ task.at # "rotate" => f = 1
    BY <1>1 DEF Ordered, TurnedTo
  <1>3. CASE task.at # "rotate"
    <2>1. Straight
      BY <1>3, OrderedIsStraight DEF IInv, Types
    <2>2. Straight'
      BY <2>1, PushStraight DEF Before, IInv, Types
    <2>3. QueueType'
      BY DEF IInv, Types, QueueType
    <2> QED  BY <1>3, <2>2, <2>3, StraightIsOrdered
  <1>4. CASE task.at = "rotate"
    <2>1. PICK f \in 1 .. L + 1 : TurnedTo(f) /\ InOrder(f) /\ NoneForgotten(f)
      BY <1>2
    <2>2. PICK g \in 2 .. L + 2 : g = f + 1
      OBVIOUS
    <2>3. TurnedTo(g)'
      BY <1>1, <1>4, <2>1, <2>2 DEF TurnedTo
    <2>5. InOrder(g)'
      <3> SUFFICES ASSUME NEW i \in 1 .. L + 1, NEW j \in 1 .. L + 1, Comes(g, i, j)
                   PROVE  Before(queue'[i], queue'[j])
        BY <1>1 DEF InOrder, Before, Comes
      <3>1. CASE i = 1 /\ j = 1
        BY <2>2, <3>1 DEF Comes
      <3>2. CASE i = 1 /\ j # 1
        <4>1. j - 1 \in DOMAIN queue /\ queue'[j] = queue[j - 1] /\ queue'[i] = m
          BY <1>1, <3>2
        <4> QED  BY <4>1 DEF Before
      <3>3. CASE i # 1 /\ j = 1
        <4>1. i - 1 \in DOMAIN queue /\ queue'[i] = queue[i - 1] /\ queue'[j] = m
          BY <1>1, <3>3
        <4> QED  BY <4>1 DEF Before
      <3>4. CASE i # 1 /\ j # 1
        <4>1. PICK k \in 1 .. L, l \in 1 .. L : i = k + 1 /\ j = l + 1
          <5>1. i - 1 \in 1 .. L /\ j - 1 \in 1 .. L /\ i = (i - 1) + 1 /\ j = (j - 1) + 1
            BY <3>4
          <5> QED  BY <5>1
        <4>2. queue'[i] = queue[k] /\ queue'[j] = queue[l] /\ Comes(f, k, l)
          BY <1>1, <2>2, <4>1 DEF Comes
        <4>3. Before(queue[k], queue[l])
          BY <1>1, <2>1, <4>1, <4>2 DEF InOrder
        <4> QED  BY <4>2, <4>3 DEF Before
      <3> QED  BY <3>1, <3>2, <3>3, <3>4
    <2>6. NoneForgotten(g)'
      <3> SUFFICES ASSUME NEW i \in 1 .. L + 1, queue'[i].event # "clear", ~StaysAlive(queue'[i].arg)
                   PROVE  \/ \E j \in 1 .. L + 1 :
                                /\ Comes(g, j, i)
                                /\ queue'[j].event = "clear" /\ queue'[j].arg = queue'[i].arg
                          \/ i < g /\ queue'[i].arg = task.self
        BY <1>1, <1>4 DEF NoneForgotten, Comes, Alive, StaysAlive
      <3>1. PICK h \in 1 .. L : i = h + 1 /\ queue'[i] = queue[h]
        <4>1. i # 1
          BY <1>1
        <4>2. i - 1 \in 1 .. L /\ i = (i - 1) + 1 /\ i \in 2 .. L + 1
          BY <4>1
        <4>3. queue'[i] = queue[i - 1]
          BY <1>1, <4>2
        <4> QED  BY <4>2, <4>3
      <3>2. CASE h < f /\ queue[h].arg = task.self
        <4>1. i < g
          BY <2>2, <3>1, <3>2
        <4> QED  BY <3>1, <3>2, <4>1
      <3>3. CASE ~(h < f /\ queue[h].arg = task.self)
        <4>1. ~Alive(queue[h].arg)
          BY <1>1, <3>1
        <4>2. PICK j \in 1 .. L : /\ Comes(f, j, h)
                                 /\ queue[j].event = "clear" /\ queue[j].arg = queue[h].arg
          BY <1>1, <2>1, <3>1, <3>3, <4>1 DEF NoneForgotten
        <4>3. PICK k \in 2 .. L + 1 : k = j + 1
          OBVIOUS
        <4>4. k \in 1 .. L + 1 /\ queue'[k] = queue[j] /\ Comes(g, k, i)
          BY <1>1, <2>2, <3>1, <4>2, <4>3 DEF Comes
        <4> QED  BY <3>1, <4>2, <4>4
      <3> QED  BY <3>2, <3>3
    <2> QED  BY <1>1, <2>2, <2>3, <2>5, <2>6 DEF Ordered
  <1> QED  BY <1>3, <1>4

-----------------------------------------------------------------------------
(* What the packets say                                                     *)

Queued(event, c, n) ==
    \E i \in DOMAIN queue : queue[i].event = event /\ queue[i].arg = c /\ queue[i].n = n
Held(event, c, n) ==
    /\ lwip # None
    /\ lwip.packet.event = event /\ lwip.packet.arg = c /\ lwip.packet.n = n

Received(c) == Len(given[clients[c].conn])

\* A packet is about the connection of its client and, if it is ACCEPT, the first
\* one; CLEAR is for a client that is gone or about to go; and no number is above
\* what LwIP has counted.
Named(m) ==
    /\ m.event # "clear" => m.conn = clients[m.arg].conn /\ clients[m.arg].pcb \in {m.pcb, None}
    /\ m.event = "accept" => clients[m.arg].st = "new"
    /\ m.event = "clear" => ~Alive(m.arg) \/ (task.at = "api" /\ task.self = m.arg)
    /\ \A p \in Pcbs : Attached(p, m.arg) =>
          /\ m.event = "recv" => m.n <= pcbs[p].sent
          /\ m.event = "sent" => m.n <= pcbs[p].acks

\* Data is the next that the request waits for, or the piece before it is queued.
Follows(m) ==
    m.event = "recv" /\ Alive(m.arg) =>
        m.n = Received(m.arg) + 1 \/ Queued("recv", m.arg, m.n - 1)

QueueNamed == \A i \in DOMAIN queue : Named(queue[i])
QueueFollows == \A i \in DOMAIN queue : Follows(queue[i])

\* The packet the tcpip thread is about to send fits behind the queue, or is the
\* first of its client.
LwipFits ==
    lwip # None =>
        LET m == lwip.packet IN
        /\ Named(m) /\ Follows(m) /\ Alive(m.arg) /\ m.event # "clear"
        /\ IF m.event = "accept" THEN \A i \in DOMAIN queue : queue[i].arg # m.arg
           ELSE \A i \in DOMAIN queue : Before(queue[i], m)
        /\ task.at # "idle" /\ task.self = m.arg =>
              task.at \in {"clear", "api"} /\ lwip.at = "send"

NewHasAccept ==
    \A c \in Clients :
        clients[c].st = "new" => Queued("accept", c, 0) \/ Held("accept", c, 0)

\* A client that is closing has had its ACCEPT and, unless the peer closed, has its
\* pcb; once CLEAR is queued, it is in front of what else is queued for the client.
Closing ==
    /\ task.at \in {"clear", "api", "finclear"} => clients[task.self].st = "used"
    /\ task.at \in {"clear", "api"} => clients[task.self].pcb # None
    /\ task.at = "rotate" => ~Alive(task.self)
    /\ task.at = "api" =>
          \E j \in DOMAIN queue :
             /\ queue[j].event = "clear" /\ queue[j].arg = task.self
             /\ \A i \in DOMAIN queue :
                   queue[i].arg = task.self /\ queue[i].event # "clear" => j < i

\* All data received is given to the request, or queued.
PcbsNamed ==
    \A p \in Pcbs, c \in Clients : Attached(p, c) =>
        /\ pcbs[p].conn = clients[c].conn
        /\ \/ pcbs[p].sent = Received(c)
           \/ Queued("recv", c, pcbs[p].sent)
           \/ Held("recv", c, pcbs[p].sent)

ConnsApart ==
    /\ born <= MaxConns
    /\ \A c \in Clients : Used(c) => clients[c].conn \in 1 .. born
    /\ \A c, d \in Clients : Used(c) /\ Used(d) /\ clients[c].conn = clients[d].conn => c = d

\* What DataInOrder says until the first mishap.
AllInOrder == \A k \in Conns : \A i \in DOMAIN given[k] : given[k][i] = <<k, i>>

GivenInOrder ==
    /\ given \in [Conns -> Seq(Nat \X Nat)]
    /\ AllInOrder
    /\ \A k \in Conns : k > born => given[k] = <<>>

OInv ==
    /\ Ordered /\ QueueNamed /\ QueueFollows /\ LwipFits /\ NewHasAccept /\ Closing
    /\ PcbsNamed /\ ConnsApart /\ GivenInOrder

-----------------------------------------------------------------------------
(* What a step leaves alone, again                                          *)

\* A client that exists or that a packet still names.
Engaged(c) ==
    \/ Alive(c)
    \/ \E i \in DOMAIN queue : queue[i].arg = c
    \/ lwip # None /\ lwip.packet.arg = c

\* Clients keep their connection and may lose their pcb; none comes back.
Steady ==
    \A c \in Clients : Engaged(c) =>
        /\ clients'[c].conn = clients[c].conn /\ clients'[c].pcb \in {clients[c].pcb, None}
        /\ StaysAlive(c) => Alive(c)

\* Pcbs keep the connection of their client, and go on counting.
Counting ==
    \A p \in Pcbs, c \in Clients : Engaged(c) /\ pcbs'[p].st = "open" /\ pcbs'[p].arg = c =>
        /\ Attached(p, c) /\ pcbs'[p].conn = pcbs[p].conn
        /\ pcbs'[p].sent >= pcbs[p].sent /\ pcbs'[p].acks >= pcbs[p].acks

LEMMA NamedKept ==
    ASSUME Types, Types', Steady, Counting, NEW m \in Message, Named(m), Engaged(m.arg),
           m.event = "accept" => clients'[m.arg].st = "new",
           m.event = "clear" /\ StaysAlive(m.arg) => UNCHANGED task
    PROVE  Named(m)'
  <1>1. m.arg \in Clients /\ m.n \in Nat
    BY DEF Message
  <1>2. m.event # "clear" =>
           m.conn = clients'[m.arg].conn /\ clients'[m.arg].pcb \in {m.pcb, None}
    BY <1>1 DEF Named, Steady
  <1>3. m.event = "clear" => ~StaysAlive(m.arg) \/ (task'.at = "api" /\ task'.self = m.arg)
    BY <1>1 DEF Named, Steady
  <1>4. ASSUME NEW p \in Pcbs, pcbs'[p].st = "open", pcbs'[p].arg = m.arg
        PROVE  /\ m.event = "recv" => m.n <= pcbs'[p].sent
               /\ m.event = "sent" => m.n <= pcbs'[p].acks
    <2>1. /\ Attached(p, m.arg) /\ pcbs'[p].sent >= pcbs[p].sent /\ pcbs'[p].acks >= pcbs[p].acks
      BY <1>1, <1>4 DEF Counting
    <2>2. /\ pcbs[p].sent \in Nat /\ pcbs[p].acks \in Nat
          /\ pcbs'[p].sent \in Nat /\ pcbs'[p].acks \in Nat
      BY DEF Types, PcbType
    <2> QED  BY <1>1, <2>1, <2>2 DEF Named
  <1> QED  BY <1>2, <1>3, <1>4 DEF Named, Attached, Alive, StaysAlive

LEMMA FollowsKept ==
    ASSUME Types, Steady, UNCHANGED given, NEW m \in Message, Follows(m), Engaged(m.arg),
           m.event = "recv" /\ StaysAlive(m.arg) /\ Queued("recv", m.arg, m.n - 1) =>
              Queued("recv", m.arg, m.n - 1)'
    PROVE  Follows(m)'
  <1>1. m.arg \in Clients
    BY DEF Message
  <1>2. clients'[m.arg].conn = clients[m.arg].conn /\ (StaysAlive(m.arg) => Alive(m.arg))
    BY <1>1 DEF Steady
  <1>3. Received(m.arg)' = Received(m.arg)
    BY <1>2 DEF Received
  <1> QED  BY <1>1, <1>2, <1>3 DEF Follows, Alive, StaysAlive

\* A packet that is in the queue, or about to be sent, is one.
LEMMA PacketsAre ==
    ASSUME Types, Known
    PROVE  /\ \A i \in DOMAIN queue : /\ queue[i] \in Message /\ Used(queue[i].arg)
                                      /\ queue[i].arg \in Clients /\ queue[i].n \in Nat
           /\ lwip # None => /\ lwip.packet \in Message /\ Used(lwip.packet.arg)
                             /\ lwip.packet.arg \in Clients /\ lwip.packet.n \in Nat
           /\ \A i \in DOMAIN queue : Engaged(queue[i].arg)
           /\ lwip # None => Engaged(lwip.packet.arg)
  <1>1. \A i \in DOMAIN queue : queue[i] \in Message /\ Used(queue[i].arg)
    BY DEF Types, QueueType, Known, QueueKnown
  <1>2. lwip # None => lwip.packet \in Message /\ Used(lwip.packet.arg)
    BY DEF Types, LwipType, Known, LwipKnown
  <1>3. \A m \in Message : m.arg \in Clients /\ m.n \in Nat
    BY DEF Message
  <1> QED  BY <1>1, <1>2, <1>3 DEF Engaged

\* The packets of the next queue, if the old ones keep what is said of them.
LEMMA QueueNamedKept ==
    ASSUME Types, Types', Known, QueueNamed, Steady, Counting, NEW new, From(new),
           \A m \in new : Named(m)',
           \A i \in DOMAIN queue' :
              /\ queue'[i].event = "accept" => clients'[queue'[i].arg].st = "new"
              /\ queue'[i].event = "clear" /\ StaysAlive(queue'[i].arg) => UNCHANGED task
    PROVE  QueueNamed'
  <1> SUFFICES ASSUME NEW i \in DOMAIN queue', NEW m \in Message, m = queue'[i]
               PROVE  Named(m)'
    BY DEF QueueNamed, From
  <1>1. CASE m \in new
    BY <1>1
  <1>2. CASE \E j \in DOMAIN queue : m = queue[j]
    <2>1. Named(m) /\ Engaged(m.arg)
      BY <1>2 DEF QueueNamed, Engaged
    <2> QED  BY <2>1, NamedKept
  <1> QED  BY <1>1, <1>2 DEF From

LEMMA QueueFollowsKept ==
    ASSUME Types, Known, QueueFollows, Steady, UNCHANGED given, NEW new, From(new),
           \A m \in new : Follows(m)',
           \A c \in Clients, n \in Int :
              StaysAlive(c) /\ Queued("recv", c, n) => Queued("recv", c, n)'
    PROVE  QueueFollows'
  <1> SUFFICES ASSUME NEW i \in DOMAIN queue', NEW m \in Message, m = queue'[i]
               PROVE  Follows(m)'
    BY DEF QueueFollows, From
  <1>1. CASE m \in new
    BY <1>1
  <1>2. CASE \E j \in DOMAIN queue : m = queue[j]
    <2>1. Follows(m) /\ Engaged(m.arg) /\ m.arg \in Clients /\ m.n - 1 \in Int
      BY <1>2 DEF QueueFollows, Engaged, Message
    <2> QED  BY <2>1, FollowsKept
  <1> QED  BY <1>1, <1>2 DEF From

LEMMA QueuedTail ==
    ASSUME QueueType, queue # <<>>, queue' = Tail(queue), NEW event, NEW c, NEW n,
           Queued(event, c, n),
           ~(Head(queue).event = event /\ Head(queue).arg = c /\ Head(queue).n = n)
    PROVE  Queued(event, c, n)'
  <1>1. /\ DOMAIN queue = 1 .. Len(queue) /\ DOMAIN queue' = 1 .. Len(queue) - 1
        /\ \A i \in 1 .. Len(queue) - 1 : queue'[i] = queue[i + 1]
        /\ queue[1] = Head(queue) /\ Len(queue) \in Nat
    BY DEF QueueType
  <1>2. PICK i \in DOMAIN queue :
           queue[i].event = event /\ queue[i].arg = c /\ queue[i].n = n
    BY DEF Queued
  <1>3. i - 1 \in DOMAIN queue' /\ queue'[i - 1] = queue[i]
    BY <1>1, <1>2
  <1> QED  BY <1>2, <1>3 DEF Queued

LEMMA QueuedAdded ==
    ASSUME QueueType, NEW m \in Message, queue' = Append(queue, m) \/ queue' = <<m>> \o queue
    PROVE  /\ Queued(m.event, m.arg, m.n)'
           /\ \A event, c, n : Queued(event, c, n) => Queued(event, c, n)'
  <1>1. CASE queue' = Append(queue, m)
    <2>1. /\ DOMAIN queue' = 1 .. Len(queue) + 1 /\ DOMAIN queue = 1 .. Len(queue)
          /\ \A i \in 1 .. Len(queue) : queue'[i] = queue[i]
          /\ queue'[Len(queue) + 1] = m /\ Len(queue) \in Nat
      BY <1>1 DEF QueueType
    <2> QED  BY <2>1 DEF Queued
  <1>2. CASE queue' = <<m>> \o queue
    <2>1. /\ DOMAIN queue' = 1 .. Len(queue) + 1 /\ DOMAIN queue = 1 .. Len(queue)
          /\ \A i \in 1 .. Len(queue) : queue'[i + 1] = queue[i] /\ i + 1 \in 1 .. Len(queue) + 1
          /\ queue'[1] = m /\ Len(queue) \in Nat
      BY <1>2 DEF QueueType
    <2> QED  BY <2>1 DEF Queued
  <1> QED  BY <1>1, <1>2

-----------------------------------------------------------------------------
(* The tcpip thread                                                         *)

\* A new connection: its client and its pcb are named nowhere yet.
LEMMA AcceptOrders ==
    ASSUME IInv, OInv, IInv', "reuse" \notin mishaps',
           NEW p \in Pcbs, NEW c \in Clients, Accept(p, c)
    PROVE  OInv'
  <1> USE DEF IInv
  <1>1. /\ lwip = None /\ ~Engaged(c) /\ task.self # c
        /\ born' = born + 1 /\ born + 1 \in Conns
        /\ UNCHANGED <<queue, task, given>>
    <2>1. c \in Available(clients) /\ ~StillNamed(p, c)
      BY DEF Accept, Noting
    <2>2. ~Alive(c)
      BY <2>1 DEF Available, Types, ClientType, Alive
    <2> QED  BY <2>1, <2>2, TcpAssumption
             DEF Accept, StillNamed, Engaged, Conns, Types, OInv, ConnsApart
  <1>2. /\ clients'[c] = [NoClient EXCEPT !.st = "new", !.pcb = p, !.conn = born + 1]
        /\ \A d \in Clients \ {c} : clients'[d] = clients[d]
        /\ pcbs'[p] = [FreePcb EXCEPT !.st = "open", !.arg = c, !.conn = born + 1]
        /\ \A q \in Pcbs \ {p} : pcbs'[q] = pcbs[q]
    BY DEF Accept, Types, PcbType, ClientType
  <1>3. /\ clients'[c].st = "new" /\ clients'[c].pcb = p /\ clients'[c].conn = born + 1
        /\ pcbs'[p].st = "open" /\ pcbs'[p].arg = c /\ pcbs'[p].conn = born + 1 /\ pcbs'[p].sent = 0
    BY <1>2 DEF NoClient, FreePcb
  <1>4. Steady
    BY <1>1, <1>2 DEF Steady, StaysAlive, Alive
  <1>5. Counting
    <2> SUFFICES ASSUME NEW q \in Pcbs, NEW d \in Clients, Engaged(d),
                        pcbs'[q].st = "open", pcbs'[q].arg = d
                 PROVE  /\ Attached(q, d) /\ pcbs'[q].conn = pcbs[q].conn
                        /\ pcbs'[q].sent >= pcbs[q].sent /\ pcbs'[q].acks >= pcbs[q].acks
      BY DEF Counting
    <2>1. q # p
      BY <1>1, <1>3
    <2> QED  BY <1>2, <2>1 DEF Attached, Types, PcbType
  <1>6. \A i \in DOMAIN queue : queue[i].arg \in Clients \ {c}
    BY <1>1, PacketsAre DEF Engaged
  <1>7. Ordered'
    <2>1. \A i \in DOMAIN queue : Alive(queue[i].arg) => StaysAlive(queue[i].arg)
      BY <1>2, <1>6 DEF Alive, StaysAlive
    <2> QED  BY <1>1, <2>1, SameOrdered DEF OInv
  <1>8. QueueNamed'
    <2>1. From({})
      BY <1>1, QueueSame DEF Types
    <2>2. \A i \in DOMAIN queue : queue[i].event = "accept" => clients'[queue[i].arg].st = "new"
      BY <1>2, <1>6 DEF OInv, QueueNamed, Named
    <2> QED  BY <1>1, <1>4, <1>5, <2>1, <2>2, QueueNamedKept DEF OInv
  <1>9. QueueFollows'
    <2>1. From({})
      BY <1>1, QueueSame DEF Types
    <2>2. \A d, n : Queued("recv", d, n) => Queued("recv", d, n)'
      BY <1>1 DEF Queued
    <2> QED  BY <1>1, <1>4, <2>1, <2>2, QueueFollowsKept DEF OInv
  <1>10. PICK m \in Message :
            /\ lwip' = [packet |-> m, at |-> "send"] /\ lwip' # None
            /\ m.event = "accept" /\ m.arg = c /\ m.pcb = p /\ m.conn = born + 1 /\ m.n = 0
    <2>1. Packet("accept", c, p, born + 1, 0) \in Message
      BY DEF Packet, Message, Events, Types
    <2> QED  BY <2>1, NoneAssumption DEF Accept, Packet
  <1>11. LwipFits' /\ NewHasAccept'
    <2>1. Named(m)' /\ Follows(m)' /\ Alive(m.arg)'
      BY <1>3, <1>10 DEF Named, Follows, Alive
    <2>2. task.at # "idle" => task.self # c
      BY <1>1
    <2>3. LwipFits'
      BY <1>1, <1>6, <1>10, <2>1, <2>2 DEF LwipFits, Named, Follows, Alive
    <2>4. Held("accept", c, 0)'
      BY <1>10 DEF Held
    <2>5. ASSUME NEW d \in Clients \ {c}, clients'[d].st = "new"
          PROVE  Queued("accept", d, 0)'
      <3>1. Queued("accept", d, 0)
        BY <1>1, <1>2, <2>5 DEF OInv, NewHasAccept, Held
      <3> QED  BY <1>1, <3>1 DEF Queued
    <2> QED  BY <2>3, <2>4, <2>5 DEF NewHasAccept
  <1>12. Closing'
    <2>1. task.at # "idle" => task.self \in Clients \ {c}
      BY <1>1 DEF Types, TaskType
    <2> QED  BY <1>1, <1>2, <2>1 DEF OInv, Closing, Alive
  <1>13. PcbsNamed'
    <2> SUFFICES ASSUME NEW q \in Pcbs, NEW d \in Clients, Attached(q, d)'
                 PROVE  /\ pcbs'[q].conn = clients'[d].conn
                        /\ \/ pcbs'[q].sent = Received(d)'
                           \/ Queued("recv", d, pcbs[q].sent)'
      BY DEF PcbsNamed
    <2>1. CASE q = p
      <3>1. d = c
        BY <1>3, <2>1 DEF Attached
      <3>2. given[born + 1] = <<>>
        BY <1>1 DEF OInv, GivenInOrder, Conns, Types
      <3> QED  BY <1>1, <1>3, <2>1, <3>1, <3>2 DEF Received
    <2>2. CASE q # p
      <3>1. pcbs'[q] = pcbs[q] /\ Attached(q, d)
        BY <1>2, <2>2 DEF Attached
      <3>2. d # c
        BY <1>1, <3>1, TcpAssumption DEF Linked, Attached, Engaged
      <3>3. clients'[d] = clients[d] /\ Received(d)' = Received(d)
        BY <1>1, <1>2, <3>2 DEF Received
      <3>4. Queued("recv", d, pcbs[q].sent) => Queued("recv", d, pcbs[q].sent)'
        BY <1>1, <3>1 DEF Queued
      <3> QED  BY <1>1, <3>1, <3>3, <3>4 DEF OInv, PcbsNamed, Held
    <2> QED  BY <2>1, <2>2
  <1>14. ConnsApart'
    <2>1. \A d \in Clients \ {c} : Used(d)' => /\ Used(d) /\ clients'[d].conn = clients[d].conn
                                             /\ clients[d].conn \in 1 .. born
      BY <1>2 DEF Used, OInv, ConnsApart
    <2> QED  BY <1>1, <1>3, <2>1 DEF OInv, ConnsApart, Conns, Types
  <1>15. GivenInOrder'
    BY <1>1 DEF OInv, GivenInOrder, AllInOrder, Conns, Types
  <1> QED  BY <1>7, <1>8, <1>9, <1>11, <1>12, <1>13, <1>14, <1>15 DEF OInv

\* Another callback: its packet comes after those of its client, of which none can
\* be FIN or ERROR, for it would not have been called.
LEMMA RaiseOrders ==
    ASSUME IInv, OInv, IInv',
           NEW p \in Pcbs, Data(p) \/ Acked(p) \/ Poll(p) \/ Fin(p) \/ Reset(p)
    PROVE  OInv'
  <1> USE DEF IInv
  <1>1. /\ lwip = None /\ Attached(p, pcbs[p].arg) /\ pcbs[p].arg # None
        /\ UNCHANGED <<queue, task, clients, born, given>>
    BY DEF Data, Acked, Poll, Fin, Reset, Callback, Attached
  <1>2. PICK c \in Clients : Attached(p, c)
    BY <1>1 DEF Types, PcbType
  <1>3. /\ Alive(c) /\ Used(c) /\ clients[c].pcb = p /\ pcbs[p].arg = c /\ pcbs[p].conn = clients[c].conn
        /\ \A q \in Pcbs : Attached(q, c) => q = p
    BY <1>2, TcpAssumption DEF Linked, Attached, Alive, Used, OInv, PcbsNamed
  <1>4. PICK e \in {"recv", "fin", "sent", "poll", "error"}, m \in Message :
           /\ lwip' = [packet |-> m, at |-> IF e = "fin" THEN "fin" ELSE "send"] /\ lwip' # None
           /\ m.event = e /\ m.arg = c /\ m.pcb = p /\ m.conn = clients[c].conn
           /\ e = "recv" => Data(p) /\ m.n = pcbs[p].sent + 1
           /\ e = "sent" => Acked(p) /\ m.n = pcbs[p].acks + 1
           /\ e = "poll" => Poll(p)
           /\ Data(p) => e = "recv"
    <2>1. PICK e \in {"recv", "fin", "sent", "poll", "error"}, n \in Nat :
             /\ lwip' = [packet |-> Packet(e, c, p, clients[c].conn, n),
                         at |-> IF e = "fin" THEN "fin" ELSE "send"]
             /\ e = "recv" => Data(p) /\ n = pcbs[p].sent + 1
             /\ e = "sent" => Acked(p) /\ n = pcbs[p].acks + 1
             /\ e = "poll" => Poll(p)
             /\ Data(p) => e = "recv"
      BY <1>3 DEF Data, Acked, Poll, Fin, Reset, Raise, Types, PcbType
    <2>2. Packet(e, c, p, clients[c].conn, n) \in Message
      BY DEF Packet, Message, Events, Types, ClientType
    <2>3. lwip' \in [packet : Message, at : {"fin", "send"}]
      BY <2>1, <2>2
    <2> QED  BY <2>1, <2>2, <2>3, NoneAssumption DEF Packet
  <1>5. /\ \A q \in Pcbs : /\ pcbs'[q].conn = pcbs[q].conn /\ pcbs'[q].sent >= pcbs[q].sent
                           /\ pcbs'[q].acks >= pcbs[q].acks
                           /\ q # p => pcbs'[q] = pcbs[q]
                           /\ pcbs'[q].arg \in {pcbs[q].arg, None} /\ (pcbs'[q].st = "open" => pcbs[q].st = "open")
        /\ Data(p) => pcbs'[p].sent = pcbs[p].sent + 1
        /\ Acked(p) => pcbs'[p].acks = pcbs[p].acks + 1
        /\ ~Data(p) => pcbs'[p].sent = pcbs[p].sent
    <2>1. CASE Data(p)
      BY <1>1, <2>1 DEF Data, Acked, Types, PcbType
    <2>2. CASE Acked(p)
      BY <1>1, <2>2 DEF Acked, Types, PcbType
    <2>3. CASE Poll(p) \/ Fin(p)
      BY <1>1, <2>3 DEF Poll, Fin, Data, Acked, Types, PcbType
    <2>4. CASE Reset(p)
      BY <1>1, <2>4 DEF Reset, Types, PcbType
    <2> QED  BY <2>1, <2>2, <2>3, <2>4
  <1>6. Steady /\ Counting
    <2>1. Steady
      BY <1>1 DEF Steady, StaysAlive, Alive
    <2> QED  BY <1>5, <2>1, TcpAssumption DEF Counting, Attached
  <1>7. \A d, n : Queued("recv", d, n) => Queued("recv", d, n)'
    BY <1>1 DEF Queued
  <1>8. Ordered' /\ QueueNamed' /\ QueueFollows'
    <2>1. Ordered'
      BY <1>1, SameOrdered DEF OInv, Alive, StaysAlive
    <2>3. From({})
      BY <1>1, QueueSame DEF Types
    <2>4. QueueNamed'
      BY <1>1, <1>6, <2>3, QueueNamedKept DEF OInv, QueueNamed, Named
    <2>5. QueueFollows'
      BY <1>1, <1>6, <1>7, <2>3, QueueFollowsKept DEF OInv
    <2> QED  BY <2>1, <2>4, <2>5
  <1>9. Named(m)' /\ Follows(m)' /\ Alive(m.arg)'
    <2>1. ASSUME NEW q \in Pcbs, Attached(q, c)'
          PROVE  /\ m.event = "recv" => m.n <= pcbs'[q].sent
                 /\ m.event = "sent" => m.n <= pcbs'[q].acks
      <3>1. q = p
        BY <1>3, <1>5, <2>1, TcpAssumption DEF Attached
      <3> QED  BY <1>4, <1>5, <3>1 DEF Types, PcbType
    <2>2. Named(m)'
      BY <1>1, <1>3, <1>4, <2>1 DEF Named
    <2>3. ASSUME m.event = "recv"  PROVE m.n = Received(c) + 1 \/ Queued("recv", c, m.n - 1)
      <3>1. PICK k \in Nat : k = pcbs[p].sent
        BY DEF Types, PcbType
      <3>2. k = Received(c) \/ Queued("recv", c, k)
        BY <1>1, <1>2, <3>1 DEF OInv, PcbsNamed, Held
      <3>3. PICK n : n = m.n - 1
        OBVIOUS
      <3>4. m.n = k + 1 /\ n = k
        BY <1>4, <2>3, <3>1, <3>3
      <3>5. Queued("recv", c, k) => Queued("recv", c, n)
        BY <3>4
      <3> QED  BY <3>2, <3>3, <3>4, <3>5
    <2> QED  BY <1>1, <1>3, <1>4, <2>2, <2>3 DEF Follows, Received, Queued, Alive
  <1>10. \A i \in DOMAIN queue : Before(queue[i], m)
    <2> SUFFICES ASSUME NEW i \in DOMAIN queue, queue[i].arg = c, queue[i].event # "clear"
                 PROVE  /\ queue[i].event \notin Final
                        /\ queue[i].event = e => e \in {"recv", "sent"} /\ queue[i].n < m.n
      BY <1>4 DEF Before
    <2>1. queue[i].event \notin Final
      BY <1>2 DEF Detachments, QueueDetached, Detached
    <2>2. queue[i].pcb = p
      BY <1>3, TcpAssumption DEF OInv, QueueNamed, Named
    <2>3. /\ queue[i].event = "recv" => queue[i].n <= pcbs[p].sent
          /\ queue[i].event = "sent" => queue[i].n <= pcbs[p].acks
      BY <1>2 DEF OInv, QueueNamed, Named
    <2>4. queue[i].n \in Nat /\ pcbs[p].sent \in Nat /\ pcbs[p].acks \in Nat
      BY PacketsAre DEF Types, PcbType
    <2>5. Poll(p) => queue[i].event # "poll"
      BY <2>2 DEF Poll
    <2> QED  BY <1>4, <2>1, <2>3, <2>4, <2>5 DEF Final
  <1>11. LwipFits'
    <2>1. task.at \in {"clear", "api", "finclear"} => task.self # c
      BY <1>2 DEF Detachments, TaskDetached, Detached
    <2>2. task.at # "idle" => task.self # c
      BY <1>3, <2>1 DEF Types, TaskType, OInv, Closing
    <2>3. m.event # "accept" /\ m.event # "clear"
      BY <1>4
    <2> QED  BY <1>1, <1>4, <1>9, <1>10, <2>2, <2>3 DEF LwipFits, Named, Follows, Alive, Before
  <1>12. NewHasAccept'
    BY <1>1 DEF OInv, NewHasAccept, Held, Queued
  <1>13. Closing'
    BY <1>1 DEF OInv, Closing, Alive
  <1>14. PcbsNamed'
    <2> SUFFICES ASSUME NEW q \in Pcbs, NEW d \in Clients, Attached(q, d)'
                 PROVE  /\ pcbs'[q].conn = clients'[d].conn
                        /\ \/ pcbs'[q].sent = Received(d)'
                           \/ Queued("recv", d, pcbs[q].sent)'
                           \/ Held("recv", d, pcbs[q].sent)'
      BY DEF PcbsNamed
    <2>1. Attached(q, d)
      BY <1>5, TcpAssumption DEF Attached
    <2>2. CASE q = p /\ Data(p)
      <3>1. d = c
        BY <1>2, <2>1, <2>2 DEF Attached
      <3>2. Held("recv", d, pcbs[q].sent)'
        BY <1>4, <1>5, <2>2, <3>1 DEF Held
      <3> QED  BY <1>1, <1>3, <1>5, <2>2, <3>1, <3>2
    <2>3. CASE q # p \/ ~Data(p)
      <3>1. pcbs'[q].sent = pcbs[q].sent /\ pcbs'[q].conn = pcbs[q].conn
        BY <1>5, <2>3
      <3>2. Queued("recv", d, pcbs[q].sent) => Queued("recv", d, pcbs[q].sent)'
        BY <1>1, <3>1 DEF Queued
      <3>3. Received(d)' = Received(d)
        BY <1>1 DEF Received
      <3> QED  BY <1>1, <2>1, <3>1, <3>2, <3>3 DEF OInv, PcbsNamed, Held
    <2> QED  BY <2>2, <2>3
  <1>15. ConnsApart' /\ GivenInOrder'
    BY <1>1 DEF OInv, ConnsApart, GivenInOrder, AllInOrder, Used
  <1> QED  BY <1>8, <1>11, <1>12, <1>13, <1>14, <1>15 DEF OInv

\* The packet is sent, to the back of the queue or, for a new client, to the front.
LEMMA SendOrders ==
    ASSUME IInv, OInv, IInv', "overtaking" \notin mishaps', Send
    PROVE  OInv'
  <1> USE DEF IInv
  <1>1. /\ lwip # None /\ lwip' = None
        /\ UNCHANGED <<task, pcbs, clients, born, given>>
    BY DEF Send
  <1>2. PICK m \in Message : m = lwip.packet
    BY <1>1, PacketsAre
  <1>3. /\ Named(m) /\ Follows(m) /\ Alive(m.arg) /\ Used(m.arg) /\ m.event # "clear" /\ m.arg \in Clients
        /\ IF m.event = "accept"
           THEN queue' = <<m>> \o queue /\ \A i \in DOMAIN queue : queue[i].arg # m.arg
           ELSE queue' = Append(queue, m) /\ \A i \in DOMAIN queue : Before(queue[i], m)
    BY <1>1, <1>2 DEF Send, OInv, LwipFits, Alive, Used, Message
  <1>4. /\ Queued(m.event, m.arg, m.n)'
        /\ \A event, c, n : Queued(event, c, n) => Queued(event, c, n)'
    BY <1>3, QueuedAdded DEF Types
  <1>5. Steady /\ Counting
    BY <1>1 DEF Steady, StaysAlive, Alive, Counting, Attached, Types, PcbType
  <1>6. From({m})
    BY <1>3, QueueSent, QueueSentFirst DEF Types
  <1>7. Ordered'
    <2>1. \A i \in DOMAIN queue : Alive(queue[i].arg) => StaysAlive(queue[i].arg)
      BY <1>1 DEF StaysAlive, Alive
    <2>2. CASE m.event = "accept"
      BY <1>1, <1>3, <2>1, <2>2, PushOrdered DEF Types, OInv, Alive, StaysAlive
    <2>3. CASE m.event # "accept"
      <3>1. task.at = "rotate" /\ task.first # None => ~MoreToTurn
        BY <1>2, <2>3 DEF Send, Noting
      <3> QED  BY <1>1, <1>3, <2>1, <2>3, <3>1, AppendOrdered DEF OInv, Alive, StaysAlive
    <2> QED  BY <2>2, <2>3
  <1>8. Named(m)' /\ Follows(m)'
    <2>1. Engaged(m.arg)
      BY <1>3 DEF Engaged
    <2> QED  BY <1>1, <1>3, <1>4, <1>5, <2>1, NamedKept, FollowsKept DEF Named
  <1>9. QueueNamed'
    <2>1. \A i \in DOMAIN queue' : queue'[i].event = "accept" => clients'[queue'[i].arg].st = "new"
      BY <1>1, <1>3, <1>6 DEF From, OInv, QueueNamed, Named
    <2> QED  BY <1>1, <1>5, <1>6, <1>8, <2>1, QueueNamedKept DEF OInv
  <1>10. QueueFollows'
    BY <1>1, <1>4, <1>5, <1>6, <1>8, QueueFollowsKept DEF OInv
  <1>11. LwipFits'
    BY <1>1 DEF LwipFits
  <1>12. NewHasAccept'
    <2> SUFFICES ASSUME NEW c \in Clients, clients'[c].st = "new"
                 PROVE  Queued("accept", c, 0)'
      BY DEF NewHasAccept
    <2>1. Queued("accept", c, 0) \/ Held("accept", c, 0)
      BY <1>1 DEF OInv, NewHasAccept
    <2> QED  BY <1>2, <1>4, <2>1 DEF Held
  <1>13. Closing'
    <2>1. ASSUME task.at = "api"
          PROVE  \E j \in DOMAIN queue' :
                    /\ queue'[j].event = "clear" /\ queue'[j].arg = task.self
                    /\ \A i \in DOMAIN queue' :
                          queue'[i].arg = task.self /\ queue'[i].event # "clear" => j < i
      <3>1. PICK j \in DOMAIN queue :
               /\ queue[j].event = "clear" /\ queue[j].arg = task.self
               /\ \A i \in DOMAIN queue :
                     queue[i].arg = task.self /\ queue[i].event # "clear" => j < i
        BY <2>1 DEF OInv, Closing
      <3>2. CASE m.event = "accept"
        <4>1. m.arg # task.self
          BY <1>3, <2>1, <3>2 DEF Named, OInv, Closing
        <4>2. /\ DOMAIN queue = 1 .. Len(queue) /\ DOMAIN queue' = 1 .. Len(queue) + 1
              /\ \A i \in 2 .. Len(queue) + 1 : queue'[i] = queue[i - 1]
              /\ queue'[1] = m /\ Len(queue) \in Nat
          BY <1>3, <3>2 DEF Types, QueueType
        <4>3. j + 1 \in DOMAIN queue' /\ queue'[j + 1] = queue[j]
          BY <4>2
        <4>4. ASSUME NEW i \in DOMAIN queue', queue'[i].arg = task.self, queue'[i].event # "clear"
              PROVE  j + 1 < i
          <5>1. i # 1 /\ i - 1 \in DOMAIN queue /\ queue'[i] = queue[i - 1]
            BY <4>1, <4>2, <4>4
          <5>2. j < i - 1
            BY <3>1, <4>4, <5>1
          <5> QED  BY <4>2, <5>1, <5>2
        <4> QED  BY <3>1, <4>3, <4>4
      <3>3. CASE m.event # "accept"
        <4>1. /\ DOMAIN queue = 1 .. Len(queue) /\ DOMAIN queue' = 1 .. Len(queue) + 1
              /\ \A i \in 1 .. Len(queue) : queue'[i] = queue[i]
              /\ Len(queue) \in Nat
          BY <1>3, <3>3 DEF Types, QueueType
        <4>2. ASSUME NEW i \in DOMAIN queue', queue'[i].arg = task.self, queue'[i].event # "clear"
              PROVE  j < i
          <5>1. CASE i \in DOMAIN queue
            BY <3>1, <4>1, <4>2, <5>1
          <5>2. CASE i = Len(queue) + 1
            BY <4>1, <5>2
          <5> QED  BY <4>1, <5>1, <5>2
        <4> QED  BY <3>1, <4>1, <4>2
      <3> QED  BY <3>2, <3>3
    <2> QED  BY <1>1, <2>1 DEF OInv, Closing, Alive
  <1>14. PcbsNamed'
    <2> SUFFICES ASSUME NEW q \in Pcbs, NEW d \in Clients, Attached(q, d)'
                 PROVE  /\ pcbs'[q].conn = clients'[d].conn
                        /\ \/ pcbs'[q].sent = Received(d)'
                           \/ Queued("recv", d, pcbs[q].sent)'
      BY DEF PcbsNamed
    <2>1. PICK n \in Nat : n = pcbs[q].sent
      BY DEF Types, PcbType
    <2>2. /\ pcbs[q].conn = clients[d].conn
          /\ n = Received(d) \/ Queued("recv", d, n) \/ Held("recv", d, n)
      BY <1>1, <2>1 DEF OInv, PcbsNamed, Attached
    <2>3. Held("recv", d, n) \/ Queued("recv", d, n) => Queued("recv", d, n)'
      BY <1>2, <1>4 DEF Held
    <2>4. Received(d)' = Received(d) /\ pcbs'[q].sent = n
      BY <1>1, <2>1 DEF Received
    <2> QED  BY <1>1, <2>2, <2>3, <2>4
  <1>15. ConnsApart' /\ GivenInOrder'
    BY <1>1 DEF OInv, ConnsApart, GivenInOrder, AllInOrder, Used
  <1> QED  BY <1>7, <1>9, <1>10, <1>11, <1>12, <1>13, <1>14, <1>15 DEF OInv

\* _lwip_fin() may take the pcb from the client, which is not closing it.
LEMMA LwipFinOrders ==
    ASSUME IInv, OInv, IInv', LwipFin
    PROVE  OInv'
  <1> USE DEF IInv
  <1>1. /\ lwip # None /\ lwip.at = "fin"
        /\ UNCHANGED <<queue, task, born, given>>
    BY DEF LwipFin
  <1>2. PICK m \in Message : m = lwip.packet
    BY <1>1, PacketsAre
  <1>3. /\ Named(m) /\ Follows(m) /\ Alive(m.arg) /\ m.event = "fin" /\ m.arg \in Clients
        /\ task.at # "idle" => task.self # m.arg
        /\ \A i \in DOMAIN queue : Before(queue[i], m)
    BY <1>1, <1>2 DEF OInv, LwipFits, OnlyFinWaits, Message
  <1>4. \A c \in Clients : /\ clients'[c].st = clients[c].st /\ clients'[c].conn = clients[c].conn
                           /\ clients'[c].pcb \in {clients[c].pcb, None}
                           /\ c # m.arg => clients'[c] = clients[c]
    BY <1>2, <1>3 DEF LwipFin, Types, ClientType
  <1>5. \A q \in Pcbs : /\ pcbs'[q].st = "open" => pcbs[q].st = "open"
                        /\ pcbs'[q].arg \in {pcbs[q].arg, None}
                        /\ pcbs'[q].conn = pcbs[q].conn /\ pcbs'[q].sent = pcbs[q].sent
                        /\ pcbs'[q].acks = pcbs[q].acks
    BY <1>2 DEF LwipFin, Types, PcbType
  <1>6. Steady /\ Counting
    <2>1. Steady
      BY <1>4 DEF Steady, StaysAlive, Alive
    <2> QED  BY <1>5, <2>1, TcpAssumption DEF Counting, Attached, Types, PcbType
  <1>7. /\ \A c \in Clients : StaysAlive(c) <=> Alive(c)
        /\ \A event, c, n : Queued(event, c, n)' <=> Queued(event, c, n)
        /\ From({})
    BY <1>1, <1>4, QueueSame DEF StaysAlive, Alive, Queued, Types
  <1>8. Ordered'
    BY <1>1, <1>7, PacketsAre, SameOrdered DEF OInv
  <1>9. QueueNamed'
    <2>1. \A i \in DOMAIN queue' : queue'[i].event = "accept" => clients'[queue'[i].arg].st = "new"
      BY <1>1, <1>4, PacketsAre DEF OInv, QueueNamed, Named
    <2> QED  BY <1>1, <1>6, <1>7, <2>1, QueueNamedKept DEF OInv
  <1>10. QueueFollows'
    BY <1>1, <1>6, <1>7, QueueFollowsKept DEF OInv
  <1>11. LwipFits'
    <2>1. lwip' = [lwip EXCEPT !.at = "send"] /\ lwip'.packet = m
      BY <1>1, <1>2 DEF LwipFin, Types, LwipType
    <2>2. Named(m)' /\ Follows(m)'
      <3>1. Engaged(m.arg)
        BY <1>3 DEF Engaged
      <3> QED  BY <1>1, <1>3, <1>6, <1>7, <3>1, NamedKept, FollowsKept
    <2>3. Alive(m.arg)'
      BY <1>3, <1>4 DEF Alive
    <2> QED  BY <1>1, <1>3, <2>1, <2>2, <2>3 DEF LwipFits, Named, Follows, Alive, Before
  <1>12. NewHasAccept'
    <2>1. \A c \in Clients : ~Held("accept", c, 0)
      BY <1>2, <1>3 DEF Held
    <2> QED  BY <1>4, <1>7, <2>1 DEF OInv, NewHasAccept
  <1>13. Closing'
    <2>1. task.at # "idle" => task.self \in Clients \ {m.arg}
      BY <1>3 DEF Types, TaskType
    <2> QED  BY <1>1, <1>4, <2>1 DEF OInv, Closing, Alive
  <1>14. PcbsNamed'
    <2> SUFFICES ASSUME NEW q \in Pcbs, NEW d \in Clients, Attached(q, d)'
                 PROVE  /\ pcbs'[q].conn = clients'[d].conn
                        /\ \/ pcbs'[q].sent = Received(d)'
                           \/ Queued("recv", d, pcbs[q].sent)'
      BY DEF PcbsNamed
    <2>1. PICK n \in Nat : n = pcbs[q].sent
      BY DEF Types, PcbType
    <2>2. Attached(q, d)
      BY <1>5, TcpAssumption DEF Attached
    <2>3. /\ pcbs[q].conn = clients[d].conn
          /\ n = Received(d) \/ Queued("recv", d, n)
      BY <1>2, <1>3, <2>1, <2>2 DEF OInv, PcbsNamed, Held
    <2>4. Received(d)' = Received(d) /\ pcbs'[q].sent = n
      BY <1>1, <1>4, <1>5, <2>1 DEF Received
    <2> QED  BY <1>1, <1>4, <1>5, <1>7, <2>1, <2>3, <2>4
  <1>15. ConnsApart' /\ GivenInOrder'
    BY <1>1, <1>4 DEF OInv, ConnsApart, GivenInOrder, AllInOrder, Used
  <1> QED  BY <1>8, <1>9, <1>10, <1>11, <1>12, <1>13, <1>14, <1>15 DEF OInv

-----------------------------------------------------------------------------
(* The async_tcp task takes a packet                                        *)

\* ACCEPT is the first packet of a client: who gets another has had it.
LEMMA TakenUsed ==
    ASSUME IInv, OInv, task.at = "idle", queue # <<>>, Head(queue).event \notin {"accept", "clear"},
           Alive(Head(queue).arg)
    PROVE  clients[Head(queue).arg].st = "used"
  <1> USE DEF IInv
  <1>1. PICK m \in Message : m = queue[1] /\ m = Head(queue)
    BY QueueFirst DEF Types
  <1>2. 1 \in DOMAIN queue /\ m.arg \in Clients /\ Straight
    BY <1>1, QueueFirst, PacketsAre, OrderedIsStraight DEF Types, OInv
  <1> SUFFICES ASSUME clients[m.arg].st = "new"  PROVE FALSE
    BY <1>1 DEF Alive
  <1>3. ~Held("accept", m.arg, 0)
    BY <1>1, <1>2 DEF OInv, LwipFits, Held
  <1>4. PICK i \in DOMAIN queue : queue[i].event = "accept" /\ queue[i].arg = m.arg
    BY <1>2, <1>3 DEF OInv, NewHasAccept, Queued
  <1>5. i # 1 /\ 1 \in 1 .. i - 1
    BY <1>1, <1>4 DEF Types, QueueType
  <1>6. Before(queue[1], queue[i])
    BY <1>2, <1>5 DEF Straight
  <1> QED  BY <1>1, <1>4, <1>6 DEF Before

\* What is queued behind the first packet, and about to be.
LEMMA TakenFirst ==
    ASSUME IInv, OInv, task.at = "idle", queue # <<>>, Head(queue).event # "clear"
    PROVE  /\ Straight
           /\ \A i \in DOMAIN queue :
                 i # 1 /\ queue[i].arg = Head(queue).arg /\ queue[i].event # "clear" =>
                    /\ queue[i].event # "accept" /\ Head(queue).event \notin Final
                    /\ Head(queue).event = "recv" /\ queue[i].event = "recv" =>
                          Head(queue).n < queue[i].n
           /\ lwip # None /\ lwip.packet.arg = Head(queue).arg => Head(queue).event \notin Final
  <1> USE DEF IInv
  <1>1. Straight
    BY OrderedIsStraight DEF Types, OInv
  <1>2. 1 \in DOMAIN queue /\ queue[1] = Head(queue)
    BY QueueFirst DEF Types
  <1>3. \A i \in DOMAIN queue : i # 1 => Before(queue[1], queue[i])
    <2>1. \A i \in DOMAIN queue : i # 1 => 1 \in 1 .. i - 1
      BY DEF Types, QueueType
    <2> QED  BY <1>1, <2>1 DEF Straight
  <1>4. lwip # None /\ lwip.packet.arg = Head(queue).arg =>
           Before(queue[1], lwip.packet) /\ lwip.packet.event # "clear"
    BY <1>2 DEF OInv, LwipFits
  <1> QED  BY <1>1, <1>2, <1>3, <1>4 DEF Before

\* The order after a packet other than data was taken: its client has had its
\* ACCEPT, and if it is deleted or will be when it has cleared, it was the last.
LEMMA TakeOrders ==
    ASSUME IInv, OInv, IInv', task.at = "idle", queue # <<>>, queue' = Tail(queue),
           task' # task /\ lwip # None /\ lwip.packet.arg = Head(queue).arg =>
              lwip.at = "send" \/ Head(queue).event \in Final,
           UNCHANGED <<lwip, born, given>>,
           NEW c \in Clients, Head(queue).arg = c, Alive(c),
           Head(queue).event \notin {"clear", "recv"},
           \A d \in Clients \ {c} : clients'[d] = clients[d],
           /\ clients'[c].st # "new" /\ clients'[c].st # "free" /\ clients'[c].conn = clients[c].conn
           /\ clients'[c].pcb \in {clients[c].pcb, None},
           StaysAlive(c) \/ Head(queue).event \in Final,
           \A q \in Pcbs : /\ pcbs'[q].st = pcbs[q].st /\ pcbs'[q].arg \in {pcbs[q].arg, None}
                           /\ pcbs'[q].conn = pcbs[q].conn /\ pcbs'[q].sent = pcbs[q].sent
                           /\ pcbs'[q].acks = pcbs[q].acks,
           \/ task' = task
           \/ /\ task'.self = c /\ clients'[c].st = "used"
              /\ \/ task'.at = "clear" /\ clients'[c].pcb # None
                 \/ task'.at = "finclear" /\ Head(queue).event \in Final
    PROVE  OInv'
  <1> USE DEF IInv
  <1>1. PICK h \in Message : /\ h = queue[1] /\ h = Head(queue) /\ h.arg = c
                             /\ h.event \notin {"clear", "recv"}
    BY QueueFirst DEF Types
  <1>2. /\ Straight
        /\ \A i \in DOMAIN queue :
              i # 1 /\ queue[i].arg = c /\ queue[i].event # "clear" =>
                 queue[i].event # "accept" /\ h.event \notin Final
        /\ lwip # None /\ lwip.packet.arg = c => h.event \notin Final
    BY <1>1, TakenFirst
  <1>3. From({}) /\ \A i \in DOMAIN queue' : \E j \in DOMAIN queue : j # 1 /\ queue'[i] = queue[j]
    <2>1. \A i \in DOMAIN queue' : i + 1 \in DOMAIN queue /\ i + 1 # 1 /\ queue'[i] = queue[i + 1]
      BY DEF Types, QueueType
    <2> QED  BY <2>1, QueueTaken DEF Types
  <1>4. Steady /\ Counting /\ Used(c)
    <2>1. Steady
      BY DEF Steady, StaysAlive, Alive
    <2> QED  BY <2>1, TcpAssumption DEF Counting, Attached, Types, PcbType, Alive, Used
  <1>5. \A event, d, n : Queued(event, d, n) /\ (event = "recv" \/ d # c) => Queued(event, d, n)'
    BY <1>1, QueuedTail DEF Types
  <1>6. Ordered'
    <2>1. \A i \in DOMAIN queue :
             i # 1 /\ queue[i].event # "clear" /\ Alive(queue[i].arg) => StaysAlive(queue[i].arg)
      BY <1>1, <1>2, PacketsAre DEF Alive, StaysAlive
    <2>2. Straight'
      BY <1>1, <1>2, <2>1, TailStraight DEF Types
    <2>3. task'.at # "rotate"
      OBVIOUS
    <2> QED  BY <2>2, <2>3, StraightIsOrdered DEF Types
  <1>7. QueueNamed'
    <2>1. ASSUME NEW i \in DOMAIN queue', queue'[i].event = "accept"
          PROVE  clients'[queue'[i].arg].st = "new"
      <3>1. PICK j \in DOMAIN queue : j # 1 /\ queue'[i] = queue[j]
        BY <1>3
      <3>2. queue[j].arg \in Clients \ {c} /\ clients[queue[j].arg].st = "new"
        BY <1>2, <2>1, <3>1, PacketsAre DEF OInv, QueueNamed, Named
      <3> QED  BY <3>1, <3>2
    <2>2. ASSUME NEW i \in DOMAIN queue', queue'[i].event = "clear"
          PROVE  ~StaysAlive(queue'[i].arg)
      <3>1. PICK j \in DOMAIN queue : queue'[i] = queue[j]
        BY <1>3
      <3>2. queue[j].arg \in Clients /\ Engaged(queue[j].arg) /\ ~Alive(queue[j].arg)
        BY <2>2, <3>1, PacketsAre DEF OInv, QueueNamed, Named
      <3> QED  BY <1>4, <3>1, <3>2 DEF Steady
    <2> QED  BY <1>3, <1>4, <2>1, <2>2, QueueNamedKept DEF OInv
  <1>8. QueueFollows'
    BY <1>3, <1>4, <1>5, QueueFollowsKept DEF OInv
  <1>9. LwipFits'
    <2> SUFFICES ASSUME lwip # None, NEW m \in Message, m = lwip.packet
                 PROVE  /\ Named(m)' /\ Follows(m)' /\ Alive(m.arg)' /\ m.event # "clear"
                        /\ IF m.event = "accept"
                           THEN \A i \in DOMAIN queue' : queue'[i].arg # m.arg
                           ELSE \A i \in DOMAIN queue' : Before(queue'[i], m)
                        /\ task'.at # "idle" /\ task'.self = m.arg =>
                              task'.at \in {"clear", "api"} /\ lwip.at = "send"
      BY PacketsAre DEF LwipFits, Named, Follows, Alive, Before
    <2>1. /\ Named(m) /\ Follows(m) /\ Alive(m.arg) /\ m.event # "clear" /\ m.arg \in Clients
          /\ m.event = "accept" => m.arg # c
          /\ Engaged(m.arg)
      BY <1>1, QueueFirst DEF OInv, LwipFits, Message, Types, Engaged
    <2>2. Named(m)'
      <3>1. m.event = "accept" => clients'[m.arg].st = "new"
        BY <2>1 DEF Named
      <3> QED  BY <1>4, <2>1, <3>1, NamedKept
    <2>3. Follows(m)'
      BY <1>4, <1>5, <2>1, FollowsKept
    <2>4. Alive(m.arg)'
      BY <1>1, <1>2, <2>1 DEF Alive, StaysAlive
    <2>5. IF m.event = "accept" THEN \A i \in DOMAIN queue' : queue'[i].arg # m.arg
          ELSE \A i \in DOMAIN queue' : Before(queue'[i], m)
      BY <1>3 DEF OInv, LwipFits
    <2>6. ASSUME task'.at # "idle", task'.self = m.arg
          PROVE  task'.at \in {"clear", "api"} /\ lwip.at = "send"
      <3>1. task' # task /\ m.arg = c /\ h.event \notin Final
        BY <1>1, <1>2, <2>6
      <3> QED  BY <1>1, <3>1
    <2> QED  BY <2>1, <2>2, <2>3, <2>4, <2>5, <2>6
  <1>10. NewHasAccept'
    <2> SUFFICES ASSUME NEW d \in Clients, clients'[d].st = "new"
                 PROVE  Queued("accept", d, 0)' \/ Held("accept", d, 0)'
      BY DEF NewHasAccept
    <2>1. d # c /\ clients[d].st = "new"
      OBVIOUS
    <2>2. Queued("accept", d, 0) \/ Held("accept", d, 0)
      BY <2>1 DEF OInv, NewHasAccept
    <2> QED  BY <1>5, <2>1, <2>2 DEF Held
  <1>11. Closing'
    BY DEF Closing
  <1>12. PcbsNamed'
    <2> SUFFICES ASSUME NEW q \in Pcbs, NEW d \in Clients, Attached(q, d)'
                 PROVE  /\ pcbs'[q].conn = clients'[d].conn
                        /\ \/ pcbs'[q].sent = Received(d)'
                           \/ Queued("recv", d, pcbs[q].sent)'
                           \/ Held("recv", d, pcbs[q].sent)'
      BY DEF PcbsNamed
    <2>1. PICK n \in Nat : n = pcbs[q].sent
      BY DEF Types, PcbType
    <2>2. Attached(q, d)
      BY TcpAssumption DEF Attached
    <2>3. /\ pcbs[q].conn = clients[d].conn
          /\ n = Received(d) \/ Queued("recv", d, n) \/ Held("recv", d, n)
      BY <2>1, <2>2 DEF OInv, PcbsNamed
    <2>4. Received(d)' = Received(d) /\ pcbs'[q].sent = n /\ clients'[d].conn = clients[d].conn
      BY <2>1 DEF Received
    <2>5. Held("recv", d, n)' <=> Held("recv", d, n)
      BY DEF Held
    <2>6. pcbs'[q].conn = clients'[d].conn
      BY <2>3, <2>4
    <2>7. n = Received(d)' \/ Queued("recv", d, n)' \/ Held("recv", d, n)'
      BY <1>5, <2>3, <2>4, <2>5
    <2> QED  BY <2>1, <2>4, <2>6, <2>7
  <1>13. ConnsApart' /\ GivenInOrder'
    <2>1. \A d \in Clients : clients'[d].conn = clients[d].conn /\ (Used(d)' <=> Used(d))
      BY <1>4 DEF Used
    <2> QED  BY <2>1 DEF OInv, ConnsApart, GivenInOrder, AllInOrder
  <1> QED  BY <1>6, <1>7, <1>8, <1>9, <1>10, <1>11, <1>12, <1>13 DEF OInv

\* ACCEPT: the client is used from now on.
LEMMA AcceptTaken ==
    ASSUME IInv, OInv, IInv', HandleAccept
    PROVE  OInv'
  <1>1. PICK c \in Clients : c = Self
    BY Taken DEF HandleAccept
  <1>2. /\ task.at = "idle" /\ queue # <<>> /\ queue' = Tail(queue) /\ Head(queue).arg = c
        /\ Alive(c) /\ Head(queue).event = "accept"
        /\ UNCHANGED <<lwip, task, pcbs, born, given>>
        /\ clients' = [clients EXCEPT ![c].st = "used", ![c].rx = TRUE]
    BY <1>1 DEF HandleAccept, Take, Self
  <1>3. /\ \A d \in Clients \ {c} : clients'[d] = clients[d]
        /\ clients'[c].st = "used" /\ clients'[c].conn = clients[c].conn
        /\ clients'[c].pcb = clients[c].pcb
    BY <1>2 DEF IInv, Types, ClientType
  <1>4. StaysAlive(c)
    BY <1>3 DEF StaysAlive
  <1> QED  BY <1>2, <1>3, <1>4, TakeOrders

\* Acknowledgements and polls: if the client closes, it still has its pcb.
LEMMA CloseTaken ==
    ASSUME IInv, OInv, IInv', "crossing" \notin mishaps',
           \/ \E close \in BOOLEAN : HandleSent(close)
           \/ \E ackLate, rxLate \in BOOLEAN : HandlePoll(ackLate, rxLate)
    PROVE  OInv'
  <1>1. PICK c \in Clients : c = Self
    BY Taken DEF HandleSent, HandlePoll
  <1>2. /\ task.at = "idle" /\ queue # <<>> /\ queue' = Tail(queue) /\ Head(queue).arg = c
        /\ Alive(c) /\ Head(queue).event \in {"sent", "poll"}
        /\ UNCHANGED <<lwip, born, given>>
        /\ clients' = clients \/ clients' = [clients EXCEPT ![c].busy = FALSE]
        /\ BeginClose(c, clients') \/ UNCHANGED <<pcbs, task>>
    BY <1>1 DEF HandleSent, HandlePoll, Take, Self
  <1>3. clients[c].st = "used"
    BY <1>2, TakenUsed
  <1>4. /\ \A d \in Clients \ {c} : clients'[d] = clients[d]
        /\ clients'[c].st = "used" /\ clients'[c].conn = clients[c].conn
        /\ clients'[c].pcb = clients[c].pcb
    BY <1>2, <1>3 DEF IInv, Types, ClientType
  <1>5. StaysAlive(c)
    BY <1>4 DEF StaysAlive
  <1>6. \A q \in Pcbs : /\ pcbs'[q].st = pcbs[q].st /\ pcbs'[q].arg \in {pcbs[q].arg, None}
                        /\ pcbs'[q].conn = pcbs[q].conn /\ pcbs'[q].sent = pcbs[q].sent
                        /\ pcbs'[q].acks = pcbs[q].acks
    <2>1. pcbs' = pcbs \/ \E p : pcbs' = [pcbs EXCEPT ![p].arg = None]
      BY <1>2 DEF BeginClose
    <2> QED  BY <2>1 DEF IInv, Types, PcbType
  <1>7. \/ task' = task
        \/ task'.self = c /\ task'.at = "clear" /\ clients'[c].pcb # None
    BY <1>2 DEF BeginClose
  <1>8. task' # task /\ lwip # None /\ lwip.packet.arg = c => lwip.at = "send"
    <2>1. task' # task => clients[c].pcb # None
      BY <1>2, <1>4 DEF BeginClose
    <2>2. lwip # None => lwip.at \in {"fin", "send"}
      BY DEF IInv, Types, LwipType
    <2>3. CASE \E close \in BOOLEAN : HandleSent(close)
      BY <1>1, <2>1, <2>3 DEF HandleSent, ApiFree
    <2>4. CASE \E ackLate, rxLate \in BOOLEAN : HandlePoll(ackLate, rxLate)
      BY <1>1, <2>1, <2>2, <2>4 DEF HandlePoll, ApiFree, Noting
    <2> QED  BY <2>3, <2>4
  <1> QED  BY <1>2, <1>4, <1>5, <1>6, <1>7, <1>8, TakeOrders

\* ERROR deletes the client, and FIN will.
LEMMA FinalTaken ==
    ASSUME IInv, OInv, IInv', HandleError \/ HandleFin
    PROVE  OInv'
  <1>1. PICK c \in Clients : c = Self
    BY Taken DEF HandleError, HandleFin
  <1>2. /\ task.at = "idle" /\ queue # <<>> /\ queue' = Tail(queue) /\ Head(queue).arg = c
        /\ Alive(c) /\ Head(queue).event \in Final
        /\ UNCHANGED <<lwip, born, given>>
    BY <1>1 DEF HandleError, HandleFin, Take, Self, Final
  <1>3. clients[c].st = "used"
    BY <1>2, TakenUsed DEF Final
  <1>4. /\ \A d \in Clients \ {c} : clients'[d] = clients[d]
        /\ clients'[c].st \in {"used", "deleted"} /\ clients'[c].conn = clients[c].conn
        /\ clients'[c].pcb \in {clients[c].pcb, None}
        /\ HandleFin => clients'[c].st = "used"
    <2>1. CASE HandleError
      BY <1>1, <1>3, <2>1
      DEF HandleError, Discard, NoClient, HandleFin, Take, IInv, Types, ClientType
    <2>2. CASE HandleFin
      BY <1>1, <1>3, <2>2 DEF HandleFin
    <2> QED  BY <2>1, <2>2
  <1>5. \A q \in Pcbs : /\ pcbs'[q].st = pcbs[q].st /\ pcbs'[q].arg \in {pcbs[q].arg, None}
                        /\ pcbs'[q].conn = pcbs[q].conn /\ pcbs'[q].sent = pcbs[q].sent
                        /\ pcbs'[q].acks = pcbs[q].acks
    <2>1. pcbs' = pcbs \/ \E p : pcbs' = [pcbs EXCEPT ![p].arg = None]
      BY DEF HandleError, HandleFin
    <2> QED  BY <2>1 DEF IInv, Types, PcbType
  <1>6. task' = task \/ (task'.self = c /\ task'.at = "finclear" /\ HandleFin)
    BY <1>1 DEF HandleError, HandleFin
  <1>7. Head(queue).event \notin {"clear", "recv"}
    BY <1>2 DEF Final
  <1> QED  BY <1>2, <1>4, <1>5, <1>6, <1>7, TakeOrders

\* Data: the piece in front is the next of its connection, since the one before
\* it is not queued any more, and the others of the connection are those that follow.
LEMMA RecvTaken ==
    ASSUME IInv, OInv, IInv', NEW answer \in BOOLEAN, HandleRecv(answer)
    PROVE  OInv'
  <1> USE DEF IInv
  <1>1. PICK c \in Clients : c = Self /\ Used(c)
    BY Taken DEF HandleRecv
  <1>2. /\ task.at = "idle" /\ queue # <<>> /\ queue' = Tail(queue) /\ Head(queue).arg = c
        /\ Alive(c) /\ Head(queue).event = "recv"
        /\ UNCHANGED <<lwip, born, task>>
    BY <1>1 DEF HandleRecv, Take, Self
  <1>3. PICK h \in Message : h = queue[1] /\ h = Head(queue) /\ h.arg = c /\ h.event = "recv" /\ h.n \in Nat
    BY <1>2, QueueFirst DEF Types, Message
  <1>4. /\ \A d \in Clients : /\ clients'[d].st = clients[d].st /\ clients'[d].pcb = clients[d].pcb
                              /\ clients'[d].conn = clients[d].conn
        /\ \A q \in Pcbs : /\ pcbs'[q].st = pcbs[q].st /\ pcbs'[q].arg = pcbs[q].arg
                           /\ pcbs'[q].conn = pcbs[q].conn /\ pcbs'[q].sent = pcbs[q].sent
                           /\ pcbs'[q].acks = pcbs[q].acks
    <2>1. \A d \in Clients : /\ clients'[d].st = clients[d].st /\ clients'[d].pcb = clients[d].pcb
                             /\ clients'[d].conn = clients[d].conn
      BY DEF HandleRecv, Types, ClientType
    <2>2. pcbs' = pcbs \/ \E p : pcbs' = [pcbs EXCEPT ![p].unacked = TRUE]
      BY DEF HandleRecv
    <2> QED  BY <2>1, <2>2 DEF Types, PcbType
  <1>5. PICK k \in Conns :
           /\ k = clients[c].conn /\ k = h.conn
           /\ given' = [given EXCEPT ![k] = Append(@, <<k, h.n>>)]
    <2>1. h.conn = clients[c].conn
      BY <1>2, <1>3, QueueFirst DEF OInv, QueueNamed, Named, Types
    <2>2. clients[c].conn \in Conns
      BY <1>1, TcpAssumption DEF OInv, ConnsApart, Conns, Types
    <2>3. clients[c].st = "used"
      BY <1>2, TakenUsed
    <2> QED  BY <1>1, <1>3, <2>1, <2>2, <2>3 DEF HandleRecv
  <1>6. PICK r \in Nat : r = Received(c) /\ h.n = r + 1
    <2>1. PICK r \in Nat : r = Received(c)
      BY <1>5 DEF Received, OInv, GivenInOrder
    <2>2. PICK n \in Int : n = h.n - 1
      BY <1>3
    <2>3. ~Queued("recv", c, n)
      <3> SUFFICES ASSUME NEW i \in DOMAIN queue, queue[i].event = "recv", queue[i].arg = c, queue[i].n = n
                   PROVE  FALSE
        BY DEF Queued
      <3>1. i # 1
        BY <1>3, <2>2
      <3>2. h.n < queue[i].n
        BY <1>2, <1>3, <3>1, TakenFirst
      <3> QED  BY <1>3, <2>2, <3>2
    <2>4. h.n = r + 1 \/ Queued("recv", c, n)
      BY <1>2, <1>3, <2>1, <2>2, QueueFirst DEF OInv, QueueFollows, Follows, Types
    <2> QED  BY <2>1, <2>3, <2>4
  <1>7. /\ Received(c)' = r + 1
        /\ \A d \in Clients \ {c} : Used(d) => Received(d)' = Received(d)
    <2>1. Received(c)' = r + 1
      <3>1. given \in [Conns -> Seq(Nat \X Nat)] /\ <<k, h.n>> \in Nat \X Nat
        BY <1>3 DEF OInv, GivenInOrder, Conns
      <3>2. given[k] \in Seq(Nat \X Nat) /\ Len(given[k]) = r
        BY <1>5, <1>6, <3>1 DEF Received
      <3>3. given'[k] = Append(given[k], <<k, h.n>>)
        BY <1>5, <3>1
      <3>4. Len(given'[k]) = r + 1
        BY <3>1, <3>2, <3>3
      <3> QED  BY <1>4, <1>5, <3>4 DEF Received
    <2>2. \A d \in Clients \ {c} : Used(d) => clients[d].conn # k
      BY <1>1, <1>5 DEF OInv, ConnsApart
    <2> QED  BY <1>4, <1>5, <2>1, <2>2 DEF Received, OInv, GivenInOrder
  <1>8. /\ Straight
        /\ \A i \in DOMAIN queue :
              i # 1 /\ queue[i].arg = c /\ queue[i].event # "clear" =>
                 /\ queue[i].event # "accept"
                 /\ queue[i].event = "recv" => h.n < queue[i].n
    BY <1>2, <1>3, TakenFirst
  <1>9. From({}) /\ \A i \in DOMAIN queue' : \E j \in DOMAIN queue : j # 1 /\ queue'[i] = queue[j]
    <2>1. \A i \in DOMAIN queue' : i + 1 \in DOMAIN queue /\ i + 1 # 1 /\ queue'[i] = queue[i + 1]
      BY <1>2 DEF Types, QueueType
    <2> QED  BY <1>2, <2>1, QueueTaken DEF Types
  <1>10. Steady /\ Counting
    BY <1>4 DEF Steady, StaysAlive, Alive, Counting, Attached, Types, PcbType
  <1>11. \A event, d, n : Queued(event, d, n) /\ ~(event = "recv" /\ d = c /\ n = h.n) =>
                             Queued(event, d, n)'
    BY <1>2, <1>3, QueuedTail DEF Types
  <1>12. Ordered'
    <2>1. \A i \in DOMAIN queue : Alive(queue[i].arg) => StaysAlive(queue[i].arg)
      BY <1>4, PacketsAre DEF Alive, StaysAlive
    <2>2. Straight'
      BY <1>2, <1>8, <2>1, TailStraight DEF Types
    <2> QED  BY <1>2, <2>2, StraightIsOrdered DEF Types
  <1>13. QueueNamed'
    <2>1. ASSUME NEW i \in DOMAIN queue', queue'[i].event = "accept"
          PROVE  clients'[queue'[i].arg].st = "new"
      <3>1. PICK j \in DOMAIN queue : j # 1 /\ queue'[i] = queue[j]
        BY <1>9
      <3>2. queue[j].arg \in Clients /\ clients[queue[j].arg].st = "new"
        BY <2>1, <3>1, PacketsAre DEF OInv, QueueNamed, Named
      <3> QED  BY <1>4, <3>1, <3>2
    <2> QED  BY <1>2, <1>9, <1>10, <2>1, QueueNamedKept DEF OInv
  <1>14. ASSUME NEW m \in Message, Follows(m), Engaged(m.arg), m.event = "recv" /\ m.arg = c => h.n < m.n
         PROVE  Follows(m)'
    <2>1. PICK n \in Int : n = m.n - 1
      BY DEF Message
    <2> SUFFICES ASSUME m.event = "recv", StaysAlive(m.arg)
                 PROVE  m.n = Received(m.arg)' + 1 \/ Queued("recv", m.arg, n)'
      BY <2>1 DEF Follows, Alive, StaysAlive
    <2>2. m.arg \in Clients /\ m.n \in Nat /\ Alive(m.arg)
      BY <1>10, <1>14 DEF Message, Steady
    <2>3. m.n = Received(m.arg) + 1 \/ Queued("recv", m.arg, n)
      BY <1>14, <2>1, <2>2 DEF Follows
    <2>4. CASE m.arg # c
      BY <1>7, <1>11, <1>14, <2>2, <2>3, <2>4 DEF Alive, Used
    <2>5. CASE m.arg = c
      <3>1. Queued("recv", c, n)
        BY <1>3, <1>6, <1>14, <2>2, <2>3, <2>5
      <3>2. CASE n = h.n
        BY <1>3, <1>6, <1>7, <2>1, <2>2, <2>5, <3>2
      <3>3. CASE n # h.n
        BY <1>11, <2>5, <3>1, <3>3
      <3> QED  BY <3>2, <3>3
    <2> QED  BY <2>4, <2>5
  <1>15. QueueFollows'
    <2> SUFFICES ASSUME NEW i \in DOMAIN queue', NEW m \in Message, m = queue'[i]
                 PROVE  Follows(m)'
      BY <1>9 DEF QueueFollows, From
    <2>1. PICK j \in DOMAIN queue : j # 1 /\ m = queue[j]
      BY <1>9
    <2>2. Follows(m) /\ Engaged(m.arg) /\ (m.event = "recv" /\ m.arg = c => h.n < m.n)
      BY <1>8, <2>1, PacketsAre DEF OInv, QueueFollows
    <2> QED  BY <1>14, <2>2
  <1>16. LwipFits'
    <2> SUFFICES ASSUME lwip # None, NEW m \in Message, m = lwip.packet
                 PROVE  /\ Named(m)' /\ Follows(m)' /\ Alive(m.arg)' /\ m.event # "clear"
                        /\ IF m.event = "accept"
                           THEN \A i \in DOMAIN queue' : queue'[i].arg # m.arg
                           ELSE \A i \in DOMAIN queue' : Before(queue'[i], m)
      BY <1>2, PacketsAre DEF LwipFits, Named, Follows, Alive, Before
    <2>1. /\ Named(m) /\ Follows(m) /\ Alive(m.arg) /\ m.event # "clear" /\ m.arg \in Clients
          /\ m.event # "accept" => Before(h, m)
          /\ Engaged(m.arg)
      BY <1>2, <1>3, QueueFirst DEF OInv, LwipFits, Message, Types, Engaged
    <2>2. Named(m)'
      <3>1. m.event = "accept" => clients'[m.arg].st = "new"
        BY <1>4, <2>1 DEF Named
      <3> QED  BY <1>2, <1>10, <2>1, <3>1, NamedKept
    <2>3. Follows(m)'
      BY <1>3, <1>14, <2>1 DEF Before
    <2>4. Alive(m.arg)'
      BY <1>4, <2>1 DEF Alive
    <2>5. IF m.event = "accept" THEN \A i \in DOMAIN queue' : queue'[i].arg # m.arg
          ELSE \A i \in DOMAIN queue' : Before(queue'[i], m)
      BY <1>9 DEF OInv, LwipFits
    <2> QED  BY <2>1, <2>2, <2>3, <2>4, <2>5
  <1>17. NewHasAccept'
    BY <1>2, <1>4, <1>11 DEF OInv, NewHasAccept, Held
  <1>18. Closing'
    BY <1>2 DEF Closing
  <1>19. PcbsNamed'
    <2> SUFFICES ASSUME NEW q \in Pcbs, NEW d \in Clients, Attached(q, d)'
                 PROVE  /\ pcbs'[q].conn = clients'[d].conn
                        /\ \/ pcbs'[q].sent = Received(d)'
                           \/ Queued("recv", d, pcbs[q].sent)'
                           \/ Held("recv", d, pcbs[q].sent)'
      BY DEF PcbsNamed
    <2>1. PICK n \in Nat : n = pcbs[q].sent /\ n = pcbs'[q].sent
      BY <1>4 DEF Types, PcbType
    <2>2. Attached(q, d) /\ Used(d)
      <3>1. Attached(q, d)
        BY <1>4 DEF Attached
      <3> QED  BY <3>1, TcpAssumption DEF Attached, Linked, Alive, Used
    <2>3. /\ pcbs[q].conn = clients[d].conn
          /\ n = Received(d) \/ Queued("recv", d, n) \/ Held("recv", d, n)
      BY <2>1, <2>2 DEF OInv, PcbsNamed
    <2>4. Held("recv", d, n)' <=> Held("recv", d, n)
      BY <1>2 DEF Held
    <2>5. n = Received(d)' \/ Queued("recv", d, n)' \/ Held("recv", d, n)'
      <3>1. CASE d # c
        BY <1>7, <1>11, <2>2, <2>3, <2>4, <3>1
      <3>2. CASE d = c
        <4>1. h.n <= n
          BY <1>2, <1>3, <2>1, <2>2, <3>2, QueueFirst DEF OInv, QueueNamed, Named, Types
        <4>2. n # Received(d)
          BY <1>3, <1>6, <3>2, <4>1
        <4>3. CASE n = h.n
          BY <1>6, <1>7, <3>2, <4>3
        <4>4. CASE n # h.n
          BY <1>11, <2>3, <2>4, <4>2, <4>4
        <4> QED  BY <4>3, <4>4
      <3> QED  BY <3>1, <3>2
    <2> QED  BY <1>4, <2>1, <2>3, <2>5
  <1>20. ConnsApart'
    BY <1>2, <1>4 DEF OInv, ConnsApart, Used
  <1>21. GivenInOrder'
    <2>1. /\ given \in [Conns -> Seq(Nat \X Nat)] /\ given[k] \in Seq(Nat \X Nat)
          /\ r = Len(given[k]) /\ <<k, r + 1>> \in Nat \X Nat
      <3>1. given \in [Conns -> Seq(Nat \X Nat)] /\ k \in Nat
        BY DEF OInv, GivenInOrder, Conns
      <3>2. r = Len(given[k])
        BY <1>5, <1>6 DEF Received
      <3> QED  BY <3>1, <3>2
    <2>2. /\ given'[k] = Append(given[k], <<k, r + 1>>)
          /\ \A l \in Conns \ {k} : given'[l] = given[l]
          /\ given' \in [Conns -> Seq(Nat \X Nat)]
      BY <1>5, <1>6, <2>1
    <2>3. \A i \in DOMAIN given'[k] : given'[k][i] = <<k, i>>
      BY <2>1, <2>2 DEF OInv, GivenInOrder, AllInOrder
    <2>4. AllInOrder'
      BY <2>2, <2>3 DEF OInv, GivenInOrder, AllInOrder
    <2>5. ASSUME NEW l \in Conns, l > born'  PROVE given'[l] = <<>>
      <3>1. k \in 1 .. born
        BY <1>1, <1>5 DEF OInv, ConnsApart
      <3>2. l # k
        BY <1>2, <2>5, <3>1 DEF Conns, Types
      <3> QED  BY <1>2, <2>2, <2>5, <3>2 DEF OInv, GivenInOrder
    <2> QED  BY <2>2, <2>4, <2>5 DEF GivenInOrder
  <1> QED  BY <1>12, <1>13, <1>15, <1>16, <1>17, <1>18, <1>19, <1>20, <1>21 DEF OInv

-----------------------------------------------------------------------------
(* The async_tcp task closes a connection and clears the queue              *)

\* What closing and clearing leave as it is, if the packets they take out are
\* for clients that are gone, and those they add are CLEAR.
LEMMA ClearingKeeps ==
    ASSUME IInv, OInv, IInv', UNCHANGED <<lwip, born, given>>,
           NEW new, From(new), \A m \in new : m.event = "clear" /\ Named(m)',
           \A d \in Clients :
              /\ clients'[d] = clients[d]
                 \/ (clients[d].st = "used" /\ clients'[d].st = "deleted"
                       /\ clients'[d].conn = clients[d].conn /\ clients'[d].pcb = None)
              /\ StaysAlive(d) /\ task.at = "api" /\ task.self = d => UNCHANGED task,
           \A q \in Pcbs : /\ pcbs'[q].st = "open" => pcbs[q].st = "open"
                           /\ pcbs'[q].arg \in {pcbs[q].arg, None}
                           /\ pcbs'[q].conn = pcbs[q].conn /\ pcbs'[q].sent = pcbs[q].sent
                           /\ pcbs'[q].acks = pcbs[q].acks,
           \A event, n : \A d \in Clients :
              event # "clear" /\ StaysAlive(d) /\ Queued(event, d, n) => Queued(event, d, n)'
    PROVE  /\ QueueNamed' /\ QueueFollows' /\ NewHasAccept' /\ PcbsNamed' /\ ConnsApart' /\ GivenInOrder'
           /\ lwip # None => Named(lwip.packet)' /\ Follows(lwip.packet)'
  <1> USE DEF IInv
  <1>1. Steady /\ Counting
    <2>1. Steady
      BY DEF Steady, StaysAlive, Alive
    <2> QED  BY <2>1, TcpAssumption DEF Counting, Attached, Types, PcbType
  <1>2. QueueNamed'
    <2>1. ASSUME NEW i \in DOMAIN queue', queue'[i].event = "accept", queue'[i] \notin new
          PROVE  clients'[queue'[i].arg].st = "new"
      <3>1. PICK j \in DOMAIN queue : queue'[i] = queue[j]
        BY <2>1 DEF From
      <3>2. queue[j].arg \in Clients /\ clients[queue[j].arg].st = "new"
        BY <2>1, <3>1, PacketsAre DEF OInv, QueueNamed, Named
      <3> QED  BY <3>1, <3>2
    <2>2. ASSUME NEW i \in DOMAIN queue', NEW m \in Message, m = queue'[i]
          PROVE  Named(m)'
      <3>1. CASE m \in new
        BY <3>1
      <3>2. CASE m \notin new
        <4>1. PICK j \in DOMAIN queue : m = queue[j]
          BY <2>2, <3>2 DEF From
        <4>2. Named(m) /\ Engaged(m.arg) /\ m.arg \in Clients
          BY <4>1, PacketsAre DEF OInv, QueueNamed
        <4>3. m.event = "clear" /\ StaysAlive(m.arg) => UNCHANGED task
          BY <1>1, <4>2 DEF Named, Steady
        <4> QED  BY <1>1, <2>1, <2>2, <3>2, <4>2, <4>3, NamedKept
      <3> QED  BY <3>1, <3>2
    <2> QED  BY <2>2 DEF QueueNamed, From
  <1>3. QueueFollows'
    <2>1. \A m \in new : Follows(m)'
      BY DEF Follows
    <2> QED  BY <1>1, <2>1, QueueFollowsKept DEF OInv
  <1>4. ASSUME lwip # None  PROVE Named(lwip.packet)' /\ Follows(lwip.packet)'
    <2>1. PICK m \in Message : m = lwip.packet
      BY <1>4, PacketsAre
    <2>2. Named(m) /\ Follows(m) /\ Engaged(m.arg) /\ m.event # "clear" /\ m.arg \in Clients
      BY <1>4, <2>1, PacketsAre DEF OInv, LwipFits
    <2>3. m.event = "accept" => clients'[m.arg].st = "new"
      BY <2>2 DEF Named
    <2>4. Named(m)' /\ Follows(m)'
      BY <1>1, <2>2, <2>3, NamedKept, FollowsKept
    <2> QED  BY <2>1, <2>4
  <1>5. NewHasAccept'
    <2> SUFFICES ASSUME NEW d \in Clients, clients'[d].st = "new"
                 PROVE  Queued("accept", d, 0)' \/ Held("accept", d, 0)'
      BY DEF NewHasAccept
    <2>1. clients[d].st = "new" /\ StaysAlive(d)
      BY DEF StaysAlive
    <2> QED  BY <2>1 DEF OInv, NewHasAccept, Held
  <1>6. PcbsNamed'
    <2> SUFFICES ASSUME NEW q \in Pcbs, NEW d \in Clients, Attached(q, d)'
                 PROVE  /\ pcbs'[q].conn = clients'[d].conn
                        /\ \/ pcbs'[q].sent = Received(d)'
                           \/ Queued("recv", d, pcbs[q].sent)'
                           \/ Held("recv", d, pcbs[q].sent)'
      BY DEF PcbsNamed
    <2>1. PICK n \in Nat : n = pcbs[q].sent
      BY DEF Types, PcbType
    <2>2. Attached(q, d) /\ StaysAlive(d)
      BY TcpAssumption DEF Attached, Linked, Alive, StaysAlive
    <2>3. /\ pcbs[q].conn = clients[d].conn
          /\ n = Received(d) \/ Queued("recv", d, n) \/ Held("recv", d, n)
      BY <2>1, <2>2 DEF OInv, PcbsNamed
    <2>4. Received(d)' = Received(d) /\ pcbs'[q].sent = n /\ clients'[d].conn = clients[d].conn
      BY <2>1 DEF Received
    <2>5. Held("recv", d, n)' <=> Held("recv", d, n)
      BY DEF Held
    <2>6. n = Received(d)' \/ Queued("recv", d, n)' \/ Held("recv", d, n)'
      BY <2>2, <2>3, <2>4, <2>5
    <2>7. pcbs'[q].conn = clients'[d].conn
      BY <2>3, <2>4
    <2> QED  BY <2>1, <2>4, <2>6, <2>7
  <1>7. ConnsApart' /\ GivenInOrder'
    <2>1. \A d \in Clients : clients'[d].conn = clients[d].conn /\ (Used(d)' <=> Used(d))
      BY DEF Used
    <2> QED  BY <2>1 DEF OInv, ConnsApart, GivenInOrder, AllInOrder
  <1> QED  BY <1>2, <1>3, <1>4, <1>5, <1>6, <1>7

\* CLEAR is put in front: it is the only one, for the client is not gone yet.
LEMMA ClearPushed ==
    ASSUME IInv, OInv, task.at \in {"clear", "finclear"}
    PROVE  /\ Straight
           /\ \E m \in Message :
                 /\ m = ClearPacket(task.self) /\ m.event = "clear" /\ m.arg = task.self
                 /\ \A i \in DOMAIN queue : Before(m, queue[i])
  <1> USE DEF IInv
  <1>1. PICK m \in Message : m = ClearPacket(task.self) /\ m.event = "clear" /\ m.arg = task.self
    BY ClearPacketKnown
  <1>2. Straight
    BY OrderedIsStraight DEF Types, OInv
  <1>3. ASSUME NEW i \in DOMAIN queue, queue[i].event = "clear"  PROVE queue[i].arg # task.self
    BY <1>3 DEF OInv, QueueNamed, Named, Closing, Alive
  <1>4. \A i \in DOMAIN queue : Before(m, queue[i])
    BY <1>1, <1>3 DEF Before
  <1> QED  BY <1>1, <1>2, <1>4

LEMMA CloseClearOrders ==
    ASSUME IInv, OInv, IInv', CloseClear
    PROVE  OInv'
  <1> USE DEF IInv
  <1>1. /\ task.at = "clear" /\ task'.at = "api" /\ task'.self = task.self
        /\ task.self \in Clients /\ clients[task.self].st = "used" /\ clients[task.self].pcb # None
        /\ UNCHANGED <<lwip, pcbs, clients, born, given>>
    BY DEF CloseClear, Types, TaskType, OInv, Closing
  <1>2. PICK m \in Message : /\ m.event = "clear" /\ m.arg = task.self /\ queue' = <<m>> \o queue
                             /\ \A i \in DOMAIN queue : Before(m, queue[i])
    BY <1>1, ClearPushed DEF CloseClear
  <1>3. From({m}) /\ \A event, d, n : Queued(event, d, n) => Queued(event, d, n)'
    BY <1>2, QueueSentFirst, QueuedAdded DEF Types
  <1>4. Named(m)'
    BY <1>1, <1>2 DEF Named
  <1>5. /\ QueueNamed' /\ QueueFollows' /\ NewHasAccept' /\ PcbsNamed' /\ ConnsApart' /\ GivenInOrder'
        /\ lwip # None => Named(lwip.packet)' /\ Follows(lwip.packet)'
    BY <1>1, <1>2, <1>3, <1>4, ClearingKeeps
  <1>6. Ordered'
    <2>1. \A c \in Clients : StaysAlive(c) <=> Alive(c)
      BY <1>1 DEF StaysAlive, Alive
    <2>2. Straight'
      BY <1>1, <1>2, <2>1, ClearPushed, PushStraight, PacketsAre DEF Types
    <2> QED  BY <1>1, <2>2, StraightIsOrdered DEF Types
  <1>7. LwipFits'
    <2> SUFFICES ASSUME lwip # None, NEW l \in Message, l = lwip.packet
                 PROVE  /\ Alive(l.arg)' /\ l.event # "clear"
                        /\ IF l.event = "accept"
                           THEN \A i \in DOMAIN queue' : queue'[i].arg # l.arg
                           ELSE \A i \in DOMAIN queue' : Before(queue'[i], l)
      <3>1. lwip # None /\ lwip.packet.arg = task.self => lwip.at = "send"
        BY <1>1 DEF OInv, LwipFits
      <3> QED  BY <1>1, <1>5, <3>1, PacketsAre DEF LwipFits, Named, Follows, Alive, Before
    <2>1. /\ Named(l) /\ Alive(l.arg) /\ l.event # "clear"
          /\ IF l.event = "accept" THEN \A i \in DOMAIN queue : queue[i].arg # l.arg
             ELSE \A i \in DOMAIN queue : Before(queue[i], l)
      BY DEF OInv, LwipFits
    <2>2. l.event = "accept" => m.arg # l.arg
      BY <1>1, <1>2, <2>1 DEF Named
    <2>3. Before(m, l)
      BY <1>2, <2>1 DEF Before
    <2>4. \A i \in DOMAIN queue' : queue'[i] = m \/ \E j \in DOMAIN queue : queue'[i] = queue[j]
      BY <1>3 DEF From
    <2>5. Alive(l.arg)'
      BY <1>1, <2>1 DEF Alive
    <2> QED  BY <2>1, <2>2, <2>3, <2>4, <2>5
  <1>8. Closing'
    <2>1. 1 \in DOMAIN queue' /\ queue'[1] = m /\ \A i \in DOMAIN queue' : i = 1 \/ 1 < i
      BY <1>2 DEF Types, QueueType
    <2>2. \A i \in DOMAIN queue' : queue'[i].event # "clear" => 1 < i
      BY <1>2, <2>1
    <2> QED  BY <1>1, <1>2, <2>1, <2>2 DEF Closing
  <1> QED  BY <1>5, <1>6, <1>7, <1>8 DEF OInv

\* tcp_close(): what is queued for the client that goes is behind its CLEAR.
LEMMA CloseApiOrders ==
    ASSUME IInv, OInv, IInv', CloseApi
    PROVE  OInv'
  <1> USE DEF IInv
  <1>1. PICK c \in Clients : c = task.self
    BY DEF CloseApi, Types, TaskType
  <1>2. /\ task.at = "api" /\ task' = Idle /\ lwip = None /\ lwip' = None
        /\ clients[c].st = "used" /\ UNCHANGED <<queue, born, given>>
    BY <1>1 DEF CloseApi, ApiFree, OInv, Closing
  <1>3. /\ \A d \in Clients \ {c} : clients'[d] = clients[d]
        /\ clients'[c].st = "deleted" /\ clients'[c].conn = clients[c].conn /\ clients'[c].pcb = None
    BY <1>1, <1>2 DEF CloseApi, Discard, NoClient, Types, ClientType
  <1>4. \A q \in Pcbs : /\ pcbs'[q].st = "open" => pcbs[q].st = "open"
                        /\ pcbs'[q].arg \in {pcbs[q].arg, None}
                        /\ pcbs'[q].conn = pcbs[q].conn /\ pcbs'[q].sent = pcbs[q].sent
                        /\ pcbs'[q].acks = pcbs[q].acks
    <2>1. CASE pcbs' = pcbs
      BY <2>1
    <2>2. CASE pcbs' # pcbs
      <3>1. PICK p \in Pcbs : pcbs' = [pcbs EXCEPT ![p].st = "closed", ![p].arg = None]
        BY <1>1, <2>2 DEF CloseApi, Types, ClientType
      <3> QED  BY <3>1 DEF Types, PcbType
    <2> QED  BY <2>1, <2>2
  <1>5. From({}) /\ \A event, d, n : Queued(event, d, n) => Queued(event, d, n)'
    <2>1. From({})
      BY <1>2, QueueSame DEF Types
    <2> QED  BY <1>2, <2>1 DEF Queued
  <1>6. \A d \in Clients : StaysAlive(d) => task.self # d
    BY <1>1, <1>3 DEF StaysAlive
  <1>7. QueueNamed' /\ QueueFollows' /\ NewHasAccept' /\ PcbsNamed' /\ ConnsApart' /\ GivenInOrder'
    BY <1>2, <1>3, <1>4, <1>5, <1>6, ClearingKeeps
  <1>8. Ordered'
    <2>1. Straight
      BY <1>2, OrderedIsStraight DEF Types, OInv
    <2>2. ASSUME NEW i \in DOMAIN queue, queue[i].event # "clear", Alive(queue[i].arg)
          PROVE  StaysAlive(queue[i].arg) \/ Cleared(i)
      <3>1. CASE queue[i].arg = c
        <4>1. PICK j \in DOMAIN queue :
                 /\ queue[j].event = "clear" /\ queue[j].arg = c
                 /\ \A l \in DOMAIN queue : queue[l].arg = c /\ queue[l].event # "clear" => j < l
          BY <1>1, <1>2 DEF OInv, Closing
        <4>2. j \in 1 .. i - 1
          BY <2>2, <3>1, <4>1 DEF Types, QueueType
        <4> QED  BY <3>1, <4>1, <4>2 DEF Cleared
      <3>2. CASE queue[i].arg # c
        BY <1>3, <2>2, <3>2, PacketsAre DEF Alive, StaysAlive
      <3> QED  BY <3>1, <3>2
    <2>3. Straight'
      BY <1>2, <2>1, <2>2, SameStraight DEF Types
    <2> QED  BY <1>2, <2>3, StraightIsOrdered DEF Types, Idle
  <1>9. LwipFits' /\ Closing'
    BY <1>2 DEF LwipFits, Closing, Idle
  <1> QED  BY <1>7, <1>8, <1>9 DEF OInv

\* _fin(): the tcpip thread has nothing for the client, and what is queued for it
\* comes behind its CLEAR.
LEMMA FinClearOrders ==
    ASSUME IInv, OInv, IInv', FinClear
    PROVE  OInv'
  <1> USE DEF IInv
  <1>1. PICK c \in Clients : c = task.self
    BY DEF FinClear, Types, TaskType
  <1>2. /\ task.at = "finclear" /\ task' = Idle /\ clients[c].st = "used"
        /\ lwip # None => lwip.packet.arg # c
        /\ UNCHANGED <<lwip, pcbs, born, given>>
    BY <1>1 DEF FinClear, OInv, Closing, LwipFits
  <1>3. /\ \A d \in Clients \ {c} : clients'[d] = clients[d]
        /\ clients'[c].st = "deleted" /\ clients'[c].conn = clients[c].conn /\ clients'[c].pcb = None
    BY <1>1, <1>2 DEF FinClear, Discard, NoClient, Types, ClientType
  <1>4. PICK m \in Message : /\ m.event = "clear" /\ m.arg = c /\ queue' = <<m>> \o queue
                             /\ \A i \in DOMAIN queue : Before(m, queue[i])
    BY <1>1, <1>2, ClearPushed DEF FinClear
  <1>5. From({m}) /\ \A event, d, n : Queued(event, d, n) => Queued(event, d, n)'
    BY <1>4, QueueSentFirst, QueuedAdded DEF Types
  <1>6. Named(m)'
    BY <1>3, <1>4 DEF Named, Alive
  <1>7. /\ QueueNamed' /\ QueueFollows' /\ NewHasAccept' /\ PcbsNamed' /\ ConnsApart' /\ GivenInOrder'
        /\ lwip # None => Named(lwip.packet)' /\ Follows(lwip.packet)'
    BY <1>2, <1>3, <1>4, <1>5, <1>6, ClearingKeeps
  <1>8. Ordered'
    <2>1. \A i \in DOMAIN queue :
             Alive(queue[i].arg) => StaysAlive(queue[i].arg) \/ m.arg = queue[i].arg
      BY <1>3, <1>4, PacketsAre DEF Alive, StaysAlive
    <2>2. Straight'
      BY <1>2, <1>4, <2>1, ClearPushed, PushStraight DEF Types
    <2> QED  BY <1>2, <2>2, StraightIsOrdered DEF Types, Idle
  <1>9. LwipFits'
    <2> SUFFICES ASSUME lwip # None, NEW l \in Message, l = lwip.packet
                 PROVE  /\ Alive(l.arg)' /\ l.event # "clear"
                        /\ IF l.event = "accept"
                           THEN \A i \in DOMAIN queue' : queue'[i].arg # l.arg
                           ELSE \A i \in DOMAIN queue' : Before(queue'[i], l)
      BY <1>2, <1>7, PacketsAre DEF LwipFits, Named, Follows, Alive, Before, Idle
    <2>1. /\ Alive(l.arg) /\ l.event # "clear" /\ l.arg \in Clients \ {c}
          /\ IF l.event = "accept" THEN \A i \in DOMAIN queue : queue[i].arg # l.arg
             ELSE \A i \in DOMAIN queue : Before(queue[i], l)
      BY <1>2 DEF OInv, LwipFits, Message
    <2>2. Before(m, l) /\ m.arg # l.arg
      BY <1>4, <2>1 DEF Before
    <2>3. \A i \in DOMAIN queue' : queue'[i] = m \/ \E j \in DOMAIN queue : queue'[i] = queue[j]
      BY <1>5 DEF From
    <2>4. Alive(l.arg)'
      BY <1>3, <2>1 DEF Alive
    <2> QED  BY <2>1, <2>2, <2>3, <2>4
  <1>10. Closing'
    BY <1>2 DEF Closing, Idle
  <1> QED  BY <1>7, <1>8, <1>9, <1>10 DEF OInv

\* Taking CLEAR and what is queued for its client out of the queue: the order of
\* the packets is kept, and so is the rest.
LEMMA TurningKeeps ==
    ASSUME IInv, OInv, IInv', UNCHANGED <<lwip, pcbs, clients, born, given>>, From({}),
           task.at \in {"idle", "rotate"}, task'.at \in {"idle", "rotate"},
           task'.at = "rotate" => task'.self \in Clients /\ ~Alive(task'.self),
           \A i \in DOMAIN queue :
              \/ \E j \in DOMAIN queue' : queue'[j] = queue[i]
              \/ queue[i].event = "clear" \/ ~Alive(queue[i].arg),
           Ordered'
    PROVE  OInv'
  <1> USE DEF IInv
  <1>1. \A event, n : \A d \in Clients :
           event # "clear" /\ StaysAlive(d) /\ Queued(event, d, n) => Queued(event, d, n)'
    BY DEF StaysAlive, Alive, Queued
  <1>2. /\ QueueNamed' /\ QueueFollows' /\ NewHasAccept' /\ PcbsNamed' /\ ConnsApart' /\ GivenInOrder'
        /\ lwip # None => Named(lwip.packet)' /\ Follows(lwip.packet)'
    BY <1>1, ClearingKeeps
  <1>3. LwipFits'
    <2> SUFFICES ASSUME lwip # None, NEW l \in Message, l = lwip.packet
                 PROVE  /\ Alive(l.arg)' /\ l.event # "clear"
                        /\ IF l.event = "accept"
                           THEN \A i \in DOMAIN queue' : queue'[i].arg # l.arg
                           ELSE \A i \in DOMAIN queue' : Before(queue'[i], l)
                        /\ task'.at # "idle" => task'.self # l.arg
      BY <1>2, PacketsAre DEF LwipFits, Named, Follows, Alive, Before
    <2>1. /\ Alive(l.arg) /\ l.event # "clear" /\ l.arg \in Clients
          /\ IF l.event = "accept" THEN \A i \in DOMAIN queue : queue[i].arg # l.arg
             ELSE \A i \in DOMAIN queue : Before(queue[i], l)
      BY DEF OInv, LwipFits, Message
    <2>2. \A i \in DOMAIN queue' : \E j \in DOMAIN queue : queue'[i] = queue[j]
      BY DEF From
    <2> QED  BY <2>1, <2>2 DEF Alive
  <1>4. Closing'
    BY DEF Closing, Alive
  <1> QED  BY <1>2, <1>3, <1>4 DEF OInv

LEMMA HandleClearOrders ==
    ASSUME IInv, OInv, IInv', HandleClear
    PROVE  OInv'
  <1> USE DEF IInv
  <1>1. PICK c \in Clients : c = Self
    BY Taken DEF HandleClear
  <1>2. /\ task.at = "idle" /\ queue # <<>> /\ queue' = Tail(queue) /\ Head(queue).arg = c
        /\ Head(queue).event = "clear" /\ task'.at = "rotate" /\ task'.self = c /\ task'.first = None
        /\ UNCHANGED <<lwip, pcbs, clients, born, given>>
    BY <1>1 DEF HandleClear, Take, Self
  <1>3. ~Alive(c)
    BY <1>2, QueueFirst DEF OInv, QueueNamed, Named, Types
  <1>4. /\ DOMAIN queue = 1 .. Len(queue) /\ DOMAIN queue' = 1 .. Len(queue) - 1
        /\ \A i \in 1 .. Len(queue) - 1 : queue'[i] = queue[i + 1]
        /\ queue[1] = Head(queue) /\ Len(queue) \in Nat \ {0} /\ Len(queue') = Len(queue) - 1
        /\ From({}) /\ Straight
    BY <1>2, QueueTaken, OrderedIsStraight DEF Types, QueueType, OInv
  <1>5. PICK f \in Nat : f = Len(queue) /\ f = Len(queue') + 1 /\ f \in 1 .. Len(queue') + 1
    <2>1. Len(queue) \in Nat /\ Len(queue) = Len(queue') + 1 /\ Len(queue) \in 1 .. Len(queue') + 1
      BY <1>4
    <2> QED  BY <2>1
  <1>6. \A i, j \in DOMAIN queue' : Comes(f, i, j) <=> i < j
    BY <1>4, <1>5 DEF Comes
  <1>7. InOrder(f)'
    <2> SUFFICES ASSUME NEW i \in DOMAIN queue', NEW j \in DOMAIN queue', i < j
                 PROVE  Before(queue'[i], queue'[j])
      BY <1>6 DEF InOrder, Before, Comes
    <2>1. j + 1 \in DOMAIN queue /\ i + 1 \in 1 .. (j + 1) - 1
      BY <1>4
    <2>2. Before(queue[i + 1], queue[j + 1])
      BY <1>4, <2>1 DEF Straight
    <2> QED  BY <1>4, <2>2
  <1>8. NoneForgotten(f)'
    <2> SUFFICES ASSUME NEW i \in DOMAIN queue', queue'[i].event # "clear", ~Alive(queue'[i].arg)
                 PROVE  \/ \E j \in DOMAIN queue' :
                              j < i /\ queue'[j].event = "clear" /\ queue'[j].arg = queue'[i].arg
                        \/ i < f /\ queue'[i].arg = c
      BY <1>2, <1>6 DEF NoneForgotten, Alive, Comes
    <2>1. i + 1 \in DOMAIN queue /\ queue'[i] = queue[i + 1]
      BY <1>4
    <2>2. PICK j \in 1 .. (i + 1) - 1 : queue[j].event = "clear" /\ queue[j].arg = queue'[i].arg
      BY <1>2, <1>4, <2>1 DEF Straight, Cleared, Alive
    <2>3. CASE j = 1
      BY <1>2, <1>4, <1>5, <2>2, <2>3
    <2>4. CASE j # 1
      <3>1. j - 1 \in DOMAIN queue' /\ j - 1 < i /\ queue'[j - 1] = queue[j]
        BY <1>4, <2>1, <2>2, <2>4
      <3> QED  BY <2>2, <3>1
    <2> QED  BY <2>3, <2>4
  <1>9. Ordered'
    BY <1>2, <1>4, <1>5, <1>7, <1>8 DEF Ordered, TurnedTo
  <1>10. \A i \in DOMAIN queue :
            (\E j \in DOMAIN queue' : queue'[j] = queue[i]) \/ queue[i].event = "clear"
    <2>1. \A i \in 2 .. Len(queue) : i - 1 \in DOMAIN queue' /\ queue'[i - 1] = queue[i]
      BY <1>4
    <2>2. \A i \in DOMAIN queue : i = 1 \/ i \in 2 .. Len(queue)
      BY <1>4
    <2> QED  BY <1>2, <1>4, <2>1, <2>2
  <1> QED  BY <1>2, <1>3, <1>4, <1>9, <1>10, TurningKeeps

LEMMA RotateEndOrders ==
    ASSUME IInv, OInv, IInv', RotateEnd
    PROVE  OInv'
  <1> USE DEF IInv
  <1>1. /\ task.at = "rotate" /\ task'.at = "idle" /\ (queue = <<>> \/ Head(queue) = task.first)
        /\ UNCHANGED <<queue, lwip, pcbs, clients, born, given>>
    BY DEF RotateEnd, MoreToTurn, Idle
  <1>2. From({})
    BY <1>1, QueueSame DEF Types
  <1>3. PICK f \in 1 .. Len(queue) + 1 : TurnedTo(f) /\ InOrder(f) /\ NoneForgotten(f)
    BY DEF OInv, Ordered
  <1>4. f = 1
    BY <1>1, <1>3, TurnedThrough DEF MoreToTurn
  <1>5. Ordered'
    <2>1. InOrder(1)'
      BY <1>1, <1>3, <1>4 DEF InOrder, Before, Comes
    <2>2. NoneForgotten(1)'
      <3>1. \A i \in DOMAIN queue : ~(i < 1)
        BY DEF Types, QueueType
      <3> QED  BY <1>1, <1>3, <1>4, <3>1 DEF NoneForgotten, Comes, Alive
    <2>3. TurnedTo(1)' /\ 1 \in 1 .. Len(queue') + 1
      BY <1>1 DEF TurnedTo, Types, QueueType
    <2> QED  BY <2>1, <2>2, <2>3 DEF Ordered
  <1> QED  BY <1>1, <1>2, <1>5, TurningKeeps

\* One packet is looked at: old[i] is where the i-th packet was before.
LEMMA TurnedOrder ==
    ASSUME task.at = "rotate", task'.at = "rotate", UNCHANGED clients, task'.self = task.self,
           QueueType, QueueType',
           NEW f \in Nat, NEW g \in Nat, f = g + 1, g \in 1 .. Len(queue') + 1,
           InOrder(f), NoneForgotten(f), TurnedTo(g)',
           NEW old \in [DOMAIN queue' -> DOMAIN queue],
           \A i, j \in DOMAIN queue' : Comes(g, i, j) <=> Comes(f, old[i], old[j]),
           \A i \in DOMAIN queue' :
              /\ queue'[i] = queue[old[i]]
              /\ old[i] < f => i < g \/ (queue'[i].arg = task.self => Alive(queue'[i].arg)),
           \A j \in DOMAIN queue :
              (\E i \in DOMAIN queue' : old[i] = j) \/ (j = 1 /\ queue[j].arg = task.self)
    PROVE  Ordered'
  <1>1. InOrder(g)'
    <2> SUFFICES ASSUME NEW i \in DOMAIN queue', NEW j \in DOMAIN queue', Comes(g, i, j)
                 PROVE  Before(queue'[i], queue'[j])
      BY DEF InOrder, Before, Comes
    <2>1. old[i] \in DOMAIN queue /\ old[j] \in DOMAIN queue /\ Comes(f, old[i], old[j])
      OBVIOUS
    <2>2. Before(queue[old[i]], queue[old[j]])
      BY <2>1 DEF InOrder
    <2> QED  BY <2>2
  <1>2. NoneForgotten(g)'
    <2> SUFFICES ASSUME NEW i \in DOMAIN queue', queue'[i].event # "clear", ~Alive(queue'[i].arg)
                 PROVE  \/ \E j \in DOMAIN queue' :
                              Comes(g, j, i) /\ queue'[j].event = "clear" /\ queue'[j].arg = queue'[i].arg
                        \/ i < g /\ queue'[i].arg = task.self
      BY DEF NoneForgotten, Alive, Comes
    <2>1. PICK k \in DOMAIN queue : k = old[i] /\ queue'[i] = queue[k]
      OBVIOUS
    <2>2. k < f /\ queue'[i].arg = task.self => i < g
      BY <2>1
    <2>3. CASE k < f /\ queue[k].arg = task.self
      BY <2>1, <2>2, <2>3
    <2>4. CASE ~(k < f /\ queue[k].arg = task.self)
      <3>1. PICK l \in DOMAIN queue :
               Comes(f, l, k) /\ queue[l].event = "clear" /\ queue[l].arg = queue[k].arg
        BY <2>1, <2>4 DEF NoneForgotten
      <3>2. l = 1 => k < f
        BY <3>1 DEF Comes, QueueType
      <3>3. PICK j \in DOMAIN queue' : old[j] = l
        BY <2>4, <3>1, <3>2
      <3> QED  BY <2>1, <3>1, <3>3
    <2> QED  BY <2>3, <2>4
  <1> QED  BY <1>1, <1>2 DEF Ordered

LEMMA RotateStepOrders ==
    ASSUME IInv, OInv, IInv', RotateStep
    PROVE  OInv'
  <1> USE DEF IInv
  <1>1. /\ task.at = "rotate" /\ task'.at = "rotate" /\ task'.self = task.self
        /\ queue # <<>> /\ Head(queue) # task.first
        /\ task.self \in Clients /\ ~Alive(task.self)
        /\ UNCHANGED <<lwip, pcbs, clients, born, given>>
    BY DEF RotateStep, MoreToTurn, Types, TaskType, OInv, Closing
  <1>2. PICK L \in Nat \ {0}, h \in Message :
           /\ L = Len(queue) /\ DOMAIN queue = 1 .. L /\ h = queue[1] /\ h = Head(queue) /\ h # None
    BY <1>1, QueueFirst, NoneAssumption DEF Types, QueueType
  <1>3. PICK f \in 1 .. L + 1 : TurnedTo(f) /\ InOrder(f) /\ NoneForgotten(f)
    BY <1>2 DEF OInv, Ordered
  <1>4. PICK g \in Nat : f = g + 1 /\ g \in 1 .. L
    <2>1. f # 1
      BY <1>1, <1>2, <1>3 DEF TurnedTo
    <2>2. f - 1 \in Nat /\ f = (f - 1) + 1 /\ f - 1 \in 1 .. L
      BY <2>1
    <2> QED  BY <2>2
  <1>5. CASE h.arg = task.self /\ h.event # "accept"
    <2>1. queue' = Tail(queue) /\ task' = task
      BY <1>2, <1>5 DEF RotateStep
    <2>2. /\ Len(queue') = L - 1 /\ DOMAIN queue' = 1 .. L - 1
          /\ \A i \in 1 .. L - 1 : queue'[i] = queue[i + 1]
      BY <1>1, <1>2, <2>1 DEF Types, QueueType
    <2> DEFINE old == [i \in DOMAIN queue' |-> i + 1]
    <2>3. TurnedTo(g)'
      BY <1>1, <1>2, <1>3, <1>4, <2>1, <2>2 DEF TurnedTo
    <2>4. /\ old \in [DOMAIN queue' -> DOMAIN queue]
          /\ \A i \in DOMAIN queue' : /\ queue'[i] = queue[old[i]]
                                      /\ old[i] < f => i < g
          /\ \A i, j \in DOMAIN queue' : Comes(g, i, j) <=> Comes(f, old[i], old[j])
      BY <1>2, <1>4, <2>2 DEF Comes
    <2>5. \A j \in DOMAIN queue : j = 1 \/ (j - 1 \in DOMAIN queue' /\ old[j - 1] = j)
      BY <1>2, <2>2
    <2>6. \A j \in DOMAIN queue :
             (\E i \in DOMAIN queue' : old[i] = j) \/ (j = 1 /\ queue[j].arg = task.self)
      BY <1>2, <1>5, <2>5
    <2>7. g \in 1 .. Len(queue') + 1
      BY <1>4, <2>2
    <2> HIDE DEF old
    <2>8. Ordered'
      BY <1>1, <1>3, <1>4, <2>3, <2>4, <2>6, <2>7, TurnedOrder DEF Types
    <2>9. \A i \in DOMAIN queue : (\E j \in DOMAIN queue' : queue'[j] = queue[i]) \/ ~Alive(queue[i].arg)
      BY <1>1, <2>4, <2>6
    <2>10. From({})
      BY <1>1, <2>1, QueueTaken DEF Types
    <2> QED  BY <1>1, <2>8, <2>9, <2>10, TurningKeeps
  <1>6. CASE ~(h.arg = task.self /\ h.event # "accept")
    <2>1. /\ queue' = Append(Tail(queue), h)
          /\ task'.first = IF task.first = None THEN h ELSE task.first
      BY <1>2, <1>6 DEF RotateStep, Types, TaskType
    <2>2. /\ Len(queue') = L /\ DOMAIN queue' = 1 .. L
          /\ \A i \in 1 .. L - 1 : queue'[i] = queue[i + 1]
          /\ queue'[L] = h
      BY <1>1, <1>2, <2>1 DEF Types, QueueType
    <2> DEFINE old == [i \in DOMAIN queue' |-> IF i = L THEN 1 ELSE i + 1]
    <2>3. TurnedTo(g)'
      BY <1>1, <1>2, <1>3, <1>4, <2>1, <2>2 DEF TurnedTo
    <2>4. h.arg = task.self => Alive(h.arg)
      BY <1>2, <1>6, PacketsAre DEF OInv, QueueNamed, Named, Alive
    <2>5. /\ old \in [DOMAIN queue' -> DOMAIN queue]
          /\ \A i \in DOMAIN queue' : /\ queue'[i] = queue[old[i]]
                                      /\ old[i] < f => i < g \/ queue'[i] = h
      BY <1>2, <1>4, <2>2
    <2>6. \A i, j \in DOMAIN queue' : Comes(g, i, j) <=> Comes(f, old[i], old[j])
      BY <1>2, <1>4, <2>2 DEF Comes
    <2>7. \A j \in DOMAIN queue : \E i \in DOMAIN queue' : old[i] = j
      <3>1. old[L] = 1 /\ L \in DOMAIN queue'
        BY <2>2
      <3>2. \A j \in DOMAIN queue : j = 1 \/ (j - 1 \in DOMAIN queue' /\ old[j - 1] = j)
        BY <1>2, <2>2
      <3> QED  BY <3>1, <3>2
    <2>8. g \in 1 .. Len(queue') + 1
      BY <1>4, <2>2
    <2> HIDE DEF old
    <2>9. Ordered'
      BY <1>1, <1>3, <1>4, <2>3, <2>4, <2>5, <2>6, <2>7, <2>8, TurnedOrder DEF Types
    <2>10. \A i \in DOMAIN queue : \E j \in DOMAIN queue' : queue'[j] = queue[i]
      BY <2>5, <2>7
    <2>11. From({})
      BY <1>1, <1>2, <2>1, QueueTurned DEF Types
    <2> QED  BY <1>1, <2>9, <2>10, <2>11, TurningKeeps
  <1> QED  BY <1>5, <1>6

-----------------------------------------------------------------------------
LEMMA InitOInv == Init => OInv
  <1> SUFFICES ASSUME Init  PROVE OInv
    OBVIOUS
  <1>1. queue = <<>> /\ lwip = None /\ task.at = "idle" /\ born = 0 /\ born \in Nat
    BY DEF Init, Idle
  <1>2. Ordered
    BY <1>1 DEF Ordered, TurnedTo, InOrder, NoneForgotten
  <1>3. QueueNamed /\ QueueFollows /\ LwipFits /\ Closing
    BY <1>1 DEF QueueNamed, QueueFollows, LwipFits, Closing
  <1>4. NewHasAccept /\ PcbsNamed
    BY DEF Init, NewHasAccept, PcbsNamed, NoClient, FreePcb, Attached
  <1>5. ConnsApart /\ GivenInOrder
    BY <1>1, TcpAssumption DEF Init, ConnsApart, GivenInOrder, AllInOrder, NoClient, Used, Conns
  <1> QED  BY <1>2, <1>3, <1>4, <1>5 DEF OInv

\* Until the first mishap, the order of the queue is kept by both tasks.
LEMMA StepOInv ==
    ASSUME IInv, OInv, [Next]_vars, mishaps' = {}
    PROVE  OInv'
  <1>1. IInv'
    BY StepIInv
  <1>2. CASE Lwip
    BY <1>1, <1>2, SendOrders, AcceptOrders, RaiseOrders, LwipFinOrders DEF Lwip
  <1>3. CASE AsyncTask
    <2>1. CASE \E answer \in BOOLEAN : HandleRecv(answer)
      BY <1>1, <2>1, RecvTaken
    <2>2. CASE \/ \E close \in BOOLEAN : HandleSent(close)
               \/ \E ackLate, rxLate \in BOOLEAN : HandlePoll(ackLate, rxLate)
      BY <1>1, <2>2, CloseTaken
    <2>3. CASE HandleAccept \/ HandleError \/ HandleFin \/ HandleClear
      BY <1>1, <2>3, AcceptTaken, FinalTaken, HandleClearOrders
    <2>4. CASE CloseClear \/ CloseApi \/ FinClear \/ RotateEnd \/ RotateStep
      BY <1>1, <2>4, CloseClearOrders, CloseApiOrders, FinClearOrders, RotateEndOrders,
         RotateStepOrders
    <2> QED  BY <1>3, <2>1, <2>2, <2>3, <2>4 DEF AsyncTask
  <1>4. CASE UNCHANGED vars
    <2>1. Ordered'
      BY <1>4, SameOrdered DEF vars, OInv, Alive, StaysAlive
    <2>2. UNCHANGED <<queue, lwip, task, pcbs, clients, born, given>>
      BY <1>4 DEF vars
    <2>3. QueueNamed' /\ QueueFollows' /\ LwipFits'
      BY <2>2 DEF OInv, QueueNamed, Named, Attached, QueueFollows, Follows, Queued, Received, LwipFits,
                  Alive, Before
    <2>4. NewHasAccept' /\ Closing' /\ PcbsNamed' /\ ConnsApart' /\ GivenInOrder'
      BY <2>2 DEF OInv, NewHasAccept, Held, Queued, Closing, Alive, PcbsNamed, Attached, Received,
                  ConnsApart, Used, GivenInOrder, AllInOrder
    <2> QED  BY <2>1, <2>3, <2>4 DEF OInv
  <1> QED  BY <1>2, <1>3, <1>4 DEF Next, Quiet

\* What holds of every state before the first mishap.
OrderInv == mishaps = {} => IInv /\ OInv

LEMMA OrderInvariant == Spec => []OrderInv
  <1>1. Init => OrderInv
    BY InitIInv, InitOInv DEF OrderInv
  <1>2. OrderInv /\ [Next]_vars => OrderInv'
    BY StepIInv, StepOInv, MishapsStay DEF OrderInv
  <1> QED  BY <1>1, <1>2, PTL DEF Spec

\* Both tasks' packets reach the client they are about, which exists, until an
\* address is reused that is still named, a packet sent into the turn of the queue
\* overtakes others, or a timeout closes a client whose FIN is under way.
THEOREM PacketsFind == Spec => []PacketsFindTheirClient
  <1>1. IInv /\ OInv => PacketsFindTheirClient
    <2> SUFFICES ASSUME IInv, OInv, task.at = "idle", queue # <<>>, Head(queue).event # "clear"
                 PROVE  Alive(Head(queue).arg) /\ clients[Head(queue).arg].conn = Head(queue).conn
      BY DEF PacketsFindTheirClient
    <2>1. 1 \in DOMAIN queue /\ queue[1] = Head(queue) /\ Straight
      BY QueueFirst, OrderedIsStraight DEF IInv, Types, OInv
    <2>2. ~Cleared(1)
      BY DEF Cleared
    <2> QED  BY <2>1, <2>2 DEF Straight, OInv, QueueNamed, Named
  <1>2. OrderInv => PacketsFindTheirClient
    BY <1>1 DEF OrderInv, PacketsFindTheirClient
  <1> QED  BY <1>2, OrderInvariant, PTL

\* What a request is given is what its connection received, in that order, until
\* the first mishap.
THEOREM DataIsInOrder == Spec => []DataInOrder
  <1>1. OrderInv => DataInOrder
    BY DEF OrderInv, OInv, GivenInOrder, AllInOrder, DataInOrder
  <1> QED  BY <1>1, OrderInvariant, PTL
=============================================================================
