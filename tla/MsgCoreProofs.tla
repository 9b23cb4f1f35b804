---------------------------- MODULE MsgCoreProofs ----------------------------
(***************************************************************************)
(* Proofs about MsgCore, for every number of boards, sensors and requests  *)
(* and every length of the three queues: the type invariant, the order of  *)
(* the answers, and what a recorded reading and an answer are made of.     *)
(***************************************************************************)
EXTENDS MsgCore, SequenceTheorems, TLAPS

\* What taking the head of a queue leaves.
LEMMA TailFacts ==
    ASSUME NEW S, NEW q \in Seq(S), q # <<>>
    PROVE  /\ Head(q) \in S /\ Head(q) = q[1] /\ 1 \in DOMAIN q
           /\ Tail(q) \in Seq(S) /\ Len(Tail(q)) = Len(q) - 1 /\ Len(q) \in Nat
           /\ \A i \in DOMAIN Tail(q) :
                i \in Nat /\ i >= 1 /\ i + 1 \in DOMAIN q /\ Tail(q)[i] = q[i + 1]
  BY HeadTailProperties

\* What a message put at the end of a queue adds.
LEMMA AppendFacts ==
    ASSUME NEW S, NEW q \in Seq(S), NEW x \in S
    PROVE  /\ Append(q, x) \in Seq(S) /\ Len(Append(q, x)) = Len(q) + 1 /\ Len(q) \in Nat
           /\ Append(q, x)[Len(q) + 1] = x
           /\ DOMAIN q = 1..Len(q)
           /\ DOMAIN Append(q, x) = 1..(Len(q) + 1)
           /\ \A i \in DOMAIN q : i \in DOMAIN Append(q, x) /\ Append(q, x)[i] = q[i]
           /\ \A i \in DOMAIN Append(q, x) :
                \/ i \in DOMAIN q /\ Append(q, x)[i] = q[i]
                \/ i = Len(q) + 1 /\ Append(q, x)[i] = x
  BY AppendProperties

\* A queue filled by an interrupt handler keeps its type and its bound.
LEMMA EnqueueFacts ==
    ASSUME NEW S, NEW q \in Seq(S), NEW x \in S, NEW n \in Nat, Len(q) <= n
    PROVE  /\ EnqueueFromISR(q, n, x) \in Seq(S)
           /\ Len(EnqueueFromISR(q, n, x)) <= n
           /\ \A i \in DOMAIN EnqueueFromISR(q, n, x) :
                \/ i \in DOMAIN q /\ EnqueueFromISR(q, n, x)[i] = q[i]
                \/ i = Len(q) + 1 /\ EnqueueFromISR(q, n, x)[i] = x
           /\ DOMAIN q = 1..Len(q)
  BY AppendFacts DEF EnqueueFromISR

----------------------------------------------------------------------------
\* The type invariant

LEMMA RequestType ==
    ASSUME posed \in Seq(Packet), NEW p \in Params, NEW to \in Addr, NEW by \in Addr,
           NEW sensor \in AnyByte, NEW ok \in BOOLEAN
    PROVE  Request(p, to, by, sensor, ok) \in Packet
  BY DEF Request, NextNo, Packet

LEMMA InitType == Init => TypeOK
  <1>1. Blank \in Packet
    BY DEF Blank, Packet, Params, Addr, AnyByte
  <1>2. QED
    BY <1>1, QueueLengths DEF Init, TypeOK, Addr

LEMMA AcceptType ==
    ASSUME TypeOK, NEW m \in Packet, Accept(m)
    PROVE  TypeOK'
  BY EnqueueFacts, AppendFacts, QueueLengths DEF TypeOK, Accept, comVars, uplVars

LEMMA CoreType == ASSUME TypeOK, MsgCoreHndlr PROVE TypeOK'
  <1> USE QueueLengths
  <1>1. CASE ComDrop
    <2>1. recvQ' \in Seq(Packet) /\ Len(recvQ') <= RecvLen /\ Head(recvQ) \in Packet
      BY <1>1, TailFacts DEF TypeOK, ComDrop, ComDropTo
    <2>2. [res EXCEPT !.param = "NORMAL_RESPONSE"] \in Packet
      BY DEF TypeOK, Packet, Params
    <2>3. QED
      BY <1>1, <2>1, <2>2 DEF TypeOK, ComDrop, ComDropTo, uplVars
  <1>2. CASE ComProcess
    <2>1. recvQ' \in Seq(Packet) /\ Len(recvQ') <= RecvLen /\ Head(recvQ) \in Packet
      BY <1>2, TailFacts DEF TypeOK, ComProcess
    <2>2. SwapIPMIMsgHdr(Head(recvQ)) \in Packet
      BY <2>1 DEF SwapIPMIMsgHdr, Packet, Addr
    <2> DEFINE a == SwapIPMIMsgHdr(Head(recvQ))
    <2>3. \A p \in Params, e \in 0..2 : [a EXCEPT !.param = p, !.enc = e] \in Packet
      BY <2>2 DEF Packet
    <2>4. \A p \in Params : [a EXCEPT !.param = p] \in Packet
      BY <2>2 DEF Packet
    <2> HIDE DEF a
    <2>5. req' \in Packet /\ res' \in Packet
      BY <1>2, <2>1, <2>3, <2>4 DEF ComProcess, Params, a
    <2>6. QED
      BY <1>2, <2>1, <2>5 DEF TypeOK, ComProcess, uplVars
  <1>3. CASE ComReceiveForward
    <2>1. recvQ' \in Seq(Packet) /\ Len(recvQ') <= RecvLen /\ Head(recvQ) \in Packet
      BY <1>3, TailFacts DEF TypeOK, ComReceiveForward, Forwardable, ForOther
    <2>2. req' \in Packet
      BY <1>3, <2>1 DEF ComReceiveForward, Forwardable, ForOther, Packet, Params
    <2>3. saddr1' \in [Periphs -> Addr]
      BY <1>3 DEF ComReceiveForward, Forwardable, ForOther, DualAddrSet, TypeOK, Addr
    <2>4. QED
      BY <1>3, <2>1, <2>2, <2>3 DEF TypeOK, ComReceiveForward, Forwardable, ForOther, uplVars
  <1>4. CASE ComForward
    BY <1>4, AppendFacts DEF TypeOK, ComForward, uplVars
  <1>5. CASE ComForwardTimeout
    BY <1>5 DEF TypeOK, ComForwardTimeout, uplVars
  <1>6. CASE ComTakeReply
    <2>1. fwdQ' \in Seq(Packet) /\ Len(fwdQ') <= FwdLen /\ Head(fwdQ) \in Packet
      BY <1>6, TailFacts DEF TypeOK, ComTakeReply
    <2>2. DualAddrGet(Bus) \in Addr
      BY DEF DualAddrGet, TypeOK, Addr
    <2>3. [Head(fwdQ) EXCEPT !.param = "SERIAL_REQUEST", !.no = req.no,
                             !.to = DualAddrGet(Bus), !.enc = 2] \in Packet
      <3>1. req.no \in Nat
        BY DEF TypeOK, Packet
      <3>2. \A m \in Packet, p \in Params, n \in Nat, a \in Addr, e \in 0..2 :
              [m EXCEPT !.param = p, !.no = n, !.to = a, !.enc = e] \in Packet
        BY DEF Packet
      <3>3. "SERIAL_REQUEST" \in Params /\ 2 \in 0..2
        BY DEF Params
      <3>4. QED
        BY <2>1, <2>2, <3>1, <3>2, <3>3
    <2>4. res' \in Packet /\ com' \in {"respond", "idle"}
      <3>1. res \in Packet
        BY DEF TypeOK
      <3>2. QED
        BY <1>6, <2>3, <3>1 DEF ComTakeReply
    <2>5. QED
      BY <1>6, <2>1, <2>4 DEF TypeOK, ComTakeReply, uplVars
  <1>7. CASE ComAwaitTimeout
    BY <1>7 DEF TypeOK, ComAwaitTimeout, uplVars
  <1>8. CASE ComRespond
    BY <1>8, AppendFacts DEF TypeOK, ComRespond, uplVars
  <1>9. CASE ComRespondTimeout
    BY <1>9 DEF TypeOK, ComRespondTimeout, uplVars
  <1>10. QED
    BY <1>1, <1>2, <1>3, <1>4, <1>5, <1>6, <1>7, <1>8, <1>9 DEF MsgCoreHndlr

LEMMA WriteType == ASSUME TypeOK, ResponseDatWrite PROVE TypeOK'
  <1>1. respQ' \in Seq(Packet) /\ Len(respQ') <= RespLen /\ Head(respQ) \in Packet
    BY TailFacts, QueueLengths DEF TypeOK, ResponseDatWrite
  <1>2. log' \in Seq(Packet)
    <2>1. log \in Seq(Packet)
      BY DEF TypeOK
    <2>2. Append(log, Head(respQ)) \in Seq(Packet)
      BY <1>1, <2>1, AppendFacts
    <2>3. log' = log \/ log' = Append(log, Head(respQ))
      BY DEF ResponseDatWrite
    <2>4. QED
      BY <2>1, <2>2, <2>3
  <1>3. bus' \in SUBSET Packet
    BY <1>1 DEF TypeOK, ResponseDatWrite
  <1>4. saddr1' \in [Periphs -> Addr]
    BY Addresses DEF TypeOK, ResponseDatWrite, Addr
  <1>5. QED
    BY <1>1, <1>2, <1>3, <1>4 DEF TypeOK, ResponseDatWrite, comVars, uplVars

LEMMA SlaveType ==
    ASSUME TypeOK, NEW m \in bus, SlaveReply(m) \/ SlaveSilent(m)
    PROVE  TypeOK'
  <1>1. CASE SlaveReply(m)
    <2>1. PICK ok \in BOOLEAN, byte \in SensorByte(m) :
            fwdQ' = IF OwnAddress(m.by)
                    THEN EnqueueFromISR(fwdQ, FwdLen,
                        [m EXCEPT !.param = "IPMI_REQUEST", !.to = Self, !.by = m.to,
                                  !.sensor = byte, !.ok = ok])
                    ELSE fwdQ
      BY <1>1 DEF SlaveReply
    <2>2. [m EXCEPT !.param = "IPMI_REQUEST", !.to = Self, !.by = m.to,
                    !.sensor = byte, !.ok = ok] \in Packet
      BY DEF TypeOK, Packet, Params, Addr, AnyByte, SensorByte
    <2>3. fwdQ' \in Seq(Packet) /\ Len(fwdQ') <= FwdLen
      BY <2>1, <2>2, EnqueueFacts, QueueLengths DEF TypeOK
    <2>4. QED
      BY <1>1, <2>3 DEF TypeOK, SlaveReply, comVars, uplVars
  <1>2. CASE SlaveSilent(m)
    BY <1>2 DEF TypeOK, SlaveSilent, comVars, uplVars
  <1>3. QED
    BY <1>1, <1>2

LEMMA SamplerType == ASSUME TypeOK, Sampler PROVE TypeOK'
  <1> USE QueueLengths
  <1>1. CASE UplPoll
    <2>1. PICK to \in Slaves, sensor \in Sensors :
            /\ poll' = Request("HEARTBEAT_REQUEST", to, Self, sensor, TRUE)
            /\ posed' = Append(posed, Request("HEARTBEAT_REQUEST", to, Self, sensor, TRUE))
      BY <1>1 DEF UplPoll
    <2>2. Request("HEARTBEAT_REQUEST", to, Self, sensor, TRUE) \in Packet
      BY RequestType DEF TypeOK, Params, Addr, AnyByte
    <2>3. posed \in Seq(Packet)
      BY DEF TypeOK
    <2>4. posed' \in Seq(Packet)
      BY <2>1, <2>2, <2>3, AppendFacts
    <2>5. poll' \in Packet
      BY <2>1, <2>2
    <2>6. QED
      BY <1>1, <2>4, <2>5 DEF TypeOK, UplPoll, comVars
  <1>2. CASE UplSend
    BY <1>2, AppendFacts DEF TypeOK, UplSend, comVars
  <1>3. CASE UplSendTimeout
    BY <1>3 DEF TypeOK, UplSendTimeout, comVars
  <1>4. CASE UplTakeReply
    BY <1>4, TailFacts DEF TypeOK, UplTakeReply, comVars
  <1>5. CASE UplTimeout
    BY <1>5 DEF TypeOK, UplTimeout, comVars
  <1>6. QED
    BY <1>1, <1>2, <1>3, <1>4, <1>5 DEF Sampler

\* Every step keeps the type invariant.
LEMMA NextType == ASSUME TypeOK, [Next]_vars PROVE TypeOK'
  <1>1. CASE ConsoleRequest
    <2>1. PICK to \in Slaves \union {Self}, by \in ConsoleIds, sensor \in AnyByte, ok \in BOOLEAN :
            Accept(Request("SERIAL_REQUEST", to, by, sensor, ok))
      BY <1>1 DEF ConsoleRequest
    <2>2. Request("SERIAL_REQUEST", to, by, sensor, ok) \in Packet
      BY RequestType DEF TypeOK, Params, Addr, AnyByte
    <2>3. QED
      BY <2>1, <2>2, AcceptType
  <1>2. CASE IpmbRequest
    <2>1. PICK sensor \in AnyByte, ok \in BOOLEAN :
            Accept(Request("IPMI_REQUEST", Self, Host, sensor, ok))
      BY <1>2 DEF IpmbRequest
    <2>2. Request("IPMI_REQUEST", Self, Host, sensor, ok) \in Packet
      BY RequestType DEF TypeOK, Params, Addr, AnyByte
    <2>3. QED
      BY <2>1, <2>2, AcceptType
  <1>3. CASE UNCHANGED vars
    BY <1>3 DEF TypeOK, vars, comVars, uplVars
  <1>4. QED
    BY <1>1, <1>2, <1>3, CoreType, WriteType, SlaveType, SamplerType DEF Next

\* The queues never hold more than they were created for, and every message in
\* them is well formed.
THEOREM TypeCorrect == Spec => []TypeOK
  BY InitType, NextType, PTL DEF Spec
----------------------------------------------------------------------------
\* The order of the answers

\* The numbers the messages carry are numbers.
LEMMA Numbers ==
    ASSUME TypeOK
    PROVE  /\ req.no \in Nat /\ res.no \in Nat /\ Len(posed) \in Nat
           /\ \A i \in DOMAIN recvQ : recvQ[i].no \in Nat
           /\ \A i \in DOMAIN respQ : respQ[i].no \in Nat
           /\ \A i \in DOMAIN log : log[i].no \in Nat
           /\ DOMAIN recvQ = 1..Len(recvQ) /\ Len(recvQ) \in Nat
           /\ DOMAIN respQ = 1..Len(respQ) /\ Len(respQ) \in Nat
           /\ DOMAIN log = 1..Len(log) /\ Len(log) \in Nat
  <1>1. \A m \in Packet : m.no \in Nat
    BY DEF Packet
  <1>2. \A q \in Seq(Packet) : DOMAIN q = 1..Len(q) /\ Len(q) \in Nat /\ \A i \in DOMAIN q : q[i] \in Packet
    BY LenProperties, ElementOfSeq
  <1>3. QED
    BY <1>1, <1>2 DEF TypeOK

LEMMA InitOrdered == Init => Ordered
  BY DEF Init, Ordered, RecvOrdered, InHand, BehindHand, RespOrdered, AnswersInOrder, Blank

\* A request posed gets a number above all others.
LEMMA AcceptOrdered ==
    ASSUME TypeOK, Ordered, NEW m \in Packet, m.no = NextNo, Accept(m)
    PROVE  Ordered'
  <1>1. /\ \A i \in DOMAIN recvQ' : \/ i \in DOMAIN recvQ /\ recvQ'[i] = recvQ[i]
                                    \/ i = Len(recvQ) + 1 /\ recvQ'[i] = m
        /\ Len(posed') = Len(posed) + 1
    <2>1. recvQ \in Seq(Packet) /\ posed \in Seq(Packet) /\ Len(recvQ) <= RecvLen
      BY DEF TypeOK
    <2>2. recvQ' = EnqueueFromISR(recvQ, RecvLen, m) /\ posed' = Append(posed, m)
      BY DEF Accept
    <2>3. Len(posed') = Len(posed) + 1
      BY <2>1, <2>2, AppendFacts
    <2>4. QED
      BY <2>1, <2>2, <2>3, EnqueueFacts, QueueLengths
  <1>2. UNCHANGED <<req, res, com, upl, poll, respQ, log>>
    BY DEF Accept, comVars, uplVars
  <1>3. RecvOrdered'
    <2>1. \A i \in DOMAIN recvQ : recvQ[i].no < m.no /\ recvQ[i].no > req.no
      BY Numbers DEF Ordered, RecvOrdered, NextNo
    <2>2. m.no = Len(posed') /\ req'.no < m.no
      BY <1>1, <1>2, Numbers DEF Ordered, RecvOrdered, NextNo
    <2>3. \A i \in DOMAIN recvQ' : recvQ'[i].no > req'.no /\ recvQ'[i].no <= Len(posed')
      BY <1>1, <1>2, <2>1, <2>2, Numbers
    <2>4. \A i, j \in DOMAIN recvQ' : i < j => recvQ'[i].no < recvQ'[j].no
      BY <1>1, <2>1, Numbers DEF Ordered, RecvOrdered
    <2>5. req'.no <= Len(posed')
      BY <1>1, <1>2, Numbers DEF Ordered, RecvOrdered
    <2>6. QED
      BY <2>3, <2>4, <2>5 DEF RecvOrdered
  <1>4. QED
    BY <1>2, <1>3 DEF Ordered, InHand, BehindHand, RespOrdered, AnswersInOrder, IsAnswer

\* MsgCoreHndlr takes the next request in hand.
LEMMA TakeOrdered ==
    ASSUME TypeOK, Ordered, recvQ # <<>>, recvQ' = Tail(recvQ), com = "idle",
           req'.no = Head(recvQ).no, UNCHANGED <<respQ, log, posed>>
    PROVE  RecvOrdered' /\ BehindHand' /\ RespOrdered' /\ AnswersInOrder'
  <1>1. /\ 1 \in DOMAIN recvQ /\ Head(recvQ) = recvQ[1]
        /\ \A i \in DOMAIN recvQ' : i \in Nat /\ i >= 1 /\ i + 1 \in DOMAIN recvQ /\ recvQ'[i] = recvQ[i + 1]
    BY TailFacts DEF TypeOK
  <1>2. RecvOrdered'
    <2>1. req'.no <= Len(posed')
      BY <1>1 DEF Ordered, RecvOrdered
    <2>2. \A i \in DOMAIN recvQ' : recvQ'[i].no > req'.no /\ recvQ'[i].no <= Len(posed')
      <3>1. \A i \in DOMAIN recvQ' : 1 < i + 1
        BY <1>1
      <3>2. QED
        BY <1>1, <3>1, Numbers DEF Ordered, RecvOrdered
    <2>3. \A i, j \in DOMAIN recvQ' : i < j => recvQ'[i].no < recvQ'[j].no
      BY <1>1 DEF Ordered, RecvOrdered
    <2>4. QED
      BY <2>1, <2>2, <2>3 DEF RecvOrdered
  <1>3. req.no < req'.no
    BY <1>1, Numbers DEF Ordered, RecvOrdered
  <1>4. BehindHand'
    <2>1. req'.no \in Nat
      BY <1>1, Numbers
    <2>2. \A i \in DOMAIN respQ : IsAnswer(respQ[i]) => respQ[i].no < req'.no
      BY <1>3, <2>1, Numbers DEF Ordered, BehindHand
    <2>3. \A i \in DOMAIN log : log[i].no < req'.no
      BY <1>3, <2>1, Numbers DEF Ordered, BehindHand
    <2>4. QED
      BY <2>1, <2>2, <2>3, Numbers DEF BehindHand, IsAnswer
  <1>5. QED
    BY <1>2, <1>4 DEF Ordered, RespOrdered, AnswersInOrder, IsAnswer

\* A message put into respQ keeps the order if it is a request, or the answer
\* to the request in hand.
LEMMA PutOrdered ==
    ASSUME TypeOK, Ordered, NEW m \in Packet, respQ' = Append(respQ, m), IsAnswer(m) =>
               m.no = req.no /\ com = "respond" /\ com' = "idle",
           com' # "idle" => com # "idle",
           UNCHANGED <<recvQ, log, posed, req>>
    PROVE  RecvOrdered' /\ BehindHand' /\ RespOrdered' /\ AnswersInOrder'
  <1>1. \A i \in DOMAIN respQ' : \/ i \in DOMAIN respQ /\ respQ'[i] = respQ[i]
                                 \/ i = Len(respQ) + 1 /\ respQ'[i] = m
    <2>1. respQ \in Seq(Packet)
      BY DEF TypeOK
    <2>2. \A i \in DOMAIN Append(respQ, m) : \/ i \in DOMAIN respQ /\ Append(respQ, m)[i] = respQ[i]
                                             \/ i = Len(respQ) + 1 /\ Append(respQ, m)[i] = m
      BY <2>1, AppendFacts, Zenon
    <2>3. QED
      BY <2>2, Zenon
  <1>2. BehindHand'
    <2>1. \A i \in DOMAIN respQ' : IsAnswer(respQ'[i]) =>
            respQ'[i].no <= req.no /\ (com' # "idle" => respQ'[i].no < req.no)
      BY <1>1, Numbers DEF Ordered, BehindHand
    <2>2. \A i \in DOMAIN log : log[i].no <= req.no /\ (com' # "idle" => log[i].no < req.no)
      BY DEF Ordered, BehindHand
    <2>3. QED
      BY <2>1, <2>2 DEF BehindHand, IsAnswer
  <1>3. RespOrdered'
    <2>1. \A i \in DOMAIN log : IsAnswer(m) => log[i].no < m.no
      BY DEF Ordered, BehindHand
    <2>2. \A i \in DOMAIN respQ : IsAnswer(m) /\ IsAnswer(respQ[i]) => respQ[i].no < m.no
      BY DEF Ordered, BehindHand
    <2>3. QED
      BY <1>1, <2>1, <2>2, Numbers DEF Ordered, RespOrdered, IsAnswer
  <1>4. QED
    BY <1>2, <1>3 DEF Ordered, RecvOrdered, AnswersInOrder

\* Nothing moves, and MsgCoreHndlr does not take a request in hand.
LEMMA StayOrdered ==
    ASSUME TypeOK, Ordered, com' # "idle" => com # "idle",
           UNCHANGED <<recvQ, respQ, log, posed, req>>
    PROVE  RecvOrdered' /\ BehindHand' /\ RespOrdered' /\ AnswersInOrder'
  BY DEF Ordered, RecvOrdered, BehindHand, RespOrdered, AnswersInOrder, IsAnswer

LEMMA CoreOrdered == ASSUME TypeOK, Ordered, MsgCoreHndlr PROVE Ordered'
  <1>1. CASE ComDrop \/ ComProcess \/ ComReceiveForward
    <2>1. /\ recvQ # <<>> /\ recvQ' = Tail(recvQ) /\ com = "idle"
          /\ UNCHANGED <<respQ, log, posed, upl, poll>>
      BY <1>1 DEF ComDrop, ComDropTo, ComProcess, ComReceiveForward, Forwardable, ForOther, uplVars
    <2>2. Head(recvQ) \in Packet
      BY <2>1, TailFacts DEF TypeOK
    <2>3. req'.no = Head(recvQ).no
      BY <1>1, <2>2 DEF ComDrop, ComDropTo, ComProcess, ComReceiveForward, Forwardable, ForOther, Packet
    <2>4. InHand'
      <3>1. CASE ComDrop
        BY <3>1 DEF ComDrop, ComDropTo, Ordered, InHand, IsAnswer, uplVars
      <3>2. CASE ComProcess
        BY <3>2, <2>2 DEF ComProcess, SwapIPMIMsgHdr, Ordered, InHand, IsAnswer, uplVars, Packet
      <3>3. CASE ComReceiveForward
        BY <3>3, <2>2 DEF ComReceiveForward, Forwardable, ForOther, Ordered, InHand, IsAnswer, uplVars, Packet
      <3>4. QED
        BY <1>1, <3>1, <3>2, <3>3
    <2>5. QED
      BY <2>1, <2>3, <2>4, TakeOrdered DEF Ordered
  <1>2. CASE ComForward
    <2>1. InHand'
      BY <1>2 DEF ComForward, Ordered, InHand, IsAnswer, uplVars
    <2>2. QED
      BY <1>2, <2>1, PutOrdered DEF ComForward, Ordered, InHand, TypeOK
  <1>3. CASE ComForwardTimeout \/ ComAwaitTimeout \/ ComRespondTimeout
    <2>1. InHand'
      BY <1>3 DEF ComForwardTimeout, ComAwaitTimeout, ComRespondTimeout, Ordered, InHand, IsAnswer, uplVars
    <2>2. QED
      BY <1>3, <2>1, StayOrdered DEF ComForwardTimeout, ComAwaitTimeout, ComRespondTimeout, Ordered
  <1>4. CASE ComTakeReply
    <2>1. Head(fwdQ) \in Packet
      BY <1>4, TailFacts DEF ComTakeReply, TypeOK
    <2>2. InHand'
      BY <1>4, <2>1 DEF ComTakeReply, Ordered, InHand, IsAnswer, uplVars, Packet
    <2>3. QED
      BY <1>4, <2>2, StayOrdered DEF ComTakeReply, Ordered
  <1>5. CASE ComRespond
    <2>1. InHand'
      BY <1>5 DEF ComRespond, Ordered, InHand, IsAnswer, uplVars
    <2>2. QED
      BY <1>5, <2>1, PutOrdered DEF ComRespond, Ordered, InHand, TypeOK
  <1>6. QED
    BY <1>1, <1>2, <1>3, <1>4, <1>5 DEF MsgCoreHndlr

LEMMA WriteOrdered == ASSUME TypeOK, Ordered, ResponseDatWrite PROVE Ordered'
  <1>1. /\ 1 \in DOMAIN respQ /\ Head(respQ) = respQ[1] /\ Head(respQ) \in Packet
        /\ \A i \in DOMAIN respQ' : i \in Nat /\ i >= 1 /\ i + 1 \in DOMAIN respQ /\ respQ'[i] = respQ[i + 1]
    BY TailFacts DEF TypeOK, ResponseDatWrite
  <1>2. UNCHANGED <<recvQ, com, req, res, upl, poll, posed>>
    BY DEF ResponseDatWrite, comVars, uplVars
  <1>3. RecvOrdered' /\ InHand'
    BY <1>2 DEF Ordered, RecvOrdered, InHand, IsAnswer
  <1>4. \A i, j \in DOMAIN respQ' :
          i < j /\ IsAnswer(respQ'[i]) /\ IsAnswer(respQ'[j]) => respQ'[i].no < respQ'[j].no
    BY <1>1 DEF Ordered, RespOrdered
  <1>5. CASE log' = log
    <2>1. BehindHand'
      BY <1>1, <1>2, <1>5 DEF Ordered, BehindHand, IsAnswer
    <2>2. RespOrdered'
      BY <1>1, <1>4, <1>5 DEF Ordered, RespOrdered, IsAnswer
    <2>3. QED
      BY <1>3, <1>5, <2>1, <2>2 DEF Ordered, AnswersInOrder
  <1>6. CASE IsAnswer(Head(respQ)) /\ log' = Append(log, Head(respQ))
    <2>1. \A i \in DOMAIN log' : \/ i \in DOMAIN log /\ log'[i] = log[i]
                                 \/ i = Len(log) + 1 /\ log'[i] = respQ[1]
      <3>1. log \in Seq(Packet)
        BY DEF TypeOK
      <3>2. \A i \in DOMAIN Append(log, Head(respQ)) :
              \/ i \in DOMAIN log /\ Append(log, Head(respQ))[i] = log[i]
              \/ i = Len(log) + 1 /\ Append(log, Head(respQ))[i] = Head(respQ)
        BY <1>1, <3>1, AppendFacts
      <3>3. QED
        BY <1>1, <1>6, <3>2, Zenon
    <2>2. BehindHand'
      BY <1>1, <1>2, <1>6, <2>1 DEF Ordered, BehindHand, IsAnswer
    <2>3. \A j \in DOMAIN respQ' : IsAnswer(respQ'[j]) => respQ[1].no < respQ'[j].no
      <3>1. \A j \in DOMAIN respQ' : 1 < j + 1
        BY <1>1
      <3>2. QED
        BY <1>1, <1>6, <3>1 DEF Ordered, RespOrdered
    <2>4. \A i \in DOMAIN log, j \in DOMAIN respQ' : IsAnswer(respQ'[j]) => log[i].no < respQ'[j].no
      BY <1>1 DEF Ordered, RespOrdered
    <2>5. RespOrdered'
      BY <1>4, <2>1, <2>3, <2>4 DEF RespOrdered, IsAnswer
    <2>6. \A i \in DOMAIN log : log[i].no < respQ[1].no
      BY <1>1, <1>6 DEF Ordered, RespOrdered
    <2>7. AnswersInOrder'
      BY <2>1, <2>6, Numbers DEF Ordered, AnswersInOrder
    <2>8. QED
      BY <1>3, <2>2, <2>5, <2>7 DEF Ordered
  <1>7. QED
    BY <1>5, <1>6 DEF ResponseDatWrite

LEMMA SamplerOrdered == ASSUME TypeOK, Ordered, Sampler PROVE Ordered'
  <1>1. CASE UplPoll
    <2>1. poll'.param = "HEARTBEAT_REQUEST" /\ Len(posed') = Len(posed) + 1
      BY <1>1, AppendProperties DEF TypeOK, UplPoll, Request
    <2>2. InHand'
      BY <1>1, <2>1 DEF UplPoll, Ordered, InHand, IsAnswer, comVars
    <2>3. UNCHANGED <<recvQ, req>>
      BY <1>1 DEF UplPoll, comVars
    <2>4. RecvOrdered'
      BY <2>1, <2>3, Numbers DEF Ordered, RecvOrdered
    <2>5. QED
      BY <1>1, <2>2, <2>4 DEF UplPoll, Ordered, BehindHand, RespOrdered, AnswersInOrder, IsAnswer, comVars
  <1>2. CASE UplSend
    <2>1. InHand'
      BY <1>2 DEF UplSend, Ordered, InHand, IsAnswer, comVars
    <2>2. QED
      BY <1>2, <2>1, PutOrdered DEF UplSend, Ordered, InHand, TypeOK, comVars
  <1>3. CASE UplSendTimeout \/ UplTakeReply \/ UplTimeout
    <2>1. InHand'
      BY <1>3 DEF UplSendTimeout, UplTakeReply, UplTimeout, Ordered, InHand, IsAnswer, comVars
    <2>2. QED
      BY <1>3, <2>1, StayOrdered DEF UplSendTimeout, UplTakeReply, UplTimeout, Ordered, comVars
  <1>4. QED
    BY <1>1, <1>2, <1>3 DEF Sampler

\* Every step keeps the order.
LEMMA NextOrdered == ASSUME TypeOK, Ordered, [Next]_vars PROVE Ordered'
  <1>1. CASE ConsoleRequest
    <2>1. PICK to \in Slaves \union {Self}, by \in ConsoleIds, sensor \in AnyByte, ok \in BOOLEAN :
            Accept(Request("SERIAL_REQUEST", to, by, sensor, ok))
      BY <1>1 DEF ConsoleRequest
    <2>2. Request("SERIAL_REQUEST", to, by, sensor, ok) \in Packet
      BY RequestType DEF TypeOK, Params, Addr, AnyByte
    <2>3. QED
      BY <2>1, <2>2, AcceptOrdered DEF Request
  <1>2. CASE IpmbRequest
    <2>1. PICK sensor \in AnyByte, ok \in BOOLEAN :
            Accept(Request("IPMI_REQUEST", Self, Host, sensor, ok))
      BY <1>2 DEF IpmbRequest
    <2>2. Request("IPMI_REQUEST", Self, Host, sensor, ok) \in Packet
      BY RequestType DEF TypeOK, Params, Addr, AnyByte
    <2>3. QED
      BY <2>1, <2>2, AcceptOrdered DEF Request
  <1>3. CASE \E m \in bus : SlaveReply(m) \/ SlaveSilent(m)
    BY <1>3 DEF Ordered, RecvOrdered, InHand, BehindHand, RespOrdered, AnswersInOrder, IsAnswer,
                SlaveReply, SlaveSilent, comVars, uplVars
  <1>4. CASE UNCHANGED vars
    BY <1>4 DEF Ordered, RecvOrdered, InHand, BehindHand, RespOrdered, AnswersInOrder, IsAnswer,
                vars, comVars, uplVars
  <1>5. QED
    BY <1>1, <1>2, <1>3, <1>4, CoreOrdered, WriteOrdered, SamplerOrdered DEF Next

\* No request is answered twice and no answer overtakes another.
THEOREM OrderCorrect == Spec => []AnswersInOrder
  <1>1. Init => TypeOK /\ Ordered
    BY InitType, InitOrdered
  <1>2. TypeOK /\ Ordered /\ [Next]_vars => TypeOK' /\ Ordered'
    BY NextType, NextOrdered
  <1>3. TypeOK /\ Ordered => AnswersInOrder
    BY DEF Ordered
  <1>4. QED
    BY <1>1, <1>2, <1>3, PTL DEF Spec
----------------------------------------------------------------------------
\* What answers and readings are made of

\* The requests posed keep their numbers.
PosedKept == \A n \in DOMAIN posed : n \in DOMAIN posed' /\ posed'[n] = posed[n]

LEMMA PosedGrows ==
    ASSUME TypeOK, NEW m \in Packet, posed' = Append(posed, m)
    PROVE  PosedKept /\ NextNo \in DOMAIN posed' /\ posed'[NextNo] = m
  <1>1. posed \in Seq(Packet)
    BY DEF TypeOK
  <1>2. QED
    BY <1>1, AppendFacts DEF PosedKept, NextNo

\* What a step does not touch stays traced.
LEMMA KeepTraced ==
    ASSUME Traced, PosedKept
    PROVE  /\ recvQ' = recvQ => RecvTraced'
           /\ UNCHANGED <<com, req, res, upl, poll>> => HandTraced'
           /\ respQ' = respQ => RespTraced'
           /\ UNCHANGED <<bus, fwdQ>> => WireTraced'
           /\ log' = log => AnswerGoesToAsker'
           /\ reading' = reading => ReadingGenuine'
  <1>1. recvQ' = recvQ => RecvTraced'
    BY DEF Traced, PosedKept, RecvTraced, Asked
  <1>2. UNCHANGED <<com, req, res, upl, poll>> => HandTraced'
    BY DEF Traced, PosedKept, HandTraced, Asked, ForAsker
  <1>3. respQ' = respQ => RespTraced'
    BY DEF Traced, PosedKept, RespTraced, Asked, ForAsker, IsAnswer
  <1>4. UNCHANGED <<bus, fwdQ>> => WireTraced'
    BY DEF Traced, PosedKept, WireTraced, Asked, Replied
  <1>5. log' = log => AnswerGoesToAsker'
    BY DEF Traced, PosedKept, AnswerGoesToAsker
  <1>6. reading' = reading => ReadingGenuine'
    BY DEF Traced, PosedKept, ReadingGenuine
  <1>7. QED
    BY <1>1, <1>2, <1>3, <1>4, <1>5, <1>6

LEMMA InitTraced == Init => Traced
  BY DEF Init, Traced, RecvTraced, HandTraced, RespTraced, WireTraced,
         AnswerGoesToAsker, ReadingGenuine, Blank

LEMMA AcceptTraced ==
    ASSUME TypeOK, Traced, NEW m \in Packet, m.no = NextNo, m.src = NextNo, Accept(m)
    PROVE  Traced'
  <1>1. PosedKept /\ NextNo \in DOMAIN posed' /\ posed'[NextNo] = m
    BY PosedGrows DEF Accept
  <1>2. \A i \in DOMAIN recvQ' : \/ i \in DOMAIN recvQ /\ recvQ'[i] = recvQ[i]
                                 \/ i = Len(recvQ) + 1 /\ recvQ'[i] = m
    <2>1. recvQ \in Seq(Packet) /\ Len(recvQ) <= RecvLen
      BY DEF TypeOK
    <2>2. recvQ' = EnqueueFromISR(recvQ, RecvLen, m)
      BY DEF Accept
    <2>3. QED
      BY <2>1, <2>2, EnqueueFacts, QueueLengths
  <1>3. RecvTraced'
    BY <1>1, <1>2 DEF Traced, RecvTraced, PosedKept, Asked
  <1>4. QED
    BY <1>1, <1>3, KeepTraced DEF Accept, comVars, uplVars, Traced

\* A message put into respQ.
LEMMA PutTraced ==
    ASSUME TypeOK, Traced, NEW m \in Packet, respQ' = Append(respQ, m), posed' = posed,
           ForAsker(m), ~IsAnswer(m) => Asked(m)
    PROVE  RespTraced'
  <1>1. \A i \in DOMAIN respQ' : \/ i \in DOMAIN respQ /\ respQ'[i] = respQ[i]
                                 \/ i = Len(respQ) + 1 /\ respQ'[i] = m
    <2>1. respQ \in Seq(Packet)
      BY DEF TypeOK
    <2>2. QED
      BY <2>1, AppendFacts
  <1>2. QED
    BY <1>1 DEF Traced, RespTraced, ForAsker, Asked, IsAnswer

\* MsgCoreHndlr: a request taken in hand is the one posed under its number.
LEMMA CoreTraced == ASSUME TypeOK, Ordered, Traced, MsgCoreHndlr PROVE Traced'
  <1>0. /\ PosedKept /\ posed' = posed
        /\ UNCHANGED <<upl, poll, reading, bus, log>>
    BY DEF PosedKept, MsgCoreHndlr, ComDrop, ComDropTo, ComProcess, ComReceiveForward, Forwardable, ForOther, ComForward, ComForwardTimeout,
           ComTakeReply, ComAwaitTimeout, ComRespond, ComRespondTimeout, uplVars
  <1>1. AnswerGoesToAsker' /\ ReadingGenuine'
    BY <1>0, KeepTraced
  <1>2. CASE ComDrop \/ ComProcess \/ ComReceiveForward
    <2>1. recvQ # <<>> /\ recvQ' = Tail(recvQ) /\ respQ' = respQ /\ fwdQ' = fwdQ /\ com = "idle"
      BY <1>2 DEF ComDrop, ComDropTo, ComProcess, ComReceiveForward, Forwardable, ForOther
    <2>2. /\ 1 \in DOMAIN recvQ /\ Head(recvQ) = recvQ[1] /\ Head(recvQ) \in Packet
          /\ \A i \in DOMAIN recvQ' : i \in Nat /\ i >= 1 /\ i + 1 \in DOMAIN recvQ /\ recvQ'[i] = recvQ[i + 1]
      BY <2>1, TailFacts DEF TypeOK
    <2>3. RecvTraced'
      BY <1>0, <2>2 DEF Traced, RecvTraced, Asked
    <2>4. /\ Asked(Head(recvQ))
          /\ Head(recvQ).no \in DOMAIN posed /\ posed[Head(recvQ).no] = Head(recvQ)
      BY <2>2 DEF Traced, RecvTraced
    <2>5. HandTraced'
      <3>1. CASE ComDrop
        BY <3>1, <2>1, <1>0 DEF ComDrop, ComDropTo, Traced, HandTraced, Asked, uplVars
      <3>2. CASE ComProcess
        <4>1. ForAsker(res')
          BY <3>2, <2>2, <2>4 DEF ComProcess, SwapIPMIMsgHdr, ForAsker, Packet
        <4>2. QED
          BY <3>2, <4>1, <1>0 DEF ComProcess, Traced, HandTraced, Asked, ForAsker, uplVars
      <3>3. CASE ComReceiveForward
        <4>1. Asked(req')
          BY <3>3, <2>2, <2>4 DEF ComReceiveForward, Forwardable, ForOther, Asked, Packet
        <4>2. QED
          BY <3>3, <4>1, <1>0 DEF ComReceiveForward, Forwardable, ForOther, Traced, HandTraced, Asked, uplVars
      <3>4. QED
        BY <1>2, <3>1, <3>2, <3>3
    <2>6. QED
      BY <1>0, <1>1, <2>1, <2>3, <2>5, KeepTraced DEF Traced
  <1>3. CASE ComForward
    <2>1. RespTraced'
      <3>1. ForAsker(req) /\ Asked(req)
        BY <1>3 DEF ComForward, Traced, HandTraced, Ordered, InHand, IsAnswer, ForAsker
      <3>2. QED
        BY <1>3, <1>0, <3>1, PutTraced DEF ComForward, TypeOK
    <2>2. HandTraced'
      BY <1>3, <1>0 DEF ComForward, Traced, HandTraced, Asked, uplVars
    <2>3. QED
      BY <1>3, <1>0, <1>1, <2>1, <2>2, KeepTraced DEF ComForward, Traced
  <1>4. CASE ComForwardTimeout \/ ComAwaitTimeout \/ ComRespondTimeout
    <2>1. HandTraced' /\ UNCHANGED <<recvQ, respQ, fwdQ>>
      BY <1>4, <1>0 DEF ComForwardTimeout, ComAwaitTimeout, ComRespondTimeout, Traced, HandTraced, Asked, uplVars
    <2>2. QED
      BY <1>0, <1>1, <2>1, KeepTraced DEF Traced
  <1>5. CASE ComTakeReply
    <2>1. /\ fwdQ # <<>> /\ fwdQ' = Tail(fwdQ)
          /\ UNCHANGED <<recvQ, respQ>>
      BY <1>5 DEF ComTakeReply
    <2>2. /\ Head(fwdQ) \in Packet
          /\ \A i \in DOMAIN fwdQ' : i + 1 \in DOMAIN fwdQ /\ fwdQ'[i] = fwdQ[i + 1]
      BY <2>1, TailFacts DEF TypeOK
    <2>3. WireTraced'
      BY <1>0, <2>2 DEF Traced, WireTraced, Asked, Replied
    <2>4. HandTraced'
      BY <1>5, <1>0, <2>2 DEF ComTakeReply, Traced, HandTraced, Asked, ForAsker, uplVars, Packet
    <2>5. QED
      BY <1>0, <1>1, <2>1, <2>3, <2>4, KeepTraced DEF Traced
  <1>6. CASE ComRespond
    <2>1. RespTraced'
      <3>1. ForAsker(res) /\ IsAnswer(res)
        BY <1>6 DEF ComRespond, Traced, HandTraced, Ordered, InHand
      <3>2. QED
        BY <1>6, <1>0, <3>1, PutTraced DEF ComRespond, TypeOK
    <2>2. HandTraced'
      BY <1>6, <1>0 DEF ComRespond, Traced, HandTraced, Asked, uplVars
    <2>3. QED
      BY <1>6, <1>0, <1>1, <2>1, <2>2, KeepTraced DEF ComRespond, Traced
  <1>7. QED
    BY <1>2, <1>3, <1>4, <1>5, <1>6 DEF MsgCoreHndlr

LEMMA WriteTraced == ASSUME TypeOK, Traced, ResponseDatWrite PROVE Traced'
  <1>1. /\ Head(respQ) = respQ[1] /\ 1 \in DOMAIN respQ /\ Head(respQ) \in Packet
        /\ \A i \in DOMAIN respQ' : i + 1 \in DOMAIN respQ /\ respQ'[i] = respQ[i + 1]
    BY TailFacts DEF TypeOK, ResponseDatWrite
  <1>2. /\ posed' = posed /\ PosedKept /\ fwdQ' = fwdQ
        /\ UNCHANGED <<recvQ, com, req, res, upl, poll, reading>>
    BY DEF ResponseDatWrite, comVars, uplVars, PosedKept
  <1>3. RespTraced'
    BY <1>1, <1>2 DEF Traced, RespTraced, ForAsker, Asked, IsAnswer
  <1>4. WireTraced'
    <2>1. \A m \in bus' : m \in bus \/ (m = Head(respQ) /\ ~IsAnswer(Head(respQ)))
      BY DEF ResponseDatWrite
    <2>2. QED
      BY <1>1, <1>2, <2>1 DEF Traced, RespTraced, WireTraced, Asked, Replied
  <1>5. AnswerGoesToAsker'
    <2>1. CASE log' = log
      BY <2>1, <1>2, KeepTraced
    <2>2. CASE log' = Append(log, Head(respQ))
      <3>1. \A i \in DOMAIN log' : \/ i \in DOMAIN log /\ log'[i] = log[i]
                                   \/ i = Len(log) + 1 /\ log'[i] = respQ[1]
        <4>1. log \in Seq(Packet)
          BY DEF TypeOK
        <4>2. QED
          BY <1>1, <2>2, <4>1, AppendFacts
      <3>2. ForAsker(respQ[1])
        BY <1>1 DEF Traced, RespTraced
      <3>3. QED
        BY <1>2, <3>1, <3>2 DEF Traced, AnswerGoesToAsker, ForAsker
    <2>3. QED
      BY <2>1, <2>2 DEF ResponseDatWrite
  <1>6. QED
    BY <1>2, <1>3, <1>4, <1>5, KeepTraced DEF Traced

LEMMA SlaveTraced ==
    ASSUME TypeOK, Traced, NEW m \in bus, SlaveReply(m) \/ SlaveSilent(m)
    PROVE  Traced'
  <1>1. /\ posed' = posed /\ PosedKept /\ bus' = bus \ {m}
        /\ UNCHANGED <<recvQ, com, req, res, upl, poll, reading, respQ, log>>
    BY DEF SlaveReply, SlaveSilent, comVars, uplVars, PosedKept
  <1>2. \A i \in DOMAIN fwdQ' : Replied(fwdQ'[i])
    <2>1. CASE fwdQ' = fwdQ
      BY <2>1 DEF Traced, WireTraced
    <2>2. CASE fwdQ' # fwdQ
      <3>1. PICK ok \in BOOLEAN, byte \in SensorByte(m) :
              fwdQ' = EnqueueFromISR(fwdQ, FwdLen,
                        [m EXCEPT !.param = "IPMI_REQUEST", !.to = Self, !.by = m.to,
                                  !.sensor = byte, !.ok = ok])
        BY <2>2 DEF SlaveReply, SlaveSilent
      <3> DEFINE r == [m EXCEPT !.param = "IPMI_REQUEST", !.to = Self, !.by = m.to,
                                !.sensor = byte, !.ok = ok]
      <3>2. /\ r \in Packet /\ r.src = m.src /\ r.by = m.to
            /\ m.sensor \in {r.sensor, NoSensor}
        BY DEF TypeOK, Packet, Params, Addr, AnyByte, SensorByte
      <3>3. Asked(m)
        BY DEF Traced, WireTraced
      <3>4. Replied(r)
        BY <3>2, <3>3 DEF Asked, Replied
      <3>5. fwdQ \in Seq(Packet) /\ Len(fwdQ) <= FwdLen /\ FwdLen \in Nat
        BY QueueLengths DEF TypeOK
      <3> HIDE DEF r
      <3>6. fwdQ' = EnqueueFromISR(fwdQ, FwdLen, r)
        BY <3>1 DEF r
      <3>7. QED
        BY <3>2, <3>4, <3>5, <3>6, EnqueueFacts DEF Traced, WireTraced
    <2>3. QED
      BY <2>1, <2>2
  <1>3. WireTraced'
    BY <1>1, <1>2 DEF Traced, WireTraced, Asked, Replied
  <1>4. QED
    BY <1>1, <1>3, KeepTraced DEF Traced

LEMMA SamplerTraced == ASSUME TypeOK, Ordered, Traced, Sampler PROVE Traced'
  <1>1. CASE UplPoll
    <2>1. PICK to \in Slaves, sensor \in Sensors :
            /\ poll' = Request("HEARTBEAT_REQUEST", to, Self, sensor, TRUE)
            /\ posed' = Append(posed, Request("HEARTBEAT_REQUEST", to, Self, sensor, TRUE))
      BY <1>1 DEF UplPoll
    <2>2. poll' \in Packet
      BY <2>1, RequestType DEF TypeOK, Params, Addr, AnyByte
    <2>3. PosedKept /\ NextNo \in DOMAIN posed' /\ posed'[NextNo] = poll'
      BY <2>1, <2>2, PosedGrows
    <2>4. poll'.src = NextNo
      BY <2>1 DEF Request
    <2>5. UNCHANGED <<recvQ, respQ, fwdQ, com, req, res, reading, bus, log>>
      BY <1>1 DEF UplPoll, comVars
    <2>6. HandTraced'
      BY <2>3, <2>4, <2>5 DEF Traced, HandTraced, Asked, ForAsker, PosedKept
    <2>7. QED
      BY <2>3, <2>5, <2>6, KeepTraced DEF Traced
  <1>2. CASE UplSend
    <2>1. PosedKept /\ posed' = posed /\ UNCHANGED <<recvQ, fwdQ, com, req, res, poll, reading, bus, log>>
      BY <1>2 DEF UplSend, PosedKept, comVars
    <2>2. RespTraced'
      <3>1. ForAsker(poll) /\ Asked(poll)
        BY <1>2 DEF UplSend, Traced, HandTraced, Ordered, InHand, IsAnswer, ForAsker
      <3>2. QED
        BY <1>2, <2>1, <3>1, PutTraced DEF UplSend, TypeOK
    <2>3. HandTraced'
      BY <1>2, <2>1 DEF UplSend, Traced, HandTraced, Asked, ForAsker
    <2>4. QED
      BY <2>1, <2>2, <2>3, KeepTraced DEF Traced
  <1>3. CASE UplSendTimeout \/ UplTimeout
    <2>1. PosedKept /\ posed' = posed /\ UNCHANGED <<recvQ, respQ, fwdQ, com, req, res, poll, reading, bus, log>>
      BY <1>3 DEF UplSendTimeout, UplTimeout, PosedKept, comVars
    <2>2. HandTraced'
      BY <1>3, <2>1 DEF UplSendTimeout, UplTimeout, Traced, HandTraced, Asked, ForAsker
    <2>3. QED
      BY <2>1, <2>2, KeepTraced DEF Traced
  <1>4. CASE UplTakeReply
    <2>1. PosedKept /\ posed' = posed /\ UNCHANGED <<recvQ, respQ, com, req, res, poll, bus, log>>
      BY <1>4 DEF UplTakeReply, PosedKept, comVars
    <2>2. /\ 1 \in DOMAIN fwdQ /\ Head(fwdQ) = fwdQ[1]
          /\ \A i \in DOMAIN fwdQ' : i + 1 \in DOMAIN fwdQ /\ fwdQ'[i] = fwdQ[i + 1]
      BY <1>4, TailFacts DEF TypeOK, UplTakeReply
    <2>3. WireTraced'
      BY <2>1, <2>2 DEF Traced, WireTraced, Asked, Replied
    <2>4. HandTraced'
      BY <1>4, <2>1 DEF UplTakeReply, Traced, HandTraced, Asked, ForAsker
    <2>5. ReadingGenuine'
      <3>1. CASE reading' = reading
        BY <2>1, <3>1, KeepTraced
      <3>2. CASE Matches(Head(fwdQ)) /\ reading' = <<poll, Head(fwdQ)>>
        BY <2>1, <2>2, <3>2 DEF Traced, WireTraced, Replied, Matches, ReadingGenuine
      <3>3. QED
        BY <1>4, <3>1, <3>2 DEF UplTakeReply
    <2>6. QED
      BY <2>1, <2>3, <2>4, <2>5, KeepTraced DEF Traced
  <1>5. QED
    BY <1>1, <1>2, <1>3, <1>4 DEF Sampler

LEMMA NextTraced == ASSUME TypeOK, Ordered, Traced, [Next]_vars PROVE Traced'
  <1>1. CASE ConsoleRequest
    <2>1. PICK to \in Slaves \union {Self}, by \in ConsoleIds, sensor \in AnyByte, ok \in BOOLEAN :
            Accept(Request("SERIAL_REQUEST", to, by, sensor, ok))
      BY <1>1 DEF ConsoleRequest
    <2>2. Request("SERIAL_REQUEST", to, by, sensor, ok) \in Packet
      BY RequestType DEF TypeOK, Params, Addr, AnyByte
    <2>3. QED
      BY <2>1, <2>2, AcceptTraced DEF Request
  <1>2. CASE IpmbRequest
    <2>1. PICK sensor \in AnyByte, ok \in BOOLEAN :
            Accept(Request("IPMI_REQUEST", Self, Host, sensor, ok))
      BY <1>2 DEF IpmbRequest
    <2>2. Request("IPMI_REQUEST", Self, Host, sensor, ok) \in Packet
      BY RequestType DEF TypeOK, Params, Addr, AnyByte
    <2>3. QED
      BY <2>1, <2>2, AcceptTraced DEF Request
  <1>3. CASE UNCHANGED vars
    BY <1>3, KeepTraced DEF vars, comVars, uplVars, PosedKept, Traced
  <1>4. QED
    BY <1>1, <1>2, <1>3, CoreTraced, WriteTraced, SlaveTraced, SamplerTraced DEF Next

\* The inductive invariant holds in every reachable state.
THEOREM InductiveInvariant == Spec => []IInv
  <1>1. Init => IInv
    BY InitType, InitOrdered, InitTraced DEF IInv
  <1>2. IInv /\ [Next]_vars => IInv'
    BY NextType, NextOrdered, NextTraced DEF IInv
  <1>3. QED
    BY <1>1, <1>2, PTL DEF Spec

\* An answer on IPMB goes to the master that asked, about what it asked.
THEOREM AskerCorrect == Spec => []AnswerGoesToAsker
  <1>1. IInv => AnswerGoesToAsker
    BY DEF IInv, Traced
  <1>2. QED
    BY <1>1, InductiveInvariant, PTL

\* A reading is recorded only from an answer of the polled board, about the
\* polled sensor unless the answer is to a command of another kind.
THEOREM ReadingCorrect == Spec => []ReadingGenuine
  <1>1. IInv => ReadingGenuine
    BY DEF IInv, Traced
  <1>2. QED
    BY <1>1, InductiveInvariant, PTL

=============================================================================
