--------------------------- MODULE I2cSlaveRxProofs ---------------------------
(***************************************************************************)
(* Proofs about I2cSlaveRx for every number of buses and messages of every *)
(* length, on all buses at once: first what holds of any mix of messages,  *)
(* then what holds of a message that is alone in the buffer.               *)
(***************************************************************************)
EXTENDS I2cSlaveRx, SequenceTheorems, TLAPS

----------------------------------------------------------------------------
\* The first bytes of a message.

LEMMA ByteType ==
  ASSUME NEW m \in Message, NEW i \in Nat
  PROVE  Byte(m, i) \in Bytes /\ Byte(m, i) # Empty /\ (i > 0 => Byte(m, i)[1] = m)
  BY RxConstants DEF RxConstants, Byte, Bytes, Empty

LEMMA PrefixType ==
  ASSUME NEW m \in Message, NEW k \in Nat
  PROVE  /\ Prefix(m, k) \in Seq(Bytes) /\ Len(Prefix(m, k)) = k
         /\ \A i \in 1..k : Prefix(m, k)[i] = Byte(m, i - 1)
<1>1. \A i \in 1..k : Byte(m, i - 1) \in Bytes
  <2> SUFFICES ASSUME NEW i \in 1..k PROVE Byte(m, i - 1) \in Bytes
    OBVIOUS
  <2>1. i - 1 \in Nat
    OBVIOUS
  <2> QED
    BY <2>1, ByteType
<1> DEFINE q == [i \in 1..k |-> Byte(m, i - 1)]
<1>2. q \in [1..k -> Bytes]
  BY <1>1
<1>3. q \in Seq(Bytes) /\ Len(q) = k
  <2>1. PICK s \in [1..k -> Bytes] : s = q
    BY <1>2
  <2>2. s \in Seq(Bytes) /\ Len(s) = k
    BY <2>1
  <2> QED
    BY <2>1, <2>2
<1>4. \A i \in 1..k : q[i] = Byte(m, i - 1)
  OBVIOUS
<1>5. Prefix(m, k) = q
  BY DEF Prefix
<1> HIDE DEF q
<1> QED
  BY <1>3, <1>4, <1>5

LEMMA PrefixNext ==
  ASSUME NEW m \in Message, NEW k \in Nat
  PROVE  Append(Prefix(m, k), Byte(m, k)) = Prefix(m, k + 1)
<1> DEFINE p == Prefix(m, k)
           q == Prefix(m, k + 1)
           x == Byte(m, k)
<1>1. p \in Seq(Bytes) /\ Len(p) = k /\ (\A i \in 1..k : p[i] = Byte(m, i - 1)) /\ x \in Bytes
  BY PrefixType, ByteType
<1>2. q \in Seq(Bytes) /\ Len(q) = k + 1 /\ \A i \in 1..(k + 1) : q[i] = Byte(m, i - 1)
  BY PrefixType
<1>3. q[k + 1] = x /\ \A i \in 1..k : q[i] = p[i]
  BY <1>1, <1>2
<1> HIDE DEF p, q, x
<1>4. /\ Append(p, x) \in Seq(Bytes) /\ Len(Append(p, x)) = k + 1
      /\ Append(p, x)[k + 1] = x /\ \A i \in 1..k : Append(p, x)[i] = p[i]
  BY <1>1
<1>5. Append(p, x) = q
  BY <1>2, <1>3, <1>4
<1> QED
  BY <1>5 DEF p, q, x

LEMMA PrefixOne ==
  ASSUME NEW m \in Message
  PROVE  Prefix(m, 1) = <<<<BusOf[m], 0>>>>
<1> DEFINE q == Prefix(m, 1)
<1>1. q \in Seq(Bytes) /\ Len(q) = 1 /\ \A i \in 1..1 : q[i] = Byte(m, i - 1)
  BY PrefixType
<1>2. q[1] = <<BusOf[m], 0>>
  BY <1>1 DEF Byte
<1>4. <<BusOf[m], 0>> \in Bytes
  BY RxConstants DEF RxConstants, Bytes
<1> HIDE DEF q
<1>3. q = <<<<BusOf[m], 0>>>>
  <2>1. <<<<BusOf[m], 0>>>> \in Seq(Bytes) /\ Len(<<<<BusOf[m], 0>>>>) = 1
        /\ <<<<BusOf[m], 0>>>>[1] = <<BusOf[m], 0>>
    BY <1>4
  <2> QED
    BY <1>1, <1>2, <2>1, SeqEqual
<1> QED
  BY <1>3 DEF q

----------------------------------------------------------------------------
\* Any mix of messages.

QueueType == [channel : Buses \union {NoBus}, data : Seq(Bytes)]

\* The buffer and the queues of a board that starts.
LEMMA EmptyBuffered ==
  ASSUME data' = <<>>, box' = [q \in Queues |-> <<>>]
  PROVE  Buffered'
<1>1. <<>> \in Seq(Bytes) /\ <<>> \in Seq(QueueType) /\ Len(<<>>) = 0
  OBVIOUS
<1>2. Capacity \in Nat /\ QueueLength \in Nat
  BY RxConstants DEF RxConstants
<1> QED
  BY <1>1, <1>2 DEF Buffered, QueueType

\* A queue that gets one more message, of those that belong there.
LEMMA QueuedRouted ==
  ASSUME MixedInv, NEW q \in Queues, NEW p \in QueueType, Routed(p, q), Len(box[q]) < QueueLength,
         box' = [box EXCEPT ![q] = Append(@, p)]
  PROVE  /\ box' \in [Queues -> Seq(QueueType)]
         /\ \A r \in Queues : Len(box'[r]) <= QueueLength /\ \A i \in DOMAIN box'[r] : Routed(box'[r][i], r)
<1>1. /\ box \in [Queues -> Seq(QueueType)] /\ QueueLength \in Nat
      /\ \A r \in Queues : Len(box[r]) <= QueueLength /\ \A i \in DOMAIN box[r] : Routed(box[r][i], r)
  BY RxConstants DEF MixedInv, Senders, Buffered, QueueType, RxConstants
<1> DEFINE s == Append(box[q], p)
<1>2. /\ s \in Seq(QueueType) /\ Len(s) = Len(box[q]) + 1
      /\ s[Len(box[q]) + 1] = p
      /\ \A i \in 1..Len(box[q]) : s[i] = box[q][i]
      /\ Len(box[q]) \in Nat /\ DOMAIN s = 1..(Len(box[q]) + 1) /\ DOMAIN box[q] = 1..Len(box[q])
  BY <1>1
<1>3. \A i \in DOMAIN s : Routed(s[i], q)
  <2> SUFFICES ASSUME NEW i \in DOMAIN s PROVE Routed(s[i], q)
    OBVIOUS
  <2>1. CASE i = Len(box[q]) + 1
    BY <1>2, <2>1
  <2>2. CASE i \in 1..Len(box[q])
    BY <1>1, <1>2, <2>2
  <2> QED
    BY <1>2, <2>1, <2>2
<1>4. Len(s) <= QueueLength
  BY <1>1, <1>2
<1> HIDE DEF s
<1>5. box' = [box EXCEPT ![q] = s]
  BY DEF s
<1>6. box' \in [Queues -> Seq(QueueType)]
  BY <1>1, <1>2, <1>5
<1>7. \A r \in Queues : box'[r] = IF r = q THEN s ELSE box[r]
  BY <1>1, <1>5
<1> QED
  BY <1>1, <1>3, <1>4, <1>6, <1>7

\* The buffer gets one more byte, if it has room for it.
LEMMA ReceivedMixed ==
  ASSUME MixedInv, NEW b \in Buses, Received(b)
  PROVE  MixedInv'
<1>1. CASE UNCHANGED <<data, dr>>
  BY <1>1 DEF MixedInv, Senders, Buffered, Received, Routed, line
<1>2. CASE Len(data) + 1 <= Capacity /\ data' = Append(data, dr[b]) /\ dr' = [dr EXCEPT ![b] = Empty]
  <2>1. /\ dr \in [Buses -> {Empty} \union (Message \X Nat)] /\ dr[b] # Empty /\ data \in Seq(Bytes)
        /\ \A i \in 2..Len(data) : data[i] \in Message \X Nat
    BY DEF MixedInv, Senders, Buffered, Received
  <2>2. dr[b] \in Message \X Nat /\ dr[b] \in Bytes
    BY <2>1 DEF Bytes
  <2>3. dr' \in [Buses -> {Empty} \union (Message \X Nat)]
    BY <1>2, <2>1
  <2> DEFINE x == dr[b]
  <2> HIDE DEF x
  <2>4. data' = Append(data, x) /\ x \in Message \X Nat /\ x \in Bytes
    BY <1>2, <2>2 DEF x
  <2>5. /\ data' \in Seq(Bytes) /\ Len(data') = Len(data) + 1 /\ Len(data) \in Nat
        /\ \A i \in 1..Len(data) : data'[i] = data[i]
        /\ data'[Len(data) + 1] = x
    BY <2>1, <2>4
  <2>6. \A i \in 2..Len(data') : data'[i] \in Message \X Nat
    BY <2>1, <2>4, <2>5
  <2> QED
    <3>1. owner' \in Buses \union {NoBus}
      BY DEF MixedInv, Senders, Received, Mixed
    <3>2. Buffered'
      BY <1>2, <2>5, <2>6 DEF MixedInv, Buffered, Received
    <3>3. Senders'
      BY <2>3, <3>1 DEF MixedInv, Senders, Received, line
    <3> QED
      BY <3>2, <3>3 DEF MixedInv
<1> QED
  BY <1>1, <1>2 DEF Received

\* What is queued is at least two bytes, and the second is the network function.
LEMMA StoppedMixed ==
  ASSUME MixedInv, NEW b \in Buses, Stopped(b)
  PROVE  MixedInv'
<1>1. /\ data \in Seq(Bytes) /\ Len(data) <= Capacity /\ Len(data) \in Nat
      /\ \A i \in 2..Len(data) : data[i] \in Message \X Nat
      /\ Capacity \in Nat /\ channel \in Buses \union {NoBus}
  BY RxConstants DEF MixedInv, Senders, Buffered, RxConstants
<1>2. /\ data' \in Seq(Bytes) /\ Len(data') <= Capacity
      /\ \A i \in 2..Len(data') : data'[i] \in Message \X Nat
  <2>1. CASE data' = <<>>
    BY <1>1, <2>1
  <2>2. CASE data' = data
    BY <1>1, <2>2
  <2> QED
    BY <2>1, <2>2 DEF Stopped
<1>3. /\ box' \in [Queues -> Seq(QueueType)]
      /\ \A r \in Queues : Len(box'[r]) <= QueueLength /\ \A i \in DOMAIN box'[r] : Routed(box'[r][i], r)
  <2>1. CASE box' = box
    BY <2>1 DEF MixedInv, Senders, Buffered, Routed, QueueType
  <2>2. CASE /\ Len(data) > 1 /\ Len(box[QueueOfData]) < QueueLength
             /\ box' = [box EXCEPT ![QueueOfData] = Append(@, [channel |-> channel, data |-> data])]
    <3>1. data[2] \in Message \X Nat
      BY <1>1, <2>2
    <3>2. data[2][1] \in Message
      BY <3>1
    <3> DEFINE p == [channel |-> channel, data |-> data]
               q == QueueOfData
    <3>3. q \in Queues
      BY <3>2 DEF QueueOfData, QueueOf, Queues
    <3>4. p \in QueueType /\ p.data = data /\ p.channel = channel
      BY <1>1 DEF QueueType
    <3>5. Routed(p, q)
      BY <1>1, <2>2, <3>2, <3>4 DEF Routed, QueueOfData
    <3>6. Len(box[q]) < QueueLength /\ box' = [box EXCEPT ![q] = Append(@, p)]
      BY <2>2
    <3> HIDE DEF p, q
    <3> QED
      BY <3>3, <3>4, <3>5, <3>6, QueuedRouted
  <2> QED
    BY <2>1, <2>2 DEF Stopped
<1>4. Senders'
  <2>1. owner' \in Buses \union {NoBus} /\ stp' = [stp EXCEPT ![b] = FALSE]
    BY DEF MixedInv, Senders, Stopped, Mixed
  <2>2. CASE busy[b]
    BY <2>1, <2>2 DEF MixedInv, Senders, Stopped, line
  <2>3. CASE ~busy[b]
    <3>1. /\ carried' = [carried EXCEPT ![b] = NoMessage] /\ n' = [n EXCEPT ![b] = 0]
          /\ busy' = [busy EXCEPT ![b] = FALSE]
          /\ UNCHANGED <<adds, dr, channel, ready, writing>>
      BY <2>3 DEF Stopped, Over
    <3>2. /\ carried' \in [Buses -> Message \union {NoMessage}] /\ n' \in [Buses -> Nat]
          /\ busy' \in [Buses -> BOOLEAN] /\ stp' \in [Buses -> BOOLEAN]
      BY <2>1, <3>1 DEF MixedInv, Senders
    <3>3. /\ carried'[b] = NoMessage /\ n'[b] = 0 /\ ~busy'[b] /\ ~stp'[b]
          /\ \A c \in Buses \ {b} : carried'[c] = carried[c] /\ n'[c] = n[c] /\ busy'[c] = busy[c] /\ stp'[c] = stp[c]
      BY <2>1, <3>1 DEF MixedInv, Senders
    <3> QED
      BY <2>1, <3>1, <3>2, <3>3 DEF MixedInv, Senders
  <2> QED
    BY <2>2, <2>3
<1> QED
  BY <1>2, <1>3, <1>4 DEF MixedInv, Buffered, QueueType

\* What a task takes leaves the rest in the queue.
LEMMA TakeMixed ==
  ASSUME MixedInv, NEW q \in Queues, Take(q)
  PROVE  MixedInv'
<1>1. /\ box \in [Queues -> Seq(QueueType)] /\ box[q] # <<>>
      /\ box' = [box EXCEPT ![q] = Tail(@)] /\ QueueLength \in Nat
      /\ \A r \in Queues : Len(box[r]) <= QueueLength /\ \A i \in DOMAIN box[r] : Routed(box[r][i], r)
  BY RxConstants DEF MixedInv, Senders, Buffered, QueueType, Take, RxConstants
<1> DEFINE s == Tail(box[q])
<1>2. /\ s \in Seq(QueueType) /\ Len(s) = Len(box[q]) - 1
      /\ \A i \in 1..(Len(box[q]) - 1) : s[i] = box[q][i + 1]
      /\ Len(box[q]) \in Nat \ {0} /\ DOMAIN s = 1..(Len(box[q]) - 1) /\ DOMAIN box[q] = 1..Len(box[q])
  BY <1>1
<1>3. \A i \in DOMAIN s : Routed(s[i], q)
  <2> SUFFICES ASSUME NEW i \in DOMAIN s PROVE Routed(s[i], q)
    OBVIOUS
  <2>1. i + 1 \in DOMAIN box[q] /\ s[i] = box[q][i + 1]
    BY <1>2
  <2> QED
    BY <1>1, <2>1
<1>4. Len(s) <= QueueLength
  BY <1>1, <1>2
<1> HIDE DEF s
<1>5. box' = [box EXCEPT ![q] = s]
  BY <1>1 DEF s
<1>6. /\ box' \in [Queues -> Seq(QueueType)]
      /\ \A r \in Queues : box'[r] = IF r = q THEN s ELSE box[r]
  BY <1>1, <1>2, <1>5
<1>7. \A r \in Queues : Len(box'[r]) <= QueueLength /\ \A i \in DOMAIN box'[r] : Routed(box'[r][i], r)
  BY <1>1, <1>3, <1>4, <1>6
<1>8. UNCHANGED <<line, flags, req, ready, writing, owner>>
  BY DEF Take
<1> QED
  BY <1>6, <1>7, <1>8 DEF MixedInv, Senders, Buffered, line, flags, req, QueueType

\* The senders, the error interrupt and the writes touch neither buffer nor queues.
LEMMA LineMixed ==
  ASSUME MixedInv, NEW b \in Buses,
         \/ \E m \in Message : BusOf[m] = b /\ Start(m)
         \/ Put(b) \/ Stop(b) \/ GiveUp(b) \/ BeginWrite(b) \/ BytesWrite(b) \/ Error(b)
  PROVE  MixedInv'
<1> USE RxConstants DEF RxConstants
<1>0. Buffered'
  <2>1. data' = data /\ box' = box
    BY DEF Start, Put, Stop, GiveUp, BeginWrite, BytesWrite, WriteDone, WriteFails, Error, Reinit, line, flags, req
  <2> QED
    BY <2>1 DEF MixedInv, Buffered
<1>1. ASSUME NEW m \in Message, BusOf[m] = b, Start(m) PROVE Senders'
  BY <1>1 DEF MixedInv, Senders, Start, req
<1>2. ASSUME Put(b) PROVE Senders'
  <2>1. carried[b] \in Message /\ n[b] + 1 \in Nat /\ n[b] + 1 > 0 /\ n[b] < Size[carried[b]]
    BY <1>2 DEF MixedInv, Senders, Put
  <2>2. Byte(carried[b], n[b] + 1) \in Message \X Nat
    BY <2>1 DEF Byte
  <2>3. dr' \in [Buses -> {Empty} \union (Message \X Nat)]
    BY <1>2, <2>2 DEF Put, MixedInv, Senders
  <2>4. n' \in [Buses -> Nat]
    BY <1>2, <2>1 DEF Put, MixedInv, Senders
  <2>5. Size[carried[b]] \in Nat /\ n[b] + 1 <= Size[carried[b]]
    BY <1>2, <2>1 DEF MixedInv, Senders
  <2>6. \A c \in Buses : carried'[c] # NoMessage => BusOf[carried'[c]] = c /\ n'[c] <= Size[carried'[c]]
    BY <1>2, <2>5 DEF Put, MixedInv, Senders
  <2>7. \A c \in Buses : adds'[c] => n'[c] = 0
    BY <1>2 DEF Put, MixedInv, Senders
  <2> QED
    BY <1>2, <2>3, <2>4, <2>6, <2>7 DEF Put, MixedInv, Senders, req
<1>3. ASSUME Stop(b) PROVE Senders'
  BY <1>3 DEF MixedInv, Senders, Stop, req
<1>4. ASSUME BeginWrite(b) PROVE Senders'
  BY <1>4 DEF MixedInv, Senders, BeginWrite, line, flags, req
<1>5. ASSUME Reinit(b), ready' = ready, writing' \in Buses \union {NoBus} PROVE Senders'
  BY <1>5 DEF MixedInv, Senders, Reinit, Over, req
<1>6. ASSUME WriteDone(b) PROVE Senders'
  <2>1. PICK r \in {dr[b], Empty} : dr' = [dr EXCEPT ![b] = r]
    BY <1>6 DEF WriteDone
  <2>2. dr' \in [Buses -> {Empty} \union (Message \X Nat)]
    BY <2>1 DEF MixedInv, Senders
  <2> QED
    BY <1>6, <2>2 DEF MixedInv, Senders, WriteDone, line, req
<1>7. writing \in Buses \union {NoBus}
  BY DEF MixedInv, Senders
<1>8. ASSUME GiveUp(b) PROVE Senders'
  BY <1>8 DEF MixedInv, Senders, GiveUp, flags, req
<1> QED
  BY <1>0, <1>1, <1>2, <1>3, <1>4, <1>5, <1>6, <1>7, <1>8 DEF BytesWrite, WriteFails, Error, MixedInv

\* The start of a message's bytes in the buffer, and every other step.
LEMMA NextMixed ==
  ASSUME MixedInv, [Next]_vars
  PROVE  MixedInv'
<1>1. ASSUME NEW b \in Buses, Addressed(b) PROVE MixedInv'
  <2>1. <<b, 0>> \in Bytes /\ data' = <<<<b, 0>>>>
    BY <1>1 DEF Bytes, Addressed
  <2>2. data' \in Seq(Bytes) /\ Len(data') = 1
    BY <2>1
  <2>3. Len(data') <= Capacity /\ \A i \in 2..Len(data') : data'[i] \in Message \X Nat
    BY <2>2, RxConstants DEF RxConstants
  <2>4. Buffered'
    BY <1>1, <2>2, <2>3 DEF MixedInv, Buffered, Addressed
  <2>5. Senders'
    <3>1. owner' \in Buses \union {NoBus}
      BY <1>1 DEF Addressed, Alone
    <3> QED
      BY <1>1, <3>1 DEF MixedInv, Senders, Addressed, line
  <2> QED
    BY <2>4, <2>5 DEF MixedInv
<1>2. ASSUME NEW m \in Message, Start(m) PROVE MixedInv'
  <2>1. BusOf[m] \in Buses
    BY RxConstants DEF RxConstants
  <2> QED
    BY <1>2, <2>1, LineMixed
<1>3. ASSUME NEW b \in Buses, Put(b) \/ Stop(b) \/ GiveUp(b) \/ BeginWrite(b) \/ BytesWrite(b) \/ Error(b)
      PROVE  MixedInv'
  BY <1>3, LineMixed
<1>4. CASE CreateQueues
  BY <1>4 DEF MixedInv, Senders, Buffered, CreateQueues, line, flags, req
<1>5. CASE UNCHANGED vars
  BY <1>5 DEF MixedInv, Senders, Buffered, vars
<1>6. CASE Watchdog
  <2>1. Senders'
    BY <1>6 DEF MixedInv, Senders, Watchdog
  <2>2. data' = <<>> /\ box' = [q \in Queues |-> <<>>]
    BY <1>6 DEF Watchdog
  <2> QED
    BY <2>1, <2>2, EmptyBuffered DEF MixedInv
<1> QED
  BY <1>1, <1>2, <1>3, <1>4, <1>5, <1>6, ReceivedMixed, StoppedMixed, TakeMixed DEF Next, Event

LEMMA InitMixed == Init => MixedInv
<1>1. ASSUME Init PROVE Senders
  <2>1. \A b \in Buses : ~busy[b] /\ ~adds[b]
    BY <1>1 DEF Init
  <2>2. dr \in [Buses -> {Empty} \union (Message \X Nat)]
    BY <1>1 DEF Init
  <2> QED
    BY <1>1, <2>1, <2>2, RxConstants DEF Init, Senders, RxConstants
<1>2. Init => Buffered
  <2>1. <<>> \in Seq(Bytes) /\ <<>> \in Seq(QueueType) /\ Len(<<>>) = 0
    OBVIOUS
  <2>2. Capacity \in Nat /\ QueueLength \in Nat
    BY RxConstants DEF RxConstants
  <2> QED
    BY <2>1, <2>2 DEF Init, Buffered, QueueType
<1> QED
  BY <1>1, <1>2 DEF MixedInv

\* Whatever is sent on all buses at once, the buffer is not written beyond its end, and
\* what is queued is in the queue that its second byte sends it to.
THEOREM MixedInvariant == Spec => []MixedInv
BY InitMixed, NextMixed, PTL DEF Spec


----------------------------------------------------------------------------
\* The message that is alone in the buffer.

\* What an event of another bus, or none, leaves alone.
LEMMA AssembledKept ==
  ASSUME NEW c \in Buses, Assembled(c), owner' \in {owner, NoBus},
         owner' = NoBus \/ UNCHANGED req,
         carried'[c] = carried[c], n'[c] = n[c], busy'[c] = busy[c],
         adds'[c] = adds[c], dr'[c] = dr[c], stp'[c] = stp[c]
  PROVE  Assembled(c)'
BY RxConstants DEF RxConstants, Assembled, Pending, req

\* A bus without anything pending or going on.
LEMMA AssembledNothing ==
  ASSUME NEW c \in Buses, adds'[c] \/ (~busy'[c] /\ dr'[c] = Empty /\ ~stp'[c])
  PROVE  Assembled(c)'
BY DEF Assembled, Pending

\* An event of one bus spoils what another has sent.
LEMMA AssembledLost ==
  ASSUME NEW c \in Buses, owner' # c
  PROVE  Assembled(c)'
BY DEF Assembled

LEMMA AddressedAssembled ==
  ASSUME RxInv, NEW b \in Buses, Addressed(b), NEW c \in Buses
  PROVE  Assembled(c)'
<1>1. CASE owner' # c
  BY <1>1, AssembledLost
<1>2. CASE owner' = c
  <2>1. c = b /\ dr[b] = Empty /\ ~stp[b]
    BY <1>2, RxConstants DEF Addressed, Alone, RxConstants
  <2>2. CASE ~busy[b]
    <3>1. ~busy'[c] /\ dr'[c] = Empty /\ ~stp'[c]
      BY <2>1, <2>2 DEF Addressed, line
    <3> QED
      BY <3>1, AssembledNothing
  <2>3. CASE busy[b]
    <3>1. carried[b] \in Message /\ BusOf[carried[b]] = b /\ n[b] = 0
      BY <2>3 DEF RxInv, MixedInv, Senders, Addressed
    <3>2. data' = Prefix(carried[b], 1)
      BY <3>1, PrefixOne DEF Addressed
    <3> QED
      BY <2>1, <3>1, <3>2, RxConstants DEF Addressed, Assembled, line, RxConstants
  <2> QED
    BY <2>2, <2>3
<1> QED
  BY <1>1, <1>2

LEMMA ReceivedAssembled ==
  ASSUME RxInv, NEW b \in Buses, Received(b), NEW c \in Buses
  PROVE  Assembled(c)'
<1>1. CASE UNCHANGED <<data, dr, owner>>
  <2>1. Assembled(c)
    BY DEF RxInv
  <2> QED
    BY <1>1, <2>1, AssembledKept DEF Received, line, req
<1>2. CASE data' = Append(data, dr[b]) /\ dr' = [dr EXCEPT ![b] = Empty] /\ Mixed(b)
  <2>1. CASE owner' # c
    BY <2>1, AssembledLost
  <2>2. CASE owner' = c
    <3>1. c = b /\ owner = b
      BY <1>2, <2>2, RxConstants DEF Mixed, RxConstants
    <3>2. /\ carried[b] \in Message /\ channel = b /\ data = Prefix(carried[b], n[b])
          /\ n[b] \in Nat /\ n[b] > 0 /\ dr[b] = Byte(carried[b], n[b])
          /\ stp[b] => ~busy[b] /\ n[b] = Size[carried[b]]
      BY <3>1 DEF RxInv, MixedInv, Senders, Assembled, Received, Taken, Pending
    <3>3. data' = Prefix(carried[b], n[b] + 1)
      BY <1>2, <3>2, PrefixNext
    <3>4. dr'[b] = Empty
      BY <1>2 DEF RxInv, MixedInv, Senders
    <3> QED
      BY <3>1, <3>2, <3>3, <3>4, RxConstants DEF Received, Assembled, line, RxConstants
  <2> QED
    BY <2>1, <2>2
<1> QED
  BY <1>1, <1>2 DEF Received

\* What ends at a STOP, if it is alone, is a whole message.
LEMMA StoppedIs ==
  ASSUME RxInv, NEW b \in Buses, Stopped(b), owner = b
  PROVE  /\ stp[b] /\ ~busy[b] /\ carried[b] \in Message
         /\ data = Frame(carried[b])
         /\ Len(data) > 1 => QueueOfData = QueueOf[carried[b]]
         /\ [channel |-> channel, data |-> data] = Packet(carried[b])
<1>1. /\ stp[b] /\ ~busy[b] /\ carried[b] \in Message /\ BusOf[carried[b]] = b
      /\ n[b] = Size[carried[b]] /\ n[b] \in Nat
      /\ channel = b /\ data = Prefix(carried[b], n[b] + 1)
  BY DEF RxInv, MixedInv, Senders, Assembled, Stopped, Taken, Pending
<1>2. data = Frame(carried[b]) /\ Len(data) = n[b] + 1
  BY <1>1, PrefixType DEF Frame
<1>3. Len(data) > 1 => data[2][1] = carried[b]
  <2>1. \A i \in 1..(n[b] + 1) : data[i] = Byte(carried[b], i - 1)
    BY <1>1, PrefixType
  <2> QED
    BY <1>1, <1>2, <2>1, ByteType
<1> QED
  BY <1>1, <1>2, <1>3 DEF QueueOfData, Packet

LEMMA StoppedAssembled ==
  ASSUME RxInv, NEW b \in Buses, Stopped(b), NEW c \in Buses
  PROVE  Assembled(c)'
<1>1. CASE owner' # c
  BY <1>1, AssembledLost
<1>2. CASE owner' = c
  <2>1. c = b /\ owner = b
    BY <1>2, RxConstants DEF Stopped, Mixed, RxConstants
  <2>2. ~busy[b]
    BY <2>1, StoppedIs
  <2>3. ~busy'[b] /\ dr'[b] = Empty /\ ~stp'[b]
    BY <2>2 DEF RxInv, MixedInv, Senders, Stopped, Over
  <2> QED
    BY <2>1, <2>3, AssembledNothing
<1> QED
  BY <1>1, <1>2

\* A bus that is initialised again has nothing going on.
LEMMA ReinitAssembled ==
  ASSUME RxInv, NEW b \in Buses, Reinit(b), NEW c \in Buses
  PROVE  Assembled(c)'
<1>1. CASE c = b
  <2>1. ~busy'[b] /\ dr'[b] = Empty /\ ~stp'[b]
    BY DEF RxInv, MixedInv, Senders, Reinit, Over
  <2> QED
    BY <1>1, <2>1, AssembledNothing
<1>2. CASE c # b
  <2>1. Assembled(c)
    BY DEF RxInv
  <2> QED
    BY <1>2, <2>1, AssembledKept DEF RxInv, MixedInv, Senders, Reinit, Over
<1> QED
  BY <1>1, <1>2

LEMMA LineAssembled ==
  ASSUME RxInv, NEW b \in Buses, NEW c \in Buses,
         \/ \E m \in Message : BusOf[m] = b /\ Start(m)
         \/ Put(b) \/ Stop(b) \/ GiveUp(b) \/ WriteDone(b)
  PROVE  Assembled(c)'
<1> USE DEF RxInv, MixedInv, Senders
<1>0. Assembled(c) /\ UNCHANGED <<req, owner>>
  BY DEF Start, Put, Stop, GiveUp, WriteDone
<1>1. CASE c # b
  <2>1. /\ carried'[c] = carried[c] /\ n'[c] = n[c] /\ busy'[c] = busy[c]
        /\ adds'[c] = adds[c] /\ dr'[c] = dr[c] /\ stp'[c] = stp[c]
    BY <1>1 DEF Start, Put, Stop, GiveUp, WriteDone, line, flags
  <2> QED
    BY <1>0, <2>1, AssembledKept
<1>2. CASE c = b /\ \E m \in Message : BusOf[m] = b /\ Start(m)
  <2>1. adds'[b]
    BY <1>2 DEF Start
  <2> QED
    BY <1>2, <2>1, AssembledNothing
<1>3. CASE c = b /\ Put(b)
  <2>1. CASE owner # b
    BY <1>0, <1>3, <2>1, AssembledLost
  <2>2. CASE owner = b
    <3>1. /\ carried[b] \in Message /\ n[b] \in Nat /\ ~adds[b] /\ dr[b] = Empty /\ busy[b]
          /\ channel = b /\ data = Prefix(carried[b], n[b] + 1) /\ ~stp[b]
      BY <1>0, <1>3, <2>2 DEF Put, Assembled
    <3>2. Byte(carried[b], n[b] + 1) # Empty
      BY <3>1, ByteType
    <3>3. /\ carried' = carried /\ n'[b] = n[b] + 1 /\ dr'[b] = Byte(carried[b], n[b] + 1)
          /\ stp' = stp /\ channel' = channel /\ data' = data
      BY <1>3 DEF Put, req
    <3> QED
      BY <1>3, <3>1, <3>2, <3>3 DEF Assembled
  <2> QED
    BY <2>1, <2>2
<1>4. CASE c = b /\ Stop(b)
  BY <1>0, <1>4 DEF Stop, Assembled, Pending, req
<1>5. CASE c = b /\ GiveUp(b)
  BY <1>0, <1>5 DEF GiveUp, Assembled, Pending, req, flags
<1>6. CASE c = b /\ WriteDone(b)
  <2>1. PICK r \in {dr[b], Empty} : dr' = [dr EXCEPT ![b] = r]
    BY <1>6 DEF WriteDone
  <2>2. /\ ~busy'[b] /\ ~stp'[b] /\ dr'[b] = r /\ adds' = adds /\ carried' = carried /\ n' = n
    BY <1>6, <2>1 DEF WriteDone, line
  <2> QED
    BY <1>0, <1>6, <2>1, <2>2 DEF Assembled, Pending, req
<1> QED
  BY <1>1, <1>2, <1>3, <1>4, <1>5, <1>6

LEMMA NextInv ==
  ASSUME RxInv, [Next]_vars
  PROVE  RxInv'
<1>1. MixedInv'
  BY NextMixed DEF RxInv
<1> SUFFICES ASSUME NEW c \in Buses PROVE Assembled(c)'
  BY <1>1 DEF RxInv
<1>2. ASSUME NEW m \in Message, Start(m) PROVE Assembled(c)'
  <2>1. BusOf[m] \in Buses
    BY RxConstants DEF RxConstants
  <2> QED
    BY <1>2, <2>1, LineAssembled
<1>3. ASSUME NEW b \in Buses, Put(b) \/ Stop(b) \/ GiveUp(b) \/ WriteDone(b) PROVE Assembled(c)'
  BY <1>3, LineAssembled
<1>4. ASSUME NEW b \in Buses, Event(b) PROVE Assembled(c)'
  BY <1>4, AddressedAssembled, ReceivedAssembled, StoppedAssembled DEF Event
<1>5. ASSUME NEW b \in Buses, WriteFails(b) \/ Error(b) PROVE Assembled(c)'
  BY <1>5, ReinitAssembled DEF WriteFails, Error
<1>6. CASE Watchdog
  BY <1>6, AssembledNothing DEF Watchdog
<1>7. ASSUME UNCHANGED <<line, flags, req, owner>> PROVE Assembled(c)'
  <2>1. Assembled(c)
    BY DEF RxInv
  <2> QED
    BY <1>7, <2>1, AssembledKept DEF line, flags
<1>8. ASSUME NEW b \in Buses, BeginWrite(b) PROVE Assembled(c)'
  BY <1>7, <1>8 DEF BeginWrite
<1>9. ASSUME NEW q \in Queues, Take(q) PROVE Assembled(c)'
  BY <1>7, <1>9 DEF Take
<1>10. CASE CreateQueues \/ UNCHANGED vars
  BY <1>7, <1>10 DEF CreateQueues, vars, line, flags, req
<1> QED
  BY <1>2, <1>3, <1>4, <1>5, <1>6, <1>8, <1>9, <1>10 DEF Next, BytesWrite

\* The buffer holds what has been read of the message that is alone there, on any number
\* of buses at once and over writes, errors, senders that give up and restarts.
THEOREM BufferInvariant == Spec => []RxInv
<1>1. Init => \A b \in Buses : Assembled(b)
  BY DEF Init, Assembled, Pending
<1>2. RxInv /\ [Next]_vars => RxInv'
  BY NextInv
<1>3. Init => MixedInv
  BY InitMixed
<1>4. Init => RxInv
  BY <1>1, <1>3 DEF RxInv
<1> QED
  BY <1>2, <1>4, PTL DEF Spec

\* The interrupt comes for ever only for a message with more bytes than the buffer, or
\* mixed with another.
THEOREM StuckOnlyThen == Spec => []StuckByLongOrMixed
<1>1. RxInv => StuckByLongOrMixed
  <2> SUFFICES ASSUME RxInv, NEW b \in Buses, Stuck(b), owner = b
               PROVE  Size[carried[b]] >= Capacity
    BY DEF StuckByLongOrMixed
  <2>1. /\ carried[b] \in Message /\ n[b] \in Nat /\ n[b] <= Size[carried[b]]
        /\ data = Prefix(carried[b], n[b]) /\ Len(data) + 1 > Capacity
    BY DEF RxInv, MixedInv, Senders, Assembled, Pending, Stuck
  <2>2. Len(data) = n[b]
    BY <2>1, PrefixType
  <2>3. Size[carried[b]] \in Nat /\ Capacity \in Nat
    BY <2>1, RxConstants DEF RxConstants
  <2> QED
    BY <2>1, <2>2, <2>3
<1> QED
  BY <1>1, BufferInvariant, PTL

----------------------------------------------------------------------------
\* The refinement.

LEMMA OnWayType ==
  /\ DOMAIN OnWay = Buses /\ DOMAIN Spoilt = Buses
  /\ OnWay = [b \in Buses |-> OnWay[b]]
  /\ Spoilt \in [Buses -> BOOLEAN]
BY DEF OnWay, Spoilt

\* What is on its way is a message.
LEMMA OnWayIs ==
  ASSUME RxInv, NEW b \in Buses
  PROVE  /\ busy[b] \/ stp[b] => OnWay[b] = carried[b] /\ OnWay[b] \in Message /\ OnWay[b] # NoMessage
         /\ ~busy[b] /\ ~stp[b] => OnWay[b] = NoMessage
         /\ Spoilt[b] <=> OnWay[b] # NoMessage /\ ~adds[b] /\ owner # b
BY RxConstants DEF RxInv, MixedInv, Senders, OnWay, Spoilt, RxConstants

\* A step that changes nothing of what is on its way and makes nothing good again.
LEMMA SpoilStep ==
  ASSUME OnWay' = OnWay, box' = box, \A c \in Buses : Spoilt[c] => Spoilt'[c]
  PROVE  Box!Next
<1>1. Spoilt' \in [Buses -> BOOLEAN]
  BY DEF Spoilt
<1> HIDE DEF OnWay, Spoilt
<1> QED
  BY <1>1 DEF Box!Next, Box!Spoil, Box!StaySpoilt

\* What is on its way stays as it is where flags and sender do.
LEMMA OthersKept ==
  ASSUME NEW c \in Buses, carried'[c] = carried[c], busy'[c] = busy[c], stp'[c] = stp[c],
         adds'[c] = adds[c]
  PROVE  /\ OnWay'[c] = OnWay[c]
         /\ owner' = owner \/ owner' # c => (Spoilt[c] => Spoilt'[c])
         /\ owner' = owner => Spoilt'[c] = Spoilt[c]
BY DEF OnWay, Spoilt

LEMMA GoneIs ==
  ASSUME NEW b \in Buses, OnWay[b] # NoMessage, OnWay'[b] = NoMessage,
         \A c \in Buses \ {b} : OnWay'[c] = OnWay[c] /\ (Spoilt[c] => Spoilt'[c])
  PROVE  Box!Gone(b)
<1>1. Spoilt' \in [Buses -> BOOLEAN] /\ ~Spoilt'[b]
  BY DEF Spoilt
<1>2. OnWay' = [OnWay EXCEPT ![b] = NoMessage]
  BY DEF OnWay
<1> HIDE DEF OnWay, Spoilt
<1> QED
  BY <1>1, <1>2 DEF Box!Gone, Box!StaySpoilt

LEMMA ForgottenIsLost ==
  ASSUME NEW b \in Buses, box' = box, owner' = owner, ~busy'[b] /\ ~stp'[b],
         \A c \in Buses \ {b} : /\ carried'[c] = carried[c] /\ busy'[c] = busy[c]
                                /\ stp'[c] = stp[c] /\ adds'[c] = adds[c]
  PROVE  [Box!Next]_Box!mailboxVars
<1>1. OnWay'[b] = NoMessage /\ ~Spoilt'[b]
  BY DEF OnWay, Spoilt
<1>2. \A c \in Buses \ {b} : OnWay'[c] = OnWay[c] /\ Spoilt'[c] = Spoilt[c]
  BY OthersKept
<1>3. CASE OnWay[b] = NoMessage
  <2>1. OnWay' = OnWay
    BY <1>1, <1>2, <1>3 DEF OnWay
  <2>2. Spoilt' = Spoilt
    BY <1>1, <1>2, <1>3 DEF Spoilt
  <2> QED
    BY <2>1, <2>2 DEF Box!mailboxVars
<1>4. CASE OnWay[b] # NoMessage
  <2>1. Box!Gone(b)
    BY <1>1, <1>2, <1>4, GoneIs
  <2> QED
    BY <2>1 DEF Box!Next, Box!Ends, Box!Lose
<1> QED
  BY <1>3, <1>4

LEMMA StartSends ==
  ASSUME RxInv, NEW m \in Message, Start(m)
  PROVE  Box!Next
<1> DEFINE b == BusOf[m]
<1>1. b \in Buses /\ m # NoMessage
  BY RxConstants DEF RxConstants
<1>2. OnWay'[b] = m /\ ~Spoilt'[b]
  BY <1>1 DEF RxInv, MixedInv, Senders, Start, OnWay, Spoilt
<1>3. \A c \in Buses \ {b} : OnWay'[c] = OnWay[c] /\ Spoilt'[c] = Spoilt[c]
  BY <1>1, OthersKept DEF RxInv, MixedInv, Senders, Start
<1>4. OnWay' = [OnWay EXCEPT ![b] = m]
  BY <1>1, <1>2, <1>3 DEF OnWay
<1>5. Spoilt' = [Spoilt EXCEPT ![b] = FALSE]
  BY <1>1, <1>2, <1>3 DEF Spoilt
<1>6. OnWay[b] = NoMessage => Spoilt' = Spoilt
  <2>1. OnWay[b] = NoMessage => ~Spoilt[b]
    BY <1>1 DEF Spoilt
  <2> QED
    BY <1>1, <1>2, <1>3, <2>1 DEF Spoilt
<1>7. box' = box
  BY DEF Start
<1>8. CASE OnWay[b] = NoMessage
  BY <1>4, <1>6, <1>7, <1>8 DEF Box!Next, Box!Send
<1>9. CASE OnWay[b] # NoMessage
  <2>1. Box!Overrun(m)
    BY <1>4, <1>5, <1>7, <1>9 DEF Box!Overrun
  <2> QED
    BY <1>1, <2>1 DEF Box!Next, Box!Ends
<1> QED
  BY <1>8, <1>9

\* A queue that has got one more of anything.
LEMMA GrowsBy ==
  ASSUME RxInv, NEW q \in Queues, NEW p \in QueueType, box' = [box EXCEPT ![q] = Append(@, p)]
  PROVE  Box!Grows
<1>1. box \in [Queues -> Seq(QueueType)]
  BY DEF RxInv, MixedInv, Buffered, QueueType
<1>2. /\ box'[q] = Append(box[q], p) /\ box[q] \in Seq(QueueType)
      /\ Len(Append(box[q], p)) = Len(box[q]) + 1 /\ Append(box[q], p)[Len(box[q]) + 1] = p
  BY <1>1
<1> QED
  BY <1>2 DEF Box!Grows

\* What a STOP puts into a queue.
LEMMA StoppedQueues ==
  ASSUME RxInv, NEW b \in Buses, Stopped(b), box' # box
  PROVE  Box!Grows
<1>1. Len(data) > 1 /\ box' = [box EXCEPT ![QueueOfData] = Append(@, [channel |-> channel, data |-> data])]
  BY DEF Stopped
<1>2. data[2][1] \in Message /\ channel \in Buses \union {NoBus} /\ data \in Seq(Bytes)
  BY <1>1 DEF RxInv, MixedInv, Senders, Buffered
<1>3. QueueOfData \in Queues
  BY <1>2 DEF QueueOfData, QueueOf, Queues
<1>4. [channel |-> channel, data |-> data] \in QueueType
  BY <1>2 DEF QueueType
<1> QED
  BY <1>1, <1>3, <1>4, GrowsBy

LEMMA StoppedDelivers ==
  ASSUME RxInv, NEW b \in Buses, Stopped(b)
  PROVE  Box!Next
<1>1. stp[b] /\ ~adds[b] /\ stp' = [stp EXCEPT ![b] = FALSE] /\ adds' = adds
  BY DEF Stopped, Taken, Pending
<1>2. OnWay[b] = carried[b] /\ OnWay[b] \in Message /\ OnWay[b] # NoMessage
  BY <1>1, OnWayIs
<1>3. owner' \in {owner, NoBus} /\ (owner = b => owner' = owner) /\ (owner # b => owner' = NoBus)
  BY DEF Stopped, Mixed
<1>4. ASSUME NEW c \in Buses \ {b} PROVE OnWay'[c] = OnWay[c] /\ (Spoilt[c] => Spoilt'[c])
  <2>1. carried'[c] = carried[c] /\ busy'[c] = busy[c] /\ stp'[c] = stp[c] /\ adds'[c] = adds[c]
    BY <1>1 DEF RxInv, MixedInv, Senders, Stopped, Over, line
  <2> QED
    BY <1>3, <2>1, OthersKept, RxConstants DEF RxConstants
<1>5. ~busy[b] => Box!Gone(b)
  <2> SUFFICES ASSUME ~busy[b] PROVE Box!Gone(b)
    OBVIOUS
  <2>1. ~busy'[b] /\ ~stp'[b]
    BY <1>1 DEF RxInv, MixedInv, Senders, Stopped, Over
  <2>2. OnWay'[b] = NoMessage
    BY <2>1 DEF OnWay
  <2> QED
    BY <1>2, <1>4, <2>2, GoneIs
<1>6. CASE owner = b
  <2>1. /\ ~busy[b] /\ (Len(data) > 1 => QueueOfData = QueueOf[carried[b]])
        /\ [channel |-> channel, data |-> data] = Packet(carried[b])
    BY <1>6, StoppedIs
  <2>2. ~Spoilt[b]
    BY <1>6, OnWayIs
  <2>3. box' = box \/ box' = [box EXCEPT ![QueueOf[carried[b]]] = Append(@, Packet(carried[b]))]
    BY <2>1 DEF Stopped
  <2>4. [m \in Message |-> Packet(m)][carried[b]] = Packet(carried[b])
    BY <1>2
  <2> QED
    BY <1>2, <1>5, <2>1, <2>2, <2>3, <2>4 DEF Box!Next, Box!Ends, Box!Deliver, Box!Lose
<1>7. CASE owner # b /\ ~busy[b]
  <2>1. Spoilt[b] /\ Box!Gone(b)
    BY <1>1, <1>2, <1>5, <1>7, OnWayIs
  <2>2. CASE box' = box
    BY <2>1, <2>2 DEF Box!Next, Box!Ends, Box!Lose
  <2>3. CASE box' # box
    BY <2>1, <2>3, StoppedQueues DEF Box!Next, Box!Ends, Box!DeliverSpoilt
  <2> QED
    BY <2>2, <2>3
<1>8. CASE owner # b /\ busy[b]
  <2>1. line' = line
    BY <1>8 DEF Stopped
  <2>2. OnWay'[b] = OnWay[b]
    BY <1>8, <2>1 DEF OnWay, line
  <2>3. OnWay' = OnWay
    BY <1>4, <2>2 DEF OnWay
  <2>4. Spoilt[b] /\ Spoilt'[b]
    <3>1. Spoilt[b]
      BY <1>1, <1>2, <1>8, OnWayIs
    <3>2. OnWay'[b] # NoMessage /\ ~adds'[b] /\ owner' # b
      BY <1>1, <1>2, <1>3, <1>8, <2>2, RxConstants DEF RxConstants
    <3> QED
      BY <3>1, <3>2 DEF Spoilt
  <2>5. \A c \in Buses : Spoilt[c] => Spoilt'[c]
    BY <1>4, <2>4
  <2>6. CASE box' = box
    BY <2>3, <2>5, <2>6, SpoilStep
  <2>7. CASE box' # box
    <3>1. Box!Grows
      BY <2>7, StoppedQueues
    <3>2. Box!StaySpoilt(Buses)
      BY <2>5 DEF Box!StaySpoilt, Spoilt
    <3>3. Box!DeliverPart(b)
      BY <2>3, <2>4, <3>1, <3>2 DEF Box!DeliverPart
    <3> QED
      BY <3>3 DEF Box!Next
  <2> QED
    BY <2>6, <2>7
<1> QED
  BY <1>6, <1>7, <1>8

LEMMA EventStep ==
  ASSUME RxInv, NEW b \in Buses, Event(b)
  PROVE  Box!Next
<1>1. CASE Addressed(b)
  <2>1. OnWay' = OnWay /\ box' = box
    BY <1>1 DEF Addressed, line, OnWay
  <2>2. ASSUME NEW c \in Buses, Spoilt[c] PROVE Spoilt'[c]
    <3>1. OnWay[c] # NoMessage /\ ~adds[c] /\ owner # c
      BY <2>2 DEF Spoilt
    <3>2. c # b /\ ~adds'[c]
      BY <1>1, <3>1 DEF RxInv, MixedInv, Senders, Addressed
    <3>3. owner' # c
      BY <1>1, <3>2, RxConstants DEF Addressed, Alone, RxConstants
    <3>4. OnWay'[c] # NoMessage
      BY <2>1, <3>1
    <3> QED
      BY <3>2, <3>3, <3>4 DEF Spoilt
  <2> QED
    BY <2>1, <2>2, SpoilStep
<1>2. CASE Received(b)
  <2>1. OnWay' = OnWay /\ box' = box /\ adds' = adds
    BY <1>2 DEF Received, line, OnWay
  <2>2. owner' \in {owner, NoBus}
    BY <1>2 DEF Received, Mixed
  <2>3. ASSUME NEW c \in Buses, Spoilt[c] PROVE Spoilt'[c]
    <3>1. OnWay[c] # NoMessage /\ ~adds[c] /\ owner # c
      BY <2>3 DEF Spoilt
    <3>2. owner' # c /\ OnWay'[c] # NoMessage /\ ~adds'[c]
      BY <2>1, <2>2, <3>1, RxConstants DEF RxConstants
    <3> QED
      BY <3>2 DEF Spoilt
  <2> QED
    BY <2>1, <2>3, SpoilStep
<1> QED
  BY <1>1, <1>2, StoppedDelivers DEF Event

LEMMA BoxStep ==
  ASSUME RxInv, [Next]_vars
  PROVE  [Box!Next]_Box!mailboxVars
<1> USE DEF RxInv, MixedInv, Senders
<1>1. ASSUME NEW m \in Message, Start(m) PROVE Box!Next
  BY <1>1, StartSends
<1>2. ASSUME NEW b \in Buses, Event(b) PROVE Box!Next
  BY <1>2, EventStep
<1>3. ASSUME NEW b \in Buses, Put(b) PROVE UNCHANGED Box!mailboxVars
  BY <1>3 DEF Put, OnWay, Spoilt, Box!mailboxVars
<1>4. ASSUME NEW b \in Buses, Stop(b) PROVE UNCHANGED Box!mailboxVars
  <2>1. \A c \in Buses : (busy'[c] \/ stp'[c]) = (busy[c] \/ stp[c])
    BY <1>4 DEF Stop
  <2>2. OnWay' = OnWay
    BY <1>4, <2>1 DEF Stop, OnWay
  <2>3. Spoilt' = Spoilt
    BY <1>4, <2>2 DEF Stop, Spoilt
  <2> QED
    BY <1>4, <2>2, <2>3 DEF Stop, Box!mailboxVars
<1>5. ASSUME NEW b \in Buses, GiveUp(b) PROVE [Box!Next]_Box!mailboxVars
  <2>1. CASE stp[b]
    <3>1. OnWay' = OnWay
      BY <1>5, <2>1 DEF GiveUp, OnWay, flags
    <3>2. Spoilt' = Spoilt
      BY <1>5, <3>1 DEF GiveUp, Spoilt, flags
    <3> QED
      BY <1>5, <3>1, <3>2 DEF GiveUp, Box!mailboxVars
  <2>2. CASE ~stp[b]
    BY <1>5, <2>2, ForgottenIsLost DEF GiveUp, flags
  <2> QED
    BY <2>1, <2>2
<1>6. ASSUME NEW b \in Buses, WriteDone(b) PROVE [Box!Next]_Box!mailboxVars
  BY <1>6, ForgottenIsLost DEF WriteDone, line
<1>7. ASSUME NEW b \in Buses, WriteFails(b) \/ Error(b) PROVE [Box!Next]_Box!mailboxVars
  BY <1>7, ForgottenIsLost DEF WriteFails, Error, Reinit, Over
<1>8. CASE Watchdog
  <2>1. OnWay' = [b \in Buses |-> NoMessage]
    BY <1>8 DEF Watchdog, OnWay
  <2>2. Spoilt' = [b \in Buses |-> FALSE]
    BY <2>1 DEF Spoilt
  <2> QED
    BY <1>8, <2>1, <2>2 DEF Watchdog, Box!Next, Box!Restart
<1>9. ASSUME NEW q \in Queues, Take(q) PROVE Box!Next
  <2>1. OnWay' = OnWay /\ Spoilt' = Spoilt
    BY <1>9 DEF Take, line, flags, OnWay, Spoilt
  <2> QED
    BY <1>9, <2>1 DEF Take, Box!Next, Box!Take
<1>10. ASSUME UNCHANGED <<line, flags, box, owner>> PROVE UNCHANGED Box!mailboxVars
  BY <1>10 DEF line, flags, OnWay, Spoilt, Box!mailboxVars
<1>11. ASSUME NEW b \in Buses, BeginWrite(b) PROVE UNCHANGED Box!mailboxVars
  BY <1>10, <1>11 DEF BeginWrite
<1>12. CASE CreateQueues \/ UNCHANGED vars
  BY <1>10, <1>12 DEF CreateQueues, vars, line, flags
<1> QED
  BY <1>1, <1>2, <1>3, <1>4, <1>5, <1>6, <1>7, <1>8, <1>9, <1>11, <1>12 DEF Next, BytesWrite

\* A message that is alone in the buffer is queued whole, once and where it belongs, or
\* not at all, with messages on any number of buses at once.
THEOREM WholeOrNothing == Spec => Box!Spec
<1>1. Init => Box!Init
  BY DEF Init, OnWay, Spoilt, Box!Init
<1>2. RxInv /\ [Next]_vars => [Box!Next]_Box!mailboxVars
  BY BoxStep
<1> QED
  BY <1>1, <1>2, BufferInvariant, PTL DEF Spec, Box!Spec

=============================================================================
