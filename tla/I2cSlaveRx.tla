------------------------------ MODULE I2cSlaveRx ------------------------------
(***************************************************************************)
(* How a board receives IPMB messages (bsp_i2c.c): each bus has an         *)
(* interrupt that takes one event at a time, the address, a byte or the    *)
(* STOP, and all buses fill the same buffer.  A message that has ended goes *)
(* to the queue of the requests or to that of the answers.                 *)
(*                                                                         *)
(* A sender looks at its own bus only before it starts.  It is held, by the *)
(* clock, while its last byte has not been read or its address not been    *)
(* seen.  It is not held by a STOP: what the handler has not done by then  *)
(* may meet the next message.  The board's own writes mask the interrupts  *)
(* of all buses from their start to their end.                             *)
(***************************************************************************)
EXTENDS Integers, Sequences

CONSTANTS
    Buses, NoBus,
    Message, NoMessage,
    BusOf,       \* the bus of each message
    Size,        \* its bytes after the address
    Responses,   \* the messages whose network function is odd
    Capacity,    \* bytes in g_i2c_Req.Data: 100, in the bootloader 135
    QueueLength  \* of each queue

Queues == {"RecvDatMsg", "RecvForwardI2CDatMsg"}
QueueOf == [m \in Message |-> IF m \in Responses THEN "RecvForwardI2CDatMsg" ELSE "RecvDatMsg"]

ASSUME RxConstants ==
    /\ NoBus \notin Buses /\ NoMessage \notin Message
    /\ BusOf \in [Message -> Buses] /\ Size \in [Message -> Nat]
    /\ Capacity \in Nat \ {0} /\ QueueLength \in Nat \ {0}

VARIABLES
    carried, n, busy,   \* each bus: its message, the bytes put, whether it goes on
    adds, dr, stp,      \* ADDSEND, the data register, STPDET
    channel, data,      \* g_i2c_Req: the bus and the bytes
    ready,              \* the queues exist
    box,                \* the queues
    writing,            \* the bus i2c_bytes_write has taken
    owner               \* history: the bus that alone fills the buffer since its address

line == <<carried, n, busy>>
flags == <<adds, dr, stp>>
req == <<channel, data>>
vars == <<carried, n, busy, adds, dr, stp, channel, data, ready, box, writing, owner>>

Empty == <<>>      \* the data register when it has been read

\* The first byte is the board's own address, which depends on the bus.
Byte(m, i) == IF i = 0 THEN <<BusOf[m], 0>> ELSE <<m, i>>
Prefix(m, k) == [i \in 1..k |-> Byte(m, i - 1)]
Frame(m) == Prefix(m, Size[m] + 1)
Packet(m) == [channel |-> BusOf[m], data |-> Frame(m)]

Bytes == (Buses \union Message) \X Nat
Packets == {Packet(m) : m \in Message}

Init ==
    /\ carried = [b \in Buses |-> NoMessage]
    /\ n = [b \in Buses |-> 0]
    /\ busy = [b \in Buses |-> FALSE]
    /\ adds = [b \in Buses |-> FALSE]
    /\ dr = [b \in Buses |-> Empty]
    /\ stp = [b \in Buses |-> FALSE]
    /\ channel = NoBus /\ data = <<>>
    /\ ready = FALSE
    /\ box = [q \in Queues |-> <<>>]
    /\ writing = NoBus /\ owner = NoBus

----------------------------------------------------------------------------
\* The senders and the bus.

Pending(b) == adds[b] \/ dr[b] # Empty \/ stp[b]

Start(m) ==
    LET b == BusOf[m] IN
    /\ ~busy[b]
    /\ carried' = [carried EXCEPT ![b] = m]
    /\ n' = [n EXCEPT ![b] = 0]
    /\ busy' = [busy EXCEPT ![b] = TRUE]
    /\ adds' = [adds EXCEPT ![b] = TRUE]
    /\ UNCHANGED <<dr, stp, req, ready, box, writing, owner>>

Put(b) ==
    /\ busy[b] /\ ~adds[b] /\ dr[b] = Empty
    /\ n[b] < Size[carried[b]]
    /\ n' = [n EXCEPT ![b] = @ + 1]
    /\ dr' = [dr EXCEPT ![b] = Byte(carried[b], n[b] + 1)]
    /\ UNCHANGED <<carried, busy, adds, stp, req, ready, box, writing, owner>>

Stop(b) ==
    /\ busy[b] /\ ~adds[b]
    /\ n[b] = Size[carried[b]]
    /\ busy' = [busy EXCEPT ![b] = FALSE]
    /\ stp' = [stp EXCEPT ![b] = TRUE]
    /\ UNCHANGED <<carried, n, adds, dr, req, ready, box, writing, owner>>

\* Nothing is left of it.
Over(b) ==
    /\ carried' = [carried EXCEPT ![b] = NoMessage]
    /\ n' = [n EXCEPT ![b] = 0]
    /\ busy' = [busy EXCEPT ![b] = FALSE]

\* It is held too long: it initialises its peripheral and sends no STOP.
GiveUp(b) ==
    /\ busy[b] /\ (adds[b] \/ dr[b] # Empty)
    /\ busy' = [busy EXCEPT ![b] = FALSE]
    /\ UNCHANGED <<carried, n, flags, req, ready, box, writing, owner>>

----------------------------------------------------------------------------
\* I2C0_EV_IRQHandler, I2C1_EV_IRQHandler: one event each time, of the first flag.

Taken(b) == writing = NoBus /\ Pending(b)    \* the interrupt is not masked

\* The message in the buffer is alone there if its address found nothing left over on
\* its bus and no other bus has had an event since.
Alone(b) == owner' = IF dr[b] = Empty /\ ~stp[b] THEN b ELSE NoBus
Mixed(b) == owner' = IF owner = b THEN b ELSE NoBus

KeepsOld(b) ==    \* mutant
    /\ Taken(b) /\ adds[b]
    /\ adds' = [adds EXCEPT ![b] = FALSE]
    /\ channel' = b
    /\ data' = Append(data, <<b, 0>>)
    /\ Alone(b)
    /\ UNCHANGED <<line, dr, stp, ready, box, writing>>

Addressed(b) ==
    /\ Taken(b) /\ adds[b]
    /\ adds' = [adds EXCEPT ![b] = FALSE]
    /\ channel' = b
    /\ data' = <<<<b, 0>>>>
    /\ Alone(b)
    /\ UNCHANGED <<line, dr, stp, ready, box, writing>>

LeavesLast(b) ==    \* mutant
    /\ Taken(b) /\ ~adds[b] /\ dr[b] # Empty
    /\ IF Len(data) + 1 < Capacity
         THEN data' = Append(data, dr[b]) /\ dr' = [dr EXCEPT ![b] = Empty] /\ Mixed(b)
         ELSE UNCHANGED <<data, dr, owner>>
    /\ UNCHANGED <<line, adds, stp, channel, ready, box, writing>>

\* With the buffer full the register is not read: the handler is called again for
\* the same byte.
Received(b) ==
    /\ Taken(b) /\ ~adds[b] /\ dr[b] # Empty
    /\ IF Len(data) + 1 <= Capacity
         THEN data' = Append(data, dr[b]) /\ dr' = [dr EXCEPT ![b] = Empty] /\ Mixed(b)
         ELSE UNCHANGED <<data, dr, owner>>
    /\ UNCHANGED <<line, adds, stp, channel, ready, box, writing>>

\* By the network function, the second byte; a full queue refuses.
QueueOfData == QueueOf[data[2][1]]

StopFirst(b) ==    \* mutant
    /\ Taken(b) /\ ~adds[b] /\ stp[b]
    /\ stp' = [stp EXCEPT ![b] = FALSE]
    /\ data' = IF Len(data) <= 1 \/ ready THEN <<>> ELSE data
    /\ box' = IF Len(data) > 1 /\ ready /\ Len(box[QueueOfData]) < QueueLength
                 THEN [box EXCEPT ![QueueOfData] = Append(@, [channel |-> channel, data |-> data])]
                 ELSE box
    /\ Mixed(b)
    /\ IF busy[b] THEN UNCHANGED line ELSE Over(b)
    /\ UNCHANGED <<adds, dr, channel, ready, writing>>

Stopped(b) ==
    /\ Taken(b) /\ ~adds[b] /\ dr[b] = Empty
    /\ stp' = [stp EXCEPT ![b] = FALSE]
    /\ data' = IF Len(data) <= 1 \/ ready THEN <<>> ELSE data
    /\ box' = IF Len(data) > 1 /\ ready /\ Len(box[QueueOfData]) < QueueLength
                 THEN [box EXCEPT ![QueueOfData] = Append(@, [channel |-> channel, data |-> data])]
                 ELSE box
    /\ Mixed(b)
    /\ IF busy[b] THEN UNCHANGED line ELSE Over(b)
    /\ UNCHANGED <<adds, dr, channel, ready, writing>>

Event(b) == Addressed(b) \/ Received(b) \/ Stopped(b)

----------------------------------------------------------------------------
\* Tasks run when no event waits.
TasksRun == writing = NoBus /\ \A b \in Buses : ~Pending(b)

\* i2c_deinit, i2c_channel_init: the events of the bus are forgotten, and what is
\* being sent is not acknowledged any more, so that its sender gives up.  The
\* buffer stays as it is.
Reinit(b) ==
    /\ adds' = [adds EXCEPT ![b] = FALSE]
    /\ dr' = [dr EXCEPT ![b] = Empty]
    /\ stp' = [stp EXCEPT ![b] = FALSE]
    /\ Over(b)
    /\ UNCHANGED <<req, owner>>

\* i2c_bytes_write: it waits for the bus to be idle and takes it, or times out.
BeginWrite(b) ==
    /\ TasksRun
    /\ writing' = b
    /\ UNCHANGED <<line, flags, req, ready, box, owner>>

\* The accesses to the registers that send a message also clear a STOP that came
\* after the interrupts had been masked; a byte not read may be lost with it.
WriteDone(b) ==
    /\ writing = b /\ ~busy[b]
    /\ stp' = [stp EXCEPT ![b] = FALSE]
    /\ \E r \in {dr[b], Empty} : dr' = [dr EXCEPT ![b] = r]
    /\ writing' = NoBus
    /\ UNCHANGED <<line, adds, req, ready, box, owner>>

WriteFails(b) ==
    /\ writing = b
    /\ Reinit(b)
    /\ writing' = NoBus
    /\ UNCHANGED <<ready, box>>

\* I2C0_ER_IRQHandler, I2C1_ER_IRQHandler: below the events.
Error(b) ==
    /\ TasksRun /\ busy[b]
    /\ Reinit(b)
    /\ UNCHANGED <<ready, box, writing>>

\* The tasks that own the queues create them and take from them.
CreateQueues ==
    /\ TasksRun /\ ~ready
    /\ ready' = TRUE
    /\ UNCHANGED <<line, flags, req, box, writing, owner>>

Take(q) ==
    /\ TasksRun /\ box[q] # <<>>
    /\ box' = [box EXCEPT ![q] = Tail(@)]
    /\ UNCHANGED <<line, flags, req, ready, writing, owner>>

BytesWrite(b) == WriteDone(b) \/ WriteFails(b)

\* A byte that finds the buffer full: the interrupt comes again at once and the idle
\* task, which holds off the watchdog, does not run.
Stuck(b) == Taken(b) /\ ~adds[b] /\ dr[b] # Empty /\ Len(data) + 1 > Capacity

\* What is being sent is not acknowledged while the board starts.
Watchdog ==
    /\ \E b \in Buses : Stuck(b)
    /\ carried' = [b \in Buses |-> NoMessage]
    /\ n' = [b \in Buses |-> 0]
    /\ busy' = [b \in Buses |-> FALSE]
    /\ adds' = [b \in Buses |-> FALSE]
    /\ dr' = [b \in Buses |-> Empty]
    /\ stp' = [b \in Buses |-> FALSE]
    /\ channel' = NoBus /\ data' = <<>>
    /\ ready' = FALSE
    /\ box' = [q \in Queues |-> <<>>]
    /\ owner' = NoBus
    /\ UNCHANGED writing

Next ==
    \/ \E m \in Message : Start(m)
    \/ \E b \in Buses :
        \/ Put(b) \/ Stop(b) \/ GiveUp(b) \/ Event(b)
        \/ BeginWrite(b) \/ BytesWrite(b) \/ Error(b)
    \/ CreateQueues \/ \E q \in Queues : Take(q)
    \/ Watchdog

Spec == Init /\ [][Next]_vars

\* A sender goes on when it is not held.  A handler takes microseconds and a byte a
\* hundred: an interrupt that can be taken now and again is taken.  A write ends because
\* it counts its attempts, and the watchdog does not wait longer than its period.
Fairness ==
    /\ \A b \in Buses : WF_vars(Put(b) \/ Stop(b)) /\ SF_vars(Event(b)) /\ WF_vars(BytesWrite(b))
    /\ WF_vars(Watchdog)

FairSpec == Spec /\ Fairness

----------------------------------------------------------------------------
\* What a bus carries until its STOP has been handled or forgotten, and whether the
\* bytes in the buffer are those of another bus too, or of a message before.
OnWay == [b \in Buses |-> IF busy[b] \/ stp[b] THEN carried[b] ELSE NoMessage]
Spoilt == [b \in Buses |-> OnWay[b] # NoMessage /\ ~adds[b] /\ owner # b]

Box == INSTANCE Mailbox WITH
           onWay <- OnWay, spoilt <- Spoilt, Content <- [m \in Message |-> Packet(m)]

\* A message whose bytes no other bus comes between is queued whole, once and where it
\* belongs, or not at all, whatever writes, errors, full queues and messages before it
\* have left; and what has begun ends: delivered, lost, or with the board's restart.
IsMailbox == Box!FairSpec

\* "if reception data register is not empty, I2C0 will read a data": it can, and the
\* interrupt does not come for ever, unless the message has more bytes than the
\* buffer or another one has been mixed with it.
StuckByLongOrMixed == \A b \in Buses : Stuck(b) => owner # b \/ Size[carried[b]] >= Capacity

----------------------------------------------------------------------------
\* The inductive invariant.  Of messages that mix, the buffer is not written beyond its
\* end and a queue gets only what its second byte, the network function, sends there.

Routed(p, q) ==
    /\ p.channel \in Buses \union {NoBus}
    /\ p.data \in Seq(Bytes) /\ Len(p.data) \in 2..Capacity
    /\ p.data[2][1] \in Message /\ QueueOf[p.data[2][1]] = q

Senders ==
    /\ carried \in [Buses -> Message \union {NoMessage}]
    /\ n \in [Buses -> Nat]
    /\ busy \in [Buses -> BOOLEAN] /\ adds \in [Buses -> BOOLEAN] /\ stp \in [Buses -> BOOLEAN]
    /\ dr \in [Buses -> {Empty} \union (Message \X Nat)]
    /\ channel \in Buses \union {NoBus} /\ owner \in Buses \union {NoBus}
    /\ ready \in BOOLEAN /\ writing \in Buses \union {NoBus}
    /\ \A b \in Buses : carried[b] # NoMessage => BusOf[carried[b]] = b /\ n[b] <= Size[carried[b]]
    /\ \A b \in Buses : busy[b] \/ stp[b] => carried[b] # NoMessage
    /\ \A b \in Buses : adds[b] => n[b] = 0

Buffered ==
    /\ data \in Seq(Bytes) /\ Len(data) <= Capacity
    /\ \A i \in 2..Len(data) : data[i] \in Message \X Nat
    /\ box \in [Queues -> Seq([channel : Buses \union {NoBus}, data : Seq(Bytes)])]
    /\ \A q \in Queues : Len(box[q]) <= QueueLength /\ \A i \in DOMAIN box[q] : Routed(box[q][i], q)

MixedInv == Senders /\ Buffered

\* The buffer holds what has been read of the message that is alone there.
Assembled(b) ==
    owner = b /\ ~adds[b] /\ (busy[b] \/ Pending(b)) =>
        /\ carried[b] # NoMessage /\ channel = b
        /\ data = Prefix(carried[b], IF dr[b] = Empty THEN n[b] + 1 ELSE n[b])
        /\ dr[b] # Empty => n[b] > 0 /\ dr[b] = Byte(carried[b], n[b])
        /\ stp[b] => ~busy[b] /\ n[b] = Size[carried[b]]

RxInv == MixedInv /\ \A b \in Buses : Assembled(b)

=============================================================================
