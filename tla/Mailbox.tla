-------------------------------- MODULE Mailbox --------------------------------
(***************************************************************************)
(* What a receiver promises its queues: of what is sent on a bus a queue   *)
(* gets the whole content, once and in the queue it belongs to, or it gets *)
(* nothing of it.  Only of what has been spoilt by something else may a    *)
(* queue get anything, and a restart forgets everything.                   *)
(***************************************************************************)
EXTENDS Naturals, Sequences

CONSTANTS
    Buses, Message, NoMessage, Queues,
    BusOf,      \* the bus a message is sent on
    QueueOf,    \* the queue it belongs to
    Content     \* what that queue gets

VARIABLES
    onWay,      \* what is being sent on each bus
    spoilt,     \* whether it is spoilt
    box         \* the queues

mailboxVars == <<onWay, spoilt, box>>

Init ==
    /\ onWay = [b \in Buses |-> NoMessage]
    /\ spoilt = [b \in Buses |-> FALSE]
    /\ box = [q \in Queues |-> <<>>]

Send(m) ==
    /\ onWay[BusOf[m]] = NoMessage
    /\ onWay' = [onWay EXCEPT ![BusOf[m]] = m]
    /\ UNCHANGED <<spoilt, box>>

\* What was on its way on the same bus is lost.
Overrun(m) ==
    /\ onWay[BusOf[m]] # NoMessage
    /\ onWay' = [onWay EXCEPT ![BusOf[m]] = m]
    /\ spoilt' = [spoilt EXCEPT ![BusOf[m]] = FALSE]
    /\ UNCHANGED box

StaySpoilt(buses) == spoilt' \in {now \in [Buses -> BOOLEAN] : \A b \in buses : spoilt[b] => now[b]}

Spoil == StaySpoilt(Buses) /\ UNCHANGED <<onWay, box>>

Gone(b) ==
    /\ onWay[b] # NoMessage
    /\ onWay' = [onWay EXCEPT ![b] = NoMessage]
    /\ StaySpoilt(Buses \ {b}) /\ ~spoilt'[b]

Deliver(b) ==
    /\ ~spoilt[b] /\ Gone(b)
    /\ box' = [box EXCEPT ![QueueOf[onWay[b]]] = Append(@, Content[onWay[b]])]

Lose(b) == Gone(b) /\ UNCHANGED box

\* One more of anything.
Grows == \E q \in Queues :
    /\ Len(box'[q]) = Len(box[q]) + 1
    /\ box' = [box EXCEPT ![q] = Append(@, box'[q][Len(box[q]) + 1])]

DeliverSpoilt(b) == spoilt[b] /\ Gone(b) /\ Grows

DeliverPart(b) == spoilt[b] /\ StaySpoilt(Buses) /\ UNCHANGED onWay /\ Grows

Take(q) ==
    /\ box[q] # <<>>
    /\ box' = [box EXCEPT ![q] = Tail(@)]
    /\ UNCHANGED <<onWay, spoilt>>

Restart ==
    /\ onWay' = [b \in Buses |-> NoMessage]
    /\ spoilt' = [b \in Buses |-> FALSE]
    /\ box' = [q \in Queues |-> <<>>]

Ends(b) ==
    \/ Deliver(b) \/ Lose(b) \/ DeliverSpoilt(b)
    \/ \E m \in Message : BusOf[m] = b /\ Overrun(m)

Next ==
    \/ \E m \in Message : Send(m)
    \/ \E b \in Buses : Ends(b) \/ DeliverPart(b)
    \/ Spoil
    \/ \E q \in Queues : Take(q)
    \/ Restart

Spec == Init /\ [][Next]_mailboxVars

FairSpec == Spec /\ \A b \in Buses : WF_mailboxVars(Ends(b))

=============================================================================
