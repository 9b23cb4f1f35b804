------------------------------ MODULE ByteStream ------------------------------
(***************************************************************************)
(* What a transmit path promises its callers.  The bytes of the blocks it  *)
(* accepts are put on the line once each, in the order in which they were  *)
(* accepted; a polled byte goes on the line at once, past those that wait. *)
(* What is on the line is sent once each and in order.  This holds until   *)
(* the stream is broken; from then on nothing is promised.                 *)
(***************************************************************************)
EXTENDS Sequences

CONSTANTS
    Byte,     \* the bytes
    Block,    \* what a caller can hand over in one call: sequences of bytes
    NoByte

VARIABLES
    queued,   \* accepted and not on the line yet
    line,     \* on the line and not sent yet
    out,      \* the byte sent last
    broken

streamVars == <<queued, line, out, broken>>

Init == queued = <<>> /\ line = <<>> /\ out = NoByte /\ broken = FALSE

Accept(b) ==
    /\ queued' = queued \o b
    /\ UNCHANGED <<line, out>>

Feed ==
    /\ queued # <<>>
    /\ line' = Append(line, Head(queued))
    /\ queued' = Tail(queued)
    /\ UNCHANGED out

Polled(x) ==
    /\ line' = Append(line, x)
    /\ UNCHANGED <<queued, out>>

Send ==
    /\ line # <<>>
    /\ out' = Head(line)
    /\ line' = Tail(line)
    /\ UNCHANGED queued

Unbroken == ~broken /\ UNCHANGED broken

Break == broken' = TRUE

Next ==
    \/ /\ Unbroken
       /\ \/ \E b \in Block : Accept(b)
          \/ \E x \in Byte : Polled(x)
          \/ Feed
          \/ Send
    \/ Break

Spec == Init /\ [][Next]_streamVars

\* While bytes wait some go on the line, and what is on it is sent.
Hand == Unbroken /\ queued # <<>> /\ (Feed \/ \E x \in Byte : Polled(x))

FairSpec == Spec /\ WF_streamVars(Unbroken /\ Send) /\ WF_streamVars(Hand)

=============================================================================
