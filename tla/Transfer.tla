-------------------------------- MODULE Transfer --------------------------------
(***************************************************************************)
(* What an update promises about the board it is sent to: its program      *)
(* stays until it is erased as a whole, then the blocks of the image       *)
(* appear one after the other, each in its place and each once, and what   *)
(* is started is the old program or the whole new one.  The sender is told *)
(* of a block when the board has it, or is about to write it.              *)
(*                                                                         *)
(* A reset of the board ends the promise, and so does an acknowledgement   *)
(* too many, which may also be there from the start: of what comes after   *)
(* that, that the sender still moves block by block and that no running    *)
(* program changes.                                                        *)
(***************************************************************************)
EXTENDS Naturals

CONSTANTS
    N,          \* blocks in the image
    Blocks,     \* blocks in the area
    image,      \* the content of each block of the image
    Old, Erased

VARIABLES
    area,       \* the board's program area
    running,    \* whether its program runs
    at,         \* the block the sender is at; N when all have been sent
    cut         \* whether one of these has ended the promise

transferVars == <<area, running, at, cut>>

OldProgram == [b \in 0..(Blocks - 1) |-> Old]

\* The area with the first n blocks of the image, and nothing else.
First(n) == [b \in 0..(Blocks - 1) |-> IF b < n THEN image[b] ELSE Erased]

Init == area = OldProgram /\ running = TRUE /\ at = 0 /\ cut \in BOOLEAN

\* The bootloader is entered before the update or after it.
Enter ==
    /\ running /\ at \in {0, N}
    /\ running' = FALSE
    /\ UNCHANGED <<area, at, cut>>

Erase ==
    /\ ~running /\ at = 0 /\ area = OldProgram
    /\ area' = First(0)
    /\ UNCHANGED <<running, at, cut>>

WriteBlock(n) ==
    /\ ~running /\ at \in {n, n + 1}
    /\ area = First(n)
    /\ area' = First(n + 1)
    /\ UNCHANGED <<running, at, cut>>

\* The sender goes on to the next block.
Advance ==
    /\ ~running /\ at < N
    /\ area \in {First(at), First(at + 1)}
    /\ at' = at + 1
    /\ UNCHANGED <<area, running, cut>>

Start ==
    /\ ~running /\ at = N
    /\ area = First(N)
    /\ running' = TRUE
    /\ UNCHANGED <<area, at, cut>>

Cut ==
    /\ cut' = TRUE
    /\ at' \in {at, at + 1} /\ at' \in 0..N
    /\ running => area' = area

Next ==
    \/ ~cut /\ (Enter \/ Erase \/ Advance \/ Start \/ \E n \in 0..(N - 1) : WriteBlock(n))
    \/ Cut

Spec == Init /\ [][Next]_transferVars

=============================================================================
