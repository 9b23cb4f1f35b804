-------------------------------- MODULE UartTx --------------------------------
(***************************************************************************)
(* The transmit path of a UART: bytes go through a ring (FIFO.c) that its  *)
(* callers fill and the transmission-complete interrupt empties.  A caller *)
(* that finds the transmitter idle sends the first byte itself             *)
(* (bsp_uartcomm.c).  UART_sendDataBlock writes to the data register past  *)
(* the ring.                                                               *)
(*                                                                         *)
(* The contexts are the calling tasks and interrupts and the UART's        *)
(* interrupt.  One of higher priority runs between any two steps of one of *)
(* lower priority; what is inside a critical section is one step.          *)
(*                                                                         *)
(* Nothing keeps two contexts apart.  The history variable raced records   *)
(* that one has acted on what another was changing, see Race below.        *)
(***************************************************************************)
EXTENDS Integers, Sequences

CONSTANTS
    Writers,    \* contexts that print: tasks, the shell, the I2C interrupts
    Pollers,    \* those of them that use UART_sendDataBlock as well
    Isr,        \* the UART's interrupt
    Prio,       \* a number for each context, the greatest for the most urgent
    Byte, NoByte,
    Depth,      \* bytes in the ring: 2048
    MaxBlock,   \* longest block handed over in one call
    Wrap        \* occupy counts modulo Wrap: 2^16

Contexts == Writers \union {Isr}
Slots == 0..(Depth - 1)
Block == UNION {[1..n -> Byte] : n \in 1..MaxBlock}

ASSUME UartConstants ==
    /\ Depth \in Nat \ {0} /\ MaxBlock \in Nat \ {0}
    /\ Wrap \in Nat /\ Wrap > Depth + MaxBlock
    /\ Isr \notin Writers /\ Pollers \subseteq Writers
    /\ NoByte \notin Byte /\ Byte # {}
    /\ Prio \in [Contexts -> Nat]

VARIABLES
    ring, rp, wp, occupy,   \* the FIFO
    sending,                \* status = UART_SENDING
    dr, shift,              \* the UART's data register and the byte on the line
    tc,                     \* the transmission-complete flag
    out,                    \* the byte last sent
    pc, block, data,        \* what each context does, and its variables
    raced                   \* history: two contexts have got in each other's way

fifo == <<ring, rp, wp, occupy>>
uart == <<dr, shift, tc, out>>
vars == <<ring, rp, wp, occupy, sending, dr, shift, tc, out, pc, block, data, raced>>

\* The flag is set after a reset, and cleared if something was sent by polling.
Init ==
    /\ \E zero \in Byte : ring = [s \in Slots |-> zero]
    /\ rp = 0 /\ wp = 0 /\ occupy = 0
    /\ sending = FALSE
    /\ dr = NoByte /\ shift = NoByte /\ tc \in BOOLEAN /\ out = NoByte
    /\ pc = [c \in Contexts |-> "idle"]
    /\ block = [c \in Contexts |-> <<>>]
    /\ data = [c \in Contexts |-> NoByte]
    /\ raced = FALSE

----------------------------------------------------------------------------
\* A context runs while none of higher priority is inside, and the interrupt is
\* taken before any further step of what it may interrupt.
CanRun(c) ==
    /\ \A d \in Contexts : pc[d] # "idle" => Prio[d] <= Prio[c]
    /\ tc /\ c # Isr => Prio[c] > Prio[Isr]

At(c, from) == pc[c] = from /\ CanRun(c)
Go(c, to) == pc' = [pc EXCEPT ![c] = to]

\* The steps of UART_sendFinally.
Driving == {"mark", "read", "pop", "transmit"}
Inside == {c \in Contexts : pc[c] \in {"empty", "clear"} \union Driving}

\* Those in UART_sendDataBlock.
Polling == {c \in Contexts : pc[c] \in {"poll", "tbe"}}

\* The transmitter is at work, or about to be.
InUse == shift # NoByte \/ tc \/ Inside # {}

\* A context acts on what another has changed or is about to change.
Race(happens) == raced' = (raced \/ happens)

\* The room left is looked at outside the critical section; a call that finds too
\* little returns false and changes nothing.
Room(b) == Len(b) <= Depth - occupy

Call(w, b) ==
    /\ At(w, "idle") /\ Room(b)
    /\ block' = [block EXCEPT ![w] = b]
    /\ Go(w, "write")
    /\ UNCHANGED <<fifo, sending, uart, data, raced>>

\* FIFO_Write, FIFO_Writes: the critical section.
Written(b) ==
    [s \in Slots |-> LET i == ((s - wp) % Depth) + 1 IN IF i <= Len(b) THEN b[i] ELSE ring[s]]

\* The room may be gone, or a context that found the ring empty may be about to
\* say that nothing is being sent.
Push(w) ==
    /\ At(w, "write")
    /\ ring' = Written(block[w])
    /\ wp' = (wp + Len(block[w])) % Depth
    /\ occupy' = (occupy + Len(block[w])) % Wrap
    /\ block' = [block EXCEPT ![w] = <<>>]
    /\ Go(w, "test")
    /\ Race(~Room(block[w]) \/ \E c \in Contexts : pc[c] = "clear")
    /\ UNCHANGED <<rp, sending, uart, data>>

StartAlways(w) ==    \* mutant
    /\ At(w, "test")
    /\ Go(w, "empty")
    /\ Race(~sending /\ InUse)
    /\ UNCHANGED <<fifo, sending, uart, block, data>>

\* UART_sendByte, UART_sendData: whether the transmitter must be started.  The
\* status may say idle of a transmitter that is in use.
Test(w) ==
    /\ At(w, "test")
    /\ Go(w, IF sending THEN "idle" ELSE "empty")
    /\ Race(~sending /\ InUse)
    /\ UNCHANGED <<fifo, sending, uart, block, data>>

FlagKept ==    \* mutant
    /\ tc /\ At(Isr, "idle")
    /\ Go(Isr, "empty")
    /\ UNCHANGED <<fifo, sending, uart, block, data, raced>>

\* The interrupt clears the flag and sends what is next.
Interrupt ==
    /\ tc /\ At(Isr, "idle")
    /\ tc' = FALSE
    /\ Go(Isr, "empty")
    /\ UNCHANGED <<fifo, sending, dr, shift, out, block, data, raced>>

StaysSending(c) ==    \* mutant
    /\ At(c, "clear")
    /\ Go(c, "idle")
    /\ UNCHANGED <<fifo, sending, uart, block, data, raced>>

\* UART_sendFinally, in the caller and in the interrupt.
Empty(c) ==
    /\ At(c, "empty")
    /\ Go(c, IF occupy = 0 THEN "clear" ELSE "mark")
    /\ UNCHANGED <<fifo, sending, uart, block, data, raced>>

Clear(c) ==
    /\ At(c, "clear")
    /\ sending' = FALSE
    /\ Go(c, "idle")
    /\ UNCHANGED <<fifo, uart, block, data, raced>>

Mark(c) ==
    /\ At(c, "mark")
    /\ sending' = TRUE
    /\ Go(c, "read")
    /\ UNCHANGED <<fifo, uart, block, data, raced>>

\* FIFO_Read looks outside the critical section, too.
Read(c) ==
    /\ At(c, "read")
    /\ Go(c, IF occupy = 0 THEN "idle" ELSE "pop")
    /\ UNCHANGED <<fifo, sending, uart, block, data, raced>>

Pop(c) ==
    /\ At(c, "pop")
    /\ data' = [data EXCEPT ![c] = ring[rp]]
    /\ rp' = (rp + 1) % Depth
    /\ occupy' = (occupy - 1) % Wrap
    /\ Go(c, "transmit")
    /\ UNCHANGED <<ring, wp, sending, uart, block, raced>>

\* usart_data_transmit.  A byte the data register still holds is lost.
Transmitted(x) ==
    IF shift = NoByte THEN shift' = x /\ UNCHANGED dr ELSE dr' = x /\ UNCHANGED shift

Transmit(c) ==
    /\ At(c, "transmit")
    /\ Transmitted(data[c])
    /\ data' = [data EXCEPT ![c] = NoByte]
    /\ Go(c, "idle")
    /\ UNCHANGED <<fifo, sending, tc, out, block, raced>>

\* UART_sendDataBlock writes a byte and then waits for the data register.  It looks
\* neither at the ring nor at the status, nor at what others are sending.
CallPolled(w, b) ==
    /\ At(w, "idle")
    /\ block' = [block EXCEPT ![w] = b]
    /\ Go(w, "poll")
    /\ UNCHANGED <<fifo, sending, uart, data, raced>>

NoTbeWait(w) ==    \* mutant
    /\ At(w, "tbe")
    /\ Go(w, IF block[w] = <<>> THEN "idle" ELSE "poll")
    /\ UNCHANGED <<fifo, sending, uart, block, data, raced>>

Poll(w) ==
    /\ At(w, "poll")
    /\ Transmitted(Head(block[w]))
    /\ block' = [block EXCEPT ![w] = Tail(block[w])]
    /\ Go(w, "tbe")
    /\ Race(tc \/ (Inside \union Polling) \ {w} # {})
    /\ UNCHANGED <<fifo, sending, tc, out, data>>

WaitTbe(w) ==
    /\ At(w, "tbe") /\ dr = NoByte
    /\ Go(w, IF block[w] = <<>> THEN "idle" ELSE "poll")
    /\ UNCHANGED <<fifo, sending, uart, block, data, raced>>

\* The line has taken the byte; the flag is set when no other follows.
Shift ==
    /\ shift # NoByte
    /\ out' = shift
    /\ shift' = dr
    /\ dr' = NoByte
    /\ tc' = (tc \/ dr = NoByte)
    /\ UNCHANGED <<fifo, sending, pc, block, data, raced>>

SendFinally(c) == Empty(c) \/ Clear(c) \/ Mark(c) \/ Read(c) \/ Pop(c) \/ Transmit(c)

Write(w) == Push(w) \/ Test(w) \/ SendFinally(w) \/ Poll(w) \/ WaitTbe(w)

Next ==
    \/ \E w \in Writers : (\E b \in Block : Call(w, b)) \/ Write(w)
    \/ \E w \in Pollers, b \in Block : CallPolled(w, b)
    \/ Interrupt \/ SendFinally(Isr)
    \/ Shift

Spec == Init /\ [][Next]_vars

\* The hardware shifts and interrupts, and what has been called gets on when no
\* context of higher priority keeps it from doing so.
Fairness ==
    /\ WF_vars(Shift)
    /\ WF_vars(Interrupt \/ SendFinally(Isr))
    /\ \A w \in Writers : WF_vars(Write(w))

FairSpec == Spec /\ Fairness

----------------------------------------------------------------------------
\* What has been accepted into the ring and not reached the UART, and what the
\* UART has: the byte on the line and the one in the data register.
Stretch(f, from, n) == [i \in 1..n |-> f[(from + i - 1) % Depth]]
Some(b) == IF b = NoByte THEN <<>> ELSE <<b>>
Holding == {c \in Contexts : data[c] # NoByte}
InHand == IF Holding = {} THEN <<>> ELSE <<data[CHOOSE c \in Holding : TRUE]>>
Queued == InHand \o Stretch(ring, rp, occupy)
Line == Some(shift) \o Some(dr)

Stream == INSTANCE ByteStream WITH queued <- Queued, line <- Line, broken <- raced

\* Until two contexts get in each other's way the transmit path is a stream of
\* bytes, for any number of callers and with polled blocks in between: no byte is
\* lost or repeated, none of the ring overtakes another, and while bytes wait some
\* are sent.  What counts as getting in each other's way is what Race records.
IsStream == Stream!FairSpec

\* Output never stops for good: while the status says sending, which keeps every
\* caller from starting the transmitter, a byte is on the line, or the flag is set,
\* or a context is on its way to the next byte.  Who tests the status, starts the
\* transmitter and finds it idle are the callers and the interrupt, with no lock
\* around the three.
Attended == shift # NoByte \/ tc \/ \E c \in Contexts : pc[c] # "idle"
NeverStalls == sending => Attended

\* Nothing but a race stops it, and nothing but a race leaves bytes waiting that
\* nobody is about to send.
StallsByRaceOnly == ~raced /\ (sending \/ occupy > 0) => Attended

----------------------------------------------------------------------------
\* The inductive invariant.

Types ==
    /\ ring \in [Slots -> Byte]
    /\ rp \in Slots /\ wp \in Slots /\ occupy \in 0..(Wrap - 1)
    /\ sending \in BOOLEAN /\ tc \in BOOLEAN /\ raced \in BOOLEAN
    /\ dr \in Byte \union {NoByte} /\ shift \in Byte \union {NoByte}
    /\ out \in Byte \union {NoByte}
    /\ pc \in [Contexts -> {"idle", "write", "test", "empty", "clear", "poll", "tbe"} \union Driving]
    /\ block \in [Contexts -> Block \union {<<>>}]
    /\ data \in [Contexts -> Byte \union {NoByte}]

\* Where a context is, and what it holds there.
Positions ==
    /\ pc[Isr] \notin {"write", "test", "poll", "tbe"}
    /\ \A c \in Contexts :
        /\ pc[c] \in {"write", "poll"} => block[c] # <<>>
        /\ pc[c] = "transmit" <=> data[c] # NoByte

\* The ring's indexes fit each other.
Consistent == occupy <= Depth /\ wp = (rp + occupy) % Depth

\* One context is inside UART_sendFinally, with the transmitter at rest, and what
\* it has found still holds when it acts on it.
OneDriver ==
    /\ \A c, d \in Inside : c = d
    /\ Inside # {} => shift = NoByte /\ ~tc
    /\ tc => shift = NoByte
    /\ dr # NoByte => shift # NoByte /\ \E c \in Contexts : pc[c] = "tbe"
    /\ \A c \in Contexts :
        /\ pc[c] = "clear" => occupy = 0
        /\ pc[c] \in {"mark", "read", "pop"} => occupy > 0

\* Somebody goes on while it counts as sending, or while bytes wait.
Going ==
    /\ sending => InUse
    /\ occupy > 0 => sending \/ InUse \/ \E w \in Writers : pc[w] = "test"

UartInv == Types /\ Positions /\ (~raced => Consistent /\ OneDriver /\ Going)

=============================================================================
