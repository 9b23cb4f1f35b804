----------------------------- MODULE UartTxProofs -----------------------------
(***************************************************************************)
(* The transmit path stalls by a race only, and until then it is a stream  *)
(* of bytes: for a ring of any length, blocks of any length, any bytes and *)
(* any number of callers of any priority.                                  *)
(***************************************************************************)
EXTENDS UartTx, SequenceTheorems, TLAPS

\* What the ring's indexes come to: a sum that passes the ring's end once.
LEMMA ModSmall == ASSUME NEW n \in Nat \ {0}, NEW x \in 0..(n - 1) PROVE x % n = x
  BY SMT

LEMMA ModOnce == ASSUME NEW n \in Nat \ {0}, NEW x \in n..(2 * n - 1) PROVE x % n = x - n
  BY SMT

LEMMA ModRange == ASSUME NEW n \in Nat \ {0}, NEW x \in Int PROVE x % n \in 0..(n - 1)
  BY SMT

\* A block is a sequence of bytes of at least one and at most MaxBlock.
LEMMA BlockType ==
  ASSUME NEW b \in Block
  PROVE  /\ b \in Seq(Byte) /\ Len(b) \in 1..MaxBlock /\ b # <<>>
         /\ \A i \in 1..Len(b) : b[i] \in Byte
<1>1. PICK n \in 1..MaxBlock : b \in [1..n -> Byte]
  BY DEF Block
<1>2. n \in Nat /\ b \in Seq(Byte) /\ Len(b) = n
  BY <1>1, UartConstants DEF UartConstants
<1> QED
  BY <1>1, <1>2

\* The write index after a block has been put into the ring.
LEMMA PushIndex ==
  ASSUME NEW r \in Slots, NEW o \in 0..Depth, NEW n \in 1..(Depth - o)
  PROVE  /\ (((r + o) % Depth) + n) % Depth = (r + o + n) % Depth
         /\ (((r + o) % Depth) + n) % Depth \in Slots
         /\ (o + n) % Wrap = o + n
         /\ o + n \in 0..Depth /\ r + o + n = r + (o + n)
<1>1. Depth \in Nat \ {0} /\ Wrap \in Nat \ {0} /\ Wrap > Depth
  BY UartConstants DEF UartConstants
<1>2. r + o \in 0..(2 * Depth - 1) /\ r + o + n \in 0..(2 * Depth - 1)
  BY <1>1 DEF Slots
<1>6. (o + n) % Wrap = o + n
  BY <1>1, ModSmall
<1>7. (r + o + n) % Depth \in Slots
  BY <1>1, <1>2, ModRange DEF Slots
<1>8. o + n \in 0..Depth /\ r + o + n = r + (o + n)
  BY <1>1 DEF Slots
<1>3. CASE r + o < Depth
  <2>1. (r + o) % Depth = r + o
    BY <1>1, <1>2, <1>3, ModSmall
  <2> QED
    BY <1>6, <1>7, <1>8, <2>1
<1>4. CASE r + o >= Depth
  <2>1. (r + o) % Depth = r + o - Depth
    <3>1. r + o \in Depth..(2 * Depth - 1)
      BY <1>1, <1>2, <1>4
    <3> QED
      BY <1>1, <3>1, ModOnce DEF Slots
  <2>2. r + o - Depth + n \in 0..(Depth - 1)
    BY <1>1, <1>2, <1>4 DEF Slots
  <2>3. (r + o - Depth + n) % Depth = r + o - Depth + n
    BY <1>1, <2>2, ModSmall
  <2>4. (r + o + n) % Depth = r + o + n - Depth
    BY <1>1, <1>2, <1>4, ModOnce
  <2>5. (o + n) % Wrap = o + n
    BY <1>1, ModSmall
  <2> QED
    BY <1>1, <1>2, <1>8, <2>1, <2>2, <2>3, <2>4, <2>5 DEF Slots
<1>5. r + o \in Int
  BY <1>2
<1> QED
  BY <1>1, <1>3, <1>4, <1>5

\* The read index after a byte has been taken from it.
LEMMA PopIndex ==
  ASSUME NEW r \in Slots, NEW o \in 1..Depth
  PROVE  /\ (r + 1) % Depth \in Slots
         /\ (((r + 1) % Depth) + (o - 1)) % Depth = (r + o) % Depth
         /\ (o - 1) % Wrap = o - 1
<1>1. Depth \in Nat \ {0} /\ Wrap \in Nat \ {0} /\ Wrap > Depth
  BY UartConstants DEF UartConstants
<1>2. (o - 1) % Wrap = o - 1
  BY <1>1, ModSmall
<1>3. CASE r + 1 < Depth
  <2>1. (r + 1) % Depth = r + 1
    BY <1>1, <1>3, ModSmall DEF Slots
  <2> QED
    BY <1>1, <1>2, <1>3, <2>1 DEF Slots
<1>4. CASE r + 1 = Depth
  <2>1. (r + 1) % Depth = 0
    BY <1>1, <1>4, ModOnce
  <2>2. (o - 1) % Depth = o - 1
    BY <1>1, ModSmall
  <2>3. (r + o) % Depth = r + o - Depth
    BY <1>1, <1>4, ModOnce DEF Slots
  <2> QED
    BY <1>1, <1>2, <1>4, <2>1, <2>2, <2>3 DEF Slots
<1> QED
  BY <1>1, <1>3, <1>4 DEF Slots

\* What is left of a block once its first byte is gone.
LEMMA BlockTail ==
  ASSUME NEW b \in Block
  PROVE  Head(b) \in Byte /\ Tail(b) \in Block \union {<<>>}
<1>1. b \in Seq(Byte) /\ Len(b) \in 1..MaxBlock /\ b # <<>>
  BY BlockType
<1>2. Head(b) \in Byte /\ Tail(b) \in Seq(Byte) /\ Len(Tail(b)) = Len(b) - 1
  BY <1>1, HeadTailProperties
<1>3. Tail(b) \in [1..Len(Tail(b)) -> Byte]
  BY <1>2, LenProperties
<1>4. CASE Len(b) = 1
  <2>1. Len(Tail(b)) = 0
    BY <1>1, <1>2, <1>4
  <2>2. Tail(b) = <<>>
    BY <1>2, <2>1, EmptySeq
  <2> QED
    BY <1>2, <2>2
<1>5. CASE Len(b) > 1
  <2>1. Len(Tail(b)) \in 1..MaxBlock
    BY <1>1, <1>2, <1>5, UartConstants DEF UartConstants
  <2> QED
    BY <1>2, <1>3, <2>1 DEF Block
<1> QED
  BY <1>1, <1>2, <1>4, <1>5

LEMMA InitInv == ASSUME Init PROVE UartInv
<1>1. Types
  <2>1. Depth \in Nat \ {0} /\ Wrap \in Nat \ {0} /\ 0 \in Slots
    BY UartConstants DEF UartConstants, Slots
  <2>2. ring \in [Slots -> Byte]
    BY DEF Init
  <2>3. occupy \in 0..(Wrap - 1)
    BY <2>1 DEF Init
  <2>4. pc \in [Contexts -> {"idle", "write", "test", "empty", "clear", "poll", "tbe"} \union Driving]
    BY DEF Init
  <2>5. block \in [Contexts -> Block \union {<<>>}]
    BY DEF Init
  <2>6. data \in [Contexts -> Byte \union {NoByte}]
    BY DEF Init
  <2> QED
    BY <2>1, <2>2, <2>3, <2>4, <2>5, <2>6 DEF Init, Types
<1>2. Positions
  BY UartConstants DEF Init, Positions, UartConstants, Contexts, Driving
<1>3. Consistent
  BY UartConstants, ModSmall DEF Init, Consistent, UartConstants
<1>4. OneDriver /\ Going
  <2>1. Inside = {}
    BY DEF Init, Inside, Driving
  <2> QED
    BY <2>1 DEF Init, OneDriver, Going, InUse
<1> QED
  BY <1>1, <1>2, <1>3, <1>4 DEF UartInv

----------------------------------------------------------------------------
\* Types and positions hold after a race, too.

Kept == Types /\ Positions

LEMMA PushKept == ASSUME Kept, NEW w \in Writers, Push(w) PROVE Kept'
<1> DEFINE b == block[w]
<1>1. w \in Contexts /\ w # Isr /\ b \in Block /\ Len(b) \in Nat
  BY BlockType, UartConstants DEF Kept, Types, Positions, Push, At, Contexts, UartConstants
<1>2. wp' \in Slots /\ occupy' \in 0..(Wrap - 1)
  <2>1. Depth \in Nat \ {0} /\ Wrap \in Nat \ {0} /\ wp + Len(b) \in Int /\ occupy + Len(b) \in Int
    BY <1>1, UartConstants DEF Kept, Types, UartConstants, Slots
  <2> QED
    BY <2>1, ModRange DEF Push, Slots
<1>3. ring' \in [Slots -> Byte]
  <2>1. \A s \in Slots : ((s - wp) % Depth) + 1 \in Int /\ ((s - wp) % Depth) + 1 >= 1
    BY ModRange, UartConstants DEF Kept, Types, Slots, UartConstants
  <2>2. \A s \in Slots : Written(b)[s] \in Byte
    BY <1>1, <2>1, BlockType DEF Kept, Types, Written
  <2> QED
    BY <2>2 DEF Push, Written
<1>4. Types'
  BY <1>1, <1>2, <1>3 DEF Kept, Types, Push, Go, Race, uart
<1>5. Positions'
  BY <1>1 DEF Kept, Types, Positions, Push, At, Go, uart
<1> QED
  BY <1>4, <1>5 DEF Kept

LEMMA PopKept == ASSUME Kept, NEW c \in Contexts, Pop(c) PROVE Kept'
<1>1. ring[rp] \in Byte /\ ring[rp] # NoByte
  BY UartConstants DEF Kept, Types, UartConstants
<1>2. rp' \in Slots /\ occupy' \in 0..(Wrap - 1)
  <2>1. Depth \in Nat \ {0} /\ Wrap \in Nat \ {0} /\ rp + 1 \in Int /\ occupy - 1 \in Int
    BY UartConstants DEF Kept, Types, UartConstants, Slots
  <2> QED
    BY <2>1, ModRange DEF Pop, Slots
<1>3. Types'
  BY <1>1, <1>2 DEF Kept, Types, Pop, Go, uart, Driving
<1>4. Positions'
  BY <1>1 DEF Kept, Types, Positions, Pop, Go
<1> QED
  BY <1>3, <1>4 DEF Kept

LEMMA PollKept == ASSUME Kept, NEW w \in Writers, Poll(w) PROVE Kept'
<1>1. w \in Contexts /\ w # Isr /\ block[w] \in Block
  BY UartConstants DEF Kept, Types, Positions, Poll, At, Contexts, UartConstants
<1>2. Head(block[w]) \in Byte /\ Tail(block[w]) \in Block \union {<<>>}
  BY <1>1, BlockTail
<1>3. Types'
  BY <1>1, <1>2 DEF Kept, Types, Poll, Transmitted, Go, Race, fifo
<1>4. Positions'
  BY <1>1, <1>2 DEF Kept, Types, Positions, Poll, At, Go
<1> QED
  BY <1>3, <1>4 DEF Kept

LEMMA NextKept == ASSUME Kept, [Next]_vars PROVE Kept'
<1>1. CASE UNCHANGED vars
  BY <1>1 DEF vars, Kept, Types, Positions
<1>2. ASSUME NEW w \in Writers, NEW b \in Block, Call(w, b) PROVE Kept'
  <2>1. w \in Contexts /\ w # Isr /\ b # <<>>
    BY BlockType, UartConstants DEF Contexts, UartConstants
  <2> QED
    BY <1>2, <2>1 DEF Kept, Types, Positions, Call, At, Go, fifo, uart, Driving
<1>3. ASSUME NEW w \in Writers, Push(w) PROVE Kept'
  BY <1>3, PushKept
<1>4. ASSUME NEW w \in Writers, Test(w) PROVE Kept'
  BY <1>4, UartConstants DEF Kept, Types, Positions, Test, At, Go, Race, fifo, uart, Contexts, UartConstants
<1>5. ASSUME NEW w \in Writers, Poll(w) PROVE Kept'
  BY <1>5, PollKept
<1>6. ASSUME NEW w \in Writers, WaitTbe(w) PROVE Kept'
  BY <1>6, UartConstants DEF Kept, Types, Positions, WaitTbe, At, Go, fifo, uart, Contexts, UartConstants
<1>7. ASSUME NEW w \in Pollers, NEW b \in Block, CallPolled(w, b) PROVE Kept'
  <2>1. w \in Contexts /\ w # Isr /\ b # <<>>
    BY BlockType, UartConstants DEF Contexts, UartConstants
  <2> QED
    BY <1>7, <2>1 DEF Kept, Types, Positions, CallPolled, At, Go, fifo, uart, Driving
<1>8. CASE Interrupt
  BY <1>8, UartConstants DEF Kept, Types, Positions, Interrupt, At, Go, fifo, Contexts, UartConstants
<1>9. ASSUME NEW c \in Contexts, SendFinally(c) PROVE Kept'
  <2>1. CASE Empty(c)
    BY <2>1 DEF Kept, Types, Positions, Empty, At, Go, fifo, uart, Driving
  <2>2. CASE Clear(c)
    <3>1. pc' = [pc EXCEPT ![c] = "idle"] /\ pc[c] = "clear" /\ data[c] = NoByte
      BY <2>2 DEF Kept, Positions, Clear, At, Go
    <3>2. UNCHANGED <<fifo, uart, block, data, raced>> /\ sending' = FALSE
      BY <2>2 DEF Clear
    <3>3. Types'
      BY <3>1, <3>2 DEF Kept, Types, fifo, uart
    <3>4. Positions'
      BY <3>1, <3>2 DEF Kept, Types, Positions
    <3> QED
      BY <3>3, <3>4 DEF Kept
  <2>3. CASE Mark(c)
    BY <2>3 DEF Kept, Types, Positions, Mark, At, Go, fifo, uart, Driving
  <2>4. CASE Read(c)
    BY <2>4 DEF Kept, Types, Positions, Read, At, Go, fifo, uart, Driving
  <2>5. CASE Pop(c)
    BY <2>5, PopKept
  <2>6. CASE Transmit(c)
    BY <2>6 DEF Kept, Types, Positions, Transmit, Transmitted, At, Go, fifo
  <2> QED
    BY <1>9, <2>1, <2>2, <2>3, <2>4, <2>5, <2>6 DEF SendFinally
<1>10. CASE Shift
  BY <1>10 DEF Kept, Types, Positions, Shift, fifo
<1> QED
  BY <1>1, <1>2, <1>3, <1>4, <1>5, <1>6, <1>7, <1>8, <1>9, <1>10 DEF Next, Write, Contexts

----------------------------------------------------------------------------
\* The ring's indexes, one driver and its going on hold until there is a race.

Clean == Kept /\ Consistent /\ OneDriver /\ Going

LEMMA PushClean ==
  ASSUME Clean, NEW w \in Writers, Push(w), ~raced'
  PROVE  (Consistent /\ OneDriver /\ Going)'
<1> DEFINE b == block[w]
<1>1. /\ w \in Contexts /\ b \in Block /\ Len(b) \in Nat /\ Len(b) > 0
      /\ Room(b) /\ \A c \in Contexts : pc[c] # "clear"
  <2>1. w \in Contexts /\ b \in Block
    BY DEF Clean, Kept, Types, Positions, Push, At, Contexts
  <2>2. Room(b) /\ \A c \in Contexts : pc[c] # "clear"
    BY DEF Push, Race
  <2> QED
    BY <2>1, <2>2, BlockType, UartConstants DEF UartConstants
<1>2. Len(b) \in 1..(Depth - occupy) /\ rp \in Slots /\ occupy \in 0..Depth
  BY <1>1, UartConstants DEF Clean, Kept, Types, Consistent, Room, UartConstants
<1>3. /\ occupy' = occupy + Len(b) /\ occupy' \in 0..Depth
      /\ wp' = (rp + occupy') % Depth
  <2>1. /\ (((rp + occupy) % Depth) + Len(b)) % Depth = (rp + occupy + Len(b)) % Depth
        /\ (((rp + occupy) % Depth) + Len(b)) % Depth \in Slots
        /\ (occupy + Len(b)) % Wrap = occupy + Len(b)
        /\ occupy + Len(b) \in 0..Depth /\ rp + occupy + Len(b) = rp + (occupy + Len(b))
    BY <1>2, PushIndex
  <2>2. wp' = (((rp + occupy) % Depth) + Len(b)) % Depth /\ occupy' = (occupy + Len(b)) % Wrap
    BY DEF Clean, Consistent, Push
  <2> QED
    BY <2>1, <2>2
<1>4. Consistent'
  BY <1>3, UartConstants DEF Consistent, Push, UartConstants
<1>5. Inside' = Inside /\ pc' = [pc EXCEPT ![w] = "test"] /\ pc[w] = "write"
  BY <1>1 DEF Clean, Kept, Types, Push, At, Go, Inside, Driving
<1>6. OneDriver'
  BY <1>1, <1>2, <1>3, <1>5 DEF Clean, Kept, Types, OneDriver, Push, uart
<1>7. Going'
  BY <1>1, <1>5 DEF Clean, Kept, Types, Going, InUse, Push, uart
<1> QED
  BY <1>4, <1>6, <1>7

LEMMA TestClean ==
  ASSUME Clean, NEW w \in Writers, Test(w), ~raced'
  PROVE  (Consistent /\ OneDriver /\ Going)'
<1>1. w \in Contexts /\ pc[w] = "test"
  BY DEF Test, At, Contexts
<1>2. Consistent'
  BY DEF Clean, Consistent, Test, fifo
<1>3. CASE sending
  <2>1. Inside' = Inside /\ pc' = [pc EXCEPT ![w] = "idle"]
    BY <1>1, <1>3 DEF Clean, Kept, Types, Test, Go, Inside, Driving
  <2> QED
    BY <1>1, <1>2, <1>3, <2>1 DEF Clean, Kept, Types, OneDriver, Going, InUse, Test, fifo, uart
<1>4. CASE ~sending
  <2>1. shift = NoByte /\ ~tc /\ Inside = {}
    BY <1>4 DEF Test, Race, InUse
  <2>2. Inside' = {w} /\ pc' = [pc EXCEPT ![w] = "empty"]
    BY <1>1, <1>4, <2>1 DEF Clean, Kept, Types, Test, Go, Inside, Driving
  <2> QED
    BY <1>1, <1>2, <1>4, <2>1, <2>2 DEF Clean, Kept, Types, OneDriver, Going, InUse, Test, fifo, uart
<1> QED
  BY <1>3, <1>4

LEMMA PollClean ==
  ASSUME Clean, NEW w \in Writers, Poll(w), ~raced'
  PROVE  /\ (Consistent /\ OneDriver /\ Going)'
         /\ dr = NoByte /\ Inside = {}
<1>1. w \in Contexts /\ pc[w] = "poll" /\ w \notin Inside
  BY DEF Poll, At, Contexts, Inside, Driving
<1>2. ~tc /\ Inside = {} /\ \A c \in Contexts : pc[c] = "tbe" => c = w
  BY <1>1 DEF Poll, Race, Polling
<1>3. dr = NoByte
  BY <1>1, <1>2 DEF Clean, OneDriver
<1>4. Head(block[w]) # NoByte
  BY <1>1, BlockTail, UartConstants DEF Clean, Kept, Types, Positions, UartConstants
<1>5. shift' # NoByte /\ Inside' = {} /\ pc' = [pc EXCEPT ![w] = "tbe"]
  BY <1>1, <1>2, <1>4 DEF Clean, Kept, Types, Poll, Transmitted, Go, Inside, Driving
<1>6. Consistent'
  BY DEF Clean, Consistent, Poll, fifo
<1>7. OneDriver' /\ Going'
  BY <1>1, <1>2, <1>5 DEF Clean, Kept, Types, OneDriver, Going, InUse, Poll, fifo
<1> QED
  BY <1>2, <1>3, <1>6, <1>7

LEMMA CallClean ==
  ASSUME Clean, NEW w \in Writers, NEW to \in {"write", "poll"},
         At(w, "idle"), Go(w, to), UNCHANGED <<fifo, sending, uart>>
  PROVE  (Consistent /\ OneDriver /\ Going)'
<1>1. w \in Contexts /\ pc[w] = "idle" /\ pc' = [pc EXCEPT ![w] = to]
  BY DEF At, Go, Contexts
<1>2. Inside' = Inside
  BY <1>1 DEF Clean, Kept, Types, Inside, Driving
<1> QED
  BY <1>1, <1>2 DEF Clean, Kept, Types, Consistent, OneDriver, Going, InUse, fifo, uart

LEMMA WaitTbeClean ==
  ASSUME Clean, NEW w \in Writers, WaitTbe(w)
  PROVE  (Consistent /\ OneDriver /\ Going)'
<1>1. w \in Contexts /\ pc[w] = "tbe" /\ \E to \in {"idle", "poll"} : pc' = [pc EXCEPT ![w] = to]
  BY DEF WaitTbe, At, Go, Contexts
<1>2. Inside' = Inside
  BY <1>1 DEF Clean, Kept, Types, Inside, Driving
<1> QED
  BY <1>1, <1>2
     DEF Clean, Kept, Types, Consistent, OneDriver, Going, InUse, WaitTbe, fifo, uart

LEMMA InterruptClean == ASSUME Clean, Interrupt PROVE (Consistent /\ OneDriver /\ Going)'
<1>1. Isr \in Contexts /\ pc' = [pc EXCEPT ![Isr] = "empty"] /\ tc /\ ~tc' /\ shift = NoByte
  BY DEF Interrupt, Go, Contexts, Clean, OneDriver
<1>2. Inside = {}
  BY <1>1 DEF Clean, OneDriver
<1>3. Inside' = {Isr}
  BY <1>1, <1>2 DEF Clean, Kept, Types, Inside, Driving
<1> QED
  BY <1>1, <1>3 DEF Clean, Kept, Types, Consistent, OneDriver, Going, InUse, Interrupt, fifo

\* A context inside UART_sendFinally is the only one, and the line is at rest.
LEMMA Alone ==
  ASSUME Clean, NEW c \in Contexts, pc[c] \in {"empty", "clear"} \union Driving
  PROVE  Inside = {c} /\ shift = NoByte /\ dr = NoByte /\ ~tc
<1>1. c \in Inside
  BY DEF Inside
<1> QED
  BY <1>1 DEF Clean, OneDriver

\* What UART_sendFinally does within itself, the ring and the line left alone.
LEMMA WithinClean ==
  ASSUME Clean, NEW c \in Contexts, Empty(c) \/ Clear(c) \/ Mark(c) \/ Read(c)
  PROVE  (Consistent /\ OneDriver /\ Going)'
<1>1. Inside = {c} /\ shift = NoByte /\ dr = NoByte /\ ~tc
  BY Alone DEF Empty, Clear, Mark, Read, At, Driving
<1>2. Consistent' /\ UNCHANGED <<fifo, uart, occupy, shift, dr, tc>>
  BY DEF Clean, Consistent, Empty, Clear, Mark, Read, fifo, uart
<1>3. CASE Empty(c)
  <2>1. pc' = [pc EXCEPT ![c] = IF occupy = 0 THEN "clear" ELSE "mark"]
    BY <1>3 DEF Empty, Go
  <2>2. Inside' = {c}
    BY <1>1, <2>1 DEF Clean, Kept, Types, Inside, Driving
  <2> QED
    BY <1>1, <1>2, <1>3, <2>1, <2>2 DEF Clean, Kept, Types, OneDriver, Going, InUse, Empty
<1>4. CASE Clear(c)
  <2>1. occupy = 0 /\ pc' = [pc EXCEPT ![c] = "idle"] /\ ~sending'
    BY <1>4 DEF Clear, At, Go, Clean, OneDriver
  <2>2. Inside' = {}
    BY <1>1, <2>1 DEF Clean, Kept, Types, Inside, Driving
  <2> QED
    BY <1>1, <1>2, <2>1, <2>2 DEF Clean, Kept, Types, OneDriver, Going, InUse
<1>5. CASE Mark(c)
  <2>1. occupy > 0 /\ pc' = [pc EXCEPT ![c] = "read"]
    BY <1>5 DEF Mark, At, Go, Clean, OneDriver
  <2>2. Inside' = {c}
    BY <1>1, <2>1 DEF Clean, Kept, Types, Inside, Driving
  <2> QED
    BY <1>1, <1>2, <2>1, <2>2 DEF Clean, Kept, Types, OneDriver, Going, InUse
<1>6. CASE Read(c)
  <2>1. occupy > 0 /\ occupy # 0
    BY <1>6, UartConstants DEF Read, At, Clean, OneDriver, Kept, Types, UartConstants
  <2>3. pc' = [pc EXCEPT ![c] = "pop"]
    BY <1>6, <2>1 DEF Read, Go
  <2>2. Inside' = {c}
    BY <1>1, <2>3 DEF Clean, Kept, Types, Inside, Driving
  <2> QED
    BY <1>1, <1>2, <2>1, <2>2, <2>3 DEF Clean, Kept, Types, OneDriver, Going, InUse
<1> QED
  BY <1>3, <1>4, <1>5, <1>6

LEMMA PopClean ==
  ASSUME Clean, NEW c \in Contexts, Pop(c)
  PROVE  /\ (Consistent /\ OneDriver /\ Going)'
         /\ occupy \in 1..Depth /\ occupy' = occupy - 1
<1>1. Inside = {c} /\ shift = NoByte /\ dr = NoByte /\ ~tc
  BY Alone DEF Pop, At, Driving
<1>2. rp \in Slots /\ occupy \in 1..Depth
  BY UartConstants DEF Clean, Kept, Types, Consistent, OneDriver, Pop, At, UartConstants
<1>3. occupy' = occupy - 1 /\ occupy' <= Depth /\ wp' = (rp' + occupy') % Depth
  <2>1. /\ (rp + 1) % Depth \in Slots
        /\ (((rp + 1) % Depth) + (occupy - 1)) % Depth = (rp + occupy) % Depth
        /\ (occupy - 1) % Wrap = occupy - 1
    BY <1>2, PopIndex
  <2>2. rp' = (rp + 1) % Depth /\ occupy' = (occupy - 1) % Wrap /\ wp' = (rp + occupy) % Depth
    BY DEF Clean, Consistent, Pop
  <2>3. occupy - 1 <= Depth
    BY <1>2, UartConstants DEF UartConstants
  <2> QED
    BY <2>1, <2>2, <2>3
<1>4. pc' = [pc EXCEPT ![c] = "transmit"]
  BY DEF Pop, Go
<1>5. Inside' = {c}
  BY <1>1, <1>4 DEF Clean, Kept, Types, Inside, Driving
<1>6. \A d \in Contexts : d # c => pc'[d] = pc[d] /\ d \notin Inside
  BY <1>1, <1>4 DEF Clean, Kept, Types
<1>7. OneDriver' /\ Going'
  BY <1>1, <1>4, <1>5, <1>6 DEF Clean, Kept, Types, OneDriver, Going, InUse, Inside, Driving, Pop, uart
<1> QED
  BY <1>2, <1>3, <1>7 DEF Consistent

LEMMA TransmitClean ==
  ASSUME Clean, NEW c \in Contexts, Transmit(c)
  PROVE  (Consistent /\ OneDriver /\ Going)'
<1>1. Inside = {c} /\ shift = NoByte /\ dr = NoByte /\ ~tc
  BY Alone DEF Transmit, At, Driving
<1>2. data[c] # NoByte /\ shift' = data[c] /\ dr' = NoByte /\ pc' = [pc EXCEPT ![c] = "idle"]
  BY <1>1 DEF Clean, Kept, Positions, Transmit, Transmitted, At, Go
<1>3. Inside' = {}
  BY <1>1, <1>2 DEF Clean, Kept, Types, Inside, Driving
<1> QED
  BY <1>1, <1>2, <1>3
     DEF Clean, Kept, Types, Consistent, OneDriver, Going, InUse, Transmit, fifo

LEMMA ShiftClean == ASSUME Clean, Shift PROVE (Consistent /\ OneDriver /\ Going)'
<1>1. Inside = {} /\ Inside' = {}
  BY DEF Clean, OneDriver, Shift, Inside
<1> QED
  BY <1>1 DEF Clean, Kept, Types, Consistent, OneDriver, Going, InUse, Shift, fifo

LEMMA NextClean ==
  ASSUME Clean, [Next]_vars, ~raced'
  PROVE  (Consistent /\ OneDriver /\ Going)'
<1>1. CASE UNCHANGED vars
  BY <1>1 DEF vars, Clean, Consistent, OneDriver, Going, InUse, Inside
<1>2. ASSUME NEW w \in Writers, NEW b \in Block, Call(w, b) PROVE (Consistent /\ OneDriver /\ Going)'
  BY <1>2, CallClean DEF Call
<1>3. ASSUME NEW w \in Pollers, NEW b \in Block, CallPolled(w, b) PROVE (Consistent /\ OneDriver /\ Going)'
  <2>1. w \in Writers
    BY UartConstants DEF UartConstants
  <2> QED
    BY <1>3, <2>1, CallClean DEF CallPolled
<1>4. ASSUME NEW w \in Writers, Push(w) \/ Test(w) \/ Poll(w) \/ WaitTbe(w)
      PROVE  (Consistent /\ OneDriver /\ Going)'
  BY <1>4, PushClean, TestClean, PollClean, WaitTbeClean
<1>5. ASSUME NEW c \in Contexts, SendFinally(c) PROVE (Consistent /\ OneDriver /\ Going)'
  BY <1>5, WithinClean, PopClean, TransmitClean DEF SendFinally
<1>6. CASE Interrupt
  BY <1>6, InterruptClean
<1>7. CASE Shift
  BY <1>7, ShiftClean
<1> QED
  BY <1>1, <1>2, <1>3, <1>4, <1>5, <1>6, <1>7 DEF Next, Write, Contexts

\* A race is never forgotten.
LEMMA RacedStays == ASSUME [Next]_vars, raced PROVE raced'
  BY DEF Next, vars, Write, SendFinally, Call, CallPolled, Push, Test, Empty, Clear, Mark, Read, Pop,
         Transmit, Poll, WaitTbe, Interrupt, Shift, Race

LEMMA NextInv == ASSUME UartInv, [Next]_vars PROVE UartInv'
<1>1. Kept'
  BY NextKept DEF Kept, UartInv
<1>2. ASSUME ~raced' PROVE (Consistent /\ OneDriver /\ Going)'
  <2>1. Clean
    BY <1>2, RacedStays DEF UartInv, Clean, Kept
  <2> QED
    BY <1>2, <2>1, NextClean
<1> QED
  BY <1>1, <1>2 DEF UartInv, Kept

\* Until there is a race one context at a time drives the transmitter, it acts on
\* what still holds, and bytes that wait have somebody who sends them.
THEOREM DriverInvariant == Spec => []UartInv
<1>1. Init => UartInv
  BY InitInv
<1>2. UartInv /\ [Next]_vars => UartInv'
  BY NextInv
<1> QED
  BY <1>1, <1>2, PTL DEF Spec

\* The transmitter stalls by a race only: callers that test the status and an
\* interrupt that clears it lose no wakeup between the two.
THEOREM StallFree == Spec => []StallsByRaceOnly
<1>1. UartInv => StallsByRaceOnly
  BY DEF UartInv, Going, InUse, Inside, StallsByRaceOnly, Attended, Driving, Contexts
<1> QED
  BY <1>1, DriverInvariant, PTL

----------------------------------------------------------------------------
\* The refinement: what waits in the ring and what is on the line.

Ring == Stretch(ring, rp, occupy)

LEMMA RingSeq ==
  ASSUME NEW f \in [Slots -> Byte], NEW r \in Slots, NEW o \in 0..Depth
  PROVE  /\ Stretch(f, r, o) \in Seq(Byte) /\ Len(Stretch(f, r, o)) = o
         /\ \A i \in 1..o : /\ (r + i - 1) % Depth \in Slots
                            /\ Stretch(f, r, o)[i] = f[(r + i - 1) % Depth]
<1>1. o \in Nat /\ Depth \in Nat \ {0} /\ r \in Int
  BY UartConstants DEF UartConstants, Slots
<1>2. \A i \in 1..o : (r + i - 1) % Depth \in Slots
  <2> SUFFICES ASSUME NEW i \in 1..o PROVE (r + i - 1) % Depth \in Slots
    OBVIOUS
  <2>1. r + i - 1 \in Int
    BY <1>1
  <2> QED
    BY <1>1, <2>1, ModRange DEF Slots
<1> DEFINE q == [i \in 1..o |-> f[(r + i - 1) % Depth]]
<1>3. q \in [1..o -> Byte]
  BY <1>2
<1>4. q \in Seq(Byte) /\ Len(q) = o
  <2>1. PICK s \in [1..o -> Byte] : s = q
    BY <1>3
  <2>2. s \in Seq(Byte) /\ Len(s) = o
    BY <1>1, <2>1
  <2> QED
    BY <2>1, <2>2
<1>5. \A i \in 1..o : q[i] = f[(r + i - 1) % Depth]
  OBVIOUS
<1>6. Stretch(f, r, o) = q
  BY DEF Stretch
<1> HIDE DEF q
<1> QED
  BY <1>2, <1>4, <1>5, <1>6

\* How far behind the write index the i-th byte of the ring is.
LEMMA Distance ==
  ASSUME NEW r \in Slots, NEW o \in 0..Depth, NEW i \in 1..Depth
  PROVE  ((((r + i - 1) % Depth) - ((r + o) % Depth)) % Depth) + 1
            = IF i <= o THEN Depth - o + i ELSE i - o
<1>1. Depth \in Nat \ {0}
  BY UartConstants DEF UartConstants
<1>3. \A x \in (1 - Depth)..(Depth - 1) : x % Depth = IF x >= 0 THEN x ELSE x + Depth
  BY <1>1, SMT
<1>4. r + i - 1 \in 0..(2 * Depth - 1) /\ r + o \in 0..(2 * Depth - 1) /\ r \in 0..(Depth - 1)
  BY <1>1 DEF Slots
<1> DEFINE x == (r + i - 1) % Depth
           y == (r + o) % Depth
<1>5. x = (IF r + i - 1 < Depth THEN r + i - 1 ELSE r + i - 1 - Depth)
  <2>1. CASE r + i - 1 < Depth
    BY <1>1, <1>4, <2>1, ModSmall
  <2>2. CASE r + i - 1 >= Depth
    BY <1>1, <1>4, <2>2, ModOnce
  <2> QED
    BY <1>1, <1>4, <2>1, <2>2
<1>6. y = (IF r + o < Depth THEN r + o ELSE r + o - Depth)
  <2>1. CASE r + o < Depth
    <3>1. r + o \in 0..(Depth - 1)
      BY <1>1, <1>4, <2>1
    <3> QED
      BY <1>1, <2>1, <3>1, ModSmall
  <2>2. CASE r + o >= Depth
    <3>1. r + o \in Depth..(2 * Depth - 1)
      BY <1>1, <1>4, <2>2
    <3>3. (r + o) % Depth = r + o - Depth
      BY <1>1, <3>1, ModOnce DEF Slots
    <3> QED
      BY <1>1, <1>4, <2>2, <3>3
  <2>3. r + o \in Int
    BY <1>4
  <2> QED
    BY <1>1, <2>1, <2>2, <2>3
<1>7. x - y \in (1 - Depth)..(Depth - 1)
  BY <1>1, <1>4, <1>5, <1>6
<1>8. (x - y) % Depth = IF x - y >= 0 THEN x - y ELSE x - y + Depth
  BY <1>3, <1>7
<1> HIDE DEF x, y
<1>9. ((x - y) % Depth) + 1 = IF i <= o THEN Depth - o + i ELSE i - o
  BY <1>1, <1>4, <1>5, <1>6, <1>8
<1> QED
  BY <1>9 DEF x, y

\* The bytes already in the ring keep their places when a block is added behind them.
LEMMA PushRing ==
  ASSUME Clean, Clean', NEW w \in Writers, Push(w), ~raced'
  PROVE  Ring' = Ring \o block[w] /\ block[w] \in Block
<1> DEFINE b == block[w]
<1>1. b \in Block /\ Len(b) \in 1..(Depth - occupy) /\ b \in Seq(Byte)
  <2>1. b \in Block
    BY DEF Clean, Kept, Types, Positions, Push, At, Contexts
  <2>2. Room(b)
    BY DEF Push, Race
  <2> QED
    BY <2>1, <2>2, BlockType, UartConstants DEF Clean, Kept, Types, Consistent, Room, UartConstants
<1>2. /\ ring \in [Slots -> Byte] /\ rp \in Slots /\ occupy \in 0..Depth /\ wp = (rp + occupy) % Depth
      /\ ring' \in [Slots -> Byte] /\ rp' = rp /\ occupy' \in 0..Depth /\ occupy' = occupy + Len(b)
      /\ ring' = Written(b)
  <2>1. occupy' = (occupy + Len(b)) % Wrap
    BY DEF Push
  <2>2. rp \in Slots /\ occupy \in 0..Depth
    BY UartConstants DEF Clean, Kept, Types, Consistent, UartConstants
  <2>3. (((rp + occupy) % Depth) + Len(b)) % Depth = (rp + occupy + Len(b)) % Depth
        /\ (((rp + occupy) % Depth) + Len(b)) % Depth \in Slots
        /\ (occupy + Len(b)) % Wrap = occupy + Len(b)
        /\ occupy + Len(b) \in 0..Depth
    BY <1>1, <2>2, PushIndex
  <2> QED
    BY <2>1, <2>3 DEF Clean, Kept, Types, Consistent, Push
<1>3. /\ Ring \in Seq(Byte) /\ Len(Ring) = occupy
      /\ \A i \in 1..occupy : (rp + i - 1) % Depth \in Slots /\ Ring[i] = ring[(rp + i - 1) % Depth]
  BY <1>2, RingSeq DEF Ring
<1>4. /\ Ring' \in Seq(Byte) /\ Len(Ring') = occupy'
      /\ \A i \in 1..occupy' : (rp + i - 1) % Depth \in Slots /\ Ring'[i] = Written(b)[(rp + i - 1) % Depth]
  <2>1. Ring' = Stretch(ring', rp', occupy') /\ rp' = rp
    BY <1>2 DEF Ring
  <2>2. PICK f \in [Slots -> Byte], r \in Slots, o \in 0..Depth : f = ring' /\ r = rp' /\ o = occupy'
    BY <1>2
  <2>3. /\ Stretch(f, r, o) \in Seq(Byte) /\ Len(Stretch(f, r, o)) = o
        /\ \A i \in 1..o : /\ (r + i - 1) % Depth \in Slots
                           /\ Stretch(f, r, o)[i] = f[(r + i - 1) % Depth]
    BY <2>2, RingSeq
  <2> QED
    BY <1>2, <2>1, <2>2, <2>3
<1>5. \A i \in 1..occupy' :
        Written(b)[(rp + i - 1) % Depth] = IF i <= occupy THEN ring[(rp + i - 1) % Depth] ELSE b[i - occupy]
  <2> SUFFICES ASSUME NEW i \in 1..occupy'
               PROVE  Written(b)[(rp + i - 1) % Depth] =
                        IF i <= occupy THEN ring[(rp + i - 1) % Depth] ELSE b[i - occupy]
    OBVIOUS
  <2>1. (rp + i - 1) % Depth \in Slots
    BY <1>4
  <2>2. i \in 1..Depth /\ Len(b) \in 1..(Depth - occupy) /\ i <= occupy + Len(b)
    BY <1>1, <1>2, UartConstants DEF UartConstants
  <2>3. ((((rp + i - 1) % Depth) - wp) % Depth) + 1 = IF i <= occupy THEN Depth - occupy + i ELSE i - occupy
    BY <1>2, <2>2, Distance
  <2> QED
    BY <1>1, <1>2, <2>1, <2>2, <2>3, UartConstants DEF Written, UartConstants
<1>6. /\ Ring \o b \in Seq(Byte) /\ Len(Ring \o b) = occupy + Len(b)
      /\ \A i \in 1..(occupy + Len(b)) :
            (Ring \o b)[i] = IF i <= occupy THEN Ring[i] ELSE b[i - occupy]
  BY <1>1, <1>3, ConcatProperties
<1>7. \A i \in 1..occupy' : (Ring \o b)[i] = Ring'[i]
  BY <1>1, <1>2, <1>3, <1>4, <1>5, <1>6
<1> QED
  BY <1>1, <1>2, <1>4, <1>6, <1>7, SeqEqual

\* The byte taken is the one that has waited longest.
LEMMA PopRing ==
  ASSUME Clean, Clean', NEW c \in Contexts, Pop(c)
  PROVE  /\ ring[rp] \in Byte /\ Ring' \in Seq(Byte)
         /\ Ring = <<ring[rp]>> \o Ring'
<1>1. /\ ring \in [Slots -> Byte] /\ rp \in Slots /\ occupy \in 1..Depth
      /\ ring' = ring /\ rp' = (rp + 1) % Depth /\ rp' \in Slots /\ occupy' \in 0..Depth
  <2>1. occupy \in 1..Depth /\ occupy' = occupy - 1
    BY PopClean
  <2>2. occupy' \in 0..Depth
    BY <2>1, UartConstants DEF UartConstants
  <2> QED
    BY <2>1, <2>2 DEF Clean, Kept, Types, Pop
<1>2. occupy' = occupy - 1
  BY PopClean
<1>3. /\ Ring \in Seq(Byte) /\ Len(Ring) = occupy
      /\ \A i \in 1..occupy : (rp + i - 1) % Depth \in Slots /\ Ring[i] = ring[(rp + i - 1) % Depth]
  <2>1. occupy \in 0..Depth
    BY <1>1, UartConstants DEF UartConstants
  <2> QED
    BY <1>1, <2>1, RingSeq DEF Ring
<1>4. /\ Ring' \in Seq(Byte) /\ Len(Ring') = occupy - 1
      /\ \A i \in 1..(occupy - 1) : Ring'[i] = ring[(rp' + i - 1) % Depth]
  <2>1. Ring' = Stretch(ring, rp', occupy')
    BY <1>1 DEF Ring
  <2>2. PICK f \in [Slots -> Byte], r \in Slots, o \in 0..Depth : f = ring /\ r = rp' /\ o = occupy'
    BY <1>1
  <2>3. /\ Stretch(f, r, o) \in Seq(Byte) /\ Len(Stretch(f, r, o)) = o
        /\ \A i \in 1..o : /\ (r + i - 1) % Depth \in Slots
                           /\ Stretch(f, r, o)[i] = f[(r + i - 1) % Depth]
    BY <2>2, RingSeq
  <2> QED
    BY <1>2, <2>1, <2>2, <2>3
<1>5. \A i \in 1..(occupy - 1) : (rp' + i - 1) % Depth = (rp + (i + 1) - 1) % Depth
  <2> SUFFICES ASSUME NEW i \in 1..(occupy - 1)
               PROVE  (rp' + i - 1) % Depth = (rp + (i + 1) - 1) % Depth
    OBVIOUS
  <2>1. i \in 1..Depth /\ rp' \in Int /\ rp \in Int
    BY <1>1, UartConstants DEF UartConstants, Slots
  <2>2. (((rp + 1) % Depth) + (i - 1)) % Depth = (rp + i) % Depth
    BY <1>1, <2>1, PopIndex
  <2>3. rp' + i - 1 = ((rp + 1) % Depth) + (i - 1) /\ rp + i = rp + (i + 1) - 1
    BY <1>1, <2>1
  <2> QED
    BY <2>2, <2>3
<1>6. Ring[1] = ring[rp] /\ ring[rp] \in Byte
  <2>1. rp \in 0..(Depth - 1) /\ rp \in Int /\ Depth \in Nat \ {0}
    BY <1>1, UartConstants DEF UartConstants, Slots
  <2>2. rp % Depth = rp
    BY <2>1, ModSmall
  <2>3. rp + 1 - 1 = rp /\ 1 \in 1..occupy
    BY <1>1, <2>1
  <2>4. Ring[1] = ring[(rp + 1 - 1) % Depth]
    BY <1>3, <2>3
  <2> QED
    BY <1>1, <2>2, <2>3, <2>4
<1>7. <<ring[rp]>> \in Seq(Byte) /\ Len(<<ring[rp]>>) = 1 /\ <<ring[rp]>>[1] = ring[rp]
  BY <1>6
<1>8. /\ <<ring[rp]>> \o Ring' \in Seq(Byte) /\ Len(<<ring[rp]>> \o Ring') = occupy
      /\ \A i \in 1..occupy : (<<ring[rp]>> \o Ring')[i] = IF i <= 1 THEN ring[rp] ELSE Ring'[i - 1]
  BY <1>1, <1>4, <1>7, ConcatProperties
<1>9. \A i \in 1..occupy : Ring[i] = (<<ring[rp]>> \o Ring')[i]
  <2> SUFFICES ASSUME NEW i \in 1..occupy PROVE Ring[i] = (<<ring[rp]>> \o Ring')[i]
    OBVIOUS
  <2>1. CASE i = 1
    BY <1>6, <1>8, <2>1
  <2>2. CASE i # 1
    <3>1. i - 1 \in 1..(occupy - 1) /\ (i - 1) + 1 = i
      BY <1>1, <2>2
    <3>2. Ring'[i - 1] = ring[(rp + i - 1) % Depth]
      BY <1>4, <1>5, <3>1
    <3> QED
      BY <1>3, <1>8, <3>1, <3>2
  <2> QED
    BY <2>1, <2>2
<1> QED
  BY <1>3, <1>4, <1>6, <1>8, <1>9, SeqEqual

\* A byte in a hand is that of the one context about to put it on the line.
LEMMA HandIs ==
  ASSUME Clean
  PROVE  /\ (\A c \in Contexts : pc[c] # "transmit") => InHand = <<>>
         /\ \A c \in Contexts : pc[c] = "transmit" => InHand = <<data[c]>> /\ data[c] \in Byte
<1>1. ASSUME \A c \in Contexts : pc[c] # "transmit" PROVE InHand = <<>>
  BY <1>1 DEF Clean, Kept, Positions, InHand, Holding
<1>2. ASSUME NEW c \in Contexts, pc[c] = "transmit" PROVE InHand = <<data[c]>> /\ data[c] \in Byte
  <2>1. Inside = {c}
    BY <1>2, Alone DEF Driving
  <2>2. Holding = {c} /\ data[c] \in Byte
    BY <1>2, <2>1 DEF Clean, Kept, Types, Positions, Holding, Inside, Driving
  <2> QED
    BY <2>2 DEF InHand
<1> QED
  BY <1>1, <1>2

LEMMA Sequences ==
  ASSUME Clean
  PROVE  Ring \in Seq(Byte) /\ InHand \in Seq(Byte)
<1>1. ring \in [Slots -> Byte] /\ rp \in Slots /\ occupy \in 0..Depth
  BY UartConstants DEF Clean, Kept, Types, Consistent, UartConstants
<1>2. Ring \in Seq(Byte)
  BY <1>1, RingSeq DEF Ring
<1>3. InHand \in Seq(Byte)
  <2>1. CASE \A c \in Contexts : pc[c] # "transmit"
    BY <2>1, HandIs, EmptySeq
  <2>2. CASE \E c \in Contexts : pc[c] = "transmit"
    <3>1. PICK c \in Contexts : pc[c] = "transmit"
      BY <2>2
    <3>2. InHand = <<data[c]>> /\ data[c] \in Byte
      BY <3>1, HandIs
    <3> QED
      BY <3>2
  <2> QED
    BY <2>1, <2>2
<1> QED
  BY <1>2, <1>3

\* What leaves the ring, or the hands, alone.
LEMMA SameRing == ASSUME UNCHANGED fifo PROVE Ring' = Ring
  BY DEF fifo, Ring

LEMMA SameHand == ASSUME data' = data PROVE InHand' = InHand
<1>1. Holding' = Holding
  BY DEF Holding
<1> QED
  BY <1>1 DEF InHand

\* There has been no race, and there is none.
LEMMA NoRace ==
  ASSUME Types, Types', [Next]_vars, ~raced'
  PROVE  raced = FALSE /\ raced' = FALSE
  BY RacedStays DEF Types

LEMMA PushStep ==
  ASSUME Clean, Clean', NEW w \in Writers, Push(w), ~raced'
  PROVE  Stream!Next
<1>1. Ring' = Ring \o block[w] /\ block[w] \in Block
  BY PushRing
<1>2. InHand' = InHand /\ Line' = Line /\ out' = out /\ raced = FALSE /\ raced' = FALSE
  <2>1. UNCHANGED <<data, shift, dr, out>>
    BY DEF Push, uart
  <2>2. raced = FALSE /\ raced' = FALSE
    BY DEF Clean, Kept, Types, Push, Race
  <2> QED
    BY <2>1, <2>2, SameHand DEF Line, Some
<1>3. Ring \in Seq(Byte) /\ InHand \in Seq(Byte) /\ block[w] \in Seq(Byte)
  BY <1>1, Sequences, BlockType
<1>4. Queued' = Queued \o block[w]
  <2>1. PICK h \in Seq(Byte), q \in Seq(Byte), b \in Seq(Byte) : h = InHand /\ q = Ring /\ b = block[w]
    BY <1>3
  <2>2. (h \o q) \o b = h \o (q \o b)
    BY ConcatAssociative
  <2>3. Queued = InHand \o Ring /\ Queued' = InHand' \o Ring'
    BY DEF Queued, Ring
  <2> QED
    BY <1>1, <1>2, <2>1, <2>2, <2>3
<1> QED
  BY <1>1, <1>2, <1>4 DEF Stream!Next, Stream!Accept, Stream!Unbroken

LEMMA PopStep ==
  ASSUME Clean, Clean', NEW c \in Contexts, Pop(c)
  PROVE  Queued' = Queued
<1>1. \A d \in Contexts : pc[d] # "transmit"
  <2>1. Inside = {c} /\ pc[c] = "pop"
    BY Alone DEF Pop, At, Driving
  <2> QED
    BY <2>1 DEF Inside, Driving
<1>2. ring[rp] \in Byte /\ Ring' \in Seq(Byte) /\ Ring = <<ring[rp]>> \o Ring'
  BY PopRing
<1>3. InHand = <<>>
  BY <1>1, HandIs
<1>4. InHand' = <<ring[rp]>>
  <2>1. Holding = {}
    BY <1>1 DEF Clean, Kept, Positions, Holding
  <2>2. Holding' = {c} /\ data'[c] = ring[rp]
    BY <1>2, <2>1, UartConstants DEF Clean, Kept, Types, Pop, Holding, UartConstants
  <2> QED
    BY <2>2 DEF InHand
<1>5. <<>> \o Ring = Ring
  BY Sequences, ConcatEmptySeq
<1> QED
  BY <1>2, <1>3, <1>4, <1>5 DEF Queued, Ring

LEMMA TransmitStep ==
  ASSUME Clean, Clean', NEW c \in Contexts, Transmit(c), ~raced'
  PROVE  Stream!Next
<1>1. /\ Inside = {c} /\ shift = NoByte /\ dr = NoByte
      /\ InHand = <<data[c]>> /\ data[c] \in Byte /\ data[c] # NoByte
  BY Alone, HandIs DEF Clean, Kept, Positions, Transmit, At, Driving
<1>2. /\ shift' = data[c] /\ dr' = NoByte /\ Ring' = Ring /\ out' = out
      /\ raced = FALSE /\ raced' = FALSE
  BY <1>1, SameRing DEF Transmit, Transmitted, Clean, Kept, Types
<1>3. InHand' = <<>>
  <2>1. Holding = {c}
    BY <1>1 DEF Clean, Kept, Positions, Holding, Inside, Driving
  <2>2. Holding' = {}
    BY <2>1 DEF Clean, Kept, Types, Transmit, Holding
  <2> QED
    BY <2>2 DEF InHand
<1>4. Ring \in Seq(Byte)
  BY Sequences
<1>5. Queued' = Ring
  <2>1. <<>> \o Ring = Ring
    BY <1>4, ConcatEmptySeq
  <2> QED
    BY <1>2, <1>3, <2>1 DEF Queued, Ring
<1>6. Queued # <<>> /\ Head(Queued) = data[c] /\ Tail(Queued) = Ring
  <2>1. Queued = <<data[c]>> \o Ring
    BY <1>1 DEF Queued, Ring
  <2> QED
    BY <1>1, <1>4, <2>1
<1>7. Line' = Append(Line, data[c])
  <2>1. <<>> \o <<>> = <<>> /\ <<data[c]>> \o <<>> = <<data[c]>>
    <3>1. <<>> \in Seq(Byte) /\ <<data[c]>> \in Seq(Byte)
      BY <1>1
    <3> QED
      BY <3>1, ConcatEmptySeq
  <2>2. Line = <<>> /\ Line' = <<data[c]>>
    BY <1>1, <1>2, <2>1 DEF Line, Some
  <2> QED
    BY <2>2
<1> QED
  BY <1>2, <1>5, <1>6, <1>7 DEF Stream!Next, Stream!Feed, Stream!Unbroken

LEMMA PollStep ==
  ASSUME Clean, Clean', NEW w \in Writers, Poll(w), ~raced'
  PROVE  Stream!Next
<1> DEFINE x == Head(block[w])
<1>1. dr = NoByte /\ x \in Byte /\ x # NoByte
  BY PollClean, BlockTail, UartConstants
     DEF Clean, Kept, Types, Positions, Poll, At, Contexts, UartConstants
<1>2. Queued' = Queued /\ out' = out /\ raced = FALSE /\ raced' = FALSE
  <2>1. Ring' = Ring /\ InHand' = InHand
    BY SameRing, SameHand DEF Poll
  <2> QED
    BY <2>1 DEF Poll, Race, Clean, Kept, Types, Queued, Ring
<1>3. Line' = Append(Line, x)
  <2>1. /\ <<>> \o <<>> = <<>> /\ <<x>> \o <<>> = <<x>>
        /\ shift # NoByte => <<shift>> \o <<>> = <<shift>> /\ <<shift>> \o <<x>> = Append(<<shift>>, x)
    <3>1. <<>> \in Seq(Byte) /\ <<x>> \in Seq(Byte) /\ (shift # NoByte => <<shift>> \in Seq(Byte))
      BY <1>1 DEF Clean, Kept, Types
    <3> QED
      BY <1>1, <3>1, ConcatEmptySeq, AppendIsConcat
  <2>2. CASE shift = NoByte
    <3>1. Line = <<>> /\ Line' = <<x>>
      BY <1>1, <2>1, <2>2 DEF Line, Some, Poll, Transmitted
    <3> QED
      BY <3>1
  <2>3. CASE shift # NoByte
    <3>1. Line = <<shift>> /\ Line' = <<shift>> \o <<x>>
      BY <1>1, <2>1, <2>3 DEF Line, Some, Poll, Transmitted
    <3> QED
      BY <2>1, <2>3, <3>1
  <2> QED
    BY <2>2, <2>3
<1> HIDE DEF x
<1>4. \E y \in Byte : Stream!Polled(y)
  BY <1>1, <1>2, <1>3 DEF Stream!Polled
<1> QED
  BY <1>2, <1>4 DEF Stream!Next, Stream!Unbroken

LEMMA ShiftStep ==
  ASSUME Clean, Clean', Shift, ~raced'
  PROVE  Stream!Next
<1>1. /\ shift # NoByte /\ out' = shift /\ shift' = dr /\ dr' = NoByte
      /\ raced = FALSE /\ raced' = FALSE
  BY DEF Shift, Clean, Kept, Types
<1>2. Queued' = Queued
  <2>1. Ring' = Ring /\ InHand' = InHand
    BY SameRing, SameHand DEF Shift
  <2> QED
    BY <2>1 DEF Queued, Ring
<1>3. Some(dr) \in Seq(Byte) /\ shift \in Byte
  <2>1. <<>> \in Seq(Byte)
    BY EmptySeq
  <2> QED
    BY <1>1, <2>1 DEF Clean, Kept, Types, Some
<1>4. Line = <<shift>> \o Some(dr)
  BY <1>1 DEF Line, Some
<1>5. Line # <<>> /\ Head(Line) = shift /\ Tail(Line) = Some(dr)
  BY <1>3, <1>4
<1>6. Line' = Some(dr)
  <2>1. Line' = Some(dr) \o <<>>
    BY <1>1 DEF Line, Some
  <2> QED
    BY <1>3, <2>1, ConcatEmptySeq
<1> QED
  BY <1>1, <1>2, <1>5, <1>6 DEF Stream!Next, Stream!Send, Stream!Unbroken

LEMMA StreamStep ==
  ASSUME UartInv, UartInv', [Next]_vars
  PROVE  [Stream!Next]_<<Queued, Line, out, raced>>
<1>1. CASE raced'
  BY <1>1 DEF Stream!Next, Stream!Break
<1>2. CASE ~raced'
  <2>1. ~raced /\ Clean /\ Clean'
    BY <1>2, RacedStays DEF UartInv, Clean, Kept
  <2> DEFINE Still == UNCHANGED <<fifo, shift, dr, out, data>>
  <2>2. Still => UNCHANGED <<Queued, Line, out, raced>>
    <3>1. raced' = raced
      BY <1>2, NoRace DEF UartInv
    <3>2. Still => Ring' = Ring /\ InHand' = InHand
      BY SameRing, SameHand
    <3> QED
      BY <3>1, <3>2 DEF Queued, Ring, Line, Some
  <2>3. CASE UNCHANGED vars
    BY <2>2, <2>3 DEF vars, fifo
  <2>4. ASSUME NEW w \in Writers, NEW b \in Block, Call(w, b) PROVE Still
    BY <2>4 DEF Call, uart
  <2>5. ASSUME NEW w \in Writers, NEW b \in Block, CallPolled(w, b) PROVE Still
    BY <2>5 DEF CallPolled, uart
  <2>6. ASSUME NEW w \in Writers, Push(w) PROVE Stream!Next
    BY <1>2, <2>1, <2>6, PushStep
  <2>7. ASSUME NEW w \in Writers, Test(w) \/ WaitTbe(w) PROVE Still
    BY <2>7 DEF Test, WaitTbe, uart
  <2>8. ASSUME NEW w \in Writers, Poll(w) PROVE Stream!Next
    BY <1>2, <2>1, <2>8, PollStep
  <2>9. CASE Interrupt
    BY <2>2, <2>9 DEF Interrupt
  <2>10. ASSUME NEW c \in Contexts, Empty(c) \/ Clear(c) \/ Mark(c) \/ Read(c) PROVE Still
    BY <2>10 DEF Empty, Clear, Mark, Read, uart
  <2>11. ASSUME NEW c \in Contexts, Pop(c) PROVE UNCHANGED <<Queued, Line, out, raced>>
    <3>1. Queued' = Queued
      BY <2>1, <2>11, PopStep
    <3> QED
      BY <2>11, <3>1 DEF Pop, uart, Line, Some
  <2>12. ASSUME NEW c \in Contexts, Transmit(c) PROVE Stream!Next
    BY <1>2, <2>1, <2>12, TransmitStep
  <2>13. CASE Shift
    BY <1>2, <2>1, <2>13, ShiftStep
  <2>14. Pollers \subseteq Writers
    BY UartConstants DEF UartConstants
  <2> HIDE DEF Still
  <2> QED
    BY <2>2, <2>3, <2>4, <2>5, <2>6, <2>7, <2>8, <2>9, <2>10, <2>11, <2>12, <2>13, <2>14
       DEF Next, Write, SendFinally, Contexts
<1> QED
  BY <1>1, <1>2

LEMMA StreamInit == ASSUME Init PROVE Stream!Init
<1>1. Holding = {} /\ occupy = 0 /\ raced = FALSE /\ out = NoByte
  BY DEF Init, Holding
<1>2. <<>> \o <<>> = <<>>
  BY EmptySeq, ConcatEmptySeq
<1>3. Line = <<>>
  BY <1>2 DEF Init, Line, Some
<1>4. Ring = <<>>
  <2>1. Ring = [i \in 1..0 |-> ring[(rp + i - 1) % Depth]]
    BY <1>1 DEF Ring, Stretch
  <2>2. 1..0 = {}
    OBVIOUS
  <2> QED
    BY <2>1, <2>2
<1>5. Queued = <<>>
  BY <1>1, <1>2, <1>4 DEF Queued, InHand, Ring
<1> QED
  BY <1>1, <1>3, <1>5 DEF Stream!Init

\* The ring, the registers, the interrupt, its callers and the polled blocks are a
\* stream of bytes that only a race can break: what is accepted goes on the line
\* once each and in order, and out in the order of the line.
THEOREM SendsInOrder == Spec => Stream!Spec
<1>1. Init => Stream!Init
  BY StreamInit
<1>2. UartInv /\ UartInv' /\ [Next]_vars => [Stream!Next]_Stream!streamVars
  BY StreamStep DEF Stream!streamVars
<1> QED
  BY <1>1, <1>2, DriverInvariant, PTL DEF Spec, Stream!Spec

=============================================================================
