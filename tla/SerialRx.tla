-------------------------------- MODULE SerialRx --------------------------------
(***************************************************************************)
(* A console's requests on USART0, which IPMI shares with the debug shell: *)
(* the byte stuffing of SerialIfc.c, and the receive interrupt of          *)
(* bsp_usart0.c, which cuts the line's bytes into messages and passes what *)
(* is outside a frame to the shell.  The line may lose and damage bytes.   *)
(***************************************************************************)
EXTENDS Integers, SequencesExt

CONSTANTS
    Payloads,       \* the requests of the console
    ConsoleBuffer,  \* the console's limit of an encoded request
    Keys, Noise,    \* bytes typed for the shell, and bytes a disturbance makes
    BufferSize,     \* MSG_PAYLOAD_SIZE: 100
    QueueLength,    \* of RecvDatMsg_Queue: 2
    ShellRoom,      \* of the receive FIFO: 200
    MaxFrames, MaxLost,     \* bounds of the model
    NoPayload

Byte == 0..255

\* mcro_def.h, Serial.h
START_BYTE == 160
STOP_BYTE == 165
HANDSHAKE_BYTE == 166
DATA_ESCAPE_BYTE == 170
ASCII_ESC_BYTE == 27
Delimiters == {START_BYTE, STOP_BYTE}

\* The codes of the escaped bytes.
Unescaped == [c \in {176, 181, 182, 186, 59} |->
    CASE c = 176 -> START_BYTE [] c = 181 -> STOP_BYTE [] c = 182 -> HANDSHAKE_BYTE
      [] c = 186 -> DATA_ESCAPE_BYTE [] c = 59 -> ASCII_ESC_BYTE]

----------------------------------------------------------------------------
(* EncodeSerialPkt and DecodeSerialPkt *)

Stuffed(b) ==
    IF b \in {START_BYTE, STOP_BYTE, HANDSHAKE_BYTE, DATA_ESCAPE_BYTE}
    THEN <<DATA_ESCAPE_BYTE, b + 16>>
    ELSE IF b = ASCII_ESC_BYTE THEN <<DATA_ESCAPE_BYTE, b + 32>> ELSE <<b>>

Body(p) == FlattenSeq([i \in DOMAIN p |-> Stuffed(p[i])])

\* Nothing is encoded once start and body fill the buffer up to its last byte.
EncodeSerialPkt(p, enPktLength) ==
    IF p # <<>> /\ Len(Body(p)) + 1 >= enPktLength - 1
    THEN <<>>
    ELSE <<START_BYTE>> \o Body(p) \o <<STOP_BYTE>>

\* One byte of DecodeSerialPkt's loop; an escape it does not know ends it.
Decoded(d, b) ==
    IF ~d.valid THEN d
    ELSE IF ~d.escaped
         THEN IF b = DATA_ESCAPE_BYTE THEN [d EXCEPT !.escaped = TRUE]
                                      ELSE [d EXCEPT !.text = Append(@, b)]
    ELSE IF b \in DOMAIN Unescaped
         THEN [d EXCEPT !.text = Append(@, Unescaped[b]), !.escaped = FALSE]
    ELSE [d EXCEPT !.valid = FALSE]

DecodeSerialPkt(data) ==
    LET d == FoldLeft(Decoded, [text |-> <<>>, escaped |-> FALSE, valid |-> TRUE], data)
    IN IF d.valid THEN d.text ELSE <<>>

Frame(p) == IF p = NoPayload THEN <<>> ELSE EncodeSerialPkt(p, ConsoleBuffer)

\* What the receive buffer holds of a frame: sizeof(Data) - 3 bytes.
Fits(p) == Len(Body(p)) <= BufferSize - 3

ASSUME SerialConstants ==
    /\ Payloads \subseteq Seq(Byte) /\ NoPayload \notin Payloads
    /\ ConsoleBuffer \in Nat
    /\ Keys \subseteq Byte \ Delimiters /\ Noise \subseteq Byte
    /\ BufferSize \in Nat /\ BufferSize > 3
    /\ QueueLength \in Nat /\ ShellRoom \in Nat
    /\ MaxFrames \in Nat /\ MaxLost \in Nat

VARIABLES
    sending, at,        \* the console's last request, and how far its frame is sent
    clean,              \* none of its bytes was lost or damaged
    frames, lost,       \* requests sent, and bytes lost or damaged
    is_start, Data,     \* g_uart_Req, of which the first Size bytes count
    created,            \* RecvDatMsg_Queue # NULL
    RecvDatMsg_Queue,
    rfifo,              \* what the shell has yet to read
    request             \* the request MsgCoreHndlr took last, decoded

console == <<sending, at, clean, frames, lost>>
receiver == <<is_start, Data, RecvDatMsg_Queue, rfifo>>
vars == <<console, receiver, created, request>>

Init ==
    /\ sending = NoPayload /\ at = 0 /\ clean = FALSE
    /\ frames = 0 /\ lost = 0
    /\ is_start = FALSE /\ Data = <<>>
    /\ created = FALSE /\ RecvDatMsg_Queue = <<>>
    /\ rfifo = <<>> /\ request = <<>>

----------------------------------------------------------------------------
(* USART0_IRQHandler, for a byte received.  of is history: the request whose *)
(* frame this byte completes, or NoPayload.                                  *)

NoLimit == FALSE    \* mutant

Overlong == Len(Data) + 1 > BufferSize - 3

SizeKept(b) ==    \* mutant
    /\ b = START_BYTE
    /\ is_start' = TRUE
    /\ UNCHANGED <<Data, RecvDatMsg_Queue>>

Open(b) ==
    /\ b = START_BYTE
    /\ is_start' = TRUE /\ Data' = <<>>
    /\ UNCHANGED RecvDatMsg_Queue

Close(b, of) ==
    /\ b = STOP_BYTE /\ is_start
    /\ is_start' = FALSE
    /\ RecvDatMsg_Queue' = IF created /\ Len(RecvDatMsg_Queue) < QueueLength
                           THEN Append(RecvDatMsg_Queue, [Data |-> Data, of |-> of])
                           ELSE RecvDatMsg_Queue
    /\ UNCHANGED Data

\* A stop byte outside a frame is stored like any other.
Ordinary(b) == b # START_BYTE /\ ~(b = STOP_BYTE /\ is_start)

Store(b) ==
    /\ Ordinary(b) /\ ~Overlong
    /\ Data' = Append(Data, b)
    /\ UNCHANGED <<is_start, RecvDatMsg_Queue>>

StaysOpen(b) ==    \* mutant
    /\ Ordinary(b) /\ Overlong
    /\ Data' = <<>>
    /\ UNCHANGED <<is_start, RecvDatMsg_Queue>>

Overrun(b) ==
    /\ Ordinary(b) /\ Overlong
    /\ is_start' = FALSE /\ Data' = <<>>
    /\ UNCHANGED RecvDatMsg_Queue

\* What is not in a frame afterwards goes to the shell, if its FIFO has room.
ToShell(b) ==
    rfifo' = IF is_start' \/ Len(rfifo) >= ShellRoom THEN rfifo ELSE Append(rfifo, b)

USART0_IRQHandler(b, of) ==
    /\ Open(b) \/ Close(b, of) \/ Store(b) \/ Overrun(b)
    /\ ToShell(b)
    /\ UNCHANGED <<created, request>>

----------------------------------------------------------------------------
(* The line *)

LineIdle == at = Len(Frame(sending))

Send(p) ==
    /\ LineIdle /\ frames < MaxFrames
    /\ Frame(p) # <<>>
    /\ sending' = p /\ at' = 0 /\ clean' = TRUE /\ frames' = frames + 1
    /\ UNCHANGED <<lost, receiver, created, request>>

Completed == IF clean /\ at + 1 = Len(Frame(sending)) THEN sending ELSE NoPayload

Deliver ==
    /\ ~LineIdle
    /\ USART0_IRQHandler(Frame(sending)[at + 1], Completed)
    /\ at' = at + 1
    /\ UNCHANGED <<sending, clean, frames, lost>>

Disturbed ==
    /\ ~LineIdle /\ lost < MaxLost
    /\ at' = at + 1 /\ clean' = FALSE /\ lost' = lost + 1
    /\ UNCHANGED <<sending, frames>>

Lose == Disturbed /\ UNCHANGED <<receiver, created, request>>

Damage(b) == Disturbed /\ USART0_IRQHandler(b, NoPayload)

Type(b) ==
    /\ LineIdle
    /\ USART0_IRQHandler(b, NoPayload)
    /\ UNCHANGED console

----------------------------------------------------------------------------
(* The tasks *)

CreateQueue ==
    /\ ~created /\ created' = TRUE
    /\ UNCHANGED <<console, receiver, request>>

\* MsgCoreHndlr, ProcessSerialReq
TakeRequest ==
    /\ RecvDatMsg_Queue # <<>>
    /\ request' = DecodeSerialPkt(Head(RecvDatMsg_Queue).Data)
    /\ RecvDatMsg_Queue' = Tail(RecvDatMsg_Queue)
    /\ UNCHANGED <<console, is_start, Data, rfifo, created>>

\* The shell's read of a byte.
UART_getByte ==
    /\ rfifo # <<>> /\ rfifo' = Tail(rfifo)
    /\ UNCHANGED <<console, is_start, Data, RecvDatMsg_Queue, created, request>>

Next ==
    \/ \E p \in Payloads : Send(p)
    \/ Deliver
    \/ Lose
    \/ \E b \in Noise : Damage(b)
    \/ \E b \in Keys : Type(b)
    \/ CreateQueue
    \/ TakeRequest
    \/ UART_getByte

Typing == \E b \in Keys : Type(b)

Spec == Init /\ [][Next]_vars

\* A frame that was begun is sent, and the user goes on typing.
FairSpec == Spec /\ WF_vars(Deliver) /\ WF_vars(Typing)

----------------------------------------------------------------------------
(* Properties *)

Message == [Data : Seq(Byte), of : Payloads \union {NoPayload}]

Types ==
    /\ sending \in Payloads \union {NoPayload}
    /\ at \in 0..Len(Frame(sending))
    /\ clean \in BOOLEAN /\ is_start \in BOOLEAN /\ created \in BOOLEAN
    /\ frames \in 0..MaxFrames /\ lost \in 0..MaxLost
    /\ Data \in Seq(Byte)
    /\ RecvDatMsg_Queue \in Seq(Message)
    /\ rfifo \in Seq(Byte)

\* The interrupt's writes stay in the buffer, which keeps room for the next byte.
InBuffer == Len(Data) < BufferSize /\ Len(RecvDatMsg_Queue) <= QueueLength

\* In the middle of an undisturbed frame that fits the receiver is in a frame,
\* whatever the line carried before; whether it fits or not, an open buffer
\* holds all that was sent of its body: what does not fit is given up for good.
Assembled ==
    clean /\ 0 < at /\ at < Len(Frame(sending)) =>
        /\ Fits(sending) => is_start
        /\ is_start => Data = SubSeq(Frame(sending), 2, at)

\* A message has no delimiter in it: frames are never run together.
Delimited(data) == \A i \in DOMAIN data : data[i] \notin Delimiters

Separate ==
    /\ is_start => Delimited(Data)
    /\ \A i \in DOMAIN RecvDatMsg_Queue : Delimited(RecvDatMsg_Queue[i].Data)

\* The message an undisturbed frame makes is its whole body.
AsSent ==
    \A i \in DOMAIN RecvDatMsg_Queue :
        LET m == RecvDatMsg_Queue[i]
        IN m.of # NoPayload => m.Data = Body(m.of)

\* The receiver after any loss and damage: USART0_IRQHandler stays in its buffer,
\* is in step with the frame under way, never runs frames together and never
\* queues a part of an undisturbed one.
SerialInv == Types /\ InBuffer /\ Assembled /\ Separate /\ AsSent

\* A frame that arrives undisturbed and fits becomes a message, however the line
\* was disturbed before, unless MsgCoreHndlr is behind by a whole queue.
FrameArrives ==
    [][/\ clean /\ at' # at /\ at' = Len(Frame(sending)) /\ clean'
       /\ Fits(sending) /\ created /\ Len(RecvDatMsg_Queue) < QueueLength
       => RecvDatMsg_Queue' = Append(RecvDatMsg_Queue, [Data |-> Body(sending), of |-> sending])]_vars

\* MsgCoreHndlr reads the request that was sent: DecodeSerialPkt undoes the stuffing.
RequestRead ==
    \A i \in DOMAIN RecvDatMsg_Queue :
        LET m == RecvDatMsg_Queue[i]
        IN m.of # NoPayload => DecodeSerialPkt(m.Data) = m.of

\* A frame that lost its end does not keep the shell from hearing its user: the
\* receiver gives the frame up.
ShellHears == is_start ~> ~is_start

=============================================================================
