------------------------- MODULE FirmwareUpdateProofs -------------------------
(***************************************************************************)
(* Theorems about BootUpdate: whatever a host sends, for any modulus of    *)
(* the block numbers, any size of the application area and any channel.    *)
(* Then theorems about FirmwareUpdate, where the host is a sender that     *)
(* follows the protocol over a line and through queues that do not.        *)
(*                                                                         *)
(* A handler of the update task ends in a pass of the monitor's loop       *)
(* (Conclude, Wake, Pass) on the RAM r the handler leaves.  The lemmas say *)
(* what such a pass makes of r; the steps of the theorems then only have   *)
(* to look at the r of each handler.                                       *)
(*                                                                         *)
(* For the transfer a message comes to one of five things (Outcomes), and  *)
(* the proof has four parts: the steps of the sender, of the forwarding    *)
(* tasks, of a device that is reset, and of its bootloader.  Each part     *)
(* first shows what a whole kind of steps keeps (OnwardKeeps, MovedKeeps,  *)
(* FreshKeeps, WithdrawnKeeps).                                            *)
(***************************************************************************)
EXTENDS FirmwareUpdate, TLAPS

USE DEF pastVars, NoAck

UnderWay(r) == r.confirmed => r.sm \notin {"INIT", "START"}

SurroundTyped ==
    /\ key \in BOOLEAN
    /\ run \in {"boot", "app"}
    /\ line \in Seq(Replies)

\* What a step of the update task or of the monitor makes of the RAM.
Kept ==
    /\ ram' \in Ram
    /\ run' = "boot" => UnderWay(ram')
    /\ SurroundTyped'
    /\ ram.confirmed /\ ram'.confirmed => ram'.channel = ram.channel

----------------------------------------------------------------------------
\* Lemmas: records, replies, passes of the monitor

\* A RAM with one field set anew.
LEMMA RamFields ==
    ASSUME NEW r \in Ram
    PROVE  /\ r.sm \in States /\ r.resend \in Nat /\ r.crc \in Checks
           /\ r.channel \in Channels /\ r.confirmed \in BOOLEAN
           /\ r.lastPn \in 0..(PnMod - 1) /\ r.pnPage \in Nat
           /\ r.mon \in {"first", "loop", "finish"}
           /\ \A x \in States : [r EXCEPT !.sm = x] \in Ram
           /\ \A x \in Nat : [r EXCEPT !.resend = x] \in Ram
           /\ \A x \in Checks : [r EXCEPT !.crc = x] \in Ram
           /\ \A x \in Channels : [r EXCEPT !.channel = x] \in Ram
           /\ \A x \in BOOLEAN : [r EXCEPT !.confirmed = x] \in Ram
           /\ \A x \in 0..(PnMod - 1) : [r EXCEPT !.lastPn = x] \in Ram
           /\ \A x \in Nat : [r EXCEPT !.pnPage = x] \in Ram
           /\ \A x \in {"first", "loop", "finish"} : [r EXCEPT !.mon = x] \in Ram
  BY DEF Ram

\* Sending a byte rotates the channel of an unconfirmed transfer only.
LEMMA RotateKeeps ==
    ASSUME NEW r \in Ram
    PROVE  /\ Rotate(r) \in Ram
           /\ Rotate(r).sm = r.sm /\ Rotate(r).confirmed = r.confirmed
           /\ r.confirmed => Rotate(r) = r
  <1>1. NextChannel(r.channel) \in Channels
    BY DEF Ram, NextChannel, Channels
  <1>2. [r EXCEPT !.channel = NextChannel(@)] \in Ram
    BY <1>1 DEF Ram
  <1> QED
    BY <1>2 DEF Rotate, Ram

LEMMA EmitTyped ==
    ASSUME NEW s, NEW byte \in Replies \union {None}, SurroundTyped, Emit(s, byte)
    PROVE  line' \in Seq(Replies)
  <1>1. CASE line' = line
    BY <1>1 DEF SurroundTyped
  <1>2. CASE byte # None /\ line' = Append(line, byte)
    BY <1>2 DEF SurroundTyped
  <1> QED
    BY <1>1, <1>2 DEF Emit

LEMMA LastByteTyped ==
    ASSUME NEW s, NEW byte \in Replies \union {None}, SurroundTyped, LastByte(s, byte)
    PROVE  line' \in Seq(Replies)
  BY EmitTyped DEF LastByte, SurroundTyped

LEMMA BootRamTyped ==
    /\ \A b \in BOOLEAN : BootRam(b) \in Ram /\ UnderWay(BootRam(b)) /\ ~BootRam(b).confirmed
  BY BootConstants DEF BootRam, Ram, States, Checks, Channels, UnderWay

\* One pass of the monitor's loop.
LEMMA PassKeeps ==
    ASSUME NEW s, NEW byte \in Replies \union {None}, NEW r \in Ram, UnderWay(r),
           ram \in Ram, ram.confirmed => r.confirmed /\ r.channel = ram.channel,
           SurroundTyped, Pass(s, byte, r)
    PROVE  Kept
  <1> DEFINE n == r.resend + 1
             counted == [r EXCEPT !.resend = n]
  <1>0. n \in Nat
    BY DEF Ram
  <1>1. /\ counted \in Ram /\ counted.sm = r.sm /\ counted.confirmed = r.confirmed
        /\ counted.channel = r.channel
    BY <1>0, RamFields DEF Ram
  <1> HIDE DEF n, counted
  <1>2. CASE (\/ r.sm = "INIT" /\ n < JumpDelay
              \/ r.sm \in {"TRYAGAIN", "PROGRAMING"} /\ n < ResendTimeout)
             /\ ram' = counted /\ Emit(s, byte) /\ UNCHANGED <<key, run>>
    BY <1>1, <1>2, EmitTyped DEF Kept, SurroundTyped, UnderWay
  <1>3. CASE r.sm = "INIT" /\ n >= JumpDelay /\ Jump(s, byte)
    BY <1>3, LastByteTyped DEF Kept, Jump, SurroundTyped
  <1>4. CASE /\ r.sm \in {"TRYAGAIN", "PROGRAMING"} /\ n >= ResendTimeout
             /\ ram' = Rotate([r EXCEPT !.resend = 0])
             /\ Emit(r, IF r.sm = "TRYAGAIN" THEN "NAK" ELSE "ACK")
             /\ UNCHANGED <<key, run>>
    <2> DEFINE q == [r EXCEPT !.resend = 0]
    <2>1. /\ q \in Ram /\ q.sm = r.sm /\ q.confirmed = r.confirmed /\ q.channel = r.channel
      BY RamFields DEF Ram
    <2> HIDE DEF q
    <2>2. /\ Rotate(q) \in Ram /\ Rotate(q).sm = q.sm /\ Rotate(q).confirmed = q.confirmed
          /\ q.confirmed => Rotate(q) = q
      BY <2>1, RotateKeeps
    <2>3. (IF r.sm = "TRYAGAIN" THEN "NAK" ELSE "ACK") \in Replies \union {None}
      BY DEF Replies
    <2>4. line' \in Seq(Replies)
      BY <1>4, <2>3, EmitTyped
    <2>5. ram' = Rotate(q)
      BY <1>4 DEF q
    <2> QED
      BY <1>4, <2>1, <2>2, <2>4, <2>5 DEF Kept, SurroundTyped, UnderWay
  <1>5. CASE /\ r.sm = "START"
             /\ ram' = Rotate([r EXCEPT !.resend = 0, !.crc = OtherCheck(@)])
             /\ Emit(r, IF r.crc = "sum" THEN "C" ELSE "NAK")
             /\ UNCHANGED <<key, run>>
    <2> DEFINE q == [r EXCEPT !.resend = 0, !.crc = OtherCheck(@)]
    <2>0. OtherCheck(r.crc) \in Checks
      BY DEF OtherCheck, Checks
    <2>1. /\ q \in Ram /\ q.sm = r.sm /\ q.confirmed = r.confirmed /\ q.channel = r.channel
      BY <2>0 DEF Ram
    <2> HIDE DEF q
    <2>2. /\ Rotate(q) \in Ram /\ Rotate(q).sm = q.sm /\ Rotate(q).confirmed = q.confirmed
          /\ q.confirmed => Rotate(q) = q
      BY <2>1, RotateKeeps
    <2>3. (IF r.crc = "sum" THEN "C" ELSE "NAK") \in Replies \union {None}
      BY DEF Replies
    <2>4. line' \in Seq(Replies)
      BY <1>5, <2>3, EmitTyped
    <2>5. ram' = Rotate(q)
      BY <1>5 DEF q
    <2> QED
      BY <1>5, <2>1, <2>2, <2>4, <2>5 DEF Kept, SurroundTyped, UnderWay
  <1>6. CASE /\ r.sm = "FINISHED" /\ ram' = [counted EXCEPT !.mon = "finish"]
             /\ Emit(s, byte) /\ UNCHANGED <<key, run>>
    <2>1. /\ ram' \in Ram /\ ram'.sm = r.sm /\ ram'.confirmed = r.confirmed
          /\ ram'.channel = r.channel
      BY <1>1, <1>6 DEF Ram
    <2> QED
      BY <1>6, <2>1, EmitTyped DEF Kept, SurroundTyped, UnderWay
  <1>7. CASE r.sm = "CANCEL" /\ Reboot(s, byte)
    BY <1>7, LastByteTyped, BootRamTyped DEF Kept, Reboot, SurroundTyped
  <1> QED
    BY <1>2, <1>3, <1>4, <1>5, <1>6, <1>7 DEF Pass, n, counted

\* The monitor resumed on RAM r.
LEMMA WakeKeeps ==
    ASSUME NEW s, NEW byte \in Replies \union {None}, NEW r \in Ram, UnderWay(r),
           ram \in Ram, ram.confirmed => r.confirmed /\ r.channel = ram.channel,
           SurroundTyped, Wake(s, byte, r)
    PROVE  Kept
  <1>1. CASE /\ r.mon = "first" /\ ram' = [r EXCEPT !.mon = "loop"]
             /\ Emit(s, byte) /\ UNCHANGED <<key, run>>
    <2>1. /\ ram' \in Ram /\ ram'.sm = r.sm /\ ram'.confirmed = r.confirmed
          /\ ram'.channel = r.channel
      BY <1>1 DEF Ram
    <2> QED
      BY <1>1, <2>1, EmitTyped DEF Kept, SurroundTyped, UnderWay
  <1>2. CASE r.mon = "loop" /\ Pass(s, byte, r)
    BY <1>2, PassKeeps
  <1>3. CASE r.mon = "finish" /\ Jump(s, byte)
    BY <1>3, LastByteTyped DEF Kept, Jump, SurroundTyped
  <1> QED
    BY <1>1, <1>2, <1>3 DEF Wake

\* The end of a handler that leaves RAM r and returns sm.
LEMMA ConcludeKeeps ==
    ASSUME NEW s, NEW byte \in Replies \union {None}, NEW r \in Ram, NEW sm \in States,
           r.confirmed => sm \notin {"INIT", "START"},
           ram \in Ram, ram.confirmed => r.confirmed /\ r.channel = ram.channel,
           SurroundTyped, Conclude(s, byte, r, sm)
    PROVE  Kept
  <1> DEFINE q == [r EXCEPT !.sm = sm, !.resend = IF sm = "INIT" THEN @ ELSE 0]
  <1>1. /\ q \in Ram /\ q.sm = sm /\ q.confirmed = r.confirmed /\ q.channel = r.channel
    BY DEF Ram
  <1>2. Wake(s, byte, q)
    BY DEF Conclude
  <1> HIDE DEF q
  <1>3. UnderWay(q)
    BY <1>1 DEF UnderWay
  <1> QED
    BY <1>1, <1>2, <1>3, WakeKeeps

LEMMA SendAndReturnKeeps ==
    ASSUME NEW r \in Ram, NEW byte \in Replies \union {None}, NEW sm \in States,
           r.confirmed => sm \notin {"INIT", "START"},
           ram \in Ram, ram.confirmed => r.confirmed /\ r.channel = ram.channel,
           SurroundTyped, SendAndReturn(r, byte, sm)
    PROVE  Kept
  <1>1. /\ Rotate(r) \in Ram /\ Rotate(r).confirmed = r.confirmed
        /\ r.confirmed => Rotate(r) = r
    BY RotateKeeps
  <1>2. Conclude(r, byte, Rotate(r), sm)
    BY DEF SendAndReturn
  <1> QED
    BY <1>1, <1>2, ConcludeKeeps

\* What the first sound block of an update changes, and any other does not.
LEMMA OpenedKeeps ==
    ASSUME TypeOK, ConfirmedIsUnderWay, NEW m \in Msg, Handles(m, "SOH"), PassesCheck(m)
    PROVE  /\ Opened(m) \in Ram
           /\ ram.confirmed => Opened(m).confirmed /\ Opened(m).channel = ram.channel
           /\ Opened(m).lastPn = ram.lastPn /\ Opened(m).pnPage = ram.pnPage
           /\ FlashOpened \in [0..(Blocks - 1) -> Contents]
           /\ ram.confirmed => FlashOpened = flash
  <1>1. CASE ram.sm = "START"
    <2>1. m.sum \in Checks /\ m.ch \in Channels
      BY <1>1 DEF PassesCheck, Msg, TypeOK, Ram
    <2>2. ~ram.confirmed
      BY <1>1 DEF ConfirmedIsUnderWay, Handles
    <2>3. [ram EXCEPT !.crc = m.sum, !.confirmed = TRUE, !.channel = m.ch] \in Ram
      BY <2>1 DEF TypeOK, Ram
    <2> QED
      BY <1>1, <2>2, <2>3 DEF Opened, FlashOpened, TypeOK, Contents, Ram
  <1>2. CASE ram.sm # "START"
    BY <1>2 DEF Opened, FlashOpened, TypeOK
  <1> QED
    BY <1>1, <1>2

\* The number taken over; when it is the next one, the block it stands for is not
\* below the application area.
LEMMA NumberedKeeps ==
    ASSUME TypeOK, ConfirmedIsUnderWay, NEW m \in Msg, Handles(m, "SOH"), PassesCheck(m)
    PROVE  /\ Numbered(m) \in Ram
           /\ ram.confirmed => Numbered(m).confirmed /\ Numbered(m).channel = ram.channel
           /\ BlockOf(Numbered(m)) \in Nat
  <1>1. /\ Opened(m) \in Ram
        /\ ram.confirmed => Opened(m).confirmed /\ Opened(m).channel = ram.channel
    BY OpenedKeeps
  <1>2. m.pn \in 0..(PnMod - 1) /\ PnMod \in Nat /\ PnMod > 1
    BY BootConstants DEF Msg
  <1>3. Opened(m).pnPage \in Nat
    BY <1>1 DEF Ram
  <1> DEFINE page == IF m.pn = 0 THEN Opened(m).pnPage + PnMod ELSE Opened(m).pnPage
  <1>4. page \in Nat /\ page + m.pn - 1 \in Nat
    BY <1>2, <1>3
  <1>5. Numbered(m) = [Opened(m) EXCEPT !.lastPn = m.pn, !.pnPage = page]
    BY <1>1 DEF Numbered, Ram
  <1> HIDE DEF page
  <1>6. /\ Numbered(m) \in Ram /\ Numbered(m).lastPn = m.pn /\ Numbered(m).pnPage = page
        /\ Numbered(m).confirmed = Opened(m).confirmed
        /\ Numbered(m).channel = Opened(m).channel
    BY <1>1, <1>2, <1>4, <1>5 DEF Ram
  <1> QED
    BY <1>1, <1>4, <1>6 DEF BlockOf

----------------------------------------------------------------------------
\* Every step

\* What the theorems say of a step.
Step ==
    /\ TypeOK' /\ ConfirmedIsUnderWay'
    /\ ram.confirmed /\ ram'.confirmed =>
         /\ ram'.channel = ram.channel
         /\ \A b \in 0..(Blocks - 1) : flash[b] # Erased => flash'[b] = flash[b]

FlashKept ==
    /\ flash' \in [0..(Blocks - 1) -> Contents]
    /\ ram.confirmed /\ ram'.confirmed =>
         \A b \in 0..(Blocks - 1) : flash[b] # Erased => flash'[b] = flash[b]

LEMMA StepFromParts ==
    ASSUME Kept, FlashKept, job' = NoJob
    PROVE  Step
  BY DEF Kept, FlashKept, Step, TypeOK, ConfirmedIsUnderWay, UnderWay, SurroundTyped

LEMMA ReceiveStep ==
    ASSUME TypeOK, ConfirmedIsUnderWay, NEW m \in Msg, Receive(m)
    PROVE  Step
  <1> USE DEF States, Replies
  <1>1. run = "boot" /\ job = NoJob /\ ram \in Ram /\ SurroundTyped /\ UnderWay(ram)
    BY DEF Receive, CheckFails, Duplicate, WrongNumber, OverLength, Acknowledge, EndOfTransfer,
           Quit, StopStartup, GoToApp, Ignore, Handles, TypeOK, ConfirmedIsUnderWay, UnderWay,
           SurroundTyped
  <1>2. ASSUME UNCHANGED flash PROVE FlashKept
    BY <1>2 DEF FlashKept, TypeOK
  <1>3. ASSUME Handles(m, "SOH"), PassesCheck(m), flash' = FlashOpened PROVE FlashKept
    BY <1>3, OpenedKeeps DEF FlashKept
  <1>4. ram.sm \in States
    BY <1>1 DEF Ram
  <1>5. CASE CheckFails(m)
    <2>1. Kept
      <3>1. CASE ram.sm = "START" /\ Conclude(ram, None, ram, "START")
        BY <1>1, <3>1, ConcludeKeeps DEF UnderWay
      <3>2. CASE SendAndReturn(ram, "NAK", "TRYAGAIN")
        BY <1>1, <3>2, SendAndReturnKeeps
      <3> QED
        BY <1>5, <3>1, <3>2 DEF CheckFails
    <2> QED
      BY <1>1, <1>2, <1>5, <2>1, StepFromParts DEF CheckFails
  <1>6. CASE Duplicate(m)
    <2>1. Handles(m, "SOH") /\ PassesCheck(m) /\ flash' = FlashOpened /\ UNCHANGED job
      BY <1>6 DEF Duplicate
    <2>2. Kept
      BY <1>1, <1>6, <2>1, OpenedKeeps, ConcludeKeeps DEF Duplicate
    <2> QED
      BY <1>1, <1>3, <2>1, <2>2, StepFromParts
  <1>7. CASE WrongNumber(m)
    <2>1. Handles(m, "SOH") /\ PassesCheck(m) /\ flash' = FlashOpened /\ UNCHANGED job
      BY <1>7 DEF WrongNumber
    <2>2. Kept
      BY <1>1, <1>7, <2>1, OpenedKeeps, ConcludeKeeps DEF WrongNumber
    <2> QED
      BY <1>1, <1>3, <2>1, <2>2, StepFromParts
  <1>8. CASE OverLength(m)
    <2>1. Handles(m, "SOH") /\ PassesCheck(m) /\ flash' = FlashOpened /\ UNCHANGED job
      BY <1>8 DEF OverLength
    <2>2. Kept
      BY <1>1, <1>8, <2>1, NumberedKeeps, SendAndReturnKeeps DEF OverLength
    <2> QED
      BY <1>1, <1>3, <2>1, <2>2, StepFromParts
  <1>9. CASE Acknowledge(m)
    <2> DEFINE r == Numbered(m)
    <2>1. Handles(m, "SOH") /\ PassesCheck(m) /\ flash' = FlashOpened /\ UNCHANGED <<key, run>>
      BY <1>9 DEF Acknowledge
    <2>2. /\ r \in Ram
          /\ ram.confirmed => r.confirmed /\ r.channel = ram.channel
          /\ BlockOf(r) \in Nat
      BY <2>1, NumberedKeeps
    <2>3. InAppArea(m) /\ ram' = Rotate(r) /\ Emit(r, "ACK")
          /\ job' = [block |-> BlockOf(r), data |-> m.data]
      BY <1>9 DEF Acknowledge
    <2>4. BlockOf(r) < Blocks
      BY <2>3 DEF InAppArea
    <2> HIDE DEF r
    <2>5. job' \in Jobs /\ job' # NoJob
      BY <2>2, <2>3, <2>4, BootConstants DEF Jobs, NoJob, Msg
    <2>6. /\ Rotate(r) \in Ram /\ Rotate(r).confirmed = r.confirmed
          /\ r.confirmed => Rotate(r) = r
      BY <2>2, RotateKeeps
    <2>7. line' \in Seq(Replies)
      BY <1>1, <2>3, EmitTyped
    <2>8. FlashKept
      BY <1>3, <2>1
    <2> QED
      BY <1>1, <2>1, <2>2, <2>3, <2>5, <2>6, <2>7, <2>8
      DEF Step, FlashKept, TypeOK, ConfirmedIsUnderWay, SurroundTyped
  <1>10. [ram EXCEPT !.pnPage = 0] \in Ram
         /\ [ram EXCEPT !.pnPage = 0].confirmed = ram.confirmed
         /\ [ram EXCEPT !.pnPage = 0].channel = ram.channel
    BY <1>1 DEF Ram
  <1>11. CASE EndOfTransfer(m)
    <2>1. Kept
      BY <1>1, <1>10, <1>11, SendAndReturnKeeps DEF EndOfTransfer
    <2> QED
      BY <1>1, <1>2, <1>11, <2>1, StepFromParts DEF EndOfTransfer
  <1>12. CASE Quit(m)
    <2>1. Kept
      BY <1>1, <1>10, <1>12, SendAndReturnKeeps DEF Quit
    <2> QED
      BY <1>1, <1>2, <1>12, <2>1, StepFromParts DEF Quit
  <1>13. CASE StopStartup(m)
    <2>1. AfterU \in States /\ (ram.confirmed => AfterU \notin {"INIT", "START"})
      BY <1>1, <1>4 DEF AfterU, UnderWay
    <2>2. Kept
      BY <1>1, <1>13, <2>1, ConcludeKeeps DEF StopStartup
    <2> QED
      BY <1>1, <1>2, <1>13, <2>2, StepFromParts DEF StopStartup
  <1>14. CASE GoToApp(m)
    <2> DEFINE sm == IF ram.sm \in {"INIT", "START"} THEN "FINISHED" ELSE ram.sm
    <2>1. sm \in States /\ sm \notin {"INIT", "START"}
      BY <1>4
    <2>2. Conclude(ram, None, ram, sm) /\ UNCHANGED <<job, flash>>
      BY <1>14 DEF GoToApp
    <2> HIDE DEF sm
    <2>3. Kept
      BY <1>1, <2>1, <2>2, ConcludeKeeps
    <2> QED
      BY <1>1, <1>2, <2>2, <2>3, StepFromParts
  <1>15. CASE Ignore(m)
    <2>1. Kept
      BY <1>1, <1>4, <1>15, ConcludeKeeps DEF Ignore, UnderWay
    <2> QED
      BY <1>1, <1>2, <1>15, <2>1, StepFromParts DEF Ignore
  <1> QED
    BY <1>5, <1>6, <1>7, <1>8, <1>9, <1>11, <1>12, <1>13, <1>14, <1>15 DEF Receive

LEMMA EveryStep ==
    ASSUME TypeOK, ConfirmedIsUnderWay, [BootNext]_bootVars
    PROVE  Step
  <1> USE DEF States
  <1>1. ram \in Ram /\ SurroundTyped
    BY DEF TypeOK, SurroundTyped
  <1>2. ASSUME NEW m \in Inputs, Receive(m) PROVE Step
    BY <1>2, ReceiveStep DEF Inputs
  <1>3. ASSUME NEW m \in Inputs, CrashInErase(m) PROVE Step
    <2>1. Reboot(ram, None) /\ UNCHANGED job /\ job = NoJob
      BY <1>3 DEF CrashInErase, Handles
    <2>2. Kept /\ ~ram'.confirmed
      BY <1>1, <2>1, LastByteTyped, BootRamTyped DEF Reboot, Kept, SurroundTyped
    <2>3. flash' \in [0..(Blocks - 1) -> Contents]
      BY <1>3 DEF CrashInErase, TypeOK, Contents
    <2> QED
      BY <2>1, <2>2, <2>3, StepFromParts DEF FlashKept
  <1>4. CASE MonitorTick
    <2>1. Kept
      BY <1>1, <1>4, WakeKeeps DEF MonitorTick, ConfirmedIsUnderWay, UnderWay
    <2> QED
      BY <1>4, <2>1, StepFromParts DEF MonitorTick, FlashKept, TypeOK
  <1>5. CASE Program
    <2>1. Kept
      BY <1>1, <1>5, ConcludeKeeps DEF Program
    <2>2. job \in Jobs
      BY <1>5 DEF Program, TypeOK
    <2>3. FlashKept
      BY <1>5, <2>2 DEF Program, FlashKept, TypeOK, Jobs, Contents
    <2> QED
      BY <1>5, <2>1, <2>3, StepFromParts DEF Program
  <1>6. CASE Crash
    <2>1. Reboot(ram, None) /\ job' = NoJob
      BY <1>6 DEF Crash
    <2>2. Kept /\ ~ram'.confirmed
      BY <1>1, <2>1, LastByteTyped, BootRamTyped DEF Reboot, Kept, SurroundTyped
    <2>3. flash' \in [0..(Blocks - 1) -> Contents]
      BY <1>6 DEF Crash, TypeOK, Jobs, Contents
    <2> QED
      BY <2>1, <2>2, <2>3, StepFromParts DEF FlashKept
  <1>7. CASE HostReads
    <2>1. Tail(line) \in Seq(Replies)
      BY <1>1, <1>7 DEF HostReads, SurroundTyped
    <2> QED
      BY <1>7, <2>1 DEF HostReads, Step, TypeOK, ConfirmedIsUnderWay
  <1>8. CASE UNCHANGED bootVars
    BY <1>8 DEF bootVars, Step, TypeOK, ConfirmedIsUnderWay
  <1> QED
    BY <1>2, <1>3, <1>4, <1>5, <1>6, <1>7, <1>8 DEF BootNext

----------------------------------------------------------------------------
\* Theorems

LEMMA InitInv ==
    ASSUME BootInit
    PROVE  TypeOK /\ ConfirmedIsUnderWay
  <1>1. ram \in Ram /\ ~ram.confirmed
    BY BootRamTyped DEF BootInit
  <1>2. <<>> \in Seq(Replies)
    OBVIOUS
  <1> QED
    BY <1>1, <1>2 DEF BootInit, TypeOK, ConfirmedIsUnderWay, Contents

\* Types, and with them that no block outside the application area is ever
\* programmed; and that a confirmed transfer is never opened again.
THEOREM BootInvariant == BootSpec => []BootInv
  <1>1. BootInit => BootInv
    BY InitInv DEF BootInv
  <1>2. BootInv /\ [BootNext]_bootVars => BootInv'
    BY EveryStep DEF BootInv, Step
  <1> QED
    BY <1>1, <1>2, PTL DEF BootSpec

\* A confirmed update has left the states in which a block opens one.
THEOREM ConfirmedCorrect == BootSpec => []ConfirmedIsUnderWay
  <1>1. BootInv => ConfirmedIsUnderWay
    BY DEF BootInv
  <1> QED
    BY <1>1, BootInvariant, PTL

\* The type invariant, and with it the bounds of the application area.
THEOREM TypeCorrect == BootSpec => []TypeOK
  <1>1. BootInv => TypeOK
    BY DEF BootInv
  <1> QED
    BY <1>1, BootInvariant, PTL

\* The channel of a transfer is recorded once.
THEOREM ChannelCorrect == BootSpec => ChannelRecordedOnce
  <1>1. BootInv /\ [BootNext]_bootVars
        => [ram.confirmed /\ ram'.confirmed => ram'.channel = ram.channel]_bootVars
    BY EveryStep DEF BootInv, Step
  <1> QED
    BY <1>1, BootInvariant, PTL DEF BootSpec, ChannelRecordedOnce

\* A block of a transfer stays as it was programmed.
THEOREM FlashCorrect == BootSpec => ProgrammedStays
  <1>1. BootInv /\ [BootNext]_bootVars
        => [ram.confirmed /\ ram'.confirmed =>
              \A b \in 0..(Blocks - 1) : flash[b] # Erased => flash'[b] = flash[b]]_bootVars
    BY EveryStep DEF BootInv, Step
  <1> QED
    BY <1>1, BootInvariant, PTL DEF BootSpec, ProgrammedStays

----------------------------------------------------------------------------
\* The transfer

\* The number after the next.
LEMMA NextMod ==
    ASSUME NEW d \in Nat
    PROVE  /\ d % PnMod \in 0..(PnMod - 1)
           /\ (d + 1) % PnMod = ((d % PnMod) + 1) % PnMod
           /\ (d + 1) % PnMod # d % PnMod
           /\ \/ (d + 1) % PnMod = (d % PnMod) + 1
              \/ (d + 1) % PnMod = 0 /\ d % PnMod = PnMod - 1
  <1>0. PnMod \in Nat /\ PnMod > 1
    BY BootConstants
  <1> DEFINE q == d \div PnMod
             r == d % PnMod
             p == (d + 1) \div PnMod
             s == (d + 1) % PnMod
  <1>1. q \in Int /\ r \in 0..(PnMod - 1) /\ d = PnMod * q + r
    BY <1>0
  <1>2. p \in Int /\ s \in 0..(PnMod - 1) /\ d + 1 = PnMod * p + s
    BY <1>0
  <1> HIDE DEF q, r, p, s
  <1>3. PnMod * (p - q) = r + 1 - s
    BY <1>0, <1>1, <1>2
  <1>4. ASSUME NEW x \in Int, x >= 2 PROVE PnMod * x >= PnMod * 2
    BY <1>0, <1>4
  <1>5. ASSUME NEW x \in Int, x <= -1 PROVE PnMod * x <= -PnMod
    BY <1>0, <1>5
  <1>6. p - q \in {0, 1}
    <2>1. p - q < 2
      BY <1>0, <1>1, <1>2, <1>3, <1>4
    <2>2. p - q > -1
      BY <1>0, <1>1, <1>2, <1>3, <1>5
    <2> QED
      BY <1>1, <1>2, <2>1, <2>2
  <1>7. \/ s = r + 1 /\ r + 1 < PnMod
        \/ s = 0 /\ r = PnMod - 1
    BY <1>0, <1>1, <1>2, <1>3, <1>6
  <1>8. s # r
    BY <1>0, <1>1, <1>7
  <1>9. s = (r + 1) % PnMod
    <2>1. CASE s = r + 1 /\ r + 1 < PnMod
      BY <1>0, <1>1, <2>1
    <2>2. CASE s = 0 /\ r = PnMod - 1
      BY <1>0, <1>1, <2>2
    <2> QED
      BY <1>7, <2>1, <2>2
  <1> QED
    BY <1>1, <1>7, <1>8, <1>9 DEF r, s

----------------------------------------------------------------------------
\* What a pass of the monitor makes of RAM r, in the terms of the transfer.

\* The line is as it was or has one more byte: an ACK only if one was due.
HeardAck(due) ==
    \/ line' = line
    \/ \E x \in Replies : line' = Append(line, x) /\ (x = "ACK" => due)

\* Either the application is started, or the numbers are r's and the state is.
Passed(r) ==
    \/ run' = "app" /\ key' = FALSE /\ ram' = ram /\ (r.mon = "finish" \/ r.sm = "INIT")
    \/ /\ run' = run /\ key' = key
       /\ ram'.sm = r.sm /\ ram'.lastPn = r.lastPn /\ ram'.pnPage = r.pnPage
       /\ ram'.mon = "finish" => r.sm = "FINISHED"

\* A byte sent is heard, or lost.
LEMMA EmitHeard ==
    ASSUME NEW s, NEW byte \in Replies \union {None}, Emit(s, byte)
    PROVE  HeardAck(byte = "ACK")
  <1>1. CASE byte # None /\ line' = Append(line, byte)
    BY <1>1 DEF HeardAck
  <1> QED
    BY <1>1 DEF Emit, HeardAck

\* Choosing another channel changes no number.
LEMMA RotateNumbers ==
    ASSUME NEW r \in Ram
    PROVE  /\ Rotate(r).sm = r.sm /\ Rotate(r).lastPn = r.lastPn
           /\ Rotate(r).pnPage = r.pnPage /\ Rotate(r).mon = r.mon
           /\ Rotate(r).resend = r.resend
  BY DEF Rotate, Ram

\* One pass of the monitor's loop starts the application or keeps the numbers.
LEMMA PassNumbers ==
    ASSUME NEW s, NEW byte \in Replies \union {None}, NEW r \in Ram, r.mon = "loop",
           r.sm # "CANCEL", Pass(s, byte, r)
    PROVE  Passed(r) /\ HeardAck(byte = "ACK" \/ (r.sm = "PROGRAMING" /\ r.resend + 1 >= ResendTimeout))
  <1> DEFINE n == r.resend + 1
             counted == [r EXCEPT !.resend = n]
             due == byte = "ACK" \/ (r.sm = "PROGRAMING" /\ r.resend + 1 >= ResendTimeout)
  <1>1. /\ counted.sm = r.sm /\ counted.lastPn = r.lastPn /\ counted.pnPage = r.pnPage
        /\ counted.mon = r.mon /\ counted \in Ram
    BY DEF Ram
  <1>2. ASSUME Emit(s, byte) PROVE HeardAck(due)
    BY <1>2, EmitHeard DEF HeardAck
  <1>3. CASE (\/ r.sm = "INIT" /\ n < JumpDelay
              \/ r.sm \in {"TRYAGAIN", "PROGRAMING"} /\ n < ResendTimeout)
             /\ ram' = counted /\ Emit(s, byte) /\ UNCHANGED <<key, run>>
    BY <1>1, <1>2, <1>3 DEF Passed
  <1>4. CASE r.sm = "INIT" /\ n >= JumpDelay /\ Jump(s, byte)
    BY <1>2, <1>4 DEF Jump, LastByte, Passed, HeardAck
  <1>5. CASE /\ r.sm \in {"TRYAGAIN", "PROGRAMING"} /\ n >= ResendTimeout
             /\ ram' = Rotate([r EXCEPT !.resend = 0])
             /\ Emit(r, IF r.sm = "TRYAGAIN" THEN "NAK" ELSE "ACK")
             /\ UNCHANGED <<key, run>>
    <2> DEFINE q == [r EXCEPT !.resend = 0]
    <2>1. q \in Ram /\ q.sm = r.sm /\ q.lastPn = r.lastPn /\ q.pnPage = r.pnPage /\ q.mon = r.mon
      BY DEF Ram
    <2> HIDE DEF q
    <2>2. Passed(r)
      BY <1>5, <2>1, RotateNumbers DEF Passed, q
    <2>3. CASE r.sm = "TRYAGAIN"
      BY <1>5, <2>2, <2>3, EmitHeard DEF HeardAck, Replies
    <2>4. CASE r.sm = "PROGRAMING"
      <3>1. HeardAck("ACK" = "ACK")
        BY <1>5, <2>4, EmitHeard DEF Replies
      <3> QED
        BY <1>5, <2>2, <2>4, <3>1 DEF HeardAck
    <2> QED
      BY <1>5, <2>3, <2>4
  <1>6. CASE /\ r.sm = "START"
             /\ ram' = Rotate([r EXCEPT !.resend = 0, !.crc = OtherCheck(@)])
             /\ Emit(r, IF r.crc = "sum" THEN "C" ELSE "NAK")
             /\ UNCHANGED <<key, run>>
    <2> DEFINE q == [r EXCEPT !.resend = 0, !.crc = OtherCheck(@)]
    <2>1. q \in Ram /\ q.sm = r.sm /\ q.lastPn = r.lastPn /\ q.pnPage = r.pnPage /\ q.mon = r.mon
      BY DEF Ram, OtherCheck, Checks
    <2> HIDE DEF q
    <2>2. Passed(r)
      BY <1>6, <2>1, RotateNumbers DEF Passed, q
    <2>3. (IF r.crc = "sum" THEN "C" ELSE "NAK") \in Replies \ {"ACK"}
      BY DEF Replies
    <2> QED
      BY <1>6, <2>2, <2>3, EmitHeard DEF HeardAck
  <1>7. CASE /\ r.sm = "FINISHED" /\ ram' = [counted EXCEPT !.mon = "finish"]
             /\ Emit(s, byte) /\ UNCHANGED <<key, run>>
    <2>1. /\ ram'.sm = r.sm /\ ram'.lastPn = r.lastPn /\ ram'.pnPage = r.pnPage
      BY <1>1, <1>7 DEF Ram
    <2> QED
      BY <1>2, <1>7, <2>1 DEF Passed
  <1> QED
    BY <1>3, <1>4, <1>5, <1>6, <1>7 DEF Pass

\* So does a pass that is preceded by the monitor's count of seconds.
LEMMA WakeNumbers ==
    ASSUME NEW s, NEW byte \in Replies \union {None}, NEW r \in Ram, r.sm # "CANCEL",
           Wake(s, byte, r)
    PROVE  Passed(r) /\ HeardAck(byte = "ACK" \/ (r.sm = "PROGRAMING" /\ r.resend + 1 >= ResendTimeout))
  <1> DEFINE due == byte = "ACK" \/ (r.sm = "PROGRAMING" /\ r.resend + 1 >= ResendTimeout)
  <1>1. ASSUME Emit(s, byte) PROVE HeardAck(due)
    BY <1>1, EmitHeard DEF HeardAck
  <1>2. CASE r.mon = "first" /\ ram' = [r EXCEPT !.mon = "loop"] /\ Emit(s, byte) /\ UNCHANGED <<key, run>>
    BY <1>1, <1>2 DEF Passed, Ram
  <1>3. CASE r.mon = "loop" /\ Pass(s, byte, r)
    BY <1>3, PassNumbers
  <1>4. CASE r.mon = "finish" /\ Jump(s, byte)
    BY <1>1, <1>4 DEF Jump, LastByte, Passed, HeardAck
  <1> QED
    BY <1>2, <1>3, <1>4 DEF Wake

\* The end of a handler: what it sent is heard, and no ACK of the monitor.
LEMMA ConcludeNumbers ==
    ASSUME NEW s, NEW byte \in Replies \union {None}, NEW r \in Ram, NEW sm \in States,
           sm # "CANCEL", Conclude(s, byte, r, sm)
    PROVE  Passed([r EXCEPT !.sm = sm]) /\ HeardAck(byte = "ACK")
  <1> DEFINE q == [r EXCEPT !.sm = sm, !.resend = IF sm = "INIT" THEN @ ELSE 0]
             t == [r EXCEPT !.sm = sm]
  <1>1. /\ q \in Ram /\ q.sm = sm /\ q.lastPn = r.lastPn /\ q.pnPage = r.pnPage /\ q.mon = r.mon
        /\ sm # "INIT" => q.resend = 0
        /\ t.sm = sm /\ t.lastPn = r.lastPn /\ t.pnPage = r.pnPage /\ t.mon = r.mon
    BY DEF Ram
  <1>2. Wake(s, byte, q)
    BY DEF Conclude
  <1> HIDE DEF q, t
  <1>3. /\ Passed(q)
        /\ HeardAck(byte = "ACK" \/ (q.sm = "PROGRAMING" /\ q.resend + 1 >= ResendTimeout))
    BY <1>1, <1>2, WakeNumbers
  <1>4. Passed(t)
    BY <1>1, <1>3 DEF Passed
  <1>5. HeardAck(byte = "ACK")
    BY <1>1, <1>3 DEF HeardAck, ResendTimeout
  <1> QED
    BY <1>4, <1>5 DEF t

----------------------------------------------------------------------------
\* What handling a message comes to, in the terms of the transfer.

\* A handler that leaves these numbers and this state, and the pass after it.
Went(sm, pn, page) ==
    \/ run' = "app" /\ key' = FALSE /\ ram' = ram /\ (ram.mon = "finish" \/ sm = "INIT")
    \/ /\ run' = run /\ key' = key
       /\ ram'.sm = sm /\ ram'.lastPn = pn /\ ram'.pnPage = page
       /\ ram'.mon = "finish" => sm = "FINISHED"

Unwritten == UNCHANGED <<job, flash>>

Page(m) == IF m.pn = 0 THEN ram.pnPage + PnMod ELSE ram.pnPage

Rejected(m) ==
    /\ HeardAck(FALSE) /\ Unwritten
    /\ Went(IF m.head # "SOH" \/ ram.sm = "START" THEN ram.sm ELSE "TRYAGAIN", ram.lastPn, ram.pnPage)

Repeated(m) ==
    /\ Sound(m) /\ m.pn = ram.lastPn
    /\ HeardAck(FALSE) /\ flash' = FlashOpened /\ UNCHANGED job
    /\ Went("PROGRAMING", ram.lastPn, ram.pnPage)

Strange(m) ==
    /\ Sound(m) /\ flash' = FlashOpened /\ UNCHANGED job
    /\ HeardAck(FALSE)
    /\ \/ /\ m.pn # ram.lastPn /\ m.pn # (ram.lastPn + 1) % PnMod
          /\ Went("TRYAGAIN", ram.lastPn, ram.pnPage)
       \/ /\ m.pn = (ram.lastPn + 1) % PnMod /\ Page(m) + m.pn > Blocks
          /\ Went("TRYAGAIN", m.pn, Page(m))

Accepted(m) ==
    /\ Sound(m) /\ m.pn = (ram.lastPn + 1) % PnMod /\ Page(m) + m.pn <= Blocks
    /\ HeardAck(TRUE) /\ flash' = FlashOpened
    /\ job' = [block |-> Page(m) + m.pn - 1, data |-> m.data]
    /\ UNCHANGED <<key, run>>
    /\ ram'.sm = ram.sm /\ ram'.lastPn = m.pn /\ ram'.pnPage = Page(m) /\ ram'.mon = ram.mon

Ended(m) ==
    /\ m.head = "EOT"
    /\ HeardAck(TRUE) /\ Unwritten
    /\ Went("FINISHED", ram.lastPn, 0)

\* A handler followed by the monitor's pass.
LEMMA ConcludeWent ==
    ASSUME NEW s, NEW byte \in Replies \union {None}, NEW r \in Ram, NEW sm \in States,
           sm # "CANCEL", Conclude(s, byte, r, sm), r.mon = ram.mon
    PROVE  Went(sm, r.lastPn, r.pnPage) /\ HeardAck(byte = "ACK")
  <1> DEFINE t == [r EXCEPT !.sm = sm]
  <1>1. t.sm = sm /\ t.lastPn = r.lastPn /\ t.pnPage = r.pnPage /\ t.mon = r.mon
    BY DEF Ram
  <1> HIDE DEF t
  <1>2. Passed(t) /\ HeardAck(byte = "ACK")
    BY ConcludeNumbers DEF t
  <1> QED
    BY <1>1, <1>2 DEF Passed, Went

\* A handler that sends a byte and returns, followed by the monitor's pass.
LEMMA SendWent ==
    ASSUME NEW byte \in Replies \union {None}, NEW r \in Ram, NEW sm \in States,
           sm # "CANCEL", SendAndReturn(r, byte, sm), r.mon = ram.mon
    PROVE  Went(sm, r.lastPn, r.pnPage) /\ HeardAck(byte = "ACK")
  <1>1. Rotate(r) \in Ram
    BY RotateKeeps
  <1>2. Rotate(r).lastPn = r.lastPn /\ Rotate(r).pnPage = r.pnPage /\ Rotate(r).mon = r.mon
    BY RotateNumbers
  <1>3. Conclude(r, byte, Rotate(r), sm)
    BY DEF SendAndReturn
  <1>4. Went(sm, Rotate(r).lastPn, Rotate(r).pnPage) /\ HeardAck(byte = "ACK")
    BY <1>1, <1>2, <1>3, ConcludeWent
  <1> QED
    BY <1>2, <1>4

\* Opening a transfer leaves the numbers.
LEMMA OpenedNumbers ==
    ASSUME ram \in Ram, NEW m
    PROVE  Opened(m).lastPn = ram.lastPn /\ Opened(m).pnPage = ram.pnPage /\ Opened(m).mon = ram.mon
           /\ Opened(m).sm = ram.sm
  BY DEF Opened, Ram

\* A block sets the number, and a wrap adds a page.
LEMMA NumberedNumbers ==
    ASSUME ram \in Ram, NEW m
    PROVE  /\ Numbered(m).lastPn = m.pn /\ Numbered(m).pnPage = Page(m) /\ Numbered(m).mon = ram.mon
           /\ Numbered(m).sm = ram.sm
  <1>1. CASE ram.sm = "START"
    BY <1>1 DEF Opened, Numbered, Page, Ram
  <1>2. CASE ram.sm # "START"
    BY <1>2 DEF Opened, Numbered, Page, Ram
  <1> QED
    BY <1>1, <1>2

\* The five things that can become of a message of the transfer.
LEMMA Outcomes ==
    ASSUME BootInv, ram.sm # "CANCEL", NEW m \in Msg, m.head \in {"SOH", "EOT", "other"},
           m.sum \in {"sum", "bad"}, Receive(m)
    PROVE  /\ run = "boot" /\ job = NoJob
           /\ Rejected(m) \/ Repeated(m) \/ Strange(m) \/ Accepted(m) \/ Ended(m)
  <1> USE DEF States, Replies
  <1>1. run = "boot" /\ job = NoJob
    BY DEF Receive, CheckFails, Duplicate, WrongNumber, OverLength, Acknowledge, EndOfTransfer,
           Quit, StopStartup, GoToApp, Ignore, Handles
  <1>2. TypeOK /\ ConfirmedIsUnderWay /\ ram \in Ram /\ ram.sm \in States /\ ram.crc \in Checks
    BY DEF BootInv, TypeOK, Ram
  <1>3. ASSUME Handles(m, "SOH"), PassesCheck(m)
        PROVE  /\ Sound(m) /\ Opened(m) \in Ram /\ Numbered(m) \in Ram
               /\ BlockOf(Numbered(m)) = Page(m) + m.pn - 1 /\ Page(m) \in Nat /\ m.pn \in Nat
    <2>1. Opened(m) \in Ram /\ Numbered(m) \in Ram
      BY <1>2, <1>3, OpenedKeeps, NumberedKeeps
    <2>2. Sound(m)
      BY <1>2, <1>3 DEF Sound, Handles, PassesCheck, Checks
    <2>3. Numbered(m).lastPn = m.pn /\ Numbered(m).pnPage = Page(m)
      BY <1>2, NumberedNumbers
    <2>4. Page(m) \in Nat /\ m.pn \in Nat
      BY <2>1, <2>3 DEF Ram
    <2> QED
      BY <2>1, <2>2, <2>3, <2>4 DEF BlockOf
  <1>4. CASE CheckFails(m)
    <2>1. m.head = "SOH" /\ Unwritten
      BY <1>4 DEF CheckFails, Handles, Unwritten
    <2>2. CASE ram.sm = "START"
      <3>1. Went("START", ram.lastPn, ram.pnPage) /\ HeardAck(None = "ACK")
        BY <1>2, <1>4, <2>2, ConcludeWent DEF CheckFails
      <3> QED
        BY <1>1, <2>1, <2>2, <3>1 DEF Rejected, None
    <2>3. CASE ram.sm # "START"
      <3>1. Went("TRYAGAIN", ram.lastPn, ram.pnPage) /\ HeardAck("NAK" = "ACK")
        BY <1>2, <1>4, <2>3, SendWent DEF CheckFails
      <3> QED
        BY <1>1, <2>1, <2>3, <3>1 DEF Rejected
    <2> QED
      BY <2>2, <2>3
  <1>5. CASE Duplicate(m)
    <2>1. Handles(m, "SOH") /\ PassesCheck(m)
      BY <1>5 DEF Duplicate
    <2>2. Went("PROGRAMING", Opened(m).lastPn, Opened(m).pnPage) /\ HeardAck(None = "ACK")
      BY <1>2, <1>3, <1>5, <2>1, ConcludeWent, OpenedNumbers DEF Duplicate
    <2>3. Repeated(m)
      BY <1>2, <1>3, <1>5, <2>1, <2>2, OpenedNumbers DEF Duplicate, Repeated, None
    <2> QED
      BY <1>1, <2>3
  <1>6. CASE WrongNumber(m)
    <2>1. Handles(m, "SOH") /\ PassesCheck(m)
      BY <1>6 DEF WrongNumber
    <2>2. Went("TRYAGAIN", Opened(m).lastPn, Opened(m).pnPage) /\ HeardAck(None = "ACK")
      BY <1>2, <1>3, <1>6, <2>1, ConcludeWent, OpenedNumbers DEF WrongNumber
    <2>3. Strange(m)
      BY <1>2, <1>3, <1>6, <2>1, <2>2, OpenedNumbers DEF WrongNumber, Strange, None
    <2> QED
      BY <1>1, <2>3
  <1>7. CASE OverLength(m)
    <2>1. Handles(m, "SOH") /\ PassesCheck(m)
      BY <1>7 DEF OverLength
    <2>2. Went("TRYAGAIN", Numbered(m).lastPn, Numbered(m).pnPage) /\ HeardAck("NAK" = "ACK")
      BY <1>2, <1>3, <1>7, <2>1, SendWent, NumberedNumbers DEF OverLength
    <2>3. Page(m) + m.pn > Blocks
      BY <1>3, <1>7, <2>1, BootConstants DEF OverLength, InAppArea
    <2>4. Strange(m)
      BY <1>2, <1>3, <1>7, <2>1, <2>2, <2>3, NumberedNumbers DEF OverLength, Strange
    <2> QED
      BY <1>1, <2>4
  <1>8. CASE Acknowledge(m)
    <2>1. Handles(m, "SOH") /\ PassesCheck(m)
      BY <1>8 DEF Acknowledge
    <2>2. HeardAck("ACK" = "ACK")
      BY <1>8, EmitHeard DEF Acknowledge
    <2>3. m.pn = (ram.lastPn + 1) % PnMod /\ Page(m) + m.pn <= Blocks
      BY <1>3, <1>8, <2>1, BootConstants DEF Acknowledge, InAppArea
    <2>4. ram' = Rotate(Numbered(m))
      BY <1>8 DEF Acknowledge
    <2>5. ram'.sm = ram.sm /\ ram'.lastPn = m.pn /\ ram'.pnPage = Page(m) /\ ram'.mon = ram.mon
      BY <1>2, <1>3, <2>1, <2>4, NumberedNumbers, RotateNumbers
    <2>6. Accepted(m)
      BY <1>3, <1>8, <2>1, <2>2, <2>3, <2>5 DEF Acknowledge, Accepted
    <2> QED
      BY <1>1, <2>6
  <1>9. CASE EndOfTransfer(m)
    <2> DEFINE r == [ram EXCEPT !.pnPage = 0]
    <2>1. r \in Ram /\ r.lastPn = ram.lastPn /\ r.pnPage = 0 /\ r.mon = ram.mon
      BY <1>2 DEF Ram
    <2>2. SendAndReturn(r, "ACK", "FINISHED")
      BY <1>9 DEF EndOfTransfer
    <2> HIDE DEF r
    <2>3. Went("FINISHED", r.lastPn, r.pnPage) /\ HeardAck("ACK" = "ACK")
      BY <2>1, <2>2, SendWent
    <2>4. Ended(m)
      BY <1>9, <2>1, <2>3 DEF EndOfTransfer, Handles, Ended, Unwritten
    <2> QED
      BY <1>1, <2>4
  <1>10. CASE Ignore(m)
    <2>1. m.head # "SOH" /\ Unwritten
      BY <1>10 DEF Ignore, Handles, Unwritten
    <2>2. Went(ram.sm, ram.lastPn, ram.pnPage) /\ HeardAck(None = "ACK")
      BY <1>2, <1>10, ConcludeWent DEF Ignore
    <2>3. Rejected(m)
      BY <2>1, <2>2 DEF Rejected, None
    <2> QED
      BY <1>1, <2>3
  <1> QED
    BY <1>4, <1>5, <1>6, <1>7, <1>8, <1>9, <1>10
    DEF Receive, Quit, StopStartup, GoToApp, Handles

----------------------------------------------------------------------------
\* The sender's steps that touch neither the device nor the messages on the way.

Onward ==
    /\ UNCHANGED <<bootVars, k, inVars, resets, surplus>>
    /\ snd' \in Phases /\ tries' \in Nat /\ asked' \in Requests /\ fwdQ' \in Answers
    /\ snd' \in Asking => snd \in Asking
    /\ snd' \in {"write", "wait"} => snd \in Asking \union {"write", "wait"}
    /\ snd' \in {"eot", "done"} \/ snd \in {"done"} => snd' = snd

\* What is not touched keeps its type.
LEMMA BootInvUnchanged ==
    ASSUME BootInv, UNCHANGED bootVars
    PROVE  BootInv'
  BY DEF BootInv, TypeOK, ConfirmedIsUnderWay, bootVars

\* A step of the sender that waits, gives up or asks keeps the invariant.
LEMMA OnwardKeeps ==
    ASSUME Following, Onward
    PROVE  Following'
  <1> USE DEF Asking
  <1>1. BootInv'
    BY BootInvUnchanged DEF Following, Types, Onward
  <1>2. 0 < N
    BY FirmwareConstants
  <1>3. Types'
    BY <1>1, <1>2 DEF Following, Types, Onward, inVars
  <1>4. /\ UNCHANGED <<ram, job, flash, key, run, line, k, inQ, eotQ, updQ, resets, surplus>>
        /\ snd' = "done" <=> snd = "done"
    BY DEF Onward, bootVars, inVars
  <1>5. Pending' = Pending
    BY <1>4 DEF Pending
  <1>6. AllSent'
    BY <1>4, <1>5 DEF Following, AllSent, Sent, Sound
  <1>7. NoneSound' = NoneSound /\ Untouched' = Untouched /\ Complete' = Complete
    BY <1>4, <1>5 DEF NoneSound, Sound, Untouched, Complete
  <1>8. Keyed'
    BY <1>4, <1>7 DEF Following, Keyed
  <1>9. ASSUME Undisturbed PROVE InStep'
    <2>1. CASE run = "app" /\ snd # "done" /\ NotBooted
      BY <1>4, <1>5, <1>7, <2>1 DEF InStep, NotBooted, Onward
    <2>2. CASE snd = "done" /\ (run = "app" \/ ~Begun) /\ Over
      BY <1>4, <1>5, <1>7, <2>2 DEF InStep, Over, Begun, Sound
    <2>3. CASE run = "boot" /\ key /\ (snd = "done" => Begun) /\ Numbers /\ InOrder /\ Area
      <3>1. Begun' = Begun /\ Taken' = Taken
        BY <1>4 DEF Begun, Taken
      <3>2. Numbers'
        BY <1>4, <1>5, <1>7, <2>3, <3>1 DEF Numbers, Sound, Onward
      <3>3. InOrder' /\ Area'
        BY <1>4, <1>7, <2>3, <3>1 DEF InOrder, Area, Sound
      <3> QED
        BY <1>4, <2>3, <3>1, <3>2, <3>3 DEF InStep
    <2> QED
      BY <1>9, <2>1, <2>2, <2>3 DEF Following, InStep
  <1> QED
    BY <1>3, <1>4, <1>6, <1>8, <1>9 DEF Following, Undisturbed

\* The steps of the sender of that kind.
LEMMA OnwardSteps ==
    ASSUME Types,
           \/ CheckVersion \/ TakeVersion \/ VersionTimeout
           \/ Notify \/ TakeConsent \/ ConsentTimeout \/ SkipAnswer
           \/ AnswerVersion \/ Refuse \/ RequestLost
           \/ LostWrite \/ FailedWrite \/ Timeout \/ FailedEot
    PROVE  Onward
  <1> USE DEF Types, Onward, Asking, Phases, Requests, Answers, None, askVars, sndVars
  <1>1. CASE CheckVersion \/ Notify
    BY <1>1 DEF CheckVersion, Notify, Ask
  <1>2. CASE TakeVersion \/ VersionTimeout
    BY <1>2 DEF TakeVersion, VersionTimeout
  <1>3. ASSUME snd = "hearConsent", NotifyAgain
        PROVE  snd' \in {"notify", "failed"} /\ tries' \in Nat
    BY <1>3 DEF NotifyAgain, Retries
  <1>4. CASE TakeConsent
    BY <1>3, <1>4 DEF TakeConsent
  <1>5. CASE ConsentTimeout
    BY <1>3, <1>5 DEF ConsentTimeout
  <1>6. CASE SkipAnswer
    BY <1>6 DEF SkipAnswer
  <1>7. CASE AnswerVersion \/ Refuse
    BY <1>7 DEF AnswerVersion, Refuse, Reply
  <1>8. CASE RequestLost
    BY <1>8 DEF RequestLost
  <1>9. CASE LostWrite \/ FailedWrite
    BY <1>9 DEF LostWrite, FailedWrite, WriteFails, CountAttempt
  <1>10. CASE Timeout
    BY <1>10 DEF Timeout, TimedOut, CountAttempt
  <1>11. CASE FailedEot
    BY <1>11 DEF FailedEot
  <1> QED
    BY <1>1, <1>2, <1>4, <1>5, <1>6, <1>7, <1>8, <1>9, <1>10, <1>11

----------------------------------------------------------------------------
\* The sender's writes

\* A write puts its message at the end of the queue, or it is lost.
LEMMA Delivered ==
    ASSUME inQ \in Seq(Msg), NEW m \in Msg, Deliver(m), UNCHANGED updQ
    PROVE  /\ inQ' \in Seq(Msg)
           /\ Pending' \subseteq Pending \union {m}
           /\ inQ' = inQ \/ (inQ' = Append(inQ, m) /\ run = "boot")
  <1>1. CASE UNCHANGED inQ
    BY <1>1 DEF Pending
  <1>2. CASE run = "boot" /\ inQ' = Append(inQ, m)
    BY <1>2 DEF Pending
  <1> QED
    BY <1>1, <1>2 DEF Deliver

\* A block that is written is not older than those on their way.
LEMMA DeliveredInOrder ==
    ASSUME inQ \in Seq(Msg), NEW m \in Msg, Deliver(m), UNCHANGED updQ, InOrder,
           Sound(m) => m.data \in Int /\ \A p \in Pending : Sound(p) => p.data <= m.data
    PROVE  InOrder'
  <1>1. CASE inQ' = inQ
    BY <1>1 DEF InOrder, Sound
  <1>2. CASE inQ' = Append(inQ, m)
    <2> SUFFICES ASSUME NEW j \in DOMAIN inQ', Sound(inQ'[j])
                 PROVE  /\ \A i \in 1..j : Sound(inQ'[i]) => inQ'[i].data <= inQ'[j].data
                        /\ \A i \in DOMAIN updQ : Sound(updQ[i]) => updQ[i].data <= inQ'[j].data
      BY DEF InOrder, Sound
    <2>1. CASE j \in DOMAIN inQ
      BY <1>2, <2>1 DEF InOrder
    <2>2. CASE j = Len(inQ) + 1
      <3>1. inQ'[j] = m
        BY <1>2, <2>2
      <3>2. \A i \in 1..Len(inQ) : inQ'[i] = inQ[i] /\ inQ[i] \in Pending
        BY <1>2 DEF Pending
      <3>3. \A i \in DOMAIN updQ : updQ[i] \in Pending
        BY DEF Pending
      <3> QED
        BY <2>2, <3>1, <3>2, <3>3
    <2> QED
      BY <1>2, <2>1, <2>2
  <1> QED
    BY <1>1, <1>2, Delivered

\* Messages that are sent and no newer than the block at hand keep the invariant.
LEMMA DeliverKeeps ==
    ASSUME Following, NEW m \in Msg, Deliver(m), UNCHANGED <<bootVars, k, eotQ, updQ, resets, surplus>>,
           snd' \in Phases, tries' \in Nat, asked' \in Requests, fwdQ' \in Answers,
           snd' = snd \/ (snd = "write" /\ snd' = "wait"),
           Sent(m), m.head # "EOT", Sound(m) => m.data = k + 1 /\ snd = "write"
    PROVE  Following'
  <1> USE DEF Asking
  <1>1. BootInv'
    BY BootInvUnchanged DEF Following, Types
  <1>2. /\ inQ' \in Seq(Msg)
        /\ Pending' \subseteq Pending \union {m}
        /\ inQ' = inQ \/ (inQ' = Append(inQ, m) /\ run = "boot")
    BY Delivered DEF Following, Types
  <1>3. Types'
    BY <1>1, <1>2 DEF Following, Types
  <1>4. /\ UNCHANGED <<ram, job, flash, key, run, line>>
        /\ snd' = "done" <=> snd = "done"
    BY DEF bootVars
  <1>5. AllSent'
    BY <1>2, <1>4 DEF Following, AllSent, Sent, Sound
  <1>6. Untouched' = Untouched /\ Complete' = Complete
    BY <1>4 DEF Untouched, Complete
  <1>7. NoneSound /\ ~Sound(m) => NoneSound'
    BY <1>2 DEF NoneSound, Sound
  <1>8. Keyed'
    BY <1>4, <1>6, <1>7 DEF Following, Keyed
  <1>9. ASSUME Undisturbed PROVE InStep'
    <2>1. CASE run = "app" /\ snd # "done" /\ NotBooted
      <3>1. Pending' = Pending
        BY <1>2, <2>1 DEF Pending
      <3> QED
        BY <1>4, <1>6, <2>1, <3>1 DEF InStep, NotBooted
    <2>2. CASE snd = "done" /\ (run = "app" \/ ~Begun) /\ Over
      <3>1. ~Sound(m)
        BY <2>2
      <3> QED
        BY <1>2, <1>4, <1>6, <2>2, <3>1 DEF InStep, Over, Begun, Sound
    <2>3. CASE run = "boot" /\ key /\ (snd = "done" => Begun) /\ Numbers /\ InOrder /\ Area
      <3>1. Begun' = Begun /\ Taken' = Taken
        BY <1>4 DEF Begun, Taken
      <3>2. k \in Nat /\ (Sound(m) => m.data \in Int)
        BY DEF Following, Types
      <3>3. Sound(m) => \A p \in Pending : Sound(p) => p.data <= m.data
        BY <2>3 DEF Numbers
      <3>4. InOrder'
        BY <2>3, <3>2, <3>3, DeliveredInOrder DEF Following, Types
      <3>5. Sound(m) => m.data \in {Taken, Taken + 1} /\ m.data <= k + 1
        BY <2>3, <3>2 DEF Numbers
      <3>6. Numbers'
        BY <1>2, <1>4, <1>7, <2>3, <3>1, <3>5 DEF Numbers, Sound
      <3>7. Area'
        BY <1>4, <1>6, <2>3, <3>1 DEF Area
      <3> QED
        BY <1>4, <2>3, <3>1, <3>4, <3>6, <3>7 DEF InStep
    <2> QED
      BY <1>9, <2>1, <2>2, <2>3 DEF Following, InStep
  <1> QED
    BY <1>3, <1>5, <1>8, <1>9 DEF Following, Undisturbed

\* The sender's packet is a message of the image, with the number of its block.
LEMMA PacketSent ==
    ASSUME Types, snd = "write", NEW sum \in {"sum", "bad"}
    PROVE  /\ Packet(sum) \in Msg /\ Sent(Packet(sum)) /\ Packet(sum).head # "EOT"
           /\ Sound(Packet(sum)) => Packet(sum).data = k + 1
  <1>1. k \in Nat /\ k < N /\ N \in Nat /\ PnMod \in Nat /\ PnMod > 1
    BY FirmwareConstants, BootConstants DEF Types
  <1>2. (k + 1) % PnMod \in 0..(PnMod - 1)
    BY <1>1, NextMod
  <1>3. HostChannel \in Channels /\ k + 1 \in Data /\ 0 \in Data
    BY <1>1, BootConstants, FirmwareConstants
  <1> QED
    BY <1>1, <1>2, <1>3 DEF Packet, Image, Msg, Checks, Sent, Sound

\* Writing a block.
LEMMA WriteKeeps ==
    ASSUME Following, NEW sum \in {"sum", "bad"}, Write(sum)
    PROVE  Following'
  <1>1. Types /\ snd = "write"
    BY DEF Following, Write
  <1>2. /\ Packet(sum) \in Msg /\ Sent(Packet(sum)) /\ Packet(sum).head # "EOT"
        /\ Sound(Packet(sum)) => Packet(sum).data = k + 1
    BY <1>1, PacketSent
  <1>3. /\ Deliver(Packet(sum)) /\ snd' = "wait"
        /\ UNCHANGED <<bootVars, k, tries, asked, fwdQ, eotQ, updQ, resets, surplus>>
    BY DEF Write, askVars
  <1> QED
    BY <1>1, <1>2, <1>3, DeliverKeeps DEF Types, Phases

\* The EOT and what a request looks like to the bootloader are messages.
LEMMA EotTyped ==
    /\ Eot \in Msg /\ [Eot EXCEPT !.head = "other"] \in Msg
    /\ Eot.head = "EOT" /\ Eot.sum = "sum" /\ ~Sound(Eot)
    /\ [Eot EXCEPT !.head = "other"].head = "other"
    /\ Sent([Eot EXCEPT !.head = "other"]) /\ ~Sound([Eot EXCEPT !.head = "other"])
  <1>1. 0 \in 0..(PnMod - 1) /\ 1 \in Data
    BY BootConstants, FirmwareConstants
  <1> QED
    BY <1>1, BootConstants DEF Eot, Image, Msg, Checks, Sent, Sound

\* A request that reaches the bootloader.
LEMMA RequestInBootKeeps ==
    ASSUME Following, RequestInBoot
    PROVE  Following'
  <1>1. Types
    BY DEF Following
  <1>2. /\ Deliver([Eot EXCEPT !.head = "other"]) /\ asked' = None
        /\ UNCHANGED <<bootVars, k, snd, tries, fwdQ, eotQ, updQ, resets, surplus>>
    BY DEF RequestInBoot, sndVars
  <1> QED
    BY <1>1, <1>2, EotTyped, DeliverKeeps DEF Types, Requests

----------------------------------------------------------------------------
\* The forwarding tasks: what was on its way in one queue is in another, or gone.

\* A message that moves to the next queue in its order, or is lost, keeps the invariant.
LEMMA MovedKeeps ==
    ASSUME Following, UNCHANGED <<bootVars, sndVars, askVars, resets, surplus>>,
           inQ' \in Seq(Msg), updQ' = <<>> \/ \E m \in Msg : updQ' = <<m>>,
           \A m \in Pending' : m \in Pending \/ (m = Eot /\ eotQ),
           eotQ' \in BOOLEAN, eotQ' => eotQ, InOrder => InOrder'
    PROVE  Following'
  <1> USE DEF Asking
  <1>1. BootInv'
    BY BootInvUnchanged DEF Following, Types
  <1>2. Types'
    BY <1>1 DEF Following, Types, sndVars, askVars
  <1>3. /\ UNCHANGED <<ram, job, flash, key, run, line, snd, k, resets, surplus>>
    BY DEF bootVars, sndVars
  <1>4. AllSent'
    BY <1>3, EotTyped DEF Following, AllSent, Sent, Sound
  <1>5. Untouched' = Untouched /\ Complete' = Complete
    BY <1>3 DEF Untouched, Complete
  <1>6. NoneSound => NoneSound'
    BY EotTyped DEF NoneSound, Sound
  <1>7. Keyed'
    BY <1>3, <1>5, <1>6 DEF Following, Keyed
  <1>8. ASSUME Undisturbed PROVE InStep'
    <2>1. CASE run = "app" /\ snd # "done" /\ NotBooted
      <3>1. ~eotQ
        BY <2>1 DEF Following, AllSent
      <3>2. Pending' = {}
        BY <2>1, <3>1 DEF NotBooted
      <3> QED
        BY <1>3, <1>5, <2>1, <3>2 DEF InStep, NotBooted
    <2>2. CASE snd = "done" /\ (run = "app" \/ ~Begun) /\ Over
      BY <1>3, <1>5, <2>2 DEF InStep, Over, Begun, Sound
    <2>3. CASE run = "boot" /\ key /\ (snd = "done" => Begun) /\ Numbers /\ InOrder /\ Area
      <3>1. Begun' = Begun /\ Taken' = Taken
        BY <1>3 DEF Begun, Taken
      <3>2. \A m \in Pending' : Sound(m) => m \in Pending
        BY EotTyped
      <3>3. Numbers'
        BY <1>3, <1>6, <2>3, <3>1, <3>2 DEF Numbers, Sound
      <3>4. Area'
        BY <1>3, <1>5, <2>3, <3>1 DEF Area
      <3> QED
        BY <1>3, <2>3, <3>1, <3>3, <3>4 DEF InStep
    <2> QED
      BY <1>8, <2>1, <2>2, <2>3 DEF Following, InStep
  <1> QED
    BY <1>2, <1>4, <1>7, <1>8, <1>3 DEF Following, Undisturbed

\* What is left of the queue when its head is taken.
LEMMA TailPending ==
    ASSUME inQ \in Seq(Msg), inQ # <<>>
    PROVE  /\ Head(inQ) \in Msg /\ inQ[1] = Head(inQ)
           /\ Tail(inQ) \in Seq(Msg)
           /\ \A i \in DOMAIN Tail(inQ) : i + 1 \in DOMAIN inQ /\ Tail(inQ)[i] = inQ[i + 1]
           /\ 1 \in DOMAIN inQ
  <1>1. Len(inQ) \in Nat /\ Len(inQ) > 0
    OBVIOUS
  <1>2. \A i \in 1..(Len(inQ) - 1) : Tail(inQ)[i] = inQ[i + 1]
    OBVIOUS
  <1> QED
    BY <1>1, <1>2

\* The steps of the forwarding tasks.
LEMMA ForwardSteps ==
    ASSUME Following, ForwardBlock \/ ForwardEot \/ GiveUpBlock \/ GiveUpEot
    PROVE  Following'
  <1>1. inQ \in Seq(Msg) /\ (updQ = <<>> \/ \E m \in Msg : updQ = <<m>>)
    BY DEF Following, Types
  <1>2. CASE ForwardBlock
    <2>1. /\ inQ # <<>> /\ updQ = <<>> /\ updQ' = <<Head(inQ)>> /\ inQ' = Tail(inQ)
          /\ UNCHANGED <<bootVars, sndVars, askVars, eotQ, resets, surplus>>
      BY <1>2 DEF ForwardBlock
    <2>2. Pending' \subseteq Pending
      BY <1>1, <2>1, TailPending DEF Pending
    <2>3. ASSUME InOrder PROVE InOrder'
      <3> SUFFICES ASSUME NEW j \in DOMAIN inQ', Sound(inQ'[j])
                   PROVE  /\ \A i \in 1..j : Sound(inQ'[i]) => inQ'[i].data <= inQ'[j].data
                          /\ \A i \in DOMAIN updQ' : Sound(updQ'[i]) => updQ'[i].data <= inQ'[j].data
        BY DEF InOrder, Sound
      <3>1. j \in Nat /\ j + 1 \in DOMAIN inQ /\ inQ'[j] = inQ[j + 1]
        BY <1>1, <2>1, TailPending
      <3>2. \A i \in 1..j : i + 1 \in 1..(j + 1) /\ inQ'[i] = inQ[i + 1]
        BY <1>1, <2>1, <3>1, TailPending
      <3>3. 1 \in 1..(j + 1) /\ inQ[1] = Head(inQ)
        BY <1>1, <2>1, <3>1, TailPending
      <3> QED
        BY <2>1, <2>3, <3>1, <3>2, <3>3 DEF InOrder
    <2> QED
      BY <1>1, <2>1, <2>2, <2>3, TailPending, MovedKeeps DEF Following, Types
  <1>3. CASE ForwardEot
    <2>1. /\ updQ = <<>> /\ updQ' = <<Eot>> /\ ~eotQ' /\ eotQ' \in BOOLEAN /\ eotQ /\ inQ' = inQ
          /\ UNCHANGED <<bootVars, sndVars, askVars, resets, surplus>>
      BY <1>3 DEF ForwardEot
    <2>2. \A m \in Pending' : m \in Pending \/ (m = Eot /\ eotQ)
      BY <2>1 DEF Pending
    <2>3. InOrder => InOrder'
      BY <2>1, EotTyped DEF InOrder, Sound
    <2> QED
      BY <1>1, <2>1, <2>2, <2>3, EotTyped, MovedKeeps
  <1>4. CASE GiveUpBlock
    <2>1. /\ inQ # <<>> /\ inQ' = Tail(inQ) /\ updQ' = updQ /\ eotQ' = eotQ
          /\ UNCHANGED <<bootVars, sndVars, askVars, resets, surplus>>
      BY <1>4 DEF GiveUpBlock
    <2>2. Pending' \subseteq Pending
      BY <1>1, <2>1, TailPending DEF Pending
    <2>3. ASSUME InOrder PROVE InOrder'
      <3> SUFFICES ASSUME NEW j \in DOMAIN inQ', Sound(inQ'[j])
                   PROVE  /\ \A i \in 1..j : Sound(inQ'[i]) => inQ'[i].data <= inQ'[j].data
                          /\ \A i \in DOMAIN updQ : Sound(updQ[i]) => updQ[i].data <= inQ'[j].data
        BY <2>1 DEF InOrder, Sound
      <3>1. j \in Nat /\ j + 1 \in DOMAIN inQ /\ inQ'[j] = inQ[j + 1]
        BY <1>1, <2>1, TailPending
      <3>2. \A i \in 1..j : i + 1 \in 1..(j + 1) /\ inQ'[i] = inQ[i + 1]
        BY <1>1, <2>1, <3>1, TailPending
      <3> QED
        BY <2>3, <3>1, <3>2 DEF InOrder
    <2> QED
      BY <1>1, <2>1, <2>2, <2>3, TailPending, MovedKeeps DEF Following, Types
  <1>5. CASE GiveUpEot
    <2>1. /\ inQ' = inQ /\ updQ' = updQ /\ ~eotQ' /\ eotQ' \in BOOLEAN
          /\ UNCHANGED <<bootVars, sndVars, askVars, resets, surplus>>
      BY <1>5 DEF GiveUpEot
    <2>2. Pending' = Pending /\ (InOrder => InOrder')
      BY <2>1 DEF Pending, InOrder, Sound
    <2> QED
      BY <1>1, <2>1, <2>2, MovedKeeps
  <1> QED
    BY <1>2, <1>3, <1>4, <1>5

----------------------------------------------------------------------------
\* An ACK, the EOT, the consent of the device

\* The EOT is written after the last block has been taken.
LEMMA WriteEotKeeps ==
    ASSUME Following, WriteEot
    PROVE  Following'
  <1> USE DEF Asking
  <1>1. /\ snd = "eot" /\ snd' = "done" /\ (eotQ' => run = "boot") /\ eotQ' \in BOOLEAN
        /\ UNCHANGED <<ram, job, flash, key, run, line, k, tries, asked, fwdQ, inQ, updQ, resets, surplus>>
    BY DEF WriteEot, bootVars, askVars
  <1>2. BootInv'
    BY BootInvUnchanged DEF Following, Types, WriteEot
  <1>3. Types'
    BY <1>1, <1>2 DEF Following, Types, Phases
  <1>4. Pending' = Pending
    BY <1>1 DEF Pending
  <1>5. AllSent'
    BY <1>1, <1>4 DEF Following, AllSent, Sent, Sound
  <1>6. Untouched' = Untouched
    BY <1>1 DEF Untouched
  <1>7. Keyed'
    BY <1>1, <1>6 DEF Following, Keyed
  <1>8. ASSUME Undisturbed PROVE InStep'
    <2>1. run = "boot" /\ key /\ Numbers /\ InOrder /\ Area
      BY <1>1, <1>8 DEF Following, InStep, NotBooted
    <2>2. k = N /\ N \in Nat /\ N > 0
      BY <1>1, FirmwareConstants DEF Following, Types
    <2>3. Taken = N /\ Taken' = N
      BY <1>1, <2>1, <2>2 DEF Numbers, Taken
    <2>4. Begun /\ Begun' = Begun
      BY <1>1, <2>1, <2>2, <2>3 DEF Area, Begun
    <2>5. Numbers'
      BY <1>1, <1>4, <2>1, <2>3 DEF Numbers, Sound
    <2>6. InOrder'
      BY <1>1, <2>1 DEF InOrder, Sound
    <2>7. Area'
      BY <1>1, <2>1, <2>3, <2>4 DEF Area
    <2> QED
      BY <1>1, <2>1, <2>4, <2>5, <2>6, <2>7 DEF InStep
  <1> QED
    BY <1>1, <1>3, <1>5, <1>7, <1>8 DEF Following, Undisturbed

\* An ACK that the sender takes is the ACK of the block it is at.
LEMMA TakeByteKeeps ==
    ASSUME Following, TakeByte
    PROVE  Following'
  <1> USE DEF Asking
  <1>1. /\ snd = "wait" /\ line # <<>> /\ line' = Tail(line)
        /\ UNCHANGED <<ram, job, flash, key, run, asked, fwdQ, inQ, eotQ, updQ, resets, surplus>>
    BY DEF TakeByte, askVars, inVars
  <1>2. line \in Seq(Replies) /\ k \in Nat /\ k < N /\ N \in Nat
    BY <1>1, FirmwareConstants DEF Following, Types, BootInv, TypeOK
  <1>3. /\ line' \in Seq(Replies) /\ 1 \in DOMAIN line /\ line[1] = Head(line)
        /\ \A i \in DOMAIN line' : i \in Nat /\ i + 1 \in DOMAIN line /\ line'[i] = line[i + 1]
    <2>1. Len(line) \in Nat /\ Len(line) > 0
      BY <1>1, <1>2
    <2>2. \A i \in 1..(Len(line) - 1) : Tail(line)[i] = line[i + 1]
      BY <1>1, <1>2
    <2> QED
      BY <1>1, <1>2, <2>1, <2>2
  <1>4. \/ Head(line) = "ACK" /\ k' = k + 1 /\ tries' = 0
           /\ snd' = IF k + 1 = N THEN "eot" ELSE "write"
        \/ Head(line) # "ACK" /\ k' = k /\ tries' = tries /\ snd' = snd
    BY DEF TakeByte, sndVars
  <1>5. BootInv'
    BY <1>1, <1>3 DEF Following, Types, BootInv, TypeOK, ConfirmedIsUnderWay
  <1>6. Types'
    BY <1>1, <1>2, <1>4, <1>5 DEF Following, Types, Phases
  <1>7. Pending' = Pending
    BY <1>1 DEF Pending
  <1>8. snd' # "done" /\ snd' \notin Asking
    BY <1>1, <1>4
  <1>9. AllSent'
    BY <1>1, <1>7, <1>8 DEF Following, AllSent, Sent, Sound
  <1>10. Untouched' = Untouched
    BY <1>1 DEF Untouched
  <1>11. Keyed'
    BY <1>1, <1>8, <1>10 DEF Following, Keyed
  <1>12. ASSUME Undisturbed PROVE InStep'
    <2>1. CASE run = "app" /\ snd # "done" /\ NotBooted
      BY <1>1, <1>3, <1>4, <1>7, <1>8, <1>10, <2>1 DEF InStep, NotBooted
    <2>2. CASE run = "boot" /\ key /\ (snd = "done" => Begun) /\ Numbers /\ InOrder /\ Area
      <3>1. Begun' = Begun /\ Taken' = Taken
        BY <1>1, <1>8 DEF Begun, Taken
      <3>2. Taken \in {k, k + 1} /\ Taken <= N
        BY <2>2 DEF Numbers
      <3>3. Head(line) = "ACK" => Taken = k + 1 /\ \A i \in DOMAIN line' : line'[i] # "ACK"
        BY <1>1, <1>3, <2>2 DEF Numbers
      <3>4. Taken \in {k', k' + 1}
        BY <1>2, <1>4, <3>2, <3>3
      <3>5. \A m \in Pending : Sound(m) => m.data \in {Taken, Taken + 1} /\ m.data <= k' + 1
        BY <1>2, <1>4, <2>2, <3>2 DEF Numbers
      <3>6. \A i \in DOMAIN line' : line'[i] = "ACK" =>
               Taken = k' + 1 /\ \A j \in DOMAIN line' : line'[j] = "ACK" => j = i
        <4> SUFFICES ASSUME NEW i \in DOMAIN line', line'[i] = "ACK"
                     PROVE  Taken = k' + 1 /\ \A j \in DOMAIN line' : line'[j] = "ACK" => j = i
          OBVIOUS
        <4>1. k' = k /\ i + 1 \in DOMAIN line /\ line[i + 1] = "ACK"
          BY <1>3, <1>4, <3>3
        <4>2. Taken = k + 1 /\ \A j \in DOMAIN line : line[j] = "ACK" => j = i + 1
          BY <1>1, <2>2, <4>1 DEF Numbers
        <4> QED
          BY <1>3, <4>1, <4>2
      <3>7. Numbers'
        BY <1>1, <1>7, <1>8, <2>2, <3>1, <3>4, <3>5, <3>6 DEF Numbers, Sound
      <3>8. InOrder'
        BY <1>1, <2>2 DEF InOrder, Sound
      <3>9. Area'
        BY <1>1, <1>10, <2>2, <3>1 DEF Area
      <3> QED
        BY <1>1, <1>8, <2>2, <3>1, <3>7, <3>8, <3>9 DEF InStep
    <2> QED
      BY <1>1, <1>12, <2>1, <2>2 DEF Following, InStep
  <1> QED
    BY <1>1, <1>6, <1>9, <1>11, <1>12 DEF Following, Undisturbed

\* The device agrees: the key is set while the old program is whole.
LEMMA AgreeKeeps ==
    ASSUME Following, Agree
    PROVE  Following'
  <1> USE DEF Asking
  <1>1. /\ run = "app" /\ key' = TRUE /\ asked' = None /\ fwdQ' \in {"agreed", fwdQ}
        /\ UNCHANGED <<ram, job, flash, run, line, snd, k, tries, inQ, eotQ, updQ, resets, surplus>>
    BY DEF Agree, Reply, sndVars, inVars
  <1>2. BootInv'
    BY <1>1 DEF Following, Types, BootInv, TypeOK, ConfirmedIsUnderWay
  <1>3. Types'
    BY <1>1, <1>2 DEF Following, Types, Requests, Answers
  <1>4. Pending' = Pending /\ Untouched' = Untouched /\ Complete' = Complete
    BY <1>1 DEF Pending, Untouched, Complete
  <1>5. AllSent'
    BY <1>1, <1>4 DEF Following, AllSent, Sent, Sound
  <1>6. Keyed'
    BY <1>1 DEF Following, Keyed
  <1>7. ASSUME Undisturbed PROVE InStep'
    BY <1>1, <1>4, <1>7 DEF Following, InStep, NotBooted, Over, Sound
  <1> QED
    BY <1>1, <1>3, <1>5, <1>6, <1>7 DEF Following, Undisturbed

----------------------------------------------------------------------------
\* The device restarts or is reset: its queues are empty.

\* Nothing is under way when the queues are lost.
LEMMA EmptyPending ==
    ASSUME inQ' = <<>>, updQ' = <<>>
    PROVE  Pending' = {}
  BY DEF Pending

\* The bootloader's RAM after a restart.
LEMMA RestartedTyped ==
    ASSUME Types, Keyed, Restarted
    PROVE  BootInv' /\ job = NoJob /\ ram' = BootRam(key)
  <1>1. /\ run = "app" /\ run' = "boot" /\ ram' = BootRam(key)
        /\ UNCHANGED <<job, flash, key, line>>
    BY DEF Restarted
  <1>2. key \in BOOLEAN /\ job = NoJob
    BY <1>1 DEF Types, BootInv, TypeOK, Keyed
  <1>3. ram' \in Ram /\ ~ram'.confirmed
    BY <1>1, <1>2, BootRamTyped
  <1> QED
    BY <1>1, <1>2, <1>3 DEF Types, BootInv, TypeOK, ConfirmedIsUnderWay

\* The state and the numbers after a restart.
LEMMA BootRamNumbers ==
    ASSUME NEW b \in BOOLEAN
    PROVE  /\ BootRam(b).sm = IF b THEN "START" ELSE "INIT"
           /\ BootRam(b).lastPn = 0 /\ BootRam(b).pnPage = 0 /\ BootRam(b).mon = "first"
  BY DEF BootRam

\* After a restart nothing is on its way, and the state is START only with the key.
LEMMA FreshKeeps ==
    ASSUME Types, AllSent, Keyed, BootInv', inQ' = <<>>, updQ' = <<>>, eotQ' = FALSE,
           key' = key, ram' = BootRam(key), run' = "boot", job' = NoJob,
           ~key => flash' = flash, snd' = snd \/ (snd = "write" /\ snd' = "failed"),
           tries' \in Nat, UNCHANGED <<k, askVars>>, resets' \in Nat
    PROVE  Types' /\ AllSent' /\ Keyed'
  <1>0. key \in BOOLEAN
    BY DEF Types, BootInv, TypeOK
  <1>1. Types'
    <2>1. <<>> \in Seq(Msg)
      OBVIOUS
    <2> QED
      BY <2>1 DEF Types, Phases, Asking, askVars
  <1>2. AllSent'
    BY EmptyPending DEF AllSent
  <1>3. NoneSound'
    BY EmptyPending DEF NoneSound
  <1>4. ~key => (Untouched => Untouched')
    BY DEF Untouched
  <1>5. /\ ram'.sm = IF key THEN "START" ELSE "INIT"
        /\ ram'.mon = "first"
    BY <1>0, BootRamNumbers
  <1>6. Keyed'
    BY <1>0, <1>3, <1>4, <1>5 DEF Keyed
  <1> QED
    BY <1>1, <1>2, <1>6

\* The restart that the device was asked for.
LEMMA DeviceRestartsKeeps ==
    ASSUME Following, DeviceRestarts
    PROVE  Following'
  <1> USE DEF Asking
  <1>1. /\ run = "app" /\ key /\ Restarted /\ inQ' = <<>> /\ eotQ' = FALSE /\ updQ' = <<>>
        /\ UNCHANGED <<askVars, snd, k, tries, resets, surplus, flash, key, line>>
        /\ ram' = BootRam(key) /\ run' = "boot"
    BY DEF DeviceRestarts, Restarted, sndVars
  <1>2. BootInv' /\ job = NoJob /\ job' = NoJob
    BY <1>1, RestartedTyped DEF Following, Restarted
  <1>3. Types' /\ AllSent' /\ Keyed'
    BY <1>1, <1>2, FreshKeeps DEF Following, Types
  <1>4. /\ ram'.sm = "START" /\ ram'.lastPn = 0 /\ ram'.pnPage = 0
    BY <1>1, BootRamNumbers
  <1>5. Pending' = {} /\ ~Begun'
    BY <1>1, <1>2, <1>4, EmptyPending DEF Begun
  <1>6. ASSUME Undisturbed PROVE InStep'
    <2>1. CASE snd # "done" /\ NotBooted
      <3>1. Taken' = 0
        <4>1. Taken' = ram'.pnPage + ram'.lastPn
          BY <1>1, <2>1 DEF Taken
        <4> QED
          BY <1>4, <4>1
      <3>2. Untouched' /\ k' = 0 /\ \A i \in DOMAIN line' : line'[i] # "ACK"
        BY <1>1, <2>1 DEF NotBooted, Untouched
      <3>3. 0 % PnMod = 0 /\ 0 <= N
        BY BootConstants, FirmwareConstants
      <3>4. Numbers'
        BY <1>4, <1>5, <3>1, <3>2, <3>3 DEF Numbers, NoneSound
      <3>5. InOrder'
        BY <1>1 DEF InOrder
      <3>6. Area'
        BY <1>5, <3>1, <3>2 DEF Area
      <3> QED
        BY <1>1, <2>1, <3>4, <3>5, <3>6 DEF InStep
    <2>2. CASE snd = "done" /\ Over
      <3>1. Complete'
        BY <1>1, <2>2 DEF Over, Complete
      <3> QED
        BY <1>1, <1>2, <1>5, <2>2, <3>1 DEF InStep, Over
    <2> QED
      BY <1>1, <1>6, <2>1, <2>2 DEF Following, InStep
  <1> QED
    BY <1>1, <1>3, <1>6 DEF Following, Undisturbed

\* Any other reset ends what is claimed of an undisturbed update, and keeps the rest.
LEMMA ResetKeeps ==
    ASSUME Following, Reset
    PROVE  Following'
  <1>1. /\ resets' = resets + 1 /\ inQ' = <<>> /\ eotQ' = FALSE /\ updQ' = <<>>
        /\ UNCHANGED <<k, askVars>> /\ snd' = snd /\ tries' = tries
    BY DEF Reset, sndVars
  <1>2. Types /\ AllSent /\ Keyed /\ TypeOK /\ ConfirmedIsUnderWay 
        /\ resets' \in Nat /\ tries' \in Nat /\ ~Undisturbed'
    BY <1>1 DEF Following, Types, BootInv, Undisturbed
  <1>3. CASE Restarted
    <2>1. BootInv' /\ job' = NoJob /\ flash' = flash /\ key' = key /\ ram' = BootRam(key) /\ run' = "boot"
      BY <1>2, <1>3, RestartedTyped DEF Restarted
    <2>2. Types' /\ AllSent' /\ Keyed'
      <3>1. ~key => flash' = flash
        BY <2>1
      <3> QED
        BY <1>1, <1>2, <2>1, <3>1, FreshKeeps
    <2> QED
      BY <1>2, <2>2 DEF Following
  <1>4. CASE Crash
    <2>1. /\ run = "boot" /\ run' = "boot" /\ key' = key /\ ram' = BootRam(key) /\ job' = NoJob
          /\ flash' = flash \/ (job # NoJob /\ flash[job.block] = Erased)
      BY <1>4 DEF Crash, Reboot
    <2>2. BootInv'
      BY <1>2, <1>4, EveryStep DEF BootNext, Step, BootInv
    <2>3. ASSUME ~key PROVE flash' = flash
      <3>1. job # NoJob => Untouched /\ job.block \in 0..(Blocks - 1)
        BY <1>2, <2>1, <2>3 DEF Keyed, TypeOK, Jobs
      <3> QED
        BY <2>1, <3>1, BootConstants DEF Untouched
    <2> QED
      <3>1. Types' /\ AllSent' /\ Keyed'
        BY <1>1, <1>2, <2>1, <2>2, <2>3, FreshKeeps
      <3> QED
        BY <1>2, <3>1 DEF Following
  <1>5. CASE updQ # <<>> /\ CrashInErase(Head(updQ))
    <2>1. /\ run = "boot" /\ run' = "boot" /\ key' = key /\ ram' = BootRam(key)
          /\ job = NoJob /\ job' = NoJob /\ ram.sm = "START" /\ line' = line
      BY <1>5 DEF CrashInErase, Handles, Reboot, LastByte, Emit
    <2>2. key
      BY <1>2, <2>1 DEF Keyed
    <2>3. ram' \in Ram /\ ~ram'.confirmed
      BY <2>1, <2>2, BootRamTyped
    <2>4. flash' \in [0..(Blocks - 1) -> Contents]
      BY <1>2, <1>5 DEF CrashInErase, TypeOK, Contents
    <2>5. BootInv'
      BY <1>2, <2>1, <2>3, <2>4 DEF BootInv, TypeOK, ConfirmedIsUnderWay
    <2> QED
      <3>1. Types' /\ AllSent' /\ Keyed'
        BY <1>1, <1>2, <2>1, <2>2, <2>5, FreshKeeps
      <3> QED
        BY <1>2, <3>1 DEF Following
  <1> QED
    BY <1>3, <1>4, <1>5 DEF Reset

\* So does the one that a block written to an application comes to.
LEMMA OverrunKeeps ==
    ASSUME Following, Overrun
    PROVE  Following'
  <1>1. /\ resets' = resets + 1 /\ inQ' = <<>> /\ eotQ' = FALSE /\ updQ' = <<>>
        /\ UNCHANGED <<k, askVars>> /\ snd = "write" /\ Restarted
    BY DEF Overrun
  <1>2. Types /\ AllSent /\ Keyed /\ TypeOK /\ ConfirmedIsUnderWay
        /\ resets' \in Nat /\ ~Undisturbed'
    BY <1>1 DEF Following, Types, BootInv, Undisturbed
  <1>3. tries' \in Nat /\ (snd' = snd \/ snd' = "failed")
    BY <1>2 DEF Overrun, WriteFails, Types
  <1>4. BootInv' /\ job' = NoJob /\ flash' = flash /\ key' = key /\ ram' = BootRam(key) /\ run' = "boot"
    BY <1>1, <1>2, RestartedTyped DEF Restarted
  <1>5. Types' /\ AllSent' /\ Keyed'
    <2>1. ~key => flash' = flash
      BY <1>4
    <2> QED
      BY <1>1, <1>2, <1>3, <1>4, <2>1, FreshKeeps
  <1> QED
    BY <1>2, <1>5 DEF Following

----------------------------------------------------------------------------
\* The bootloader

\* A line that is heard without a new ACK has the ACKs it had.
LEMMA NoAckHeard ==
    ASSUME line \in Seq(Replies), HeardAck(FALSE)
    PROVE  \A i \in DOMAIN line' : line'[i] = "ACK" => i \in DOMAIN line /\ line[i] = "ACK"
  <1>1. CASE line' = line
    BY <1>1
  <1>2. ASSUME NEW x \in Replies, line' = Append(line, x), x # "ACK"
        PROVE  \A i \in DOMAIN line' : line'[i] = "ACK" => i \in DOMAIN line /\ line[i] = "ACK"
    BY <1>2
  <1> QED
    BY <1>1, <1>2 DEF HeardAck

\* A line without an ACK has at most one after a byte.
LEMMA OneAckHeard ==
    ASSUME line \in Seq(Replies), HeardAck(TRUE), \A i \in DOMAIN line : line[i] # "ACK"
    PROVE  \A i, j \in DOMAIN line' : line'[i] = "ACK" /\ line'[j] = "ACK" => i = j
  <1>1. CASE line' = line
    BY <1>1
  <1>2. ASSUME NEW x \in Replies, line' = Append(line, x)
        PROVE  \A i, j \in DOMAIN line' : line'[i] = "ACK" /\ line'[j] = "ACK" => i = j
    BY <1>2
  <1> QED
    BY <1>1, <1>2 DEF HeardAck

\* What a step of the bootloader leaves to the sender and on its way.
Withdrawn ==
    /\ UNCHANGED <<snd, k, tries, asked, fwdQ, inQ, eotQ, resets>>
    /\ updQ' = updQ \/ updQ' = <<>>

\* Taking the message from updateDatMsg_Queue keeps the others in order.
LEMMA WithdrawnKeeps ==
    ASSUME Types, AllSent, BootInv', Withdrawn
    PROVE  /\ Types' /\ AllSent' /\ Pending' \subseteq Pending
           /\ NoneSound => NoneSound'
           /\ InOrder => InOrder'
  <1>1. Pending' \subseteq Pending
    BY DEF Withdrawn, Pending
  <1>2. Types'
    BY DEF Types, Withdrawn
  <1>3. AllSent'
    BY <1>1 DEF AllSent, Withdrawn, Sent, Sound
  <1>4. NoneSound => NoneSound'
    BY <1>1 DEF NoneSound, Sound
  <1>5. InOrder => InOrder'
    BY DEF InOrder, Withdrawn, Sound
  <1> QED
    BY <1>1, <1>2, <1>3, <1>4, <1>5

\* A handler and the pass after it keep state and key in agreement.
LEMMA WentKeyed ==
    ASSUME Keyed, key \in BOOLEAN, run = "boot", NEW sm, NEW pn, NEW page, Went(sm, pn, page),
           sm \in {"START", "INIT"} => sm = ram.sm, sm # "CANCEL",
           sm = "FINISHED" => snd = "done",
           job' = NoJob, snd' = snd, NoneSound => NoneSound', ~key => flash' = flash
    PROVE  Keyed'
  <1>0. ~key => (Untouched => Untouched')
    BY DEF Untouched
  <1>1. CASE run' = "app" /\ key' = FALSE /\ ram' = ram /\ (ram.mon = "finish" \/ sm = "INIT")
    <2>1. Untouched' \/ snd = "done"
      BY <1>0, <1>1 DEF Keyed
    <2>2. ram.sm # "START"
      BY <1>1 DEF Keyed
    <2> QED
      BY <1>1, <2>1, <2>2 DEF Keyed
  <1>2. CASE /\ run' = run /\ key' = key
             /\ ram'.sm = sm /\ ram'.lastPn = pn /\ ram'.pnPage = page
             /\ ram'.mon = "finish" => sm = "FINISHED"
    BY <1>0, <1>2 DEF Keyed
  <1> QED
    BY <1>1, <1>2 DEF Went

Booted == run = "boot" /\ key /\ (snd = "done" => Begun) /\ Numbers /\ InOrder /\ Area

\* The device stays where it is in the image, or starts a complete one.
LEMMA WentInStep ==
    ASSUME Types, Keyed, Booted, Withdrawn, NEW sm, NEW page, Went(sm, ram.lastPn, page),
           sm = "INIT" => ram.sm = "INIT",
           sm = "START" <=> ~Begun,
           page = ram.pnPage \/ snd = "done",
           HeardAck(FALSE) \/ snd \notin Asking \union {"write", "wait"} \/ (HeardAck(TRUE) /\ MissesAck),
           job' = NoJob,
           ~Begun => flash' = flash,
           Begun => \A b \in 0..(Blocks - 1) : flash'[b] = IF b < Taken THEN Image(b) ELSE Erased,
           Pending' \subseteq Pending, NoneSound => NoneSound', InOrder'
    PROVE  InStep'
  <1> USE DEF Asking
  <1>1. /\ run = "boot" /\ key /\ Numbers /\ Area /\ (snd = "done" => Begun)
        /\ UNCHANGED <<snd, k, inQ, eotQ>>
        /\ line \in Seq(Replies) /\ N \in Nat /\ Blocks \in Nat /\ N <= Blocks /\ k \in Nat
    BY FirmwareConstants, BootConstants DEF Booted, Withdrawn, Types, BootInv, TypeOK
  <1>2. CASE run' = "app" /\ key' = FALSE /\ ram' = ram /\ (ram.mon = "finish" \/ sm = "INIT")
    <2>1. snd = "done" /\ Begun
      BY <1>1, <1>2 DEF Keyed
    <2>2. Taken = N
      BY <2>1 DEF Taken
    <2>3. \A b \in 0..(N - 1) : b \in 0..(Blocks - 1) /\ b < N
      BY <1>1
    <2>4. Complete'
      BY <2>1, <2>2, <2>3 DEF Complete, Image
    <2>5. ASSUME NEW b \in N..(Blocks - 1) PROVE flash'[b] = Erased
      <3>1. b \in 0..(Blocks - 1) /\ ~(b < N)
        BY <1>1
      <3> QED
        BY <2>1, <2>2, <3>1
    <2> QED
      BY <1>1, <1>2, <2>1, <2>4, <2>5 DEF InStep, Over
  <1>3. CASE /\ run' = run /\ key' = key
             /\ ram'.sm = sm /\ ram'.lastPn = ram.lastPn /\ ram'.pnPage = page
             /\ ram'.mon = "finish" => sm = "FINISHED"
    <2>1. Taken' = Taken
      BY <1>1, <1>3 DEF Taken
    <2>2. Begun' = Begun
      BY <1>3 DEF Begun
    <2> DEFINE OneAck ==
          snd \in Asking \union {"write", "wait"} =>
            \A i \in DOMAIN line' : line'[i] = "ACK" =>
              Taken = k + 1 /\ \A j \in DOMAIN line' : line'[j] = "ACK" => j = i
    <2>3. HeardAck(FALSE) => OneAck
      <3> SUFFICES ASSUME HeardAck(FALSE) PROVE OneAck
        OBVIOUS
      <3>1. \A i \in DOMAIN line' : line'[i] = "ACK" => i \in DOMAIN line /\ line[i] = "ACK"
        BY <1>1, NoAckHeard
      <3> QED
        BY <1>1, <3>1 DEF Numbers
    <2>7. HeardAck(TRUE) /\ MissesAck => OneAck
      BY <1>1, OneAckHeard DEF MissesAck, NoAck
    <2>4. OneAck
      BY <2>3, <2>7
    <2>5. Numbers'
      BY <1>1, <1>3, <2>1, <2>2, <2>4 DEF Numbers, Sound
    <2>6. Area'
      <3>1. CASE ~Begun
        <4>1. Taken = 0 /\ Untouched
          BY <1>1, <3>1 DEF Area
        <4>2. Untouched'
          BY <3>1, <4>1 DEF Untouched
        <4> QED
          BY <2>1, <2>2, <3>1, <4>1, <4>2 DEF Area
      <3>2. CASE Begun
        <4>1. job'.block = -1
          BY DEF NoJob
        <4>2. \A b \in 0..(Blocks - 1) :
                flash'[b] = IF b < Taken' /\ b # job'.block THEN Image(b)' ELSE Erased
          BY <1>1, <2>1, <3>2, <4>1 DEF Image
        <4> QED
          BY <2>2, <3>2, <4>2 DEF Area
      <3> QED
        BY <3>1, <3>2
    <2> QED
      BY <1>1, <1>3, <2>2, <2>5, <2>6 DEF InStep
  <1> QED
    BY <1>2, <1>3 DEF Went

\* A complete device that has not begun another update does not begin one.
LEMMA WentOver ==
    ASSUME Keyed, snd = "done", run = "boot", ~Begun, Over, Withdrawn, Pending' \subseteq Pending,
           NEW pn, NEW page, Went("START", pn, page), job' = NoJob, flash' = flash
    PROVE  InStep'
  <1>1. ram.sm = "START" /\ ram.mon # "finish"
    BY DEF Begun, Keyed
  <1>2. run' = "boot" /\ ram'.sm = "START" /\ snd' = "done" /\ eotQ' = eotQ
    BY <1>1 DEF Went, Withdrawn
  <1>3. Complete'
    BY DEF Over, Complete
  <1> QED
    BY <1>2, <1>3 DEF InStep, Begun, Over, Sound

\* The monitor's second.
LEMMA TickKeeps ==
    ASSUME Following, Tick
    PROVE  Following'
  <1>1. /\ run = "boot" /\ job = NoJob /\ job' = NoJob /\ flash' = flash
        /\ Wake(ram, None, ram) /\ MonitorTick
    BY DEF Tick, MonitorTick
  <1>2. Types /\ AllSent /\ Keyed /\ TypeOK /\ ConfirmedIsUnderWay /\ ram \in Ram
        /\ key \in BOOLEAN
    BY DEF Following, Types, BootInv, TypeOK
  <1>3. Withdrawn /\ resets' = resets
    BY DEF Tick, Withdrawn, sndVars, askVars, inVars
  <1>4. BootInv'
    BY <1>1, <1>2, EveryStep DEF BootNext, Step, BootInv
  <1>5. /\ Types' /\ AllSent' /\ Pending' \subseteq Pending
        /\ NoneSound => NoneSound'
        /\ InOrder => InOrder'
    BY <1>2, <1>3, <1>4, WithdrawnKeeps
  <1>6. ram.sm # "CANCEL" /\ snd' = snd /\ ram.sm \in States
    BY <1>2, <1>3 DEF Keyed, Withdrawn, Ram
  <1>7. /\ Passed(ram)
        /\ HeardAck(None = "ACK" \/ (ram.sm = "PROGRAMING" /\ ram.resend + 1 >= ResendTimeout))
    BY <1>1, <1>2, <1>6, WakeNumbers
  <1>8. Went(ram.sm, ram.lastPn, ram.pnPage)
    BY <1>7 DEF Passed, Went
  <1>9. ram.sm # "PROGRAMING" => HeardAck(FALSE)
    BY <1>7 DEF HeardAck, None
  <1>10. ram.sm = "FINISHED" => snd = "done"
    BY <1>2 DEF Keyed
  <1>11. Keyed'
    BY <1>1, <1>2, <1>5, <1>6, <1>8, <1>10, WentKeyed
  <1>12. ASSUME Undisturbed' PROVE InStep'
    <2>0. /\ Undisturbed
          /\ snd \in {"write", "wait"} => MissesAck \/ line' # Append(line, "ACK")
      BY <1>3, <1>12 DEF Tick, Undisturbed
    <2>1. CASE snd = "done" /\ ~Begun /\ Over
      <3>1. ram.sm = "START"
        BY <2>1 DEF Begun
      <3> QED
        BY <1>1, <1>2, <1>3, <1>5, <1>8, <2>1, <3>1, WentOver
    <2>2. CASE Booted
      <3>1. ram.sm = "START" <=> ~Begun
        BY <1>1 DEF Begun
      <3>2. HeardAck(FALSE) \/ snd \notin Asking \union {"write", "wait"} \/ (HeardAck(TRUE) /\ MissesAck)
        <4>1. CASE snd \in Asking
          <5>1. ram.sm = "START"
            BY <2>2, <3>1, <4>1 DEF Booted, Numbers
          <5> QED
            BY <1>9, <5>1
        <4>2. CASE snd \in {"write", "wait"}
          BY <1>7, <2>0, <4>2 DEF HeardAck
        <4> QED
          BY <4>1, <4>2
      <3>3. Begun => \A b \in 0..(Blocks - 1) : flash'[b] = IF b < Taken THEN Image(b) ELSE Erased
        <4>1. job.block = -1
          BY <1>1 DEF NoJob
        <4> QED
          BY <1>1, <2>2, <4>1 DEF Booted, Area
      <3>4. InOrder'
        BY <1>5, <2>2 DEF Booted
      <3> QED
        BY <1>1, <1>2, <1>3, <1>5, <1>8, <2>2, <3>1, <3>2, <3>3, <3>4, WentInStep
    <2> QED
      BY <1>1, <2>0, <2>1, <2>2 DEF Following, InStep, Booted
  <1> QED
    BY <1>5, <1>11, <1>12 DEF Following

\* Programming the block that was taken: it is in its place.
LEMMA ProgrammedKeeps ==
    ASSUME Following, Programmed
    PROVE  Following'
  <1>1. /\ run = "boot" /\ job # NoJob /\ job' = NoJob /\ Program
        /\ flash' = IF flash[job.block] = Erased
                    THEN [flash EXCEPT ![job.block] = job.data] ELSE flash
        /\ Conclude(ram, None, ram, "PROGRAMING")
    BY DEF Programmed, Program
  <1>2. Types /\ AllSent /\ Keyed /\ TypeOK /\ ConfirmedIsUnderWay /\ ram \in Ram
        /\ key \in BOOLEAN /\ job.block \in 0..(Blocks - 1) /\ flash \in [0..(Blocks - 1) -> Contents]
    BY <1>1 DEF Following, Types, BootInv, TypeOK, Jobs
  <1>3. Withdrawn /\ UNCHANGED <<resets, surplus>> /\ snd' = snd
    BY DEF Programmed, Withdrawn, sndVars, askVars, inVars
  <1>4. BootInv'
    BY <1>1, <1>2, EveryStep DEF BootNext, Step, BootInv
  <1>5. /\ Types' /\ AllSent' /\ Pending' \subseteq Pending
        /\ NoneSound => NoneSound'
        /\ InOrder => InOrder'
    BY <1>2, <1>3, <1>4, WithdrawnKeeps
  <1>6. Went("PROGRAMING", ram.lastPn, ram.pnPage) /\ HeardAck(FALSE)
    <2>1. Went("PROGRAMING", ram.lastPn, ram.pnPage) /\ HeardAck(None = "ACK")
      BY <1>1, <1>2, ConcludeWent DEF States
    <2> QED
      BY <2>1 DEF HeardAck, None
  <1>7. ~key => flash' = flash
    <2>1. ~key => Untouched
      BY <1>1, <1>2 DEF Keyed
    <2> QED
      BY <1>1, <1>2, <2>1, BootConstants DEF Untouched
  <1>8. Keyed'
    BY <1>1, <1>2, <1>3, <1>5, <1>6, <1>7, WentKeyed
  <1>9. ASSUME Undisturbed PROVE InStep'
    <2>1. Begun
      BY <1>1 DEF Begun
    <2>2. Booted
      <3>1. ~(run = "app")
        BY <1>1
      <3>2. ~Over
        BY <1>1 DEF Over
      <3> QED
        BY <1>9, <3>1, <3>2 DEF Following, InStep, Booted
    <2>3. /\ job.block = Taken - 1 /\ job.data = Image(Taken - 1)
          /\ \A b \in 0..(Blocks - 1) :
                flash[b] = IF b < Taken /\ b # job.block THEN Image(b) ELSE Erased
      BY <1>1, <2>1, <2>2 DEF Booted, Area
    <2>4. Taken \in Int /\ Blocks \in Int
      BY <1>2, BootConstants, FirmwareConstants DEF Taken, Ram
    <2>5. flash' = [flash EXCEPT ![job.block] = job.data]
      BY <1>1, <1>2, <2>3
    <2>6. \A b \in 0..(Blocks - 1) : flash'[b] = IF b < Taken THEN Image(b) ELSE Erased
      <3> SUFFICES ASSUME NEW b \in 0..(Blocks - 1)
                   PROVE  flash'[b] = IF b < Taken THEN Image(b) ELSE Erased
        OBVIOUS
      <3>1. CASE b = job.block
        BY <1>2, <2>3, <2>4, <2>5, <3>1
      <3>2. CASE b # job.block
        BY <1>2, <2>3, <2>4, <2>5, <3>2
      <3> QED
        BY <3>1, <3>2
    <2>7. InOrder'
      BY <1>5, <2>2 DEF Booted
    <2>8. "PROGRAMING" # "INIT" /\ ("PROGRAMING" = "START" <=> ~Begun)
      BY <2>1
    <2> QED
      BY <1>1, <1>2, <1>3, <1>5, <1>6, <2>1, <2>2, <2>6, <2>7, <2>8, WentInStep
  <1> QED
    BY <1>3, <1>5, <1>8, <1>9 DEF Following, Undisturbed

\* The number of the next block is the next number, and its place the next place.
LEMMA NextBlock ==
    ASSUME Types, NEW m \in Msg, Sound(m), Sent(m), ram.lastPn = Taken % PnMod,
           Taken \in Nat, m.data \in {Taken, Taken + 1}
    PROVE  /\ m.pn = ram.lastPn <=> m.data = Taken
           /\ m.pn = (ram.lastPn + 1) % PnMod <=> m.data = Taken + 1
           /\ m.data = Taken + 1 /\ snd # "done" =>
                /\ Page(m) + m.pn = Taken + 1
                /\ m.pn = (Taken + 1) % PnMod
  <1>1. m.pn = m.data % PnMod
    BY DEF Sent
  <1>2. /\ Taken % PnMod \in 0..(PnMod - 1)
        /\ (Taken + 1) % PnMod = ((Taken % PnMod) + 1) % PnMod
        /\ (Taken + 1) % PnMod # Taken % PnMod
        /\ \/ (Taken + 1) % PnMod = (Taken % PnMod) + 1
           \/ (Taken + 1) % PnMod = 0 /\ Taken % PnMod = PnMod - 1
    BY NextMod
  <1>3. PnMod \in Nat /\ PnMod > 1
    BY BootConstants
  <1>4. ASSUME m.data = Taken + 1, snd # "done" PROVE Page(m) + m.pn = Taken + 1
    <2>1. Taken = ram.pnPage + ram.lastPn /\ ram.pnPage \in Nat /\ ram.lastPn \in 0..(PnMod - 1)
      BY <1>4 DEF Taken, Types, BootInv, TypeOK, Ram
    <2>2. m.pn = (Taken + 1) % PnMod
      BY <1>1, <1>4
    <2>3. \/ m.pn = ram.lastPn + 1
          \/ m.pn = 0 /\ ram.lastPn = PnMod - 1
      BY <1>2, <2>2
    <2>4. CASE m.pn = ram.lastPn + 1
      <3>1. Page(m) = ram.pnPage
        BY <1>3, <2>1, <2>4 DEF Page
      <3> QED
        BY <1>3, <2>1, <2>4, <3>1
    <2>5. CASE m.pn = 0 /\ ram.lastPn = PnMod - 1
      <3>1. Page(m) = ram.pnPage + PnMod
        BY <2>5 DEF Page
      <3> QED
        BY <1>3, <2>1, <2>5, <3>1
    <2> QED
      BY <2>3, <2>4, <2>5
  <1> QED
    BY <1>1, <1>2, <1>4

\* Handling a message.
LEMMA HandleKeeps ==
    ASSUME Following, Handle
    PROVE  Following'
  <1> USE DEF Asking
  <1> DEFINE m == Head(updQ)
  <1>1. updQ = <<m>> /\ m \in Msg /\ Receive(m) /\ updQ' = <<>>
        /\ UNCHANGED <<snd, k, tries, asked, fwdQ, inQ, eotQ, resets, surplus>>
    BY DEF Handle, Following, Types, sndVars, askVars
  <1>2. m \in Pending /\ 1 \in DOMAIN updQ /\ updQ[1] = m
    BY <1>1 DEF Pending
  <1> HIDE DEF m
  <1>3. Types /\ AllSent /\ Keyed /\ BootInv /\ TypeOK /\ ConfirmedIsUnderWay /\ ram \in Ram
        /\ key \in BOOLEAN
    BY DEF Following, Types, BootInv, TypeOK
  <1>4. Sent(m)
    BY <1>2, <1>3 DEF AllSent
  <1>5. /\ run = "boot" /\ job = NoJob
        /\ Rejected(m) \/ Repeated(m) \/ Strange(m) \/ Accepted(m) \/ Ended(m)
    BY <1>1, <1>3, <1>4, Outcomes DEF Sent, Keyed
  <1>6. BootInv'
    BY <1>1, <1>3, ReceiveStep DEF Step, BootInv
  <1>7. Withdrawn /\ snd' = snd
    BY <1>1 DEF Withdrawn
  <1>8. /\ Types' /\ AllSent' /\ Pending' \subseteq Pending
        /\ NoneSound => NoneSound'
        /\ InOrder => InOrder'
    BY <1>3, <1>6, <1>7, WithdrawnKeeps
  <1>9. m.head = "EOT" => snd = "done"
    BY <1>4 DEF Sent
  <1>10. ram.sm \in States /\ ram.sm # "CANCEL" /\ (ram.sm = "FINISHED" => snd = "done")
         /\ (ram.sm = "START" => key)
    BY <1>3 DEF Ram, Keyed
  <1>11. ~key => FlashOpened = flash
    BY <1>10 DEF FlashOpened
  <1>12. Keyed'
    <2>1. CASE Rejected(m)
      <3> DEFINE sm == IF m.head # "SOH" \/ ram.sm = "START" THEN ram.sm ELSE "TRYAGAIN"
      <3>1. /\ sm \in {"START", "INIT"} => sm = ram.sm
            /\ sm # "CANCEL" /\ (sm = "FINISHED" => snd = "done")
        BY <1>10
      <3>2. Went(sm, ram.lastPn, ram.pnPage) /\ job' = NoJob /\ flash' = flash
        BY <1>5, <2>1 DEF Rejected, Unwritten
      <3> HIDE DEF sm
      <3> QED
        BY <1>3, <1>5, <1>7, <1>8, <3>1, <3>2, WentKeyed
    <2>2. CASE Repeated(m)
      <3>1. /\ Went("PROGRAMING", ram.lastPn, ram.pnPage) /\ job' = NoJob
            /\ ~key => flash' = flash
        BY <1>5, <1>11, <2>2 DEF Repeated
      <3> QED
        BY <1>3, <1>5, <1>7, <1>8, <3>1, WentKeyed
    <2>3. CASE Strange(m)
      <3>1. PICK pn, page : Went("TRYAGAIN", pn, page)
        BY <2>3 DEF Strange
      <3>2. job' = NoJob /\ (~key => flash' = flash)
        BY <1>5, <1>11, <2>3 DEF Strange
      <3> QED
        BY <1>3, <1>5, <1>7, <1>8, <3>1, <3>2, WentKeyed
    <2>4. CASE Accepted(m)
      <3>1. /\ Sound(m) /\ UNCHANGED <<key, run>> /\ flash' = FlashOpened
            /\ ram'.sm = ram.sm /\ ram'.mon = ram.mon
        BY <2>4 DEF Accepted
      <3>2. ~NoneSound
        BY <1>2, <3>1 DEF NoneSound
      <3>3. ~key => Untouched'
        BY <1>3, <1>5, <1>11, <3>1, <3>2 DEF Keyed, Untouched
      <3> QED
        BY <1>3, <1>5, <1>7, <3>1, <3>3 DEF Keyed
    <2>5. CASE Ended(m)
      <3>1. /\ Went("FINISHED", ram.lastPn, 0) /\ job' = NoJob /\ flash' = flash
            /\ snd = "done"
        BY <1>5, <1>9, <2>5 DEF Ended, Unwritten
      <3> QED
        BY <1>3, <1>5, <1>7, <1>8, <3>1, WentKeyed
    <2> QED
      BY <1>5, <2>1, <2>2, <2>3, <2>4, <2>5
  <1>13. ASSUME Undisturbed, snd = "done", ~Begun, Over PROVE InStep'
    <2>1. ram.sm = "START" /\ ~Sound(m) /\ m.head # "EOT"
      BY <1>2, <1>5, <1>13 DEF Begun, Over
    <2>2. Rejected(m)
      BY <1>5, <2>1 DEF Repeated, Strange, Accepted, Ended
    <2>3. Went("START", ram.lastPn, ram.pnPage) /\ job' = NoJob /\ flash' = flash
      BY <1>5, <2>1, <2>2 DEF Rejected, Unwritten
    <2> QED
      BY <1>3, <1>5, <1>7, <1>8, <1>13, <2>3, WentOver
  <1>14. ASSUME Undisturbed, Booted PROVE InStep'
    <2>1. /\ key /\ Numbers /\ InOrder /\ Area /\ (snd = "done" => Begun) /\ InOrder'
      BY <1>8, <1>14 DEF Booted
    <2>2. /\ k \in Nat /\ N \in Nat /\ Blocks \in Nat /\ N <= Blocks /\ PnMod \in Nat
          /\ line \in Seq(Replies) /\ Taken \in Nat /\ Page(m) \in Nat /\ m.pn \in Nat
      BY <1>1, <1>3, <2>1, FirmwareConstants, BootConstants
      DEF Types, TypeOK, Numbers, Page, Ram, Msg
    <2>3. Begun <=> ram.sm # "START"
      BY <1>5 DEF Begun
    <2>4. Begun => \A b \in 0..(Blocks - 1) : flash[b] = IF b < Taken THEN Image(b) ELSE Erased
      <3>1. job.block = -1
        BY <1>5 DEF NoJob
      <3> QED
        BY <2>1, <3>1 DEF Area
    <2>5. ram.sm # "INIT"
      BY <1>3, <1>5, <2>1 DEF Keyed
    <2>6. ASSUME Sound(m)
          PROVE  /\ m.data \in {Taken, Taken + 1} /\ m.data <= k + 1 /\ m.data \in 1..N
                 /\ snd \notin Asking
                 /\ m.pn = ram.lastPn <=> m.data = Taken
                 /\ m.pn = (ram.lastPn + 1) % PnMod <=> m.data = Taken + 1
                 /\ m.data = Taken + 1 =>
                      snd # "done" /\ Page(m) + m.pn = Taken + 1 /\ m.pn = (Taken + 1) % PnMod
      <3>1. m.data \in {Taken, Taken + 1} /\ m.data <= k + 1 /\ ram.lastPn = Taken % PnMod
            /\ snd \notin Asking
        BY <1>2, <2>1, <2>6 DEF Numbers, NoneSound
      <3>2. m.data \in 1..N
        BY <1>4, <2>6 DEF Sent
      <3>3. snd = "done" => m.data # Taken + 1
        BY <2>2, <3>2 DEF Taken
      <3> QED
        BY <1>1, <1>3, <1>4, <2>2, <2>6, <3>1, <3>2, <3>3, NextBlock
    <2>7. CASE Rejected(m)
      <3> DEFINE sm == IF m.head # "SOH" \/ ram.sm = "START" THEN ram.sm ELSE "TRYAGAIN"
      <3>1. sm # "INIT" /\ (sm = "START" <=> ~Begun)
        BY <2>3, <2>5
      <3>2. /\ Went(sm, ram.lastPn, ram.pnPage) /\ job' = NoJob /\ flash' = flash
            /\ HeardAck(FALSE)
        BY <1>5, <2>7 DEF Rejected, Unwritten
      <3> HIDE DEF sm
      <3> QED
        BY <1>3, <1>7, <1>8, <1>14, <2>1, <2>4, <3>1, <3>2, WentInStep
    <2>8. CASE Repeated(m)
      <3>1. m.data = Taken /\ m.data \in 1..N
        BY <2>6, <2>8 DEF Repeated
      <3>2. Begun
        BY <2>1, <3>1 DEF Area
      <3>3. /\ Went("PROGRAMING", ram.lastPn, ram.pnPage) /\ job' = NoJob /\ flash' = flash
            /\ HeardAck(FALSE)
        BY <1>5, <2>3, <2>8, <3>2 DEF Repeated, FlashOpened
      <3>4. "PROGRAMING" # "INIT" /\ ("PROGRAMING" = "START" <=> ~Begun)
        BY <3>2
      <3> QED
        BY <1>3, <1>7, <1>8, <1>14, <2>1, <2>4, <3>2, <3>3, <3>4, WentInStep
    <2>9. ~Strange(m)
      <3>1. ASSUME Strange(m), m.pn = (ram.lastPn + 1) % PnMod, Page(m) + m.pn > Blocks PROVE FALSE
        <4>1. m.data = Taken + 1 /\ m.data \in 1..N /\ Page(m) + m.pn = Taken + 1
          BY <2>6, <3>1 DEF Strange
        <4> QED
          BY <2>2, <3>1, <4>1
      <3>2. ASSUME Strange(m), m.pn # (ram.lastPn + 1) % PnMod, m.pn # ram.lastPn PROVE FALSE
        BY <2>6, <3>2 DEF Strange
      <3> QED
        BY <3>1, <3>2 DEF Strange
    <2>10. CASE Accepted(m)
      <3>1. /\ Sound(m) /\ HeardAck(TRUE) /\ flash' = FlashOpened
            /\ job' = [block |-> Page(m) + m.pn - 1, data |-> m.data]
            /\ key' = key /\ run' = run /\ ram'.sm = ram.sm
            /\ ram'.lastPn = m.pn /\ ram'.pnPage = Page(m)
            /\ m.pn = (ram.lastPn + 1) % PnMod
        BY <2>10 DEF Accepted
      <3>2. /\ m.data = Taken + 1 /\ snd # "done" /\ Page(m) + m.pn = Taken + 1
            /\ m.pn = (Taken + 1) % PnMod /\ Taken + 1 <= N /\ Taken = k /\ snd \notin Asking
        <4>1. Taken \in {k, k + 1}
          BY <2>1 DEF Numbers
        <4> QED
          BY <2>2, <2>6, <3>1, <4>1
      <3>3. Taken' = Taken + 1
        BY <1>1, <3>1, <3>2 DEF Taken
      <3>4. job' = [block |-> Taken, data |-> Image(Taken)]
        BY <2>2, <3>1, <3>2 DEF Image
      <3>5. Begun'
        BY <2>2, <3>4 DEF Begun, NoJob
      <3>6. ASSUME NEW p \in Pending', Sound(p) PROVE p.data = Taken + 1
        <4>1. PICK j \in DOMAIN inQ : p = inQ[j]
          BY <1>1, <3>6 DEF Pending
        <4>2. m.data <= p.data
          BY <1>2, <2>1, <3>1, <3>6, <4>1 DEF InOrder
        <4>3. p.data \in {Taken, Taken + 1}
          BY <1>8, <2>1, <3>6 DEF Numbers
        <4> QED
          BY <2>2, <3>2, <4>2, <4>3
      <3>7. snd \in {"write", "wait"} =>
              \A i, j \in DOMAIN line' : line'[i] = "ACK" /\ line'[j] = "ACK" => i = j
        <4>1. snd \in {"write", "wait"} => \A i \in DOMAIN line : line[i] # "ACK"
          BY <2>1, <2>2, <3>2 DEF Numbers
        <4> QED
          BY <2>2, <3>1, <4>1, OneAckHeard
      <3>8. Numbers'
        BY <1>1, <2>2, <3>1, <3>2, <3>3, <3>6, <3>7 DEF Numbers, Sound
      <3>9. \A b \in 0..(Blocks - 1) : flash'[b] = IF b < Taken THEN Image(b) ELSE Erased
        <4>1. CASE Begun
          BY <2>3, <2>4, <3>1, <4>1 DEF FlashOpened
        <4>2. CASE ~Begun
          <5>1. Taken = 0
            BY <2>1, <4>2 DEF Area
          <5> QED
            BY <1>3, <2>3, <3>1, <4>2, <5>1 DEF FlashOpened, TypeOK
        <4> QED
          BY <4>1, <4>2
      <3>10. Area'
        <4>1. job'.block = Taken' - 1 /\ job'.data = (Taken' - 1) + 1 /\ job'.block = Taken
          BY <2>2, <3>3, <3>4 DEF Image
        <4>2. \A b \in 0..(Blocks - 1) :
                flash'[b] = IF b < Taken' /\ b # job'.block THEN Image(b)' ELSE Erased
          BY <2>2, <3>3, <3>9, <4>1 DEF Image
        <4> QED
          BY <3>5, <4>1, <4>2 DEF Area, Image
      <3> QED
        BY <1>5, <2>1, <3>1, <3>5, <3>8, <3>10 DEF InStep
    <2>11. CASE Ended(m)
      <3>1. /\ snd = "done" /\ Begun
            /\ Went("FINISHED", ram.lastPn, 0) /\ job' = NoJob /\ flash' = flash
        BY <1>5, <1>9, <2>1, <2>11 DEF Ended, Unwritten
      <3>2. "FINISHED" # "INIT" /\ ("FINISHED" = "START" <=> ~Begun)
        BY <3>1
      <3> QED
        BY <1>3, <1>7, <1>8, <1>14, <2>1, <2>4, <3>1, <3>2, WentInStep
    <2> QED
      BY <1>5, <2>7, <2>8, <2>9, <2>10, <2>11
  <1>15. Undisturbed => InStep'
    BY <1>5, <1>13, <1>14 DEF Following, InStep, Booted
  <1> QED
    BY <1>1, <1>8, <1>12, <1>15 DEF Following, Undisturbed

----------------------------------------------------------------------------
\* Every step

\* A step that changes nothing.
LEMMA UnchangedKeeps ==
    ASSUME Following, UNCHANGED vars
    PROVE  Following'
  <1>1. Onward
    BY DEF vars, Onward, Following, Types, bootVars, inVars
  <1> QED
    BY <1>1, OnwardKeeps

\* Every step keeps the invariant of the transfer.
LEMMA FollowingKeeps ==
    ASSUME Following, [Next]_vars
    PROVE  Following'
  <1>0. Types
    BY DEF Following
  <1>1. CASE \/ CheckVersion \/ TakeVersion \/ VersionTimeout
             \/ Notify \/ TakeConsent \/ ConsentTimeout \/ SkipAnswer
             \/ AnswerVersion \/ Refuse \/ RequestLost
             \/ LostWrite \/ FailedWrite \/ Timeout \/ FailedEot
    BY <1>0, <1>1, OnwardSteps, OnwardKeeps
  <1>2. ASSUME NEW sum \in {"sum", "bad"}, Write(sum) PROVE Following'
    BY <1>2, WriteKeeps
  <1>3. CASE RequestInBoot \/ WriteEot \/ TakeByte \/ Agree
    BY <1>3, RequestInBootKeeps, WriteEotKeeps, TakeByteKeeps, AgreeKeeps
  <1>4. CASE ForwardBlock \/ ForwardEot \/ GiveUpBlock \/ GiveUpEot
    BY <1>4, ForwardSteps
  <1>5. CASE DeviceRestarts \/ Reset \/ Overrun
    BY <1>5, DeviceRestartsKeeps, ResetKeeps, OverrunKeeps
  <1>6. CASE Handle \/ Programmed \/ Tick
    BY <1>6, HandleKeeps, ProgrammedKeeps, TickKeeps
  <1>7. CASE UNCHANGED vars
    BY <1>7, UnchangedKeeps
  <1> QED
    BY <1>1, <1>2, <1>3, <1>4, <1>5, <1>6, <1>7 DEF Next

\* The invariant holds before the update.
LEMMA StartFollowing ==
    ASSUME Init
    PROVE  Following
  <1> USE DEF Asking
  <1>1. /\ run = "app" /\ key = FALSE /\ ram = BootRam(FALSE) /\ job = NoJob
        /\ snd \in {"check", "notify"} /\ k = 0 /\ tries = 0 /\ asked = None /\ fwdQ \in {None, "late"}
        /\ inQ = <<>> /\ eotQ = FALSE /\ updQ = <<>> /\ resets = 0 /\ surplus = ~NoAck
        /\ flash = [b \in 0..(Blocks - 1) |-> Old]
    BY DEF Init
  <1>2. ram \in Ram /\ ~ram.confirmed /\ ram.sm = "INIT" /\ ram.mon = "first"
    BY <1>1, BootRamTyped, BootRamNumbers
  <1>3. line \in Seq(Replies)
    <2>1. CASE line = <<>>
      BY <2>1
    <2>2. ASSUME NEW b \in Leftover, line = <<b>> PROVE line \in Seq(Replies)
      BY <2>2, FirmwareConstants
    <2> QED
      BY <2>1, <2>2 DEF Init
  <1>4. BootInv
    BY <1>1, <1>2, <1>3 DEF BootInv, TypeOK, ConfirmedIsUnderWay, Contents
  <1>5. N \in Nat /\ 0 \in 0..N
    BY FirmwareConstants, BootConstants
  <1>6. Types
    <2>1. <<>> \in Seq(Msg)
      OBVIOUS
    <2> QED
      BY <1>1, <1>4, <1>5, <2>1 DEF Types, Phases, Requests, Answers
  <1>7. Pending = {} /\ Untouched
    BY <1>1 DEF Pending, Untouched
  <1>8. AllSent
    BY <1>1, <1>7 DEF AllSent
  <1>9. Keyed
    BY <1>1, <1>2, <1>7 DEF Keyed
  <1>10. Undisturbed => InStep
    BY <1>1, <1>7 DEF Undisturbed, InStep, NotBooted
  <1> QED
    BY <1>6, <1>8, <1>9, <1>10 DEF Following

----------------------------------------------------------------------------
\* The places of blocks, over resets

\* A page is a multiple of the modulus: adding it does not change a number.
LEMMA PageMod ==
    ASSUME NEW a \in Nat, a % PnMod = 0
    PROVE  /\ (a + PnMod) % PnMod = 0
           /\ \A x \in 0..(PnMod - 1) : (a + x) % PnMod = x
  <1>0. PnMod \in Nat /\ PnMod > 1
    BY BootConstants
  <1>1. PICK q \in Int : a = PnMod * q
    <2> DEFINE d == a \div PnMod
               r == a % PnMod
    <2>1. d \in Int /\ r = 0 /\ a = PnMod * d + r
      BY <1>0
    <2> HIDE DEF d, r
    <2>2. a = PnMod * d
      BY <1>0, <2>1
    <2> QED
      BY <2>1, <2>2
  <1>2. ASSUME NEW p \in Int, NEW x \in 0..(PnMod - 1) PROVE (PnMod * p + x) % PnMod = x
    <2> DEFINE d == PnMod * p + x
               e == d \div PnMod
               s == d % PnMod
    <2>1. e \in Int /\ s \in 0..(PnMod - 1) /\ d = PnMod * e + s
      BY <1>0
    <2>2. d = PnMod * p + x
      OBVIOUS
    <2> HIDE DEF d, e, s
    <2>3. PnMod * (e - p) = x - s
      BY <1>0, <2>1, <2>2
    <2>4. ASSUME NEW y \in Int, y >= 1 PROVE PnMod * y >= PnMod
      BY <1>0, <2>4
    <2>5. ASSUME NEW y \in Int, y <= -1 PROVE PnMod * y <= -PnMod
      BY <1>0, <2>5
    <2>6. e - p = 0
      <3>1. ~(e - p >= 1)
        BY <1>0, <2>1, <2>3, <2>4
      <3>2. ~(e - p <= -1)
        BY <1>0, <2>1, <2>3, <2>5
      <3> QED
        BY <2>1, <3>1, <3>2
    <2>7. s = x
      BY <1>0, <2>1, <2>3, <2>6
    <2> QED
      BY <2>7 DEF s, d
  <1>3. (a + PnMod) % PnMod = 0
    <2>1. a + PnMod = PnMod * (q + 1) + 0 /\ 0 \in 0..(PnMod - 1) /\ q + 1 \in Int
      BY <1>0, <1>1
    <2> QED
      BY <1>2, <2>1
  <1> QED
    BY <1>1, <1>2, <1>3

\* What is congruent after one more was before.
LEMMA LessOne ==
    ASSUME NEW x \in Nat, NEW y \in Nat, (x + 1) % PnMod = (y + 1) % PnMod
    PROVE  x % PnMod = y % PnMod
  <1>0. PnMod \in Nat /\ PnMod > 1
    BY BootConstants
  <1>1. /\ x % PnMod \in 0..(PnMod - 1)
        /\ \/ (x + 1) % PnMod = (x % PnMod) + 1
           \/ (x + 1) % PnMod = 0 /\ x % PnMod = PnMod - 1
    BY NextMod
  <1>2. /\ y % PnMod \in 0..(PnMod - 1)
        /\ \/ (y + 1) % PnMod = (y % PnMod) + 1
           \/ (y + 1) % PnMod = 0 /\ y % PnMod = PnMod - 1
    BY NextMod
  <1> DEFINE xm == x % PnMod
             ym == y % PnMod
             xs == (x + 1) % PnMod
             ys == (y + 1) % PnMod
  <1>3. /\ xm \in 0..(PnMod - 1) /\ ym \in 0..(PnMod - 1) /\ xs = ys
        /\ xs = xm + 1 \/ (xs = 0 /\ xm = PnMod - 1)
        /\ ys = ym + 1 \/ (ys = 0 /\ ym = PnMod - 1)
    BY <1>1, <1>2
  <1> HIDE DEF xm, ym, xs, ys
  <1>4. xm = ym
    BY <1>0, <1>3
  <1> QED
    BY <1>4 DEF xm, ym

Alike(b) == {Old, Erased, Torn} \union {Image(c) : c \in {c \in 0..(N - 1) : c % PnMod = b % PnMod}}

PlacedJob(j) == j # NoJob => j.data \in 1..N /\ (j.block + 1) % PnMod = j.data % PnMod

\* The parts of the invariant of the places.
LEMMA PlacedParts ==
    /\ Placed <=> /\ ram.pnPage % PnMod = 0
                  /\ PlacedJob(job)
                  /\ \A b \in 0..(Blocks - 1) : flash[b] \in Alike(b)
    /\ Placed' <=> /\ ram'.pnPage % PnMod = 0
                   /\ PlacedJob(job')
                   /\ \A b \in 0..(Blocks - 1) : flash'[b] \in Alike(b)
  BY DEF Placed, PlacedJob, Alike, Image

\* What is erased or torn is in its place.
LEMMA PlacedLess ==
    ASSUME Placed, ram'.pnPage % PnMod = 0, job' = job \/ job' = NoJob,
           \A b \in 0..(Blocks - 1) : flash'[b] \in {flash[b], Erased, Torn}
    PROVE  Placed'
  <1>1. \A b \in 0..(Blocks - 1) : Erased \in Alike(b) /\ Torn \in Alike(b)
    BY DEF Alike
  <1>2. PlacedJob(NoJob)
    BY DEF PlacedJob
  <1> QED
    BY <1>1, <1>2, PlacedParts

\* Opening a transfer leaves each block or erases it.
LEMMA ErasedOrKept ==
    ASSUME TypeOK, flash' = flash \/ flash' = FlashOpened
    PROVE  \A b \in 0..(Blocks - 1) : flash'[b] \in {flash[b], Erased, Torn}
  BY DEF TypeOK, FlashOpened

\* A block that is accepted is on its way to a place of its number.
LEMMA HandlePlaced ==
    ASSUME Following, Placed, Handle
    PROVE  Placed'
  <1> DEFINE m == Head(updQ)
  <1>1. updQ = <<m>> /\ m \in Msg /\ Receive(m)
    BY DEF Handle, Following, Types
  <1>2. m \in Pending
    BY <1>1 DEF Pending
  <1> HIDE DEF m
  <1>3. Types /\ AllSent /\ Keyed /\ BootInv /\ TypeOK /\ ram.pnPage \in Nat
    BY DEF Following, Types, BootInv, TypeOK, Ram
  <1>4. Sent(m)
    BY <1>2, <1>3 DEF AllSent
  <1>5. /\ job = NoJob
        /\ Rejected(m) \/ Repeated(m) \/ Strange(m) \/ Accepted(m) \/ Ended(m)
    BY <1>1, <1>3, <1>4, Outcomes DEF Sent, Keyed
  <1>6. PnMod \in Nat /\ PnMod > 1 /\ ram.pnPage % PnMod = 0 /\ m.pn \in 0..(PnMod - 1)
    BY <1>1, BootConstants, PlacedParts DEF Msg
  <1>7. Page(m) \in Nat /\ Page(m) % PnMod = 0 /\ 0 % PnMod = 0
    BY <1>3, <1>6, PageMod DEF Page
  <1>8. CASE Accepted(m)
    <2>1. /\ Sound(m) /\ ram'.pnPage = Page(m) /\ flash' = FlashOpened
          /\ job' = [block |-> Page(m) + m.pn - 1, data |-> m.data]
      BY <1>8 DEF Accepted
    <2>2. m.data \in 1..N /\ m.pn = m.data % PnMod
      BY <1>4, <2>1 DEF Sent
    <2>3. (Page(m) + m.pn) % PnMod = m.pn
      BY <1>6, <1>7, PageMod
    <2>4. (job'.block + 1) = Page(m) + m.pn /\ job'.data = m.data
      BY <1>6, <1>7, <2>1
    <2>5. PlacedJob(job')
      BY <2>2, <2>3, <2>4 DEF PlacedJob
    <2>6. \A b \in 0..(Blocks - 1) : flash'[b] \in {flash[b], Erased, Torn}
      BY <1>3, <2>1, ErasedOrKept
    <2>7. \A b \in 0..(Blocks - 1) : Erased \in Alike(b) /\ Torn \in Alike(b)
      BY DEF Alike
    <2> QED
      BY <1>7, <2>1, <2>5, <2>6, <2>7, PlacedParts
  <1>9. CASE Rejected(m) \/ Repeated(m) \/ Strange(m) \/ Ended(m)
    <2>1. job' = job /\ (flash' = flash \/ flash' = FlashOpened)
      BY <1>9 DEF Rejected, Repeated, Strange, Ended, Unwritten
    <2>2. ram'.pnPage \in {ram.pnPage, Page(m), 0}
      BY <1>9 DEF Rejected, Repeated, Strange, Ended, Went
    <2>3. ram'.pnPage % PnMod = 0
      BY <1>6, <1>7, <2>2
    <2> QED
      BY <1>3, <2>1, <2>3, ErasedOrKept, PlacedLess
  <1> QED
    BY <1>5, <1>8, <1>9

\* Programming puts it there.
LEMMA ProgrammedPlaced ==
    ASSUME Following, Placed, Programmed
    PROVE  Placed'
  <1>1. /\ run = "boot" /\ job # NoJob /\ job' = NoJob
        /\ flash' = IF flash[job.block] = Erased
                    THEN [flash EXCEPT ![job.block] = job.data] ELSE flash
        /\ Conclude(ram, None, ram, "PROGRAMING")
    BY DEF Programmed, Program
  <1>2. ram \in Ram /\ job.block \in 0..(Blocks - 1) /\ flash \in [0..(Blocks - 1) -> Contents]
    BY <1>1 DEF Following, Types, BootInv, TypeOK, Jobs
  <1>3. Went("PROGRAMING", ram.lastPn, ram.pnPage)
    BY <1>1, <1>2, ConcludeWent DEF States
  <1>4. ram'.pnPage % PnMod = 0
    BY <1>3, PlacedParts DEF Went
  <1>5. job.data \in Alike(job.block)
    <2> DEFINE c == job.data - 1
    <2>1. job.data \in 1..N /\ (job.block + 1) % PnMod = job.data % PnMod /\ N \in Nat
      BY <1>1, PlacedParts, FirmwareConstants, BootConstants DEF PlacedJob
    <2>2. c \in 0..(N - 1) /\ job.data = c + 1 /\ c \in Nat /\ job.block \in Nat
      BY <1>2, <2>1, BootConstants
    <2> HIDE DEF c
    <2>3. (c + 1) % PnMod = (job.block + 1) % PnMod
      BY <2>1, <2>2
    <2>4. c % PnMod = job.block % PnMod
      BY <2>2, <2>3, LessOne
    <2> QED
      BY <2>2, <2>4 DEF Alike, Image
  <1>6. \A b \in 0..(Blocks - 1) : flash'[b] \in Alike(b)
    BY <1>1, <1>2, <1>5, PlacedParts
  <1> QED
    BY <1>1, <1>4, <1>6, PlacedParts DEF PlacedJob

\* Every step keeps blocks in places of their numbers.
LEMMA PlacedKeeps ==
    ASSUME Following, Placed, [Next]_vars
    PROVE  Placed'
  <1>0. 0 % PnMod = 0 /\ TypeOK
    BY BootConstants DEF Following, Types, BootInv
  <1>1. CASE UNCHANGED <<ram, job, flash>>
    BY <1>1, PlacedParts, PlacedLess
  <1>2. ASSUME Next, ~(DeviceRestarts \/ Reset \/ Overrun \/ Handle \/ Programmed \/ Tick)
        PROVE  UNCHANGED <<ram, job, flash>>
    BY <1>2 DEF Next, CheckVersion, TakeVersion, VersionTimeout, Notify, TakeConsent,
       ConsentTimeout, SkipAnswer, AnswerVersion, Agree, Refuse, RequestInBoot, RequestLost,
       Write, LostWrite, FailedWrite, CountAttempt, TakeByte, Timeout, WriteEot, FailedEot,
       ForwardBlock, ForwardEot, GiveUpBlock, GiveUpEot, Ask, bootVars
  <1>3. CASE DeviceRestarts \/ Overrun
    <2>1. ram' = BootRam(key) /\ UNCHANGED <<job, flash>>
      BY <1>3 DEF DeviceRestarts, Overrun, Restarted
    <2> QED
      BY <1>0, <2>1, PlacedLess DEF BootRam
  <1>4. CASE Reset
    <2>1. CASE Restarted
      BY <1>0, <2>1, PlacedLess DEF Restarted, BootRam
    <2>2. CASE Crash
      <3>1. ram' = BootRam(key) /\ job' = NoJob
            /\ \/ flash' = flash
               \/ job # NoJob /\ flash' = [flash EXCEPT ![job.block] = Torn]
        BY <2>2 DEF Crash, Reboot
      <3>2. \A b \in 0..(Blocks - 1) : flash'[b] \in {flash[b], Erased, Torn}
        BY <1>0, <3>1 DEF TypeOK
      <3> QED
        BY <1>0, <3>1, <3>2, PlacedLess DEF BootRam
    <2>3. CASE updQ # <<>> /\ CrashInErase(Head(updQ))
      <3>1. ram' = BootRam(key) /\ job' = job
        BY <2>3 DEF CrashInErase, Reboot
      <3>2. \A b \in 0..(Blocks - 1) : flash'[b] \in {flash[b], Erased, Torn}
        BY <1>0, <2>3 DEF CrashInErase, TypeOK
      <3> QED
        BY <1>0, <3>1, <3>2, PlacedLess DEF BootRam
    <2> QED
      BY <1>4, <2>1, <2>2, <2>3 DEF Reset
  <1>5. CASE Tick
    <2>1. UNCHANGED <<job, flash>> /\ Wake(ram, None, ram)
      BY <1>5 DEF Tick, MonitorTick
    <2>2. ram \in Ram /\ ram.sm # "CANCEL"
      BY DEF Following, Types, BootInv, TypeOK, Keyed
    <2>3. Passed(ram)
      BY <2>1, <2>2, WakeNumbers
    <2>4. ram'.pnPage % PnMod = 0
      BY <2>3, PlacedParts DEF Passed
    <2> QED
      BY <2>1, <2>4, PlacedLess
  <1>6. CASE UNCHANGED vars
    BY <1>1, <1>6 DEF vars
  <1> QED
    BY <1>1, <1>2, <1>3, <1>4, <1>5, <1>6, HandlePlaced, ProgrammedPlaced

\* What is recorded of the past.
LEMMA PastKeeps ==
    ASSUME Past, [Next]_vars
    PROVE  Past'
  <1>1. PerSecond \in Nat
    BY FirmwareConstants
  <1>2. CASE FailedWrite \/ Timeout
    BY <1>1, <1>2 DEF Past, FailedWrite, Timeout, CountAttempt
  <1>3. CASE Handle \/ Programmed \/ Tick
    <2>1. idle' = 0
      BY <1>3 DEF Handle, Programmed, Tick
    <2>2. surplus' \in BOOLEAN
      BY <1>3, Zenon DEF Past, Handle, Programmed, Tick
    <2> QED
      BY <1>1, <2>1, <2>2 DEF Past
  <1>4. ASSUME Next, ~(FailedWrite \/ Timeout \/ Handle \/ Programmed \/ Tick)
        PROVE  UNCHANGED <<idle, surplus>>
    BY <1>4 DEF Next, CheckVersion, TakeVersion, VersionTimeout, Notify, TakeConsent,
       ConsentTimeout, SkipAnswer, AnswerVersion, Agree, Refuse, RequestInBoot, RequestLost,
       DeviceRestarts, Write, LostWrite, Overrun, TakeByte, WriteEot, FailedEot,
       ForwardBlock, ForwardEot, GiveUpBlock, GiveUpEot, Reset, Ask
  <1>5. CASE UNCHANGED <<idle, surplus>>
    BY <1>5 DEF Past
  <1> QED
    BY <1>2, <1>3, <1>4, <1>5 DEF vars

\* Before the update no block is of the image.
LEMMA StartPlaced ==
    ASSUME Init
    PROVE  Placed
  <1>1. /\ ram = BootRam(FALSE) /\ job = NoJob
        /\ \A b \in 0..(Blocks - 1) : flash[b] = Old
    BY DEF Init
  <1>2. ram.pnPage = 0 /\ 0 % PnMod = 0
    BY <1>1, BootConstants DEF BootRam
  <1> QED
    BY <1>1, <1>2 DEF Placed

\* Sender and device are in step but for resets and ACKs too many, the state machine
\* opens a transfer only with the key, and blocks are in places of their numbers,
\* for every image, modulus of the block numbers, fault, number of resets, and
\* number of attempts between two passes of the monitor.
THEOREM TransferInvariant == Spec => []TransferInv
  <1>1. Init => TransferInv
    <2>1. Init => surplus \in BOOLEAN
      BY Zenon DEF Init
    <2>2. Init => idle \in 0..PerSecond
      BY FirmwareConstants DEF Init
    <2> QED
      BY <2>1, <2>2, StartFollowing, StartPlaced DEF TransferInv, Past
  <1>2. TransferInv /\ [Next]_vars => TransferInv'
    BY FollowingKeeps, PlacedKeeps, PastKeeps DEF TransferInv
  <1> QED
    BY <1>1, <1>2, PTL DEF Spec

----------------------------------------------------------------------------
\* While sender and device are in step, the blocks before the sender's are the device's.
LEMMA InStepNotAhead ==
    ASSUME Types, Undisturbed => InStep
    PROVE  SenderNotAhead
  <1> SUFFICES ASSUME Undisturbed, NEW b \in 0..(k - 1)
               PROVE  flash[b] = Image(b) \/ job = [block |-> b, data |-> Image(b)]
    BY DEF SenderNotAhead, Ahead
  <1>1. InStep /\ TypeOK
    BY DEF Types, BootInv
  <1>2. N \in Nat /\ Blocks \in Nat /\ N <= Blocks /\ k \in 0..N /\ b \in Nat /\ b < k
    BY FirmwareConstants, BootConstants DEF Types
  <1>3. CASE NotBooted
    BY <1>2, <1>3 DEF NotBooted
  <1>4. CASE Over
    BY <1>2, <1>4 DEF Over, Complete
  <1>5. CASE (snd = "done" => Begun) /\ Numbers /\ Area
    <2>1. Taken \in {k, k + 1} /\ Taken # 0
      BY <1>2, <1>5 DEF Numbers
    <2>2. /\ flash[b] = IF b < Taken /\ b # job.block THEN Image(b) ELSE Erased
          /\ job # NoJob => job.block = Taken - 1 /\ job.data = Image(Taken - 1)
      BY <1>2, <1>5, <2>1 DEF Area
    <2>3. job # NoJob => job = [block |-> Taken - 1, data |-> Image(Taken - 1)]
      BY <1>1, <2>2 DEF TypeOK, Jobs
    <2>4. job = NoJob => job.block = -1
      BY DEF NoJob
    <2> QED
      BY <1>2, <2>1, <2>2, <2>3, <2>4
  <1> QED
    BY <1>1, <1>3, <1>4, <1>5 DEF InStep

\* While they are in step each block is in its own place.
LEMMA InStepInPlace ==
    ASSUME Types, Undisturbed => InStep, Placed
    PROVE  BlocksInPlace
  <1> SUFFICES ASSUME NEW b \in 0..(Blocks - 1)
               PROVE  flash[b] \in {Old, Erased, Torn} \union
                        {Image(c) : c \in {c \in 0..(N - 1) : c % PnMod = b % PnMod /\ (Undisturbed => c = b)}}
    BY DEF BlocksInPlace
  <1>1. N \in Nat /\ Blocks \in Nat /\ N <= Blocks /\ b \in Nat /\ b < Blocks
    BY FirmwareConstants, BootConstants
  <1>2. CASE ~Undisturbed
    BY <1>2 DEF Placed
  <1>3. CASE Undisturbed
    <2>1. InStep
      BY <1>3
    <2>2. flash[b] \in {Old, Erased} \/ (b < N /\ flash[b] = Image(b))
      <3>1. CASE NotBooted
        BY <3>1 DEF NotBooted, Untouched
      <3>2. CASE Over
        BY <1>1, <3>2 DEF Over, Complete
      <3>3. CASE (snd = "done" => Begun) /\ Numbers /\ Area
        <4>1. CASE ~Begun
          BY <3>3, <4>1 DEF Area, Untouched
        <4>2. CASE Begun
          <5>1. flash[b] = IF b < Taken /\ b # job.block THEN Image(b) ELSE Erased
            BY <3>3, <4>2 DEF Area
          <5>2. Taken <= N /\ Taken \in Int
            BY <3>3 DEF Numbers, Types
          <5> QED
            BY <1>1, <5>1, <5>2
        <4> QED
          BY <4>1, <4>2
      <3> QED
        BY <2>1, <3>1, <3>2, <3>3 DEF InStep
    <2> QED
      BY <1>1, <2>2
  <1> QED
    BY <1>2, <1>3

\* The sender is never ahead of a device that is not reset and sends no ACK too many.
THEOREM NotAhead == Spec => []SenderNotAhead
  <1>1. TransferInv => SenderNotAhead
    BY InStepNotAhead DEF TransferInv, Following
  <1> QED
    BY <1>1, TransferInvariant, PTL

\* A block lands in its own place, or with the two out of step in one of its number.
THEOREM InPlace == Spec => []BlocksInPlace
  <1>1. TransferInv => BlocksInPlace
    BY InStepInPlace DEF TransferInv, Following
  <1> QED
    BY <1>1, TransferInvariant, PTL

\* A device that is not reset and sends no ACK too many starts the whole image or its
\* old program.
THEOREM WholeOrUntouched == Spec => []ImageComplete
  <1>1. TransferInv => ImageComplete
    BY DEF TransferInv, Following, Undisturbed, ImageComplete, InStep, NotBooted, Over
  <1> QED
    BY <1>1, TransferInvariant, PTL

\* Without the key no step erases or programs.
LEMMA UnkeyedUnchanged ==
    ASSUME Following, [Next]_vars, ~key
    PROVE  flash' = flash
  <1>1. Types /\ Keyed /\ TypeOK /\ ram \in Ram /\ ram.sm # "START"
    BY DEF Following, Types, BootInv, TypeOK, Keyed
  <1>2. job # NoJob => Untouched /\ job.block \in 0..(Blocks - 1) /\ run = "boot"
    BY <1>1 DEF Keyed, TypeOK, Jobs
  <1>3. ASSUME Next, ~(Reset \/ Handle \/ Programmed)
        PROVE  flash' = flash
    BY <1>3 DEF Next, CheckVersion, TakeVersion, VersionTimeout, Notify, TakeConsent,
       ConsentTimeout, SkipAnswer, AnswerVersion, Agree, Refuse, RequestInBoot, RequestLost,
       Write, LostWrite, FailedWrite, CountAttempt, TakeByte, Timeout, WriteEot, FailedEot,
       ForwardBlock, ForwardEot, GiveUpBlock, GiveUpEot, Ask, bootVars,
       DeviceRestarts, Overrun, Restarted, Tick, MonitorTick
  <1>4. CASE Handle
    <2> DEFINE m == Head(updQ)
    <2>1. updQ = <<m>> /\ m \in Msg /\ Receive(m)
      BY <1>4 DEF Handle, Following, Types
    <2>2. m \in Pending
      BY <2>1 DEF Pending
    <2> HIDE DEF m
    <2>3. Sent(m)
      BY <2>2 DEF AllSent, Following
    <2>4. Rejected(m) \/ Repeated(m) \/ Strange(m) \/ Accepted(m) \/ Ended(m)
      BY <1>1, <2>1, <2>3, Outcomes DEF Sent, Keyed, Following, Types
    <2> QED
      BY <1>1, <2>4 DEF Rejected, Repeated, Strange, Accepted, Ended, Unwritten, FlashOpened
  <1>5. CASE Programmed
    <2>1. /\ job # NoJob
          /\ flash' = IF flash[job.block] = Erased
                      THEN [flash EXCEPT ![job.block] = job.data] ELSE flash
      BY <1>5 DEF Programmed, Program
    <2> QED
      BY <1>2, <2>1, BootConstants DEF Untouched
  <1>6. CASE Reset
    <2>1. CASE Restarted
      BY <2>1 DEF Restarted
    <2>2. CASE Crash
      <3>1. \/ flash' = flash
            \/ job # NoJob /\ flash[job.block] = Erased
        BY <2>2 DEF Crash, Reboot
      <3> QED
        BY <1>2, <3>1, BootConstants DEF Untouched
    <2>3. CASE updQ # <<>> /\ CrashInErase(Head(updQ))
      BY <1>1, <2>3 DEF CrashInErase
    <2> QED
      BY <1>6, <2>1, <2>2, <2>3 DEF Reset
  <1>7. CASE UNCHANGED vars
    BY <1>7 DEF vars
  <1> QED
    BY <1>3, <1>4, <1>5, <1>6, <1>7

\* The program of a device changes only with its consent.
THEOREM Consent == Spec => ChangedByConsent
  <1>1. TransferInv /\ [Next]_vars => [flash' # flash => key]_vars
    BY UnkeyedUnchanged DEF TransferInv
  <1> QED
    BY <1>1, TransferInvariant, PTL DEF Spec, ChangedByConsent

\* What a step does to a transfer that is confirmed before and after it.
ConfirmedKept ==
    ram.confirmed /\ ram'.confirmed =>
        /\ ram'.channel = ram.channel
        /\ \A b \in 0..(Blocks - 1) : flash[b] # Erased => flash'[b] = flash[b]

\* The bootloader's steps keep these promises whatever comes in; the sender's and
\* the forwarding tasks' do not touch what they are about.
LEMMA TransferKept ==
    ASSUME Types, [Next]_vars
    PROVE  ConfirmedKept
  <1>1. TypeOK /\ ConfirmedIsUnderWay /\ key \in BOOLEAN
    BY DEF Types, BootInv, TypeOK
  <1>2. Step => ConfirmedKept
    BY DEF Step, ConfirmedKept
  <1>3. ~ram'.confirmed => ConfirmedKept
    BY DEF ConfirmedKept
  <1>4. UNCHANGED <<ram, flash>> => ConfirmedKept
    BY DEF ConfirmedKept
  <1>5. ASSUME Restarted PROVE ConfirmedKept
    BY <1>1, <1>3, <1>5, BootRamTyped DEF Restarted
  <1>6. CASE Handle
    <2>1. PICK m \in Msg : updQ = <<m>>
      BY <1>6 DEF Handle, Types
    <2>2. Receive(m)
      BY <1>6, <2>1 DEF Handle
    <2> QED
      BY <1>1, <1>2, <2>2, ReceiveStep
  <1>7. CASE Programmed \/ Tick
    BY <1>1, <1>2, <1>7, EveryStep DEF Programmed, Tick, BootNext
  <1>8. CASE DeviceRestarts \/ Overrun
    BY <1>5, <1>8 DEF DeviceRestarts, Overrun
  <1>9. CASE Reset
    <2>1. CASE Crash
      BY <1>1, <1>2, <2>1, EveryStep DEF BootNext
    <2>2. CASE updQ # <<>> /\ CrashInErase(Head(updQ))
      BY <1>1, <1>3, <2>2, BootRamTyped DEF CrashInErase, Reboot
    <2> QED
      BY <1>5, <1>9, <2>1, <2>2 DEF Reset
  <1>10. CASE UNCHANGED vars
    BY <1>4, <1>10 DEF vars
  <1>11. ASSUME Next, ~(Handle \/ Programmed \/ Tick \/ DeviceRestarts \/ Reset \/ Overrun)
         PROVE  UNCHANGED <<ram, flash>>
    BY <1>11 DEF Next, CheckVersion, TakeVersion, VersionTimeout, Notify, TakeConsent,
       ConsentTimeout, SkipAnswer, AnswerVersion, Agree, Refuse, RequestInBoot, RequestLost,
       Write, LostWrite, FailedWrite, CountAttempt, TakeByte, Timeout, WriteEot, FailedEot,
       ForwardBlock, ForwardEot, GiveUpBlock, GiveUpEot, Ask, bootVars
  <1> QED
    BY <1>4, <1>6, <1>7, <1>8, <1>9, <1>10, <1>11

\* The channel is recorded once in an update by the sender too, with what it loses,
\* repeats and leaves behind.
THEOREM ChannelKept == Spec => ChannelRecordedOnce
  <1>1. TransferInv /\ [Next]_vars
        => [ram.confirmed /\ ram'.confirmed => ram'.channel = ram.channel]_bootVars
    BY TransferKept DEF TransferInv, Following, ConfirmedKept
  <1> QED
    BY <1>1, TransferInvariant, PTL DEF Spec, ChannelRecordedOnce

\* A block that the sender has got into flash stays there.
THEOREM ProgrammedKept == Spec => ProgrammedStays
  <1>1. TransferInv /\ [Next]_vars
        => [ram.confirmed /\ ram'.confirmed =>
              \A b \in 0..(Blocks - 1) : flash[b] # Erased => flash'[b] = flash[b]]_bootVars
    BY TransferKept DEF TransferInv, Following, ConfirmedKept
  <1> QED
    BY <1>1, TransferInvariant, PTL DEF Spec, ProgrammedStays

----------------------------------------------------------------------------
\* The transfer implements Transfer.  The board's state says where it is: before
\* the update, after it, or in step with the sender.

MappedStep == [T!Next]_(T!transferVars)

\* A board in step that is about to start its program has nothing left to write.
FinishIdle == Undisturbed /\ ram.mon = "finish" => job = NoJob

\* A sound block is the one taken last or the next one, by number and by place.
InSequence(m) ==
    /\ Taken \in Nat /\ Taken <= N
    /\ m.data \in {Taken, Taken + 1} /\ m.data \in 1..N
    /\ m.pn = ram.lastPn <=> m.data = Taken
    /\ m.pn = (ram.lastPn + 1) % PnMod <=> m.data = Taken + 1
    /\ m.data = Taken + 1 /\ snd # "done" => Page(m) + m.pn = Taken + 1

Handled(m) ==
    /\ run = "boot" /\ key /\ job = NoJob
    /\ m.head = "EOT" => snd = "done"
    /\ Rejected(m) \/ Repeated(m) \/ Strange(m) \/ Accepted(m) \/ Ended(m)
    /\ Sound(m) => Booted /\ InSequence(m)

\* What a message that is handled while board and sender are in step is and becomes.
LEMMA HandledInStep ==
    ASSUME Following, Undisturbed, Handle
    PROVE  \E m \in Msg : Handled(m)
  <1>1. PICK m \in Msg : updQ = <<m>>
    BY DEF Handle, Following, Types
  <1>2. Receive(m) /\ m \in Pending
    <2>1. 1 \in DOMAIN updQ /\ updQ[1] = m
      BY <1>1
    <2> QED
      BY <1>1, <2>1 DEF Handle, Pending
  <1>3. Types /\ AllSent /\ Keyed /\ BootInv /\ TypeOK /\ ram \in Ram /\ InStep
    BY DEF Following, Types, BootInv, TypeOK
  <1>4. Sent(m)
    BY <1>2, <1>3 DEF AllSent
  <1>5. /\ run = "boot" /\ job = NoJob
        /\ Rejected(m) \/ Repeated(m) \/ Strange(m) \/ Accepted(m) \/ Ended(m)
    BY <1>2, <1>3, <1>4, Outcomes DEF Sent, Keyed
  <1>6. (snd = "done" /\ ~Begun /\ Over) \/ Booted
    BY <1>3, <1>5 DEF InStep, Booted
  <1>7. key
    BY <1>3, <1>6 DEF Keyed, Begun, Booted, Over
  <1>8. ASSUME Sound(m)
        PROVE  Booted /\ InSequence(m)
    <2>1. Booted
      BY <1>2, <1>5, <1>6, <1>8 DEF Over
    <2>2. Taken \in Nat /\ Taken <= N /\ m.data \in {Taken, Taken + 1} /\ ram.lastPn = Taken % PnMod
      <3>1. Taken \in Nat
        BY <1>3, FirmwareConstants, BootConstants DEF Taken, Ram
      <3> QED
        BY <1>2, <1>8, <2>1, <3>1 DEF Booted, Numbers
    <2>3. m.data \in 1..N
      BY <1>4, <1>8 DEF Sent
    <2> QED
      BY <1>3, <1>4, <1>8, <2>1, <2>2, <2>3, NextBlock DEF InSequence
  <1> QED
    BY <1>4, <1>5, <1>7, <1>8 DEF Sent, Handled

\* The first block of an update is block 1, and is accepted.
LEMMA FirstAccepted ==
    ASSUME NEW m \in Msg, Booted, job = NoJob, ram.sm = "START", InSequence(m)
    PROVE  ~Repeated(m) /\ ~Strange(m)
  <1>1. ~Begun /\ snd # "done"
    BY DEF Begun, Booted
  <1>2. Taken = 0
    BY <1>1 DEF Booted, Area
  <1>3. m.data = 1 /\ 1 <= Blocks
    BY <1>2, BootConstants DEF InSequence
  <1>4. m.pn # ram.lastPn /\ m.pn = (ram.lastPn + 1) % PnMod /\ Page(m) + m.pn = 1
    BY <1>1, <1>2, <1>3 DEF InSequence
  <1>5. ~Repeated(m)
    BY <1>4 DEF Repeated
  <1>6. ~(Page(m) + m.pn > Blocks)
    BY <1>3, <1>4, BootConstants
  <1>7. ~Strange(m)
    BY <1>4, <1>6 DEF Strange
  <1> QED
    BY <1>5, <1>7

\* The monitor is about to start the program only when nothing is left to write.
LEMMA FinishIdleKeeps ==
    ASSUME Following, FinishIdle, [Next]_vars
    PROVE  FinishIdle'
  <1> SUFFICES ASSUME Undisturbed', ram'.mon = "finish" PROVE job' = NoJob
    BY DEF FinishIdle
  <1>1. Types /\ TypeOK /\ Keyed /\ resets \in Nat
    BY DEF Following, Types, BootInv
  <1>2. CASE Reset \/ Overrun
    BY <1>1, <1>2 DEF Reset, Overrun, Undisturbed
  <1>3. CASE DeviceRestarts
    BY <1>1, <1>3, BootRamNumbers DEF DeviceRestarts, Restarted, TypeOK
  <1>4. CASE Programmed
    BY <1>4 DEF Programmed, Program
  <1>5. CASE Tick
    BY <1>5 DEF Tick, MonitorTick
  <1>6. CASE Handle
    <2>1. Undisturbed
      BY <1>6 DEF Handle, Undisturbed
    <2>2. PICK m \in Msg : Handled(m)
      BY <1>6, <2>1, HandledInStep
    <2>3. CASE Accepted(m)
      <3>1. Sound(m) /\ m.pn = (ram.lastPn + 1) % PnMod /\ ram.mon = "finish"
        BY <2>3 DEF Accepted
      <3>2. snd = "done" /\ m.data = Taken + 1 /\ m.data \in 1..N
        BY <1>1, <2>2, <3>1 DEF Keyed, Handled, InSequence
      <3>3. Taken = N
        BY <3>2 DEF Taken
      <3> QED
        BY <3>2, <3>3, FirmwareConstants, BootConstants
    <2> QED
      BY <2>2, <2>3 DEF Handled, Rejected, Repeated, Strange, Ended, Unwritten
  <1>7. CASE UNCHANGED <<ram, job, resets, surplus>>
    BY <1>7 DEF FinishIdle, Undisturbed
  <1>8. ASSUME Next, ~(Handle \/ Programmed \/ Tick \/ DeviceRestarts \/ Reset \/ Overrun)
        PROVE  UNCHANGED <<ram, job, resets, surplus>>
    BY <1>8 DEF Next, CheckVersion, TakeVersion, VersionTimeout, Notify, TakeConsent,
       ConsentTimeout, SkipAnswer, AnswerVersion, Agree, Refuse, RequestInBoot, RequestLost,
       Write, LostWrite, FailedWrite, CountAttempt, TakeByte, Timeout, WriteEot, FailedEot,
       ForwardBlock, ForwardEot, GiveUpBlock, GiveUpEot, Ask, bootVars
  <1> QED
    BY <1>2, <1>3, <1>4, <1>5, <1>6, <1>7, <1>8 DEF vars

\* The area, block by block and as a whole.
LEMMA FirstBlocks ==
    ASSUME NEW f \in [0..(Blocks - 1) -> Contents], NEW n \in 0..N,
           \A b \in 0..(Blocks - 1) : f[b] = IF b < n THEN Image(b) ELSE Erased
    PROVE  f = T!First(n)
  <1>1. f = [b \in 0..(Blocks - 1) |-> f[b]]
    OBVIOUS
  <1>2. ASSUME NEW b \in 0..(Blocks - 1)
        PROVE  f[b] = IF b < n THEN [c \in 0..(N - 1) |-> Image(c)][b] ELSE Erased
    BY FirmwareConstants, BootConstants
  <1> QED
    BY <1>1, <1>2 DEF T!First

\* The area of a board in step with its sender.
LEMMA AreaBlocks ==
    ASSUME Types, Booted, Begun
    PROVE  /\ Taken \in 0..N
           /\ job = NoJob => flash = T!First(Taken)
           /\ job # NoJob => Taken - 1 \in 0..(N - 1) /\ flash = T!First(Taken - 1)
  <1>1. /\ Taken \in Int /\ Taken <= N /\ flash \in [0..(Blocks - 1) -> Contents] /\ N \in Nat
        /\ job \in Jobs \union {NoJob} /\ k \in Nat /\ Taken \in {k, k + 1}
    BY FirmwareConstants, BootConstants DEF Booted, Numbers, Types, BootInv, TypeOK
  <1>2. \A b \in 0..(Blocks - 1) : flash[b] = IF b < Taken /\ b # job.block THEN Image(b) ELSE Erased
    BY DEF Booted, Area
  <1>3. Taken \in 0..N
    BY <1>1
  <1>4. ASSUME job = NoJob PROVE flash = T!First(Taken)
    <2>1. job.block = -1
      BY <1>4 DEF NoJob
    <2>2. \A b \in 0..(Blocks - 1) : flash[b] = IF b < Taken THEN Image(b) ELSE Erased
      BY <1>2, <2>1, BootConstants
    <2> QED
      BY <1>1, <1>3, <2>2, FirstBlocks
  <1>5. ASSUME job # NoJob PROVE Taken - 1 \in 0..(N - 1) /\ flash = T!First(Taken - 1)
    <2>1. job.block = Taken - 1 /\ job.block \in 0..(Blocks - 1)
      BY <1>1, <1>5 DEF Booted, Area, Jobs
    <2>2. Taken - 1 \in 0..N /\ Taken - 1 \in 0..(N - 1)
      BY <1>1, <2>1, BootConstants
    <2>3. \A b \in 0..(Blocks - 1) : flash[b] = IF b < Taken - 1 THEN Image(b) ELSE Erased
      BY <1>1, <1>2, <2>1, BootConstants
    <2> QED
      BY <1>1, <2>2, <2>3, FirstBlocks
  <1> QED
    BY <1>3, <1>4, <1>5

\* Entering the bootloader, or having its monitor start the program.
LEMMA MonitorMapped ==
    ASSUME Following, Undisturbed, run = "boot", key, job = NoJob, flash' = flash, k' = k, Undisturbed',
           \/ run' = run
           \/ run' = "app" /\ (ram.mon = "finish" \/ ram.sm = "INIT")
    PROVE  MappedStep
  <1> USE DEF MappedStep
  <1>1. Types /\ Keyed /\ InStep
    BY DEF Following
  <1>2. CASE run' = run
    BY <1>2 DEF T!transferVars
  <1>3. CASE run' = "app" /\ (ram.mon = "finish" \/ ram.sm = "INIT")
    <2>1. snd = "done" /\ ram.sm # "START" /\ k = N
      BY <1>1, <1>3 DEF Keyed, Types
    <2>2. Begun /\ Booted
      BY <1>1, <2>1 DEF InStep, Begun, Booted
    <2>3. flash = T!First(N)
      BY <1>1, <2>1, <2>2, AreaBlocks DEF Taken
    <2>4. T!Start
      BY <1>3, <2>1, <2>3 DEF T!Start
    <2> QED
      BY <1>1, <2>4 DEF T!Next
  <1> QED
    BY <1>2, <1>3

\* A message opens the area, or leaves it as it is.
LEMMA HandleMapped ==
    ASSUME Following, Undisturbed, Handle
    PROVE  MappedStep
  <1> USE DEF MappedStep
  <1>1. PICK m \in Msg : Handled(m)
    BY HandledInStep
  <1>2. run = "boot" /\ key /\ job = NoJob /\ k' = k /\ Undisturbed'
    BY <1>1 DEF Handled, Handle, sndVars, Undisturbed
  <1>3. ASSUME NEW sm, NEW pn, NEW page, Went(sm, pn, page), sm = "INIT" => ram.sm = "INIT",
               flash' = flash
        PROVE  MappedStep
    <2>1. run' = run \/ (run' = "app" /\ (ram.mon = "finish" \/ ram.sm = "INIT"))
      BY <1>3 DEF Went
    <2> QED
      BY <1>2, <1>3, <2>1, MonitorMapped
  <1>4. CASE Rejected(m)
    <2> DEFINE sm == IF m.head # "SOH" \/ ram.sm = "START" THEN ram.sm ELSE "TRYAGAIN"
    <2>1. Went(sm, ram.lastPn, ram.pnPage) /\ flash' = flash /\ (sm = "INIT" => ram.sm = "INIT")
      BY <1>4 DEF Rejected, Unwritten
    <2> HIDE DEF sm
    <2> QED
      BY <1>3, <2>1
  <1>5. CASE Ended(m)
    <2>1. Went("FINISHED", ram.lastPn, 0) /\ flash' = flash
      BY <1>5 DEF Ended, Unwritten
    <2> QED
      BY <1>3, <2>1
  <1>6. CASE Repeated(m) \/ Strange(m)
    <2>1. Sound(m) /\ Booted /\ InSequence(m)
      BY <1>1, <1>6 DEF Handled, Repeated, Strange
    <2>2. ram.sm # "START"
      BY <1>2, <1>6, <2>1, FirstAccepted
    <2>3. flash' = flash
      BY <1>6, <2>2 DEF Repeated, Strange, FlashOpened
    <2>4. PICK sm \in {"PROGRAMING", "TRYAGAIN"} : \E pn, page : Went(sm, pn, page)
      BY <1>6 DEF Repeated, Strange
    <2> QED
      BY <1>3, <2>3, <2>4
  <1>7. CASE Accepted(m)
    <2>1. Sound(m) /\ Booted /\ run' = run /\ flash' = FlashOpened
      BY <1>1, <1>7 DEF Handled, Accepted
    <2>2. CASE ram.sm # "START"
      BY <1>2, <2>1, <2>2 DEF FlashOpened, T!transferVars
    <2>3. CASE ram.sm = "START"
      <3>1. ~Begun /\ snd # "done"
        BY <1>2, <2>1, <2>3 DEF Begun, Booted
      <3>2. Taken = 0 /\ Untouched /\ k = 0
        BY <2>1, <3>1 DEF Booted, Area, Numbers, Following, Types
      <3>3. flash = T!OldProgram
        BY <3>2 DEF Untouched, T!OldProgram, Following, Types, BootInv, TypeOK
      <3>4. flash' = [b \in 0..(Blocks - 1) |-> Erased]
        BY <2>1, <2>3 DEF FlashOpened, Following, Types, BootInv, TypeOK
      <3>5. flash' = T!First(0)
        BY <3>4 DEF T!First
      <3>6. T!Erase
        BY <1>2, <2>1, <3>2, <3>3, <3>5 DEF T!Erase
      <3> QED
        BY <1>2, <3>6 DEF T!Next
    <2> QED
      BY <2>2, <2>3
  <1> QED
    BY <1>1, <1>4, <1>5, <1>6, <1>7 DEF Handled

\* The block taken is written into its place, once.
LEMMA ProgrammedMapped ==
    ASSUME Following, FinishIdle, Undisturbed, Programmed
    PROVE  MappedStep
  <1>1. /\ run = "boot" /\ job # NoJob /\ job' = NoJob
        /\ flash' = IF flash[job.block] = Erased
                    THEN [flash EXCEPT ![job.block] = job.data] ELSE flash
        /\ Conclude(ram, None, ram, "PROGRAMING")
        /\ k' = k /\ Undisturbed'
    BY DEF Programmed, Program, sndVars, Undisturbed
  <1>2. /\ Types /\ InStep /\ ram \in Ram /\ k \in Nat
        /\ job.block \in 0..(Blocks - 1) /\ flash \in [0..(Blocks - 1) -> Contents]
    BY <1>1 DEF Following, Types, BootInv, TypeOK, Jobs
  <1>3. Booted /\ Begun
    BY <1>1, <1>2 DEF InStep, Booted, Over, Begun
  <1>4. /\ job.block = Taken - 1 /\ job.data = Image(Taken - 1)
        /\ \A b \in 0..(Blocks - 1) :
              flash[b] = IF b < Taken /\ b # job.block THEN Image(b) ELSE Erased
        /\ Taken \in {k, k + 1}
    BY <1>1, <1>3 DEF Booted, Area, Numbers
  <1>5. Taken - 1 \in 0..(N - 1) /\ Taken \in 0..N /\ flash = T!First(Taken - 1)
    BY <1>1, <1>2, <1>3, AreaBlocks
  <1>6. flash' = [flash EXCEPT ![job.block] = job.data]
    BY <1>1, <1>2, <1>4
  <1>7. flash' = T!First(Taken)
    <2>1. flash' \in [0..(Blocks - 1) -> Contents]
      <3>1. TypeOK'
        BY <1>2, EveryStep DEF Programmed, BootNext, Step, Types, BootInv
      <3> QED
        BY <3>1 DEF TypeOK
    <2>2. \A b \in 0..(Blocks - 1) : flash'[b] = IF b < Taken THEN Image(b) ELSE Erased
      BY <1>2, <1>4, <1>5, <1>6, BootConstants, FirmwareConstants
    <2> QED
      BY <1>5, <2>1, <2>2, FirstBlocks
  <1>8. run' = run
    <2>1. Went("PROGRAMING", ram.lastPn, ram.pnPage)
      BY <1>1, <1>2, ConcludeWent DEF States
    <2>2. ram.mon # "finish"
      BY <1>1 DEF FinishIdle
    <2> QED
      BY <2>1, <2>2 DEF Went
  <1>9. T!WriteBlock(Taken - 1)
    <2>1. (Taken - 1) + 1 = Taken /\ k \in {Taken - 1, (Taken - 1) + 1}
      BY <1>2, <1>4, <1>5, FirmwareConstants, BootConstants
    <2> QED
      BY <1>1, <1>5, <1>7, <1>8, <2>1 DEF T!WriteBlock
  <1> QED
    BY <1>1, <1>5, <1>9 DEF MappedStep, T!Next

\* The sender moves on when the board has the block, or is about to write it.
LEMMA TakeByteMapped ==
    ASSUME Following, Undisturbed, TakeByte
    PROVE  MappedStep
  <1> USE DEF MappedStep
  <1>1. /\ snd = "wait" /\ line # <<>> /\ UNCHANGED <<flash, run>> /\ Undisturbed'
        /\ IF Head(line) = "ACK" THEN k' = k + 1 ELSE k' = k
    BY DEF TakeByte, Undisturbed, sndVars
  <1>2. Types /\ InStep /\ line \in Seq(Replies) /\ k \in Nat /\ k < N
    BY <1>1 DEF Following, Types, BootInv, TypeOK
  <1>3. CASE k' = k
    BY <1>1, <1>3 DEF T!transferVars
  <1>4. CASE Head(line) = "ACK" /\ k' = k + 1
    <2>1. 1 \in DOMAIN line /\ line[1] = "ACK"
      BY <1>1, <1>2, <1>4
    <2>2. Booted
      BY <1>1, <1>2, <2>1 DEF InStep, NotBooted, Booted
    <2>3. Taken = k + 1
      BY <1>1, <2>1, <2>2 DEF Booted, Numbers
    <2>4. Begun
      BY <1>2, <2>2, <2>3 DEF Booted, Area
    <2>5. flash = T!First(k) \/ flash = T!First(k + 1)
      <3>1. Taken - 1 = k
        BY <1>2, <2>3
      <3> QED
        BY <1>2, <2>2, <2>3, <2>4, <3>1, AreaBlocks
    <2>6. T!Advance
      BY <1>1, <1>2, <1>4, <2>2, <2>5 DEF T!Advance, Booted
    <2> QED
      BY <1>1, <2>6 DEF T!Next
  <1> QED
    BY <1>1, <1>3, <1>4

\* Every step is a step of the transfer or none.
LEMMA StepMapped ==
    ASSUME Following, FinishIdle, [Next]_vars
    PROVE  MappedStep
  <1> USE DEF MappedStep
  <1>1. Types /\ TypeOK /\ resets \in Nat /\ k \in 0..N /\ N \in Nat
    BY FirmwareConstants, BootConstants DEF Following, Types, BootInv
  <1>2. ASSUME Next, ~(Handle \/ Programmed \/ Tick \/ DeviceRestarts \/ Reset \/ Overrun \/ TakeByte)
        PROVE  UNCHANGED <<flash, run, k, resets, surplus>>
    BY <1>2 DEF Next, CheckVersion, TakeVersion, VersionTimeout, Notify, TakeConsent,
       ConsentTimeout, SkipAnswer, AnswerVersion, Agree, Refuse, RequestInBoot, RequestLost,
       Write, LostWrite, FailedWrite, CountAttempt, Timeout, WriteEot, FailedEot,
       ForwardBlock, ForwardEot, GiveUpBlock, GiveUpEot, Ask, bootVars, sndVars
  <1>3. CASE UNCHANGED <<flash, run, k, resets, surplus>>
    BY <1>3 DEF T!transferVars, Undisturbed
  <1>4. ASSUME ~Undisturbed', k' \in {k, k + 1}, k' \in 0..N, run = "app" => flash' = flash
        PROVE  MappedStep
    BY <1>4 DEF T!Next, T!Cut
  <1>5. CASE Reset \/ Overrun
    <2>1. k' = k /\ ~Undisturbed'
      BY <1>1, <1>5 DEF Reset, Overrun, Undisturbed, sndVars
    <2>2. run = "app" => flash' = flash
      BY <1>5 DEF Reset, Overrun, Crash, Restarted, CrashInErase, Handles
    <2> QED
      BY <1>1, <1>4, <2>1, <2>2
  <1>6. CASE ~Undisturbed' /\ (Handle \/ Programmed \/ Tick \/ DeviceRestarts \/ TakeByte)
    <2>2. k' \in {k, k + 1}
      BY <1>6 DEF Handle, Programmed, Tick, DeviceRestarts, TakeByte, sndVars
    <2>3. k' \in 0..N
      <3>1. Types'
        BY FollowingKeeps DEF Following
      <3> QED
        BY <3>1 DEF Types
    <2>4. run = "app" => flash' = flash
      BY <1>6 DEF Handle, Receive, CheckFails, Duplicate, WrongNumber, OverLength, Acknowledge,
         EndOfTransfer, Quit, StopStartup, GoToApp, Ignore, Handles, Programmed, Program,
         Tick, MonitorTick, DeviceRestarts, Restarted, TakeByte
    <2> QED
      BY <1>4, <1>6, <2>2, <2>3, <2>4
  <1>11. ASSUME Undisturbed', Handle \/ Programmed \/ Tick \/ DeviceRestarts \/ TakeByte
         PROVE  Undisturbed
    <2>1. resets' = resets
      BY <1>11 DEF Handle, Programmed, Tick, DeviceRestarts, TakeByte
    <2>2. surplus => surplus'
      BY <1>11, Zenon DEF Handle, Programmed, Tick, DeviceRestarts, TakeByte
    <2> QED
      BY <1>11, <2>1, <2>2 DEF Undisturbed
  <1>7. CASE Undisturbed' /\ DeviceRestarts
    <2>1. /\ run = "app" /\ run' = "boot" /\ UNCHANGED <<flash, k>>
      BY <1>7 DEF DeviceRestarts, Restarted, sndVars
    <2>2. k \in {0, N}
      BY <1>1, <1>7, <1>11, <2>1 DEF Following, InStep, NotBooted, Types
    <2>3. T!Enter
      BY <1>7, <1>11, <2>1, <2>2 DEF T!Enter
    <2> QED
      BY <1>7, <1>11, <2>3 DEF T!Next
  <1>8. CASE Undisturbed' /\ Tick
    <2>1. /\ run = "boot" /\ job = NoJob /\ UNCHANGED <<flash, k>> /\ Wake(ram, None, ram)
      BY <1>8 DEF Tick, MonitorTick, sndVars
    <2>2. Undisturbed /\ Keyed /\ ram \in Ram /\ ram.sm # "CANCEL"
      BY <1>1, <1>8, <1>11 DEF Following, Keyed, TypeOK
    <2>3. key
      BY <2>1, <2>2 DEF Following, InStep, Over, Begun, Keyed
    <2>4. run' = run \/ (run' = "app" /\ (ram.mon = "finish" \/ ram.sm = "INIT"))
      BY <2>1, <2>2, WakeNumbers DEF Passed
    <2> QED
      BY <1>8, <2>1, <2>2, <2>3, <2>4, MonitorMapped
  <1>9. CASE Undisturbed' /\ (Handle \/ Programmed \/ TakeByte)
    BY <1>9, <1>11, HandleMapped, ProgrammedMapped, TakeByteMapped
  <1>10. CASE UNCHANGED vars
    BY <1>3, <1>10 DEF vars
  <1> QED
    BY <1>2, <1>3, <1>5, <1>6, <1>7, <1>8, <1>9, <1>10

\* An update is a transfer until the board is reset or an ACK comes too many: whatever
\* the line loses, damages and repeats, the program area goes from the old program over
\* the erased area and each first part of the image to the whole of it, and none but the
\* first and the last of these is started.
THEOREM Refinement == Spec => IsTransfer
  <1>1. Init => FinishIdle
    BY BootRamNumbers DEF Init, FinishIdle
  <1>2. TransferInv /\ FinishIdle /\ [Next]_vars => FinishIdle'
    BY FinishIdleKeeps DEF TransferInv
  <1>3. Spec => []FinishIdle
    BY <1>1, <1>2, TransferInvariant, PTL DEF Spec
  <1>4. Init => T!Init
    BY DEF Init, T!Init, T!OldProgram, Undisturbed
  <1>5. TransferInv /\ FinishIdle /\ [Next]_vars => [T!Next]_(T!transferVars)
    BY StepMapped DEF TransferInv, MappedStep
  <1> QED
    BY <1>3, <1>4, <1>5, TransferInvariant, PTL DEF Spec, IsTransfer, T!Spec

=============================================================================
