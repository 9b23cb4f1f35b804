------------------------------ MODULE BootUpdate ------------------------------
(***************************************************************************)
(* The bootloader's XMODEM receiver: boot_updateTask, which handles the    *)
(* messages of a host, and updateMonitor, which counts seconds, repeats    *)
(* handshakes and acknowledgements and starts the application.             *)
(*                                                                         *)
(* The update task suspends the monitor while it handles a message and     *)
(* resumes it afterwards.  Resuming also ends the monitor's delay, so each *)
(* message is followed at once by one pass of the monitor's loop: the two  *)
(* are one step here.  The exception is a block that is accepted: it is    *)
(* acknowledged first and programmed afterwards, in a step of its own.     *)
(*                                                                         *)
(* ram is what a reset loses; flash and key (the I2C_UPDATE_KEYS backup    *)
(* register) are what it does not.                                         *)
(***************************************************************************)
EXTENDS Integers, Sequences, FiniteSets

CONSTANTS
    PnMod,      \* block numbers are counted modulo PnMod: 256
    Blocks,     \* ADDRESS_APP_LEN in blocks of XMODEM_PAKGE_LENGTH
    Data,       \* contents of a block
    Old, Erased, Torn,  \* contents before an update, after erasing, half programmed
    HostChannel,  \* the channel the host listens on
    JumpDelay,  \* seconds until INIT gives up: 2, or 120 after a reset by the application
    LineLen,    \* messages the host can have waiting
    LosesAcks   \* whether a message to the host may get lost

Channels == {"serial", "primary", "secondary"}

ASSUME BootConstants ==
    /\ PnMod \in Nat \ {0, 1}
    /\ Blocks \in Nat \ {0}
    /\ HostChannel \in Channels
    /\ JumpDelay \in Nat
    /\ LineLen \in Nat
    /\ LosesAcks \in BOOLEAN
    /\ Erased \notin Data /\ Old # Erased /\ Torn # Erased

ResendTimeout == 3     \* RESEND_TIMEOUT, in passes of the monitor

States == {"INIT", "START", "PROGRAMING", "FINISHED", "TRYAGAIN", "CANCEL"}
Checks == {"sum", "crc"}
Replies == {"ACK", "NAK", "C"}
None == "none"

\* A message of the host: sum says which check it passes.
Msg == [head : {"SOH", "EOT", "q", "u", "a", "other"}, pn : 0..(PnMod - 1),
        data : Data, sum : Checks \union {"bad"}, ch : Channels]

VARIABLES
    ram,     \* the state of the two tasks
    job,     \* the block acknowledged and not yet programmed, or NoJob
    flash,   \* the application area
    key,     \* I2C_UPDATE_KEYS is in the backup register
    run,     \* "boot", or "app" once update_JumpToRun is called
    line     \* messages on their way to the host

bootVars == <<ram, job, flash, key, run, line>>

NoJob == [block |-> -1, data |-> Old]

\* RAM after a reset.  The monitor runs before the first message: with the key
\* in place it starts at once.
BootRam(k) ==
    [sm |-> IF k THEN "START" ELSE "INIT", resend |-> 0, crc |-> "sum",
     channel |-> "serial", confirmed |-> FALSE, lastPn |-> 0, pnPage |-> 0, mon |-> "first"]

BootInit ==
    /\ key \in BOOLEAN
    /\ ram = BootRam(key)
    /\ job = NoJob
    /\ flash = [b \in 0..(Blocks - 1) |-> Old]
    /\ run = "boot"
    /\ line = <<>>

----------------------------------------------------------------------------
\* boot_sendMsg2Dev: the byte goes out on the channel in use; as long as no
\* channel is confirmed the next one goes out on the next channel.

NextChannel(c) ==
    CASE c = "primary" -> "secondary"
      [] c = "secondary" -> "serial"
      [] c = "serial" -> "primary"

RotateAlways(r) == [r EXCEPT !.channel = NextChannel(@)]    \* mutant

Rotate(r) == IF r.confirmed THEN r ELSE [r EXCEPT !.channel = NextChannel(@)]

\* r is the RAM the byte is sent from.  The host hears its own channel.
Emit(r, byte) ==
    \/ /\ byte # None /\ r.channel = HostChannel /\ Len(line) < LineLen
       /\ line' = Append(line, byte)
    \/ /\ byte = None \/ r.channel # HostChannel \/ Len(line) = LineLen \/ LosesAcks
       /\ line' = line

----------------------------------------------------------------------------
\* updateMonitor

\* The last byte sent may or may not be out when the task that sent it ends.
LastByte(s, byte) == Emit(s, byte) \/ UNCHANGED line

\* update_JumpToRun, after the key is cleared.
Jump(s, byte) ==
    /\ run' = "app"
    /\ key' = FALSE
    /\ LastByte(s, byte)
    /\ UNCHANGED ram

\* NVIC_SystemReset: the key stays.
Reboot(s, byte) ==
    /\ ram' = BootRam(key)
    /\ LastByte(s, byte)
    /\ UNCHANGED <<key, run>>

OtherCheck(c) == IF c = "sum" THEN "crc" ELSE "sum"

\* One pass of the loop on RAM r, after the byte that the update task sent from
\* RAM s.  A pass that sends a byte of its own never follows one.
Pass(s, byte, r) ==
    LET n == r.resend + 1
        counted == [r EXCEPT !.resend = n]
    IN
    \/ /\ r.sm = "INIT" /\ n < JumpDelay
       /\ ram' = counted
       /\ Emit(s, byte)
       /\ UNCHANGED <<key, run>>
    \/ /\ r.sm = "INIT" /\ n >= JumpDelay
       /\ Jump(s, byte)
    \/ /\ r.sm \in {"TRYAGAIN", "PROGRAMING"} /\ n < ResendTimeout
       /\ ram' = counted
       /\ Emit(s, byte)
       /\ UNCHANGED <<key, run>>
    \/ /\ r.sm \in {"TRYAGAIN", "PROGRAMING"} /\ n >= ResendTimeout
       /\ ram' = Rotate([r EXCEPT !.resend = 0])
       /\ Emit(r, IF r.sm = "TRYAGAIN" THEN "NAK" ELSE "ACK")
       /\ UNCHANGED <<key, run>>
    \/ /\ r.sm = "START"
       /\ ram' = Rotate([r EXCEPT !.resend = 0, !.crc = OtherCheck(@)])
       /\ Emit(r, IF r.crc = "sum" THEN "C" ELSE "NAK")
       /\ UNCHANGED <<key, run>>
    \/ /\ r.sm = "FINISHED"
       /\ ram' = [counted EXCEPT !.mon = "finish"]
       /\ Emit(s, byte)
       /\ UNCHANGED <<key, run>>
    \/ /\ r.sm = "CANCEL"
       /\ Reboot(s, byte)

\* The monitor leaves the delay it is in: the one before its loop, the one in
\* its loop, or the one before the jump.
Wake(s, byte, r) ==
    \/ /\ r.mon = "first"
       /\ ram' = [r EXCEPT !.mon = "loop"]
       /\ Emit(s, byte)
       /\ UNCHANGED <<key, run>>
    \/ /\ r.mon = "loop"
       /\ Pass(s, byte, r)
    \/ /\ r.mon = "finish"
       /\ Jump(s, byte)

\* A delay of the monitor ends by itself; it is suspended while a block is
\* being programmed.
MonitorTick ==
    /\ run = "boot" /\ job = NoJob
    /\ Wake(ram, None, ram)
    /\ UNCHANGED <<job, flash>>

----------------------------------------------------------------------------
\* boot_updateTask and boot_ProcessUpdateReq

\* The rest of the task's loop: the state is set, the count restarted, the
\* monitor resumed.  The byte was sent from RAM s.
Conclude(s, byte, r, sm) ==
    Wake(s, byte, [r EXCEPT !.sm = sm, !.resend = IF sm = "INIT" THEN @ ELSE 0])

\* A handler that sends byte from r and returns sm.
SendAndReturn(r, byte, sm) == Conclude(r, byte, Rotate(r), sm)

Handles(m, head) == run = "boot" /\ job = NoJob /\ m.head = head

AnyCheckPasses(m) == m.head = "SOH"    \* mutant

\* In START either check will do, and it decides which one is used from then on.
PassesCheck(m) == m.sum = ram.crc \/ (ram.sm = "START" /\ m.sum \in Checks)

CheckFails(m) ==
    /\ Handles(m, "SOH") /\ ~PassesCheck(m)
    /\ IF ram.sm = "START" THEN Conclude(ram, None, ram, "START")
                           ELSE SendAndReturn(ram, "NAK", "TRYAGAIN")
    /\ UNCHANGED <<job, flash>>

\* The first sound block of an update confirms the channel and erases.
Opened(m) ==
    IF ram.sm = "START"
    THEN [ram EXCEPT !.crc = m.sum, !.confirmed = TRUE, !.channel = m.ch] ELSE ram

EraseOnAnySound == [b \in DOMAIN flash |-> Erased]    \* mutant

FlashOpened ==
    IF ram.sm = "START" THEN [b \in DOMAIN flash |-> Erased] ELSE flash

AcknowledgedAgain(m) ==    \* mutant
    /\ Handles(m, "SOH") /\ PassesCheck(m)
    /\ m.pn = ram.lastPn
    /\ SendAndReturn(Opened(m), "ACK", "PROGRAMING")
    /\ flash' = FlashOpened
    /\ UNCHANGED job

\* A block that has come already is not acknowledged again.
Duplicate(m) ==
    /\ Handles(m, "SOH") /\ PassesCheck(m)
    /\ m.pn = ram.lastPn
    /\ Conclude(ram, None, Opened(m), "PROGRAMING")
    /\ flash' = FlashOpened
    /\ UNCHANGED job

WrongNumber(m) ==
    /\ Handles(m, "SOH") /\ PassesCheck(m)
    /\ m.pn # ram.lastPn /\ m.pn # (ram.lastPn + 1) % PnMod
    /\ Conclude(ram, None, Opened(m), "TRYAGAIN")
    /\ flash' = FlashOpened
    /\ UNCHANGED job

PageForgotten(m) == [Opened(m) EXCEPT !.lastPn = m.pn]    \* mutant

\* The next number is taken over before the address is checked.
Numbered(m) ==
    [Opened(m) EXCEPT !.lastPn = m.pn, !.pnPage = IF m.pn = 0 THEN @ + PnMod ELSE @]

BlocksFromOne(r) == r.pnPage + r.lastPn    \* mutant

\* startAddr, as a block number
BlockOf(r) == r.pnPage + r.lastPn - 1

InAppArea(m) == m.pn = (ram.lastPn + 1) % PnMod /\ BlockOf(Numbered(m)) < Blocks

OverLength(m) ==
    /\ Handles(m, "SOH") /\ PassesCheck(m)
    /\ m.pn = (ram.lastPn + 1) % PnMod /\ ~InAppArea(m)
    /\ SendAndReturn(Numbered(m), "NAK", "TRYAGAIN")
    /\ flash' = FlashOpened
    /\ UNCHANGED job

\* The block is acknowledged; boot_updateTask goes on to program it.
Acknowledge(m) ==
    /\ Handles(m, "SOH") /\ PassesCheck(m)
    /\ InAppArea(m)
    /\ ram' = Rotate(Numbered(m))
    /\ Emit(Numbered(m), "ACK")
    /\ flash' = FlashOpened
    /\ job' = [block |-> BlockOf(Numbered(m)), data |-> m.data]
    /\ UNCHANGED <<key, run>>

\* FLASH_Program: only an erased word takes a value, and the result of
\* fmc_word_program is not looked at.
Program ==
    /\ run = "boot" /\ job # NoJob
    /\ flash' = IF flash[job.block] = Erased
                THEN [flash EXCEPT ![job.block] = job.data] ELSE flash
    /\ job' = NoJob
    /\ Conclude(ram, None, ram, "PROGRAMING")

EndOfTransfer(m) ==
    /\ Handles(m, "EOT")
    /\ SendAndReturn([ram EXCEPT !.pnPage = 0], "ACK", "FINISHED")
    /\ UNCHANGED <<job, flash>>

Quit(m) ==
    /\ Handles(m, "q")
    /\ SendAndReturn([ram EXCEPT !.pnPage = 0], "ACK", "CANCEL")
    /\ UNCHANGED <<job, flash>>

RestartAnywhere == "START"    \* mutant

\* What 'u' leads to.
AfterU ==
    CASE ram.sm = "INIT" -> "START"
      [] ram.sm = "PROGRAMING" -> "CANCEL"
      [] OTHER -> ram.sm

StopStartup(m) ==
    /\ Handles(m, "u")
    /\ Conclude(ram, None, ram, AfterU)
    /\ UNCHANGED <<job, flash>>

GoToApp(m) ==
    /\ Handles(m, "a")
    /\ Conclude(ram, None, ram, IF ram.sm \in {"INIT", "START"} THEN "FINISHED" ELSE ram.sm)
    /\ UNCHANGED <<job, flash>>

Ignore(m) ==
    /\ Handles(m, "other")
    /\ Conclude(ram, None, ram, ram.sm)
    /\ UNCHANGED <<job, flash>>

Receive(m) ==
    \/ CheckFails(m) \/ Duplicate(m) \/ WrongNumber(m) \/ OverLength(m) \/ Acknowledge(m)
    \/ EndOfTransfer(m) \/ Quit(m) \/ StopStartup(m) \/ GoToApp(m) \/ Ignore(m)

\* Power is lost, or the watchdog bites: a block not yet programmed never is,
\* or not as a whole.
Crash ==
    /\ run = "boot"
    /\ Reboot(ram, None)
    /\ job' = NoJob
    /\ \/ UNCHANGED flash
       \/ /\ job # NoJob /\ flash[job.block] = Erased
          /\ flash' = [flash EXCEPT ![job.block] = Torn]

\* The same while boot_eraseAllPage goes over the pages.
CrashInErase(m) ==
    /\ Handles(m, "SOH") /\ PassesCheck(m) /\ ram.sm = "START"
    /\ Reboot(ram, None)
    /\ \E n \in 0..Blocks : flash' = [b \in DOMAIN flash |-> IF b < n THEN Erased ELSE flash[b]]
    /\ UNCHANGED job

----------------------------------------------------------------------------
\* The bootloader with a host that sends whatever it likes.

CONSTANT MaxPage    \* bound on pnPage

Inputs == {m \in Msg : m.pn = 0 => ram.pnPage + PnMod <= MaxPage}

HostReads ==
    /\ line # <<>>
    /\ line' = Tail(line)
    /\ UNCHANGED <<ram, job, flash, key, run>>

BootNext ==
    \/ \E m \in Inputs : Receive(m) \/ CrashInErase(m)
    \/ MonitorTick \/ Program \/ Crash \/ HostReads

BootSpec == BootInit /\ [][BootNext]_bootVars

Ram == [sm : States, resend : Nat, crc : Checks, channel : Channels, confirmed : BOOLEAN,
        lastPn : 0..(PnMod - 1), pnPage : Nat, mon : {"first", "loop", "finish"}]

Contents == Data \union {Old, Erased, Torn}

Jobs == [block : 0..(Blocks - 1), data : Data]

\* Every variable has its type.  That a job's block lies in the application area
\* is what keeps FLASH_Program off the bootloader itself: the check of startAddr
\* in boot_ProcessUpdateReq against page numbers that only ever grow.
TypeOK ==
    /\ ram \in Ram
    /\ job \in Jobs \union {NoJob}
    /\ flash \in [0..(Blocks - 1) -> Contents]
    /\ key \in BOOLEAN
    /\ run \in {"boot", "app"}
    /\ line \in Seq(Replies)

\* Once confirmed, and its first block programmed, the state machine has left the
\* states in which a block opens an update, and nothing leads back but a reset.
ConfirmedIsUnderWay ==
    ram.confirmed /\ job = NoJob /\ run = "boot" => ram.sm \notin {"INIT", "START"}

BootInv == TypeOK /\ ConfirmedIsUnderWay

\* The channel of the transfer, recorded with its first sound block, "will not be
\* changed in the future": neither a message from another channel nor a reply
\* that rotates channels changes it before a reset.
ChannelRecordedOnce ==
    [][ram.confirmed /\ ram'.confirmed => ram'.channel = ram.channel]_bootVars

\* The application area is erased once in an update: a block written stays as it
\* is however messages are repeated or muddled, until a reset.
ProgrammedStays ==
    [][ram.confirmed /\ ram'.confirmed =>
         \A b \in 0..(Blocks - 1) : flash[b] # Erased => flash'[b] = flash[b]]_bootVars

=============================================================================
