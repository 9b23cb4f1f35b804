---------------------------- MODULE FirmwareUpdate ----------------------------
(***************************************************************************)
(* The update of another board over the I2C bus: the update task           *)
(* (updateDev_task) asks the board's version, asks it to restart in its    *)
(* bootloader (BootUpdate) and sends it the image.                         *)
(*                                                                         *)
(* The task has suspended the message core and the upload task: what comes *)
(* in stays in the two receive queues until it reads it, line and fwdQ.    *)
(*                                                                         *)
(* On the sub device the I2C interrupt puts a block into RecvDatMsg_Queue  *)
(* and an EOT, whose bits look like those of a response, into              *)
(* RecvForwardI2CDatMsg_Queue; a task for each queue forwards its messages *)
(* to updateDatMsg_Queue, which holds one.  Acknowledgements come back on  *)
(* the same bus into the main board's RecvDatMsg_Queue: line.              *)
(***************************************************************************)
EXTENDS BootUpdate

CONSTANTS
    N,          \* blocks in the image
    Faults,     \* what may happen to a write: "bad", "lost" and "fail"
    QueueLen,   \* blocks RecvDatMsg_Queue can hold: 3
    MaxTries,   \* failed writes before the sender gives up
    Leftover,   \* what an earlier update of the same command may have left in line
    PerSecond,  \* attempts at a block that the sender makes in a second, at least
    MaxResets   \* bound on the sub device's resets

ASSUME FirmwareConstants ==
    /\ N \in 1..Blocks
    /\ Faults \subseteq {"bad", "lost", "fail"}
    /\ {QueueLen, MaxTries, PerSecond, MaxResets} \subseteq Nat
    /\ Leftover \subseteq Replies
    /\ Data = 0..N

VARIABLES
    snd,      \* what the update task is at, see Phases
    k,        \* packNum: the block the sender is at, from 0
    tries,    \* reSend
    asked,    \* the request on its way to the device
    fwdQ,     \* RecvForwardI2CDatMsg_Queue of the sender, which holds one answer
    inQ,      \* blocks in RecvDatMsg_Queue and in the hand of its task
    eotQ,     \* whether an EOT is in the other queue
    updQ,     \* updateDatMsg_Queue
    idle,     \* attempts that came to nothing since the monitor's last pass
    resets,   \* the sub device's resets so far
    surplus   \* whether an ACK came that the sender was not missing

sndVars == <<snd, k, tries>>
askVars == <<asked, fwdQ>>
inVars == <<inQ, eotQ, updQ>>
pastVars == <<idle, resets, surplus>>
vars == <<ram, job, flash, key, run, line, snd, k, tries, asked, fwdQ, inQ, eotQ, updQ,
          idle, resets, surplus>>

\* Asking, waiting for the answer, sending, and the ends of updateDev_task.
Asking == {"check", "hearVersion", "notify", "hearConsent"}
Phases == Asking \union {"write", "wait", "eot", "done", "skipped", "failed"}
Requests == {None, "version", "update"}

\* A reply to the suspended upload task, or to an earlier request, may be "late".
Answers == {None, "older", "newer", "agreed", "refused", "late"}

\* The content of the image's block b; 0 is a content damaged on the way.
Image(b) == b + 1

NoAck == \A i \in DOMAIN line : line[i] # "ACK"

\* A forced update leaves out the check of the version.
Init ==
    /\ run = "app" /\ key = FALSE
    /\ ram = BootRam(FALSE) /\ job = NoJob
    /\ flash = [b \in 0..(Blocks - 1) |-> Old]
    /\ line \in {<<>>} \union {<<b>> : b \in Leftover}
    /\ snd \in {"check", "notify"} /\ k = 0 /\ tries = 0
    /\ asked = None /\ fwdQ \in {None, "late"}
    /\ inQ = <<>> /\ eotQ = FALSE /\ updQ = <<>>
    /\ idle = 0 /\ resets = 0
    /\ surplus = ~NoAck

----------------------------------------------------------------------------
\* SendMsgAndWait of the update task: the first answer there is will do.

Ask(from, request, to) ==
    /\ snd = from
    /\ snd' = to
    /\ asked' = request
    /\ UNCHANGED <<bootVars, k, tries, fwdQ, inVars, pastVars>>

CheckVersion == Ask("check", "version", "hearVersion")

Notify == Ask("notify", "update", "hearConsent")

\* In an answer to something else the version is whatever the buffer holds.
TakeVersion ==
    /\ snd = "hearVersion" /\ fwdQ # None
    /\ fwdQ' = None
    /\ \/ fwdQ # "newer" /\ snd' = "notify"
       \/ fwdQ # "older" /\ snd' = "skipped"
    /\ UNCHANGED <<bootVars, k, tries, asked, inVars, pastVars>>

VersionTimeout ==
    /\ snd = "hearVersion" /\ fwdQ = None
    /\ snd' = "skipped"
    /\ UNCHANGED <<bootVars, k, tries, askVars, inVars, pastVars>>

Retries == 3

\* reSend is not initialised: any number of further attempts up to three.
NotifyAgain ==
    \/ /\ tries < Retries
       /\ snd' = "notify" /\ tries' = tries + 1
    \/ snd' = "failed" /\ UNCHANGED tries

\* Any answer whose completion code is normal is taken for consent.
TakeConsent ==
    /\ snd = "hearConsent" /\ fwdQ # None
    /\ fwdQ' = None
    /\ \/ fwdQ # "refused" /\ snd' = "write" /\ tries' = 0
       \/ fwdQ \in {"refused", "late"} /\ NotifyAgain
    /\ UNCHANGED <<bootVars, k, asked, inVars, pastVars>>

ConsentTimeout ==
    /\ snd = "hearConsent" /\ fwdQ = None
    /\ NotifyAgain
    /\ UNCHANGED <<bootVars, k, askVars, inVars, pastVars>>

\* The sender's interrupt handler: an answer the queue has no room for is gone.
Reply(a) == fwdQ' \in {IF fwdQ = None THEN a ELSE fwdQ, fwdQ}

\* The device's application; UpdateFirmware refuses if its queue stays full.
AnswerVersion ==
    /\ run = "app" /\ asked = "version"
    /\ asked' = None
    /\ Reply("older") \/ Reply("newer")
    /\ UNCHANGED <<bootVars, sndVars, inVars, pastVars>>

Agree ==
    /\ run = "app" /\ asked = "update"
    /\ asked' = None
    /\ key' = TRUE
    /\ Reply("agreed")
    /\ UNCHANGED <<ram, job, flash, run, line, sndVars, inVars, pastVars>>

Refuse ==
    /\ run = "app" /\ asked = "update"
    /\ asked' = None
    /\ Reply("refused")
    /\ UNCHANGED <<bootVars, sndVars, inVars, pastVars>>

RequestLost ==
    /\ asked # None
    /\ asked' = None
    /\ UNCHANGED <<bootVars, sndVars, fwdQ, inVars, pastVars>>

\* From the application into the bootloader, at once or with a pulse in between.
Restarted ==
    /\ run = "app"
    /\ run' = "boot" /\ ram' = BootRam(key)
    /\ UNCHANGED <<job, flash, key, line>>

\* The reset that UpdateFirmware has queued; the sender gives it 300 ms, and does
\* not know whether it has come.
DeviceRestarts ==
    /\ Restarted /\ key
    /\ inQ' = <<>> /\ eotQ' = FALSE /\ updQ' = <<>>
    /\ UNCHANGED <<sndVars, askVars, pastVars>>

----------------------------------------------------------------------------
\* The sender

Packet(sum) == [head |-> "SOH", pn |-> (k + 1) % PnMod, data |-> IF sum = "bad" THEN 0 ELSE Image(k),
                sum |-> sum, ch |-> HostChannel]

Eot == [head |-> "EOT", pn |-> 0, data |-> Image(0), sum |-> "sum", ch |-> HostChannel]

\* i2c_write reports success.  The interrupt drops a block its queue has no room
\* for; one more block can be in the task's hand.
Deliver(m) ==
    /\ run = "boot"
    /\ \/ Len(inQ) <= QueueLen /\ inQ' = Append(inQ, m)
       \/ Len(inQ) >= QueueLen /\ UNCHANGED inQ

\* A request that finds the device in its bootloader is forwarded like a block and
\* ignored.
RequestInBoot ==
    /\ asked # None
    /\ asked' = None
    /\ Deliver([Eot EXCEPT !.head = "other"])
    /\ UNCHANGED <<bootVars, sndVars, fwdQ, eotQ, updQ, pastVars>>

Write(sum) ==
    /\ snd = "write"
    /\ sum = "sum" \/ sum \in Faults
    /\ Deliver(Packet(sum))
    /\ snd' = "wait"
    /\ UNCHANGED <<bootVars, k, tries, askVars, eotQ, updQ, pastVars>>

\* The device acknowledged the bytes and did not get the block.
LostWrite ==
    /\ snd = "write" /\ "lost" \in Faults
    /\ snd' = "wait"
    /\ UNCHANGED <<bootVars, k, tries, askVars, inVars, pastVars>>

\* An attempt at the block has come to nothing.
CountAttempt ==
    /\ idle' = IF idle < PerSecond THEN idle + 1 ELSE idle
    /\ UNCHANGED <<resets, surplus>>

\* Only failed writes are counted, for each block anew.
WriteFails ==
    IF tries > MaxTries THEN snd' = "failed" /\ UNCHANGED tries
                        ELSE tries' = tries + 1 /\ UNCHANGED snd

FailedWrite ==
    /\ snd = "write" /\ "fail" \in Faults
    /\ WriteFails
    /\ CountAttempt
    /\ UNCHANGED <<bootVars, k, askVars, inVars>>

\* A block is longer than the buffer of an application.  Its interrupt, which no
\* longer reads, stays pending: the write does not end, no task runs any more, and
\* the watchdog restarts the device.
Overrun ==
    /\ snd = "write" /\ run = "app"
    /\ WriteFails
    /\ resets < MaxResets /\ resets' = resets + 1
    /\ Restarted
    /\ inQ' = <<>> /\ eotQ' = FALSE /\ updQ' = <<>>
    /\ UNCHANGED <<k, askVars, idle, surplus>>

AnyByteIsAck ==    \* mutant
    /\ snd = "wait" /\ line # <<>>
    /\ line' = Tail(line)
    /\ k' = k + 1 /\ tries' = 0
    /\ snd' = IF k + 1 = N THEN "eot" ELSE "write"
    /\ UNCHANGED <<ram, job, flash, key, run, askVars, inVars, pastVars>>

\* updateDev_decodeMsg: an ACK is taken for the block at hand, whichever it is
\* the ACK of; anything else is skipped.
TakeByte ==
    /\ snd = "wait" /\ line # <<>>
    /\ line' = Tail(line)
    /\ IF Head(line) = "ACK"
       THEN /\ k' = k + 1 /\ tries' = 0
            /\ snd' = IF k + 1 = N THEN "eot" ELSE "write"
       ELSE UNCHANGED sndVars
    /\ UNCHANGED <<ram, job, flash, key, run, askVars, inVars, pastVars>>

WaitForEver == FALSE    \* mutant

\* An answer that comes this late is a byte like any other that is not an ACK.
SkipAnswer ==
    /\ snd = "wait" /\ line = <<>> /\ fwdQ # None
    /\ fwdQ' = None
    /\ UNCHANGED <<bootVars, sndVars, asked, inVars, pastVars>>

\* boot_eraseAllPage may take seconds.
Erasing ==
    /\ run = "boot" /\ ram.sm = "START"
    /\ updQ # <<>> /\ Head(updQ).head = "SOH" /\ PassesCheck(Head(updQ))

\* The first block is waited for for 2 s, the others for 200 ms: a device that is
\* not erasing has then handled what it got.
TimedOut ==
    /\ snd = "wait" /\ line = <<>>
    /\ Erasing \/ run = "app" \/ (inQ = <<>> /\ updQ = <<>> /\ job = NoJob)

Timeout ==
    /\ TimedOut
    /\ snd' = "write"
    /\ CountAttempt
    /\ UNCHANGED <<bootVars, k, tries, askVars, inVars>>

\* The update has succeeded when the EOT is written; three failures give it up.
WriteEot ==
    /\ snd = "eot"
    /\ snd' = "done"
    /\ eotQ' \in IF "lost" \in Faults THEN {run = "boot", FALSE} ELSE {run = "boot"}
    /\ UNCHANGED <<bootVars, k, tries, askVars, inQ, updQ, pastVars>>

FailedEot ==
    /\ snd = "eot" /\ "fail" \in Faults
    /\ IF tries >= 3 THEN snd' = "failed" /\ UNCHANGED tries
                     ELSE tries' = tries + 1 /\ UNCHANGED snd
    /\ UNCHANGED <<bootVars, k, askVars, inVars, pastVars>>

----------------------------------------------------------------------------
\* boot_I2cForwardTask1 and boot_I2cForwardTask2

ForwardBlock ==
    /\ inQ # <<>> /\ updQ = <<>> /\ run = "boot"
    /\ updQ' = <<Head(inQ)>>
    /\ inQ' = Tail(inQ)
    /\ UNCHANGED <<bootVars, sndVars, askVars, eotQ, pastVars>>

ForwardEot ==
    /\ eotQ /\ updQ = <<>> /\ run = "boot"
    /\ updQ' = <<Eot>>
    /\ eotQ' = FALSE
    /\ UNCHANGED <<bootVars, sndVars, askVars, inQ, pastVars>>

\* No room for 50 ticks: only erasing keeps the update task busy that long.  err is
\* never assigned, so the message may be sent again or be given up.
GiveUpBlock ==
    /\ inQ # <<>> /\ Erasing
    /\ inQ' = Tail(inQ)
    /\ UNCHANGED <<bootVars, sndVars, askVars, eotQ, updQ, pastVars>>

GiveUpEot ==
    /\ eotQ /\ Erasing
    /\ eotQ' = FALSE
    /\ UNCHANGED <<bootVars, sndVars, askVars, inQ, updQ, pastVars>>

----------------------------------------------------------------------------
\* The bootloader

Handle ==
    /\ updQ # <<>>
    /\ Receive(Head(updQ))
    /\ updQ' = <<>> /\ idle' = 0
    /\ UNCHANGED <<sndVars, askVars, inQ, eotQ, resets, surplus>>

Programmed ==
    /\ Program
    /\ idle' = 0
    /\ UNCHANGED <<sndVars, askVars, inVars, resets, surplus>>

\* A pass of the monitor comes a second after the one before: while the sender
\* tries to get a block over it makes PerSecond attempts meanwhile.  It waits longer
\* for the ACK of the first block, and takes what comes at once.
SecondOver ==
    \/ snd \notin {"write", "wait"}
    \/ idle >= PerSecond
    \/ snd = "wait" /\ k = 0 /\ line = <<>>

\* The blocks the device has taken, as long as it is not reset.
Taken == IF snd = "done" THEN N ELSE ram.pnPage + ram.lastPn

\* The sender is at a block that the device has, and the ACK is not on its way.
MissesAck == Taken = k + 1 /\ NoAck

\* With no message for RESEND_TIMEOUT the monitor repeats the last ACK, whether
\* the sender is missing it or has taken it and cannot get the next block over.
Tick ==
    /\ SecondOver
    /\ MonitorTick
    /\ idle' = 0
    /\ surplus' = (surplus \/ (snd \in {"write", "wait"} /\ ~MissesAck /\ line' = Append(line, "ACK")))
    /\ UNCHANGED <<sndVars, askVars, inVars, resets>>

\* The queues are lost with the RAM; a block being handled when it happens is one
\* the erasing stops at.
Reset ==
    /\ resets < MaxResets
    /\ resets' = resets + 1
    /\ Crash \/ Restarted \/ (updQ # <<>> /\ CrashInErase(Head(updQ)))
    /\ inQ' = <<>> /\ eotQ' = FALSE /\ updQ' = <<>>
    /\ UNCHANGED <<sndVars, askVars, idle, surplus>>

Next ==
    \/ CheckVersion \/ TakeVersion \/ VersionTimeout
    \/ Notify \/ TakeConsent \/ ConsentTimeout \/ SkipAnswer
    \/ AnswerVersion \/ Agree \/ Refuse \/ RequestInBoot \/ RequestLost \/ DeviceRestarts
    \/ \E sum \in {"sum", "bad"} : Write(sum)
    \/ LostWrite \/ FailedWrite \/ Overrun \/ TakeByte \/ Timeout \/ WriteEot \/ FailedEot
    \/ ForwardBlock \/ ForwardEot \/ GiveUpBlock \/ GiveUpEot
    \/ Handle \/ Programmed \/ Tick \/ Reset

Spec == Init /\ [][Next]_vars

\* Every task runs when it can.  The wait for an ACK ends also while other bytes
\* keep coming: updateDev_decodeMsg looks at the clock.  A block written again and again arrives sound
\* sometimes, and what waits for updateDatMsg_Queue gets in sometimes.
Fairness ==
    /\ WF_vars(CheckVersion \/ TakeVersion \/ VersionTimeout)
    /\ WF_vars(Notify \/ TakeConsent \/ ConsentTimeout)
    /\ WF_vars(DeviceRestarts)
    /\ WF_vars(TakeByte \/ SkipAnswer) /\ SF_vars(Timeout) /\ WF_vars(WriteEot)
    /\ WF_vars(\E sum \in {"sum", "bad"} : Write(sum)) /\ SF_vars(Write("sum"))
    /\ SF_vars(ForwardBlock) /\ SF_vars(ForwardEot)
    /\ WF_vars(Handle) /\ WF_vars(Programmed) /\ WF_vars(Tick)

FairSpec == Spec /\ Fairness

----------------------------------------------------------------------------
Complete == \A b \in 0..(N - 1) : flash[b] = Image(b)
Untouched == \A b \in 0..(Blocks - 1) : flash[b] = Old

\* Two things take sender and device out of step: a reset of the device, and an
\* ACK too many.
Undisturbed == resets = 0 /\ ~surplus

\* Otherwise an update leaves a device that runs the whole image, or its old
\* program: not one that is started half way, whatever blocks are lost, damaged,
\* repeated or overtaken by the EOT, and although the sender takes any ACK for the
\* ACK of the block it is at.
ImageComplete == run = "app" /\ Undisturbed => Complete \/ Untouched

\* A block lands in its own place or nowhere, over any wrap of the block numbers.
\* After a reset of the device in the middle of an update, which sets its page
\* back, or with a sender that ACKs too many have put ahead of it, it may also land
\* in the place of another block of the same number, and nowhere else: with
\* N < PnMod that is its own place again.
BlocksInPlace ==
    \A b \in 0..(Blocks - 1) :
        flash[b] \in {Old, Erased, Torn} \union
            {Image(c) : c \in {c \in 0..(N - 1) : c % PnMod = b % PnMod /\ (Undisturbed => c = b)}}

\* The sender goes on from a block that the device has not got.
Ahead == \E b \in 0..(k - 1) : flash[b] # Image(b) /\ job # [block |-> b, data |-> Image(b)]

\* Only an ACK too many does that: as long as each ACK that comes while the sender
\* is at a block is the first of that block, or stands in for one that was lost,
\* the blocks before the one it is at are in flash, or the last of them is being
\* programmed.
SenderNotAhead == Undisturbed => ~Ahead

\* An ACK tells the sender that the device has got the block it is at ("client
\* update pakge success").
AckIsSuccess == resets = 0 => ~Ahead

\* The program of a device changes only while its update key is set, that is after
\* it has agreed and until it starts the new one: although the sender may take
\* another answer for its consent, writes blocks to a device in its application or
\* one that starts up after a reset, and requests may reach a bootloader.
ChangedByConsent == [][flash' # flash => key]_vars

\* The only ways in which an update does not end in the whole new image: the sender
\* skips it or gives it up; the device is reset; the device has not agreed, while
\* the sender took another answer for its consent; an ACK or the EOT is lost; an
\* ACK too many has put the sender ahead of the device.
Deceived == snd \in {"write", "wait"} /\ run = "app" /\ ~key
AckLost ==
    /\ snd \in {"write", "wait"} /\ flash[k] = Image(k)
    /\ NoAck
EotLost == snd = "done" /\ run = "boot" /\ ~eotQ /\ updQ = <<>> /\ ram.sm # "FINISHED"
TransferCompletes ==
    <>(\/ run = "app" /\ Complete
       \/ snd \in {"skipped", "failed"} \/ resets > 0
       \/ Deceived \/ AckLost \/ EotLost \/ Ahead)

\* What the protocol comes to, whatever is lost, damaged and repeated on the way:
\* the board's program is replaced block by block, and one that is neither reset nor
\* repeats an ACK the sender has never starts part of it.
T == INSTANCE Transfer WITH
        image <- [b \in 0..(N - 1) |-> Image(b)],
        area <- flash, running <- (run = "app"), at <- k, cut <- ~Undisturbed
IsTransfer == T!Spec

----------------------------------------------------------------------------
\* The inductive invariant.

Types ==
    /\ BootInv
    /\ snd \in Phases /\ k \in 0..N /\ tries \in Nat
    /\ snd \in Asking => k = 0
    /\ snd \in {"write", "wait"} => k < N
    /\ snd \in {"eot", "done"} => k = N
    /\ asked \in Requests /\ fwdQ \in Answers
    /\ inQ \in Seq(Msg) /\ (updQ = <<>> \/ \E m \in Msg : updQ = <<m>>)
    /\ eotQ \in BOOLEAN /\ resets \in Nat

\* The messages on their way to the update task.
Pending == {inQ[i] : i \in DOMAIN inQ} \union {updQ[i] : i \in DOMAIN updQ}

\* A block that is not damaged has the number of its data.
Sound(m) == m.head = "SOH" /\ m.sum = "sum"
Sent(m) ==
    /\ m.head \in {"SOH", "EOT", "other"} /\ m.sum \in {"sum", "bad"}
    /\ m.head = "EOT" => snd = "done"
    /\ Sound(m) => m.data \in 1..N /\ m.pn = m.data % PnMod
AllSent == (\A m \in Pending : Sent(m)) /\ (eotQ => snd = "done")
NoneSound == \A m \in Pending : ~Sound(m)

\* The state machine is in START only with the key, and a program without it is an
\* old one or one whose update is over.
Keyed ==
    /\ ram.sm # "CANCEL"
    /\ ram.sm = "START" => key /\ run = "boot" /\ ram.mon # "finish"
    /\ ram.sm = "INIT" /\ run = "boot" => ~key
    /\ ram.sm = "FINISHED" \/ ram.mon = "finish" => snd = "done"
    /\ run = "app" => job = NoJob
    /\ ~key => Untouched \/ (snd = "done" /\ (run = "boot" => job = NoJob /\ NoneSound))

\* The area is erased before the first block is taken.
Begun == ram.sm # "START" \/ job # NoJob

\* It has taken the block the sender is at, or the one before; the blocks under way
\* are these, in order; there is an ACK for the block at hand only if it is taken.
Numbers ==
    /\ ram.lastPn = Taken % PnMod
    /\ Taken \in {k, k + 1} /\ Taken <= N
    /\ \A m \in Pending : Sound(m) => m.data \in {Taken, Taken + 1} /\ m.data <= k + 1
    /\ snd \in Asking => NoneSound /\ ~Begun
    /\ snd \in Asking \union {"write", "wait"} =>
          \A i \in DOMAIN line : line[i] = "ACK" =>
             Taken = k + 1 /\ \A j \in DOMAIN line : line[j] = "ACK" => j = i
InOrder ==
    \A j \in DOMAIN inQ : Sound(inQ[j]) =>
        /\ \A i \in 1..j : Sound(inQ[i]) => inQ[i].data <= inQ[j].data
        /\ \A i \in DOMAIN updQ : Sound(updQ[i]) => updQ[i].data <= inQ[j].data

Area ==
    IF ~Begun THEN Taken = 0 /\ Untouched
    ELSE /\ \A b \in 0..(Blocks - 1) :
               flash[b] = IF b < Taken /\ b # job.block THEN Image(b) ELSE Erased
         /\ job # NoJob => job.block = Taken - 1 /\ job.data = Image(Taken - 1)

\* The device without a reset: not restarted yet, done with its update, or in it.
NotBooted ==
    /\ Untouched /\ k = 0 /\ snd # "eot"
    /\ Pending = {}
    /\ NoAck
Over ==
    /\ Complete /\ job = NoJob
    /\ \A b \in N..(Blocks - 1) : flash[b] = Erased
    /\ run = "boot" => ~eotQ /\ \A m \in Pending : ~Sound(m) /\ m.head # "EOT"
InStep ==
    \/ run = "app" /\ snd # "done" /\ NotBooted
    \/ snd = "done" /\ (run = "app" \/ ~Begun) /\ Over
    \/ run = "boot" /\ key /\ (snd = "done" => Begun) /\ Numbers /\ InOrder /\ Area

Following == Types /\ AllSent /\ Keyed /\ (Undisturbed => InStep)

\* Over resets: a block is where another of its number would also be.
Placed ==
    /\ ram.pnPage % PnMod = 0
    /\ job # NoJob => job.data \in 1..N /\ (job.block + 1) % PnMod = job.data % PnMod
    /\ \A b \in 0..(Blocks - 1) :
          flash[b] \in {Old, Erased, Torn} \union {Image(c) : c \in {c \in 0..(N - 1) : c % PnMod = b % PnMod}}

Past == idle \in 0..PerSecond /\ surplus \in BOOLEAN

TransferInv == Following /\ Placed /\ Past

=============================================================================
