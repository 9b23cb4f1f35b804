------------------------------ MODULE ChassisCtrl ------------------------------
(***************************************************************************)
(* Chassis commands: the message task puts a command into a queue of one   *)
(* (ChassisDevice.c, IPMDevice.c, Oem.c), the sampling task takes it and   *)
(* starts a pulse on a pin of the CPLD, and a software timer ends the      *)
(* pulse (ChassisCtrl.c).  The message task is above the sampling task,    *)
(* the timers are above both.                                              *)
(***************************************************************************)
EXTENDS Integers, Sequences

CONSTANT MaxTimers    \* bound: no command is asked while more timers run

Commands == {"powerOff", "softOff", "powerOn", "reset", "other", "reserved"}
Pins == {"onOff", "reset"}

\* The commands of ChassisControl, ColdReset and UpdateFirmware.
Requests ==
    [from : {"chassis"}, cmd : Commands] \union [from : {"coldReset", "update"}, cmd : {"reset"}]

ASSUME ChassisConstants == MaxTimers \in Nat

VARIABLES
    msg, request, answer,   \* the message task: what it does, for what, its last answer
    created, queue,         \* g_chassisCtrl_Queue
    adc, taken,             \* the sampling task
    pins, timers,           \* the pins that are enabled; the timers of each command
    good,                   \* DevPower_IsPowerGood
    key,                    \* I2C_UPDATE_KEYS in the backup register
    lost                    \* history: the pins a failed timer has left enabled

vars == <<msg, request, answer, created, queue, adc, taken, pins, timers, good, key, lost>>

None == [from |-> "none", cmd |-> "other"]

Init ==
    /\ msg = "idle" /\ request = None /\ answer = "none"
    /\ created = FALSE /\ queue = <<>>
    /\ adc = "create" /\ taken = None
    /\ pins = {} /\ timers = [c \in Commands |-> 0]
    /\ good \in BOOLEAN
    /\ key = FALSE /\ lost = {}

----------------------------------------------------------------------------
\* The message task.

Ask(r) ==
    /\ msg = "idle"
    /\ \A c \in Commands : timers[c] < MaxTimers
    /\ request' = r
    /\ IF r.cmd = "reserved" THEN answer' = "invalid" /\ UNCHANGED msg
                             ELSE msg' = "send" /\ UNCHANGED answer
    /\ UNCHANGED <<created, queue, adc, taken, pins, timers, good, key, lost>>

\* ColdReset answers that all is well whatever comes of its command.
Done(result) ==
    /\ msg' = "idle"
    /\ answer' = IF request.from = "coldReset" THEN "normal" ELSE result

\* xQueueSend: the command is in, or the task waits for ten ticks.
Send ==
    /\ msg \in {"send", "wait"} /\ created
    /\ queue = <<>>
    /\ queue' = <<request>>
    /\ IF request.from = "update" THEN msg' = "key" /\ UNCHANGED answer ELSE Done("normal")
    /\ UNCHANGED <<request, created, adc, taken, pins, timers, good, key, lost>>

Wait ==
    /\ msg = "send" /\ created /\ queue # <<>>
    /\ msg' = "wait"
    /\ UNCHANGED <<request, answer, created, queue, adc, taken, pins, timers, good, key, lost>>

TimedOut ==
    /\ msg = "wait" /\ queue # <<>>
    /\ Done("timeout")
    /\ UNCHANGED <<request, created, queue, adc, taken, pins, timers, good, key, lost>>

\* UpdateFirmware, after its reset has been queued.
WriteKey ==
    /\ msg = "key"
    /\ key' = TRUE
    /\ Done("normal")
    /\ UNCHANGED <<request, created, queue, adc, taken, pins, timers, good, lost>>

MessageTask == Send \/ Wait \/ WriteKey

----------------------------------------------------------------------------
\* The sampling task, which runs while the message task has nothing to do.

NeverWaits == TRUE    \* mutant

MessageTaskBlocked == msg = "idle" \/ (msg = "wait" /\ queue # <<>>)

CreateQueue ==
    /\ adc = "create" /\ MessageTaskBlocked
    /\ created' = TRUE
    /\ adc' = "poll"
    /\ UNCHANGED <<msg, request, answer, queue, taken, pins, timers, good, key, lost>>

Peek ==    \* mutant
    /\ adc = "poll" /\ MessageTaskBlocked
    /\ queue # <<>>
    /\ taken' = Head(queue)
    /\ adc' = "act"
    /\ UNCHANGED <<msg, request, answer, created, queue, pins, timers, good, key, lost>>

Receive ==
    /\ adc = "poll" /\ MessageTaskBlocked
    /\ queue # <<>>
    /\ taken' = Head(queue) /\ queue' = Tail(queue)
    /\ adc' = "act"
    /\ UNCHANGED <<msg, request, answer, created, pins, timers, good, key, lost>>

\* ChassisCtrlTimerCallBack: the command says which pin.
SoftOffForgotten(c) ==    \* mutant
    IF c = "reset" THEN {"reset"} ELSE IF c = "softOff" THEN {} ELSE {"onOff"}

Released(c) == IF c = "reset" THEN {"reset"} ELSE {"onOff"}

\* The pin a command pulses, none if there is nothing to switch.
Pulsed(c) ==
    CASE c \in {"powerOff", "softOff"} /\ good -> {"onOff"}
      [] c = "powerOn" /\ ~good -> {"onOff"}
      [] c = "reset" -> {"reset"}
      [] OTHER -> {}

ResetReturns ==    \* mutant
    /\ adc = "act" /\ MessageTaskBlocked
    /\ pins' = pins \union Pulsed(taken.cmd)
    /\ adc' = IF Pulsed(taken.cmd) \subseteq {"reset"} THEN "poll" ELSE "time"
    /\ UNCHANGED <<msg, request, answer, created, queue, taken, timers, good, key, lost>>

Act ==
    /\ adc = "act" /\ MessageTaskBlocked
    /\ pins' = pins \union Pulsed(taken.cmd)
    /\ adc' = IF Pulsed(taken.cmd) = {} THEN "poll" ELSE "time"
    /\ UNCHANGED <<msg, request, answer, created, queue, taken, timers, good, key, lost>>

StartTimer ==
    /\ adc = "time" /\ MessageTaskBlocked
    /\ timers' = [timers EXCEPT ![taken.cmd] = @ + 1]
    /\ adc' = "poll"
    /\ UNCHANGED <<msg, request, answer, created, queue, taken, pins, good, key, lost>>

\* xTimerCreate has no memory: only a message is printed.  Starting no timer may also
\* end in a fault, which Restart covers.
TimerFails ==
    /\ adc = "time" /\ MessageTaskBlocked
    /\ lost' = lost \union (pins \intersect Released(taken.cmd))
    /\ adc' = "poll"
    /\ UNCHANGED <<msg, request, answer, created, queue, taken, pins, timers, good, key>>

AdcTask == CreateQueue \/ Receive \/ Act \/ StartTimer

----------------------------------------------------------------------------
Expire(c) ==
    /\ timers[c] > 0
    /\ timers' = [timers EXCEPT ![c] = @ - 1]
    /\ pins' = pins \ Released(c) /\ lost' = lost \ Released(c)
    /\ UNCHANGED <<msg, request, answer, created, queue, adc, taken, good, key>>

\* The supply comes and goes.
Supply ==
    /\ good' = ~good
    /\ UNCHANGED <<msg, request, answer, created, queue, adc, taken, pins, timers, key, lost>>

\* The CPLD or the watchdog resets the controller, which a command sent before the
\* queue exists provokes; the bootloader takes the key and starts the program.
Restart ==
    /\ msg' = "idle" /\ request' = None /\ answer' = "none"
    /\ created' = FALSE /\ queue' = <<>>
    /\ adc' = "create" /\ taken' = None
    /\ pins' = {} /\ timers' = [c \in Commands |-> 0]
    /\ key' = FALSE /\ lost' = {}
    /\ UNCHANGED good

Fault == msg = "send" /\ ~created /\ Restart

Next ==
    \/ \E r \in Requests : Ask(r)
    \/ MessageTask \/ TimedOut \/ Fault
    \/ AdcTask \/ TimerFails
    \/ \E c \in Commands : Expire(c)
    \/ Supply \/ Restart

Spec == Init /\ [][Next]_vars

\* Each timer expires and the message task gets on.  The sampling task is the lowest:
\* it gets on if the message task is idle or waits again and again, which it does.
Fairness ==
    /\ WF_vars(MessageTask \/ TimedOut \/ Fault)
    /\ SF_vars(AdcTask)
    /\ \A c \in Commands : WF_vars(Expire(c))

FairSpec == Spec /\ Fairness

----------------------------------------------------------------------------
\* The reset an update asks for finds the key written, though it is queued first:
\* the task that acts on it is below the one that writes.
KeyFirst == adc = "act" /\ taken.from = "update" => key

\* A pin is enabled for no longer than a timer runs that ends it, or is about to.
\* Pulses on one pin overlap, and each timer knows no more than its own command.  The
\* exception is a pin whose timer could not be created and no other has ended since.
PinHeld(p) ==
    \/ \E c \in Commands : timers[c] > 0 /\ p \in Released(c)
    \/ adc = "time" /\ p \in Released(taken.cmd)
PinsHeld == \A p \in pins \ lost : PinHeld(p)

\* Every pulse with a timer ends, though pulses on one pin overlap.
PulseEnds == \A p \in Pins : p \in pins ~> p \notin pins \ lost

\* A command that has been accepted is taken, unless the controller restarts.
Executed == queue # <<>> ~> queue = <<>>

----------------------------------------------------------------------------
\* The inductive invariant.

Types ==
    /\ msg \in {"idle", "send", "wait", "key"}
    /\ request \in Requests \union {None} /\ taken \in Requests \union {None}
    /\ answer \in {"none", "normal", "timeout", "invalid"}
    /\ created \in BOOLEAN /\ good \in BOOLEAN /\ key \in BOOLEAN
    /\ queue = <<>> \/ \E r \in Requests : queue = <<r>>
    /\ adc \in {"create", "poll", "act", "time"}
    /\ pins \subseteq Pins /\ lost \subseteq pins
    /\ timers \in [Commands -> Nat]

\* A queued update has its key, or the message task is about to write it.
KeyComes ==
    /\ msg # "idle" => request \in Requests
    /\ \A r \in Requests : queue = <<r>> /\ r.from = "update" => key \/ msg = "key"

ChassisInv == Types /\ KeyComes /\ KeyFirst /\ PinsHeld

=============================================================================
