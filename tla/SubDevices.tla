------------------------------ MODULE SubDevices ------------------------------
(***************************************************************************)
(* The master's view of the other boards (SubDevice_uploadTask): it asks   *)
(* each board for each of its sensors once a second, counts failures, and  *)
(* every two seconds moves the boards it takes to be offline to the other  *)
(* IPMB bus.  How a single request and its answer travel is MsgCore; here  *)
(* the outcome of a request is what the task makes of it.                  *)
(*                                                                         *)
(* Time is counted in SUB_DEVICES_TASK_DELAY_MS (500 ms).  A pass of the   *)
(* loop comes up to MaxLate of them after the one before, because sampling *)
(* waits for answers and uploading for the UART.                           *)
(***************************************************************************)
EXTENDS Integers

CONSTANTS
    Devices,     \* the boards other than the master that have sensors
    Sensors,     \* sensors of a board: 1..Sensors, the same number for each
    MaxFailed,   \* SUB_DEVICES_FAILED_MAX_COUNT: 3
    SamplePeriod, SwitchPeriod,   \* 1000 ms and 2000 ms: 2 and 4
    MaxLate,
    Wired,       \* the pairs <<board, bus>> that can be reached
    Flaky        \* whether answers may be lost at first

Buses == {"primary", "secondary"}

ASSUME SubDevicesConstants ==
    /\ Sensors \in Nat \ {0}
    /\ MaxFailed \in Nat
    /\ SamplePeriod \in Nat /\ SwitchPeriod \in Nat
    /\ MaxLate \in Nat \ {0}
    /\ Wired \subseteq Devices \X Buses
    /\ Flaky \in BOOLEAN

VARIABLES
    bus,       \* busUsed of each board
    online,    \* isOnLine of each board
    err,       \* errCnt of each sensor
    reading,   \* "value", or "zero" before the first answer and once given up
    sampled,   \* time since sampleTimeStamp
    switched,  \* time since switchBusTimeStamp
    calm,      \* from now on a board that can be reached answers
    missed     \* history: samplings since a sensor answered, at most MaxFailed + 1

vars == <<bus, online, err, reading, sampled, switched, calm, missed>>

AllSensors == Devices \X (1..Sensors)

AtMost(n, bound) == IF n > bound THEN bound ELSE n

\* SubDevice_InitAllMode: the boards are offline; busUsed is zero, which is
\* NM_PRIMARY_IPMB_BUS.
Init ==
    /\ bus = [d \in Devices |-> "primary"]
    /\ online = [d \in Devices |-> FALSE]
    /\ err = [x \in AllSensors |-> 0]
    /\ reading = [x \in AllSensors |-> "zero"]
    /\ sampled = 0
    /\ switched = 0
    /\ calm = ~Flaky
    /\ missed = [x \in AllSensors |-> MaxFailed + 1]

----------------------------------------------------------------------------
CanAnswer == {x \in AllSensors : <<x[1], bus[x[1]]>> \in Wired}

\* The sensors that are read: answered in time by the right board, with a
\* normal completion code, and converted (SubDevice_readingSensorForeach).
Answers == IF calm THEN {CanAnswer} ELSE SUBSET CanAnswer

GivenUp(x) == err[x] >= MaxFailed

ErrNeverReset(x, ok) ==    \* mutant
    IF x \in ok THEN err[x] ELSE AtMost(err[x] + 1, MaxFailed)

ErrNotLimited(x, ok) == IF x \in ok THEN 0 ELSE err[x] + 1    \* mutant

ErrAfter(x, ok) == IF x \in ok THEN 0 ELSE AtMost(err[x] + 1, MaxFailed)

ReadingAfter(x, ok) ==
    CASE x \in ok -> "value"
      [] x \notin ok /\ GivenUp(x) -> "zero"
      [] OTHER -> reading[x]

OnlineIfRead(d, ok) == <<d, Sensors>> \in ok    \* mutant

\* isDevOnline is assigned for every sensor: the last one decides.
OnlineAfter(d, ok) == <<d, Sensors>> \in ok \/ ~GivenUp(<<d, Sensors>>)

\* SubDevice_SampleAll
SampleAll ==
    \E ok \in Answers :
        /\ err' = [x \in AllSensors |-> ErrAfter(x, ok)]
        /\ reading' = [x \in AllSensors |-> ReadingAfter(x, ok)]
        /\ online' = [d \in Devices |-> OnlineAfter(d, ok)]
        /\ missed' = [x \in AllSensors |->
                        IF x \in ok THEN 0 ELSE AtMost(missed[x] + 1, MaxFailed + 1)]

StayOnSecondary(b) == "secondary"    \* mutant

OtherBus(b) == IF b = "secondary" THEN "primary" ELSE "secondary"

\* SubDevice_statisticsOnlineSwitchBus, after a sampling of the same pass.
SwitchBuses ==
    bus' = [d \in Devices |-> IF online'[d] THEN bus[d] ELSE OtherBus(bus[d])]

\* One pass of SubDevice_uploadTask's loop, dt after the one before.
Pass(dt) ==
    LET sampling  == sampled + dt >= SamplePeriod
        switching == switched + dt >= SwitchPeriod
    IN  /\ \/ sampling /\ SampleAll
           \/ ~sampling /\ UNCHANGED <<err, reading, online, missed>>
        /\ \/ switching /\ SwitchBuses
           \/ ~switching /\ UNCHANGED bus
        /\ sampled' = IF sampling THEN 0 ELSE sampled + dt
        /\ switched' = IF switching THEN 0 ELSE switched + dt
        /\ UNCHANGED calm

SubDevice_uploadTask == \E dt \in 1..MaxLate : Pass(dt)

\* The disturbance that made answers get lost is over.
CalmDown ==
    /\ ~calm
    /\ calm' = TRUE
    /\ UNCHANGED <<bus, online, err, reading, sampled, switched, missed>>

Next == SubDevice_uploadTask \/ CalmDown

Spec == Init /\ [][Next]_vars

\* The scheduler runs the task: no task above it runs for ever.
FairSpec == Spec /\ WF_vars(SubDevice_uploadTask)

----------------------------------------------------------------------------
\* Properties

TypeOK ==
    /\ bus \in [Devices -> Buses]
    /\ online \in [Devices -> BOOLEAN]
    /\ err \in [AllSensors -> 0..MaxFailed]
    /\ reading \in [AllSensors -> {"value", "zero"}]
    /\ sampled \in Nat /\ switched \in Nat
    /\ calm \in BOOLEAN
    /\ missed \in [AllSensors -> 0..(MaxFailed + 1)]

\* What the host is shown is at most MaxFailed samplings old, and a sensor that
\* answered within them is never shown as zero, however failures and answers
\* alternate (the errCnt of SubDevice_SampleAll).
ReadingRecent ==
    \A x \in AllSensors : reading[x] = "value" <=> missed[x] <= MaxFailed

\* What the two properties rest on: as long as a reading is shown, errCnt counts
\* the samplings missed, and a board is offline only if its last sensor is given
\* up.
CountsMissed ==
    /\ \A x \in AllSensors : missed[x] <= MaxFailed => err[x] = missed[x]
    /\ \A d \in Devices : ~online[d] => missed[<<d, Sensors>>] > MaxFailed

\* The inductive invariant.
UploadInv == TypeOK /\ ReadingRecent /\ CountsMissed

\* A board is moved to the other bus only if its last sensor has failed
\* MaxFailed + 1 times in a row: an answer lost now and then does not take a
\* board off a bus that works (SubDevice_statisticsOnlineSwitchBus and the
\* counting in SubDevice_SampleAll).
MovedOnlyWhenSilent ==
    [][\A d \in Devices :
         bus'[d] # bus[d] => missed'[<<d, Sensors>>] > MaxFailed]_vars

\* Once answers are no longer lost, a board that can be reached on one of the
\* buses ends up on such a bus and stays there, whatever was counted before.
FindsBus ==
    <>calm => \A d \in Devices :
        (\E b \in Buses : <<d, b>> \in Wired) => <>[](<<d, bus[d]>> \in Wired)

=============================================================================
