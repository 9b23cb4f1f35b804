--------------------------- MODULE SubDevicesProofs ---------------------------
(***************************************************************************)
(* Proofs about SubDevices for every number of boards and sensors, every   *)
(* wiring, every loss of answers and every timing of the passes.           *)
(***************************************************************************)
EXTENDS SubDevices, TLAPS

LEMMA UploadStart == ASSUME Init PROVE UploadInv
<1> USE SubDevicesConstants DEF Init
<1>1. TypeOK
  BY DEF TypeOK, Buses
<1>2. ReadingRecent
  BY DEF ReadingRecent
<1>3. CountsMissed
  BY DEF CountsMissed, AllSensors
<1> QED
  BY <1>1, <1>2, <1>3 DEF UploadInv

\* One sampling keeps the counters together, sensor by sensor.
LEMMA SampleKeeps ==
    ASSUME UploadInv, SampleAll
    PROVE  /\ online' \in [Devices -> BOOLEAN]
           /\ err' \in [AllSensors -> 0..MaxFailed]
           /\ reading' \in [AllSensors -> {"value", "zero"}]
           /\ missed' \in [AllSensors -> 0..(MaxFailed + 1)]
           /\ ReadingRecent'
           /\ CountsMissed'
<1> USE SubDevicesConstants
<1>1. PICK ok \in Answers :
        /\ err' = [x \in AllSensors |-> ErrAfter(x, ok)]
        /\ reading' = [x \in AllSensors |-> ReadingAfter(x, ok)]
        /\ online' = [d \in Devices |-> OnlineAfter(d, ok)]
        /\ missed' = [x \in AllSensors |->
                        IF x \in ok THEN 0 ELSE AtMost(missed[x] + 1, MaxFailed + 1)]
  BY DEF SampleAll
<1>2. ok \subseteq AllSensors
  BY DEF Answers, CanAnswer
<1>3. ASSUME NEW x \in AllSensors
      PROVE  /\ err[x] \in 0..MaxFailed /\ missed[x] \in 0..(MaxFailed + 1)
             /\ reading[x] \in {"value", "zero"}
             /\ reading[x] = "value" <=> missed[x] <= MaxFailed
             /\ missed[x] <= MaxFailed => err[x] = missed[x]
  BY DEF UploadInv, TypeOK, ReadingRecent, CountsMissed
<1>4. ASSUME NEW x \in AllSensors
      PROVE  /\ err'[x] \in 0..MaxFailed /\ missed'[x] \in 0..(MaxFailed + 1)
             /\ reading'[x] \in {"value", "zero"}
             /\ reading'[x] = "value" <=> missed'[x] <= MaxFailed
             /\ missed'[x] <= MaxFailed => err'[x] = missed'[x]
             /\ x \notin ok /\ GivenUp(x) => missed'[x] > MaxFailed
  <2>1. /\ err'[x] = ErrAfter(x, ok) /\ reading'[x] = ReadingAfter(x, ok)
        /\ missed'[x] = IF x \in ok THEN 0 ELSE AtMost(missed[x] + 1, MaxFailed + 1)
    BY <1>1
  <2>2. CASE x \in ok
    BY <1>3, <2>1, <2>2 DEF ErrAfter, ReadingAfter
  <2>3. CASE x \notin ok /\ missed[x] <= MaxFailed
    BY <1>3, <2>1, <2>3 DEF ErrAfter, ReadingAfter, GivenUp, AtMost
  <2>4. CASE x \notin ok /\ missed[x] > MaxFailed
    BY <1>3, <2>1, <2>4 DEF ErrAfter, ReadingAfter, GivenUp, AtMost
  <2> QED
    BY <1>3, <2>2, <2>3, <2>4
<1>5. /\ err' \in [AllSensors -> 0..MaxFailed]
      /\ reading' \in [AllSensors -> {"value", "zero"}]
      /\ missed' \in [AllSensors -> 0..(MaxFailed + 1)]
  <2>1. \A x \in AllSensors :
          /\ ErrAfter(x, ok) \in 0..MaxFailed
          /\ ReadingAfter(x, ok) \in {"value", "zero"}
          /\ (IF x \in ok THEN 0 ELSE AtMost(missed[x] + 1, MaxFailed + 1)) \in 0..(MaxFailed + 1)
    BY <1>1, <1>4
  <2> QED
    BY <1>1, <2>1
<1>6. ReadingRecent'
  BY <1>4 DEF ReadingRecent
<1>7. CountsMissed'
  <2>1. ASSUME NEW d \in Devices, ~online'[d]
        PROVE  missed'[<<d, Sensors>>] > MaxFailed
    <3>1. <<d, Sensors>> \in AllSensors
      BY DEF AllSensors
    <3>2. <<d, Sensors>> \notin ok /\ GivenUp(<<d, Sensors>>)
      BY <1>1, <2>1 DEF OnlineAfter
    <3> QED
      BY <1>4, <3>1, <3>2
  <2> QED
    BY <1>4, <2>1 DEF CountsMissed
<1>8. online' \in [Devices -> BOOLEAN]
  BY <1>1 DEF OnlineAfter, GivenUp
<1> QED
  BY <1>1, <1>2, <1>5, <1>6, <1>7, <1>8

\* A pass keeps UploadInv and moves only boards whose last sensor is given up.
LEMMA PassKeeps ==
    ASSUME UploadInv, NEW dt \in 1..MaxLate, Pass(dt)
    PROVE  /\ UploadInv'
           /\ \A d \in Devices : bus'[d] # bus[d] => missed'[<<d, Sensors>>] > MaxFailed
<1> USE SubDevicesConstants
<1> DEFINE sampling == sampled + dt >= SamplePeriod
           switching == switched + dt >= SwitchPeriod
<1>1. TypeOK /\ ReadingRecent /\ CountsMissed
  BY DEF UploadInv
<1>2. /\ online' \in [Devices -> BOOLEAN]
      /\ err' \in [AllSensors -> 0..MaxFailed]
      /\ reading' \in [AllSensors -> {"value", "zero"}]
      /\ missed' \in [AllSensors -> 0..(MaxFailed + 1)]
      /\ ReadingRecent'
      /\ CountsMissed'
  <2>1. CASE sampling
    BY <2>1, SampleKeeps DEF Pass
  <2>2. CASE ~sampling
    BY <1>1, <2>2 DEF Pass, TypeOK, ReadingRecent, CountsMissed
  <2> QED
    BY <2>1, <2>2
<1>3. sampled' \in Nat /\ switched' \in Nat /\ calm' \in BOOLEAN
  BY <1>1 DEF Pass, TypeOK
<1>4. CASE switching
  <2>1. bus' = [d \in Devices |-> IF online'[d] THEN bus[d] ELSE OtherBus(bus[d])]
    BY <1>4 DEF Pass, SwitchBuses
  <2>2. bus' \in [Devices -> Buses]
    BY <1>1, <2>1 DEF TypeOK, OtherBus, Buses
  <2>3. \A d \in Devices : bus'[d] # bus[d] => ~online'[d]
    BY <2>1
  <2> QED
    BY <1>2, <1>3, <2>2, <2>3 DEF UploadInv, TypeOK, CountsMissed
<1>5. CASE ~switching
  <2>1. bus' = bus
    BY <1>5 DEF Pass
  <2> QED
    BY <1>1, <1>2, <1>3, <2>1 DEF UploadInv, TypeOK
<1> QED
  BY <1>4, <1>5

LEMMA UploadStep ==
    ASSUME UploadInv, [Next]_vars
    PROVE  /\ UploadInv'
           /\ \A d \in Devices : bus'[d] # bus[d] => missed'[<<d, Sensors>>] > MaxFailed
<1>1. CASE SubDevice_uploadTask
  BY <1>1, PassKeeps DEF SubDevice_uploadTask
<1>2. CASE CalmDown
  BY <1>2 DEF CalmDown, UploadInv, TypeOK, ReadingRecent, CountsMissed
<1>3. CASE UNCHANGED vars
  BY <1>3 DEF vars, UploadInv, TypeOK, ReadingRecent, CountsMissed, AllSensors
<1> QED
  BY <1>1, <1>2, <1>3 DEF Next

\* UploadInv holds in every reachable state (SubDevice_SampleAll and
\* SubDevice_statisticsOnlineSwitchBus).
THEOREM UploadInvariant == Spec => []UploadInv
<1>1. UploadInv /\ [Next]_vars => UploadInv'
  BY UploadStep
<1> QED
  BY <1>1, UploadStart, PTL DEF Spec

\* Readings shown to the host are recent, and recent readings are shown.
THEOREM RecentCorrect == Spec => []ReadingRecent
<1>1. UploadInv => ReadingRecent
  BY DEF UploadInv
<1> QED
  BY <1>1, UploadInvariant, PTL

\* A board leaves a bus only after MaxFailed + 1 failures in a row.
THEOREM MoveCorrect == Spec => MovedOnlyWhenSilent
<1>1. UploadInv /\ [Next]_vars =>
        [\A d \in Devices :
           bus'[d] # bus[d] => missed'[<<d, Sensors>>] > MaxFailed]_vars
  BY UploadStep
<1> QED
  BY <1>1, UploadInvariant, PTL DEF Spec, MovedOnlyWhenSilent
=============================================================================
