---------------------------- MODULE PowerSeqProofs ----------------------------
(***************************************************************************)
(* Proofs about PowerSeq for every value of the times and every key,       *)
(* whether it bounces or not.  PowerCycled and ActsOnRelease hold of every *)
(* step from a state where the invariant holds.                            *)
(***************************************************************************)
EXTENDS PowerSeq, TLAPS

\* The shape of a call of fsm_Handler: no transition, or the one of its row.
Unmoved(dt) ==
    /\ st' = st
    /\ since' = AtMost(since + dt, Settle + 1)

Moved(from, to) == st = from /\ st' = to /\ since' = 0

\* What fsm_Handler does, state by state: it enables 12 V only on leaving
\* POWEROFF, and leaves P12VDIS only with 12 V gone.
LEMMA Handler ==
    ASSUME TypeOK, OffMeansDischarged, NEW event \in Events, NEW dt \in Nat,
           fsm_Handler(event, dt)
    PROVE  \/ Unmoved(dt) /\ en' = en
           \/ Moved("POWEROFF", "P12VEN") /\ event = "KEY_RELEASED" /\ en' = en \union {"P12V"}
           \/ Moved("P12VEN", "P5V_P3VEN") /\ en' = en \union {"P5V", "P3V3"}
           \/ Moved("P5V_P3VEN", "POWERON") /\ en' = en
           \/ Moved("POWERON", "P12VDIS") /\ event = "KEY_RELEASED" /\ en' = en \ {"P12V"}
           \/ Moved("P12VDIS", "P5VP3V_DIS") /\ en' = en \ {"P12V"} /\ "P12V" \notin good
           \/ Moved("P5VP3V_DIS", "POWEROFF") /\ en' = en /\ since + dt > Settle
<1> DEFINE t == since + dt
<1>0. st \in States
  BY DEF TypeOK
<1>1. CASE st = "POWEROFF"
  <2>1. Transition(st, t) = [event |-> "KEY_RELEASED", result |-> P12VEn(t), next |-> "P12VEN"]
    BY <1>1 DEF Transition, Row
  <2> QED
    BY <1>1, <2>1 DEF fsm_Handler, P12VEn, Unmoved, Moved
<1>2. CASE st = "P12VEN"
  <2>1. Transition(st, t) = [event |-> "NULL", result |-> WaitP12PowerGD(t), next |-> "P5V_P3VEN"]
    BY <1>2 DEF Transition, Row
  <2> QED
    BY <1>2, <2>1 DEF fsm_Handler, WaitP12PowerGD, Unmoved, Moved
<1>3. CASE st = "P5V_P3VEN"
  <2>1. Transition(st, t) = [event |-> "NULL", result |-> WaitP5VP3VPowerGD(t), next |-> "POWERON"]
    BY <1>3 DEF Transition, Row
  <2> QED
    BY <1>3, <2>1 DEF fsm_Handler, WaitP5VP3VPowerGD, Unmoved, Moved
<1>4. CASE st = "POWERON"
  <2>1. Transition(st, t) = [event |-> "KEY_RELEASED", result |-> P12Dis(t), next |-> "P12VDIS"]
    BY <1>4 DEF Transition, Row
  <2> QED
    BY <1>4, <2>1 DEF fsm_Handler, P12Dis, Unmoved, Moved
<1>5. CASE st = "P12VDIS"
  <2>1. Transition(st, t) = [event |-> "NULL", result |-> P5VP3VDis(t), next |-> "P5VP3V_DIS"]
    BY <1>5 DEF Transition, Row
  <2>2. "P12V" \notin en
    BY <1>5 DEF OffMeansDischarged
  <2> QED
    BY <1>5, <2>1, <2>2 DEF fsm_Handler, P5VP3VDis, Unmoved, Moved
<1>6. CASE st = "P5VP3V_DIS"
  <2>1. Transition(st, t) = [event |-> "NULL", result |-> PowerOff(t), next |-> "POWEROFF"]
    BY <1>6 DEF Transition, Row
  <2>2. /\ Transition(st, t).event = "NULL"
        /\ Transition(st, t).next = "POWEROFF"
        /\ Transition(st, t).result = PowerOff(t)
    BY <2>1
  <2>3. PowerOff(t).en = en /\ (PowerOff(t).over <=> t > Settle)
    BY Zenon DEF PowerOff
  <2>4. /\ en' = en
        /\ st' = IF event = "NULL" /\ t > Settle THEN "POWEROFF" ELSE st
        /\ since' = IF event = "NULL" /\ t > Settle THEN 0 ELSE AtMost(t, Settle + 1)
    BY <2>2, <2>3, Zenon DEF fsm_Handler
  <2> QED
    BY <1>6, <2>4 DEF Unmoved, Moved
<1> QED
  BY <1>0, <1>1, <1>2, <1>3, <1>4, <1>5, <1>6 DEF States

\* A call of fsm_Handler keeps the types, what holds of the 12 V rail, and the
\* times.
MachineInv ==
    /\ st \in States
    /\ since \in 0..(Settle + 1)
    /\ en \subseteq Rails
    /\ off \in 0..(Settle + 1)
    /\ OffMeansDischarged
    /\ OffTime

\* What holds of the rails, whatever the key does.
RailInv == TypeOK /\ OffMeansDischarged /\ OffTime

LEMMA HandlerKeeps ==
    ASSUME RailInv, NEW event \in Events, NEW dt \in Nat,
           fsm_Handler(event, dt), good' = good
    PROVE  MachineInv'
<1> USE PowerConstants
<1>1. /\ st \in States /\ since \in 0..(Settle + 1) /\ en \subseteq Rails
      /\ off \in 0..(Settle + 1) /\ OffMeansDischarged /\ OffTime /\ TypeOK
  BY DEF RailInv, TypeOK
<1>2. /\ since + dt \in Nat /\ off + dt \in Nat /\ Settle + 1 \in Nat
  BY <1>1
<1>3. off' = IF "P12V" \in en THEN 0 ELSE AtMost(off + dt, Settle + 1)
  BY DEF fsm_Handler
<1>4. off' \in 0..(Settle + 1)
  BY <1>2, <1>3 DEF AtMost
<1>5. AtMost(since + dt, Settle + 1) \in 0..(Settle + 1)
  BY <1>2 DEF AtMost
<1>6. CASE Unmoved(dt) /\ en' = en
  <2>1. OffTime'
    BY <1>1, <1>2, <1>3, <1>6 DEF OffTime, Unmoved, AtMost, OffMeansDischarged
  <2> QED
    BY <1>1, <1>4, <1>5, <1>6, <2>1 DEF MachineInv, Unmoved, OffMeansDischarged
<1>7. CASE Moved("POWEROFF", "P12VEN") /\ en' = en \union {"P12V"}
  BY <1>1, <1>4, <1>7 DEF MachineInv, Moved, OffMeansDischarged, OffTime, States, Rails
<1>8. CASE Moved("P12VEN", "P5V_P3VEN") /\ en' = en \union {"P5V", "P3V3"}
  BY <1>1, <1>4, <1>8 DEF MachineInv, Moved, OffMeansDischarged, OffTime, States, Rails
<1>9. CASE Moved("P5V_P3VEN", "POWERON") /\ en' = en
  BY <1>1, <1>4, <1>9 DEF MachineInv, Moved, OffMeansDischarged, OffTime, States, Rails
<1>10. CASE Moved("POWERON", "P12VDIS") /\ en' = en \ {"P12V"}
  BY <1>1, <1>4, <1>10 DEF MachineInv, Moved, OffMeansDischarged, OffTime, States, Rails
<1>11. CASE Moved("P12VDIS", "P5VP3V_DIS") /\ en' = en \ {"P12V"} /\ "P12V" \notin good
  BY <1>1, <1>4, <1>11 DEF MachineInv, Moved, OffMeansDischarged, OffTime, States, Rails
<1>12. CASE Moved("P5VP3V_DIS", "POWEROFF") /\ en' = en /\ since + dt > Settle
  <2>1. off' > Settle
    BY <1>1, <1>2, <1>3, <1>12 DEF Moved, OffMeansDischarged, OffTime, AtMost
  <2> QED
    BY <1>1, <1>4, <1>12, <2>1 DEF MachineInv, Moved, OffMeansDischarged, OffTime, States
<1> QED
  BY <1>1, <1>6, <1>7, <1>8, <1>9, <1>10, <1>11, <1>12, Handler

\* A scan of the key keeps its types.
LEMMA ScanTypes ==
    ASSUME TypeOK, NEW dt \in 1..MaxLate, Pass(dt)
    PROVE  /\ scan' \in [last : BOOLEAN, released : BOOLEAN, age : 0..(KeyHeld + 1)]
           /\ up' \in 0..2
<1> USE PowerConstants
<1>1. /\ scan \in [last : BOOLEAN, released : BOOLEAN, age : 0..(KeyHeld + 1)]
      /\ up \in 0..2
  BY DEF TypeOK
<1>2. scan' = KeyPressed(down, dt).key /\ up' = IF down THEN up ELSE IF scan.last THEN 1 ELSE AtMost(up + 1, 2)
  BY DEF Pass
<1>3. AtMost(scan.age + dt, KeyHeld + 1) \in 0..(KeyHeld + 1)
  BY <1>1 DEF AtMost
<1>4. scan' \in [last : BOOLEAN, released : BOOLEAN, age : 0..(KeyHeld + 1)]
  <2>1. CASE down
    <3>1. scan' = [scan EXCEPT !.last = TRUE, !.age = AtMost(scan.age + dt, KeyHeld + 1)]
      BY <1>2, <2>1 DEF KeyPressed
    <3> QED
      BY <1>1, <1>3, <3>1
  <2>2. CASE ~down
    BY <1>1, <1>2, <2>2 DEF KeyPressed
  <2> QED
    BY <2>1, <2>2
<1> QED
  BY <1>1, <1>2, <1>4 DEF AtMost

\* Every step keeps RailInv.
LEMMA RailStep ==
    ASSUME RailInv, [Next]_vars
    PROVE  RailInv'
<1> USE PowerConstants
<1>1. CASE AutoPowerOn
  <2>1. fsm_Handler("KEY_RELEASED", Settle) /\ good' = good
    BY <1>1 DEF AutoPowerOn
  <2>2. MachineInv'
    BY <2>1, HandlerKeeps DEF Events
  <2>3. UNCHANGED <<good, down, scan, up>> /\ started' = TRUE
    BY <1>1 DEF AutoPowerOn
  <2> QED
    BY <2>2, <2>3 DEF RailInv, TypeOK, MachineInv
<1>2. ASSUME NEW dt \in 1..MaxLate, Pass(dt)
      PROVE  RailInv'
  <2>1. PICK event \in Events : fsm_Handler(event, dt)
    BY <1>2 DEF Pass, KeyEvent, Events
  <2>2. UNCHANGED <<good, down, started>>
    BY <1>2 DEF Pass
  <2>3. MachineInv'
    BY <2>1, <2>2, HandlerKeeps
  <2> QED
    BY <1>2, <2>2, <2>3, ScanTypes DEF RailInv, TypeOK, MachineInv
<1>3. CASE Key
  BY <1>3 DEF Key, RailInv, TypeOK, OffMeansDischarged, OffTime
<1>4. ASSUME NEW r \in Rails, SupplyUp(r)
      PROVE  RailInv'
  BY <1>4 DEF SupplyUp, Fed, RailInv, TypeOK, OffMeansDischarged, OffTime
<1>5. ASSUME NEW r \in Rails, SupplyDown(r)
      PROVE  RailInv'
  BY <1>5 DEF SupplyDown, RailInv, TypeOK, OffMeansDischarged, OffTime
<1>6. CASE UNCHANGED vars
  BY <1>6 DEF vars, RailInv, TypeOK, OffMeansDischarged, OffTime
<1> QED
  BY <1>1, <1>2, <1>3, <1>4, <1>5, <1>6 DEF Next, DevTaskHandler

\* Every step keeps the key's history.
LEMMA KeyStep ==
    ASSUME TypeOK, KeyHistory, [Next]_vars
    PROVE  KeyHistory'
<1>1. ASSUME NEW dt \in 1..MaxLate, Pass(dt)
      PROVE  KeyHistory'
  <2>1. scan \in [last : BOOLEAN, released : BOOLEAN, age : 0..(KeyHeld + 1)]
    BY DEF TypeOK
  <2>2. scan' = KeyPressed(down, dt).key /\ up' = IF down THEN up ELSE IF scan.last THEN 1 ELSE AtMost(up + 1, 2)
    BY <1>1 DEF Pass
  <2>3. CASE down
    BY <2>1, <2>2, <2>3 DEF KeyPressed, KeyHistory
  <2>4. CASE ~down
    BY <2>2, <2>4 DEF KeyPressed, KeyHistory
  <2> QED
    BY <2>3, <2>4
<1>2. CASE Key
  BY <1>2 DEF Key, KeyHistory
<1>3. CASE AutoPowerOn \/ UNCHANGED vars
  BY <1>3 DEF AutoPowerOn, vars, KeyHistory
<1>4. CASE \E r \in Rails : SupplyUp(r) \/ SupplyDown(r)
  BY <1>4 DEF SupplyUp, SupplyDown, KeyHistory
<1> QED
  BY <1>1, <1>2, <1>3, <1>4 DEF Next, DevTaskHandler

LEMMA PowerStart == ASSUME Init PROVE PowerInv
<1> USE PowerConstants DEF Init
<1>1. TypeOK
  <2>1. scan \in [last : BOOLEAN, released : BOOLEAN, age : 0..(KeyHeld + 1)]
    OBVIOUS
  <2>2. since \in 0..(Settle + 1) /\ off \in 0..(Settle + 1) /\ up \in 0..2
    OBVIOUS
  <2>3. st \in States /\ en \subseteq Rails /\ good \subseteq Rails
    BY DEF States
  <2>4. down \in BOOLEAN /\ started \in BOOLEAN
    OBVIOUS
  <2> QED
    BY <2>1, <2>2, <2>3, <2>4 DEF TypeOK
<1>2. OffMeansDischarged /\ OffTime
  BY DEF OffMeansDischarged, OffTime
<1>3. KeyHistory
  BY DEF KeyHistory
<1> QED
  BY <1>1, <1>2, <1>3 DEF PowerInv

\* RailInv holds in every reachable state (dev_fsm.c and dev_power.c), for every
\* timing of the passes, every brownout and every bounce of the key.
THEOREM RailInvariant == Spec => []RailInv
<1>1. Init => RailInv
  BY PowerStart DEF PowerInv, RailInv
<1>2. RailInv /\ [Next]_vars => RailInv'
  BY RailStep
<1> QED
  BY <1>1, <1>2, PTL DEF Spec

\* PowerInv holds in every reachable state (dev_power.c, the whole state
\* machine), for every timing of the passes, every brownout and every bounce.
THEOREM PowerInvariant == Spec => []PowerInv
<1>1. Init => PowerInv
  BY PowerStart
<1>2. PowerInv /\ [Next]_vars => PowerInv'
  BY RailStep, KeyStep DEF PowerInv, RailInv
<1> QED
  BY <1>1, <1>2, PTL DEF Spec

\* "Power off finished" is reached only with the 12 V supply gone, also with a
\* key that bounces.
THEOREM OffCorrect == Spec => []OffMeansDischarged
<1>1. RailInv => OffMeansDischarged
  BY DEF RailInv
<1> QED
  BY <1>1, RailInvariant, PTL

\* The 12 V rail is never enabled again before the stabilising time is over: a
\* key that bounces cannot cycle it faster.
THEOREM CycleCorrect == Spec => PowerCycled
<1> DEFINE Cycled == ("P12V" \notin en /\ "P12V" \in en') => off > Settle
<1> USE PowerConstants
<1>1. ASSUME RailInv, [Next]_vars
      PROVE  [Cycled]_vars
  <2>1. ASSUME NEW event \in Events, NEW dt \in Nat, fsm_Handler(event, dt)
        PROVE  Cycled
    <3>1. TypeOK /\ OffMeansDischarged /\ OffTime
      BY <1>1 DEF RailInv
    <3> QED
      BY <2>1, <3>1, Handler DEF Moved, OffTime, TypeOK
  <2>2. CASE DevTaskHandler
    BY <2>1, <2>2 DEF DevTaskHandler, AutoPowerOn, Pass, KeyEvent, Events
  <2>3. CASE ~DevTaskHandler
    BY <1>1, <2>3 DEF Next, Key, SupplyUp, SupplyDown, vars
  <2> QED
    BY <2>2, <2>3
<1> QED
  BY <1>1, RailInvariant, PTL DEF Spec, PowerCycled

\* The key switches the board in the pass that finds it up after it was down, and while
\* it is held only if it came down again after a single pass.
THEOREM KeyCorrect == Spec => ActsOnRelease
<1> DEFINE Acts == (started /\ <<st, st'>> \in {<<"POWEROFF", "P12VEN">>, <<"POWERON", "P12VDIS">>})
                      => (~down /\ scan.last) \/ (down /\ up = 1)
<1> USE PowerConstants
<1>1. ASSUME PowerInv, [Next]_vars
      PROVE  [Acts]_vars
  <2>1. ASSUME NEW dt \in 1..MaxLate, Pass(dt)
        PROVE  Acts
    <3> DEFINE k == KeyPressed(down, dt)
               event == KeyEvent(k)
    <3>1. event \in Events /\ fsm_Handler(event, dt) /\ dt \in Nat
      BY <2>1 DEF Pass, KeyEvent, Events
    <3>2. TypeOK /\ OffMeansDischarged /\ KeyHistory
      BY <1>1 DEF PowerInv
    <3>3. CASE event = "NULL"
      <4>1. ~(Moved("POWEROFF", "P12VEN") \/ Moved("POWERON", "P12VDIS"))
        BY <3>1, <3>2, <3>3, Handler DEF Moved, Unmoved
      <4> QED
        BY <3>1, <3>2, <3>3, <4>1, Handler DEF Moved, Unmoved
    <3>4. CASE event = "KEY_RELEASED"
      <4>1. k.key.released
        BY <3>4 DEF KeyEvent
      <4> QED
        BY <3>2, <4>1 DEF KeyPressed, KeyHistory, TypeOK
    <3> QED
      BY <3>1, <3>3, <3>4 DEF Events
  <2>2. CASE AutoPowerOn
    BY <2>2 DEF AutoPowerOn
  <2>3. CASE ~DevTaskHandler
    BY <1>1, <2>3 DEF Next, Key, SupplyUp, SupplyDown, vars
  <2> QED
    BY <2>1, <2>2, <2>3 DEF DevTaskHandler
<1> QED
  BY <1>1, PowerInvariant, PTL DEF Spec, ActsOnRelease
=============================================================================
