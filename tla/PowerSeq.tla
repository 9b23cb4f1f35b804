------------------------------- MODULE PowerSeq -------------------------------
(***************************************************************************)
(* The power board: the key scan (KeyPressedDurationMs), the state machine *)
(* of dev_fsm.c with the transitions of dev_power.c, and the task that     *)
(* drives both every 10 ms (DevTaskHandler).                               *)
(*                                                                         *)
(* Time is counted in the task's periods.  A pass may come up to MaxLate   *)
(* periods after the one before: sampling the MAC5023 and other tasks      *)
(* delay it.  Counters stop just above the largest value they are compared *)
(* with.                                                                   *)
(***************************************************************************)
EXTENDS Integers

CONSTANTS
    KeyHeld,    \* 90 ms: a press longer than this counts
    Settle,     \* WAIT_POWERDOWN_STABILIZE_XMS, 100 ms
    MaxLate,    \* periods between two passes, at most
    Brownouts   \* whether the 12 V supply may fail while it is enabled

ASSUME PowerConstants ==
    /\ KeyHeld \in Nat /\ Settle \in Nat
    /\ MaxLate \in Nat \ {0}
    /\ Brownouts \in BOOLEAN

States == {"POWEROFF", "P12VEN", "P5V_P3VEN", "POWERON", "P12VDIS", "P5VP3V_DIS"}
Rails == {"P12V", "P5V", "P3V3"}
Events == {"NULL", "KEY_RELEASED"}

VARIABLES
    st,       \* g_powerSM.curState
    since,    \* time since g_powerSM.lastHandlerTimeStamp
    en,       \* the rails whose enable pin is set
    good,     \* the rails whose power good pin is active
    down,     \* the key pin is active
    scan,     \* Key_ScanST; age is the time since preesedStartTick
    started,  \* the task's first call of fsm_Handler is done
    off,      \* history: how long the 12 V rail has been disabled
    up        \* history: the latest passes in a row that found the key up

vars == <<st, since, en, good, down, scan, started, off, up>>

AtMost(n, bound) == IF n > bound THEN bound ELSE n

\* After a reset all enable pins are inactive (GPIO_InitGPIOs).  The key's
\* structure is zero, so preesedStartTick lies at least WAIT_POWERON_STABILIZE
\* in the past.
Init ==
    /\ st = "POWEROFF"
    /\ since = 0
    /\ en = {}
    /\ good = {}
    /\ down \in BOOLEAN
    /\ scan = [last |-> FALSE, released |-> FALSE, age |-> KeyHeld + 1]
    /\ started = FALSE
    /\ off = Settle + 1
    /\ up = 0

----------------------------------------------------------------------------
\* KeyPressedDurationMs, dt after the previous scan: the key as it leaves it
\* and the duration it returns.

ReleasedKept(pressed, dt) ==    \* mutant
    IF pressed
    THEN [key |-> [scan EXCEPT !.last = TRUE, !.age = AtMost(@ + dt, KeyHeld + 1)],
          duration |-> scan.age + dt]
    ELSE [key |-> [last |-> FALSE, released |-> scan.last \/ scan.released, age |-> 0],
          duration |-> IF scan.last THEN scan.age + dt ELSE 0]

KeyPressed(pressed, dt) ==
    IF pressed
    THEN [key |-> [scan EXCEPT !.last = TRUE, !.age = AtMost(@ + dt, KeyHeld + 1)],
          duration |-> scan.age + dt]
    ELSE [key |-> [last |-> FALSE, released |-> scan.last, age |-> 0],
          duration |-> IF scan.last THEN scan.age + dt ELSE 0]

KeyEvent(k) ==
    IF k.key.released /\ k.duration > KeyHeld THEN "KEY_RELEASED" ELSE "NULL"

----------------------------------------------------------------------------
\* The actions of the transitions: whether the action is over and the rails
\* enabled after it.  t is the time since the last transition.

P12VEn(t) == [over |-> TRUE, en |-> en \union {"P12V"}]

WaitP12PowerGD(t) ==
    IF "P12V" \in good THEN [over |-> TRUE, en |-> en \union {"P5V", "P3V3"}]
    ELSE [over |-> FALSE, en |-> en]

WaitForBothRails(t) == [over |-> {"P3V3", "P5V"} \subseteq good, en |-> en]    \* mutant

WaitP5VP3VPowerGD(t) ==
    [over |-> {"P3V3", "P5V"} \subseteq good \/ t > Settle, en |-> en]

P12Dis(t) == [over |-> TRUE, en |-> en \ {"P12V"}]

DisableAtOnce(t) == [over |-> TRUE, en |-> en \ {"P12V"}]    \* mutant

\* It disables P12V a second time, and neither P5V nor P3V3.
P5VP3VDis(t) ==
    IF "P12V" \in good THEN [over |-> FALSE, en |-> en]
    ELSE [over |-> TRUE, en |-> en \ {"P12V"}]

PowerOffAtOnce(t) == [over |-> TRUE, en |-> en]    \* mutant

PowerOff(t) == [over |-> t > Settle, en |-> en]

\* A row of g_powerStateTran: its event, its action's result, the next state.
Row(e, result, s) == [event |-> e, result |-> result, next |-> s]

Transition(s, t) ==
    CASE s = "POWEROFF"   -> Row("KEY_RELEASED", P12VEn(t), "P12VEN")
      [] s = "P12VEN"     -> Row("NULL", WaitP12PowerGD(t), "P5V_P3VEN")
      [] s = "P5V_P3VEN"  -> Row("NULL", WaitP5VP3VPowerGD(t), "POWERON")
      [] s = "POWERON"    -> Row("KEY_RELEASED", P12Dis(t), "P12VDIS")
      [] s = "P12VDIS"    -> Row("NULL", P5VP3VDis(t), "P5VP3V_DIS")
      [] s = "P5VP3V_DIS" -> Row("NULL", PowerOff(t), "POWEROFF")

\* fsm_Handler, dt after the previous pass.  An event without a row is lost.
fsm_Handler(event, dt) ==
    LET row  == Transition(st, since + dt)
        over == row.event = event /\ row.result.over
    IN  /\ st' = IF over THEN row.next ELSE st
        /\ since' = IF over THEN 0 ELSE AtMost(since + dt, Settle + 1)
        /\ en' = IF row.event = event THEN row.result.en ELSE en
        /\ off' = IF "P12V" \in en THEN 0 ELSE AtMost(off + dt, Settle + 1)

\* The board powers up by itself, WAIT_POWERON_STABILIZE after the task starts.
AutoPowerOn ==
    /\ ~started
    /\ started' = TRUE
    /\ fsm_Handler("KEY_RELEASED", Settle)
    /\ UNCHANGED <<good, down, scan, up>>

\* One pass of DevTaskHandler's loop.
Pass(dt) ==
    LET k == KeyPressed(down, dt)
    IN  /\ started
        /\ scan' = k.key
        /\ fsm_Handler(KeyEvent(k), dt)
        /\ up' = IF down THEN up ELSE IF scan.last THEN 1 ELSE AtMost(up + 1, 2)
        /\ UNCHANGED <<good, down, started>>

DevTaskHandler == AutoPowerOn \/ \E dt \in 1..MaxLate : Pass(dt)

----------------------------------------------------------------------------
\* The board around the controller: someone moves the key, whose contacts may
\* bounce and which a pass may miss; a supply becomes good only while it is
\* enabled, and goes once it is disabled.  The 5 V and 3.3 V supplies are fed from
\* the 12 V rail.

Key ==
    /\ down' = ~down
    /\ UNCHANGED <<st, since, en, good, scan, started, off, up>>

Fed(r) == r \in en /\ (r = "P12V" \/ "P12V" \in good)

SupplyUp(r) ==
    /\ Fed(r) /\ r \notin good
    /\ good' = good \union {r}
    /\ UNCHANGED <<st, since, en, down, scan, started, off, up>>

SupplyDown(r) ==
    /\ r \in good
    /\ ~Fed(r) \/ Brownouts
    /\ good' = good \ {r}
    /\ UNCHANGED <<st, since, en, down, scan, started, off, up>>

Next ==
    \/ DevTaskHandler
    \/ Key
    \/ \E r \in Rails : SupplyUp(r) \/ SupplyDown(r)

Spec == Init /\ [][Next]_vars

\* The scheduler runs the task; the 12 V supply comes up after it is enabled
\* and goes down after it is disabled.  Nothing is assumed of the other two.
Fairness ==
    /\ WF_vars(DevTaskHandler)
    /\ WF_vars(SupplyUp("P12V"))
    /\ WF_vars("P12V" \notin en /\ SupplyDown("P12V"))

FairSpec == Spec /\ Fairness

----------------------------------------------------------------------------
\* Properties

TypeOK ==
    /\ st \in States
    /\ since \in 0..(Settle + 1)
    /\ en \subseteq Rails
    /\ good \subseteq Rails
    /\ down \in BOOLEAN
    /\ up \in 0..2
    /\ scan \in [last : BOOLEAN, released : BOOLEAN, age : 0..(KeyHeld + 1)]
    /\ started \in BOOLEAN
    /\ off \in 0..(Settle + 1)

\* The 12 V rail is enabled exactly in the states that say so, and the machine
\* waits for the 12 V supply to be gone before it goes on to P5VP3V_DIS:
\* "Power off finished" is never reached with 12 V still good, although the key
\* may have been pressed any number of times on the way (dev_power.c, the
\* transitions and the state's alias).
OffMeansDischarged ==
    /\ ("P12V" \in en) <=> (st \in {"P12VEN", "P5V_P3VEN", "POWERON"})
    /\ st \in {"P5VP3V_DIS", "POWEROFF"} => "P12V" \notin good

\* Before the 12 V rail is enabled it has been off for longer than
\* WAIT_POWERDOWN_STABILIZE_XMS, except that the wait after a reset is exactly
\* that long: no sequence of key presses cycles the rail faster.
PowerCycled ==
    [][("P12V" \notin en /\ "P12V" \in en') => off > Settle]_vars

\* The key starts a transition in a pass that finds it up after it was down: holding
\* it does not switch the board on and off.  The exception is a key that comes down
\* again after one pass only, because it bounced or was pressed again at once: its
\* release has not been forgotten (isReleased) and acts while the key is held.
ActsOnRelease ==
    [][(started /\ <<st, st'>> \in {<<"POWEROFF", "P12VEN">>, <<"POWERON", "P12VDIS">>})
          => (~down /\ scan.last) \/ (down /\ up = 1)]_vars

\* The times that PowerCycled and the key's history that ActsOnRelease rest on.
OffTime ==
    /\ st = "P5VP3V_DIS" => off >= since
    /\ st = "POWEROFF" => off > Settle

KeyHistory == scan.released => up = 1

\* The inductive invariant: a release is remembered for one pass up, and what the
\* machine waited for in P12VDIS and P5VP3V_DIS still holds in POWEROFF.
PowerInv == TypeOK /\ OffMeansDischarged /\ OffTime /\ KeyHistory

\* Each switching on or off ends: with a 12 V supply that follows its enable pin,
\* and fails only so often, the machine comes back to POWERON or POWEROFF again
\* and again, even if the 5 V and 3.3 V supplies never become good.  A key held for ever
\* after a release that was not forgotten stops it: each pass has an event then that
\* the states on the way do not take.
Settles ==
    ( /\ <>[][("P12V" \in good /\ "P12V" \notin good') => "P12V" \notin en]_vars
      /\ []<>(~scan.last \/ up # 1) )
        => []<>(st \in {"POWERON", "POWEROFF"})

=============================================================================
