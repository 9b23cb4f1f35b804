--------------------------- MODULE ChassisCtrlProofs ---------------------------
(***************************************************************************)
(* Proofs about ChassisCtrl for every sequence of commands and any number  *)
(* of timers at once.                                                      *)
(***************************************************************************)
EXTENDS ChassisCtrl, TLAPS

LEMMA RequestIs ==
  /\ \A r \in Requests : r.cmd \in Commands
  /\ None.cmd \in Commands /\ None.from # "update"
  BY DEF Requests, Commands, None

LEMMA QueueIs ==
  ASSUME NEW r \in Requests
  PROVE  /\ <<r>> # <<>> /\ Head(<<r>>) = r /\ Tail(<<r>>) = <<>>
         /\ \A s \in Requests : <<r>> = <<s>> => s = r
  OBVIOUS

\* A pulse is on the pin its timer will release.
LEMMA PulsedReleased ==
  ASSUME NEW c \in Commands
  PROVE  Pulsed(c) \subseteq Released(c) /\ Released(c) \subseteq Pins
  BY DEF Pulsed, Released, Commands, Pins

LEMMA InitInv == ASSUME Init PROVE ChassisInv
<1>1. Types
  BY DEF Init, Types, Commands, Pins
<1> QED
  BY <1>1 DEF Init, ChassisInv, KeyComes, KeyFirst, PinsHeld

\* The message task leaves the sampling task, the pins and the timers alone.
LEMMA MessageInv ==
  ASSUME ChassisInv, UNCHANGED <<adc, taken, pins, timers, lost>>, Types', KeyComes', key => key'
  PROVE  ChassisInv'
<1>1. KeyFirst'
  BY DEF ChassisInv, Types, KeyFirst
<1>2. PinsHeld'
  BY DEF ChassisInv, PinsHeld, PinHeld
<1> QED
  BY <1>1, <1>2 DEF ChassisInv

LEMMA AskInv ==
  ASSUME ChassisInv, NEW r \in Requests, Ask(r)
  PROVE  ChassisInv'
<1>1. Types'
  BY DEF ChassisInv, Types, Ask
<1>2. KeyComes'
  BY DEF ChassisInv, Types, KeyComes, Ask
<1> QED
  BY <1>1, <1>2, MessageInv DEF Ask

LEMMA SendInv ==
  ASSUME ChassisInv, Send
  PROVE  ChassisInv'
<1>1. request \in Requests /\ queue' = <<request>>
  BY DEF ChassisInv, KeyComes, Send
<1>2. Types'
  BY <1>1 DEF ChassisInv, Types, Send, Done
<1>3. KeyComes'
  BY <1>1, QueueIs DEF ChassisInv, KeyComes, Send, Done
<1> QED
  BY <1>2, <1>3, MessageInv DEF Send

LEMMA WaitInv ==
  ASSUME ChassisInv, Wait \/ TimedOut
  PROVE  ChassisInv'
<1>1. Types' /\ KeyComes'
  BY DEF ChassisInv, Types, KeyComes, Wait, TimedOut, Done
<1> QED
  BY <1>1, MessageInv DEF Wait, TimedOut

LEMMA WriteKeyInv ==
  ASSUME ChassisInv, WriteKey
  PROVE  ChassisInv'
<1>1. Types' /\ KeyComes'
  BY DEF ChassisInv, Types, KeyComes, WriteKey, Done
<1> QED
  BY <1>1, MessageInv DEF WriteKey

LEMMA ReceiveInv ==
  ASSUME ChassisInv, Receive
  PROVE  ChassisInv'
<1>1. PICK r \in Requests : queue = <<r>>
  BY DEF ChassisInv, Types, Receive
<1>2. taken' = r /\ queue' = <<>>
  BY <1>1, QueueIs DEF Receive
<1>3. Types' /\ KeyComes'
  BY <1>1, <1>2, QueueIs DEF ChassisInv, Types, KeyComes, Receive
<1>4. KeyFirst'
  BY <1>1, <1>2 DEF ChassisInv, KeyComes, KeyFirst, Receive, MessageTaskBlocked
<1>5. PinsHeld'
  BY DEF ChassisInv, PinsHeld, PinHeld, Receive
<1> QED
  BY <1>3, <1>4, <1>5 DEF ChassisInv

LEMMA ActInv ==
  ASSUME ChassisInv, Act
  PROVE  ChassisInv'
<1>1. taken.cmd \in Commands
  BY RequestIs DEF ChassisInv, Types
<1>2. Pulsed(taken.cmd) \subseteq Released(taken.cmd) /\ Released(taken.cmd) \subseteq Pins
  BY <1>1, PulsedReleased
<1>3. Types' /\ KeyComes'
  BY <1>2 DEF ChassisInv, Types, KeyComes, Act
<1>4. KeyFirst'
  BY DEF KeyFirst, Act
<1>5. ASSUME NEW p \in pins' \ lost' PROVE PinHeld(p)'
  <2>1. CASE p \in pins
    BY <2>1 DEF ChassisInv, PinsHeld, PinHeld, Act
  <2>2. CASE p \in Pulsed(taken.cmd)
    BY <1>2, <2>2 DEF PinHeld, Act, Released
  <2> QED
    BY <1>5, <2>1, <2>2 DEF Act
<1> QED
  BY <1>3, <1>4, <1>5 DEF ChassisInv, PinsHeld

LEMMA StartTimerInv ==
  ASSUME ChassisInv, StartTimer
  PROVE  ChassisInv'
<1>1. taken.cmd \in Commands
  BY RequestIs DEF ChassisInv, Types
<1>2. /\ timers' \in [Commands -> Nat] /\ timers'[taken.cmd] > 0
      /\ \A c \in Commands : timers[c] > 0 => timers'[c] > 0
  BY <1>1 DEF ChassisInv, Types, StartTimer
<1>3. Types' /\ KeyComes' /\ KeyFirst'
  BY <1>2 DEF ChassisInv, Types, KeyComes, KeyFirst, StartTimer
<1>4. ASSUME NEW p \in pins' \ lost' PROVE PinHeld(p)'
  BY <1>1, <1>2, <1>4 DEF ChassisInv, PinsHeld, PinHeld, StartTimer, Released
<1> QED
  BY <1>3, <1>4 DEF ChassisInv, PinsHeld

LEMMA TimerFailsInv ==
  ASSUME ChassisInv, TimerFails
  PROVE  ChassisInv'
<1>1. Types' /\ KeyComes' /\ KeyFirst'
  BY DEF ChassisInv, Types, KeyComes, KeyFirst, TimerFails
<1>2. ASSUME NEW p \in pins' \ lost' PROVE PinHeld(p)'
  <2>1. p \in pins \ lost /\ p \notin Released(taken.cmd)
    BY <1>2 DEF TimerFails
  <2>2. \E c \in Commands : timers[c] > 0 /\ p \in Released(c)
    BY <2>1 DEF ChassisInv, PinsHeld, PinHeld
  <2> QED
    BY <2>2 DEF PinHeld, TimerFails, Released
<1> QED
  BY <1>1, <1>2 DEF ChassisInv, PinsHeld

LEMMA ExpireInv ==
  ASSUME ChassisInv, NEW c \in Commands, Expire(c)
  PROVE  ChassisInv'
<1>1. /\ timers' \in [Commands -> Nat] /\ pins' = pins \ Released(c)
      /\ \A d \in Commands : d # c => timers'[d] = timers[d]
  BY DEF ChassisInv, Types, Expire
<1>2. Types' /\ KeyComes' /\ KeyFirst'
  BY <1>1 DEF ChassisInv, Types, KeyComes, KeyFirst, Expire
<1>3. ASSUME NEW p \in pins' \ lost' PROVE PinHeld(p)'
  <2>1. p \in pins /\ p \notin Released(c) /\ PinHeld(p)
    BY <1>1, <1>3 DEF ChassisInv, PinsHeld, Expire
  <2>2. CASE \E d \in Commands : timers[d] > 0 /\ p \in Released(d)
    BY <1>1, <2>1, <2>2 DEF PinHeld, Released
  <2>3. CASE adc = "time" /\ p \in Released(taken.cmd)
    BY <2>3 DEF PinHeld, Released, Expire
  <2> QED
    BY <2>1, <2>2, <2>3 DEF PinHeld
<1> QED
  BY <1>2, <1>3 DEF ChassisInv, PinsHeld

LEMMA RestartInv == ASSUME ChassisInv, Restart PROVE ChassisInv'
<1>1. Types'
  BY DEF ChassisInv, Types, Restart, Commands, Pins
<1> QED
  BY <1>1 DEF Restart, ChassisInv, KeyComes, KeyFirst, PinsHeld

LEMMA NextInv == ASSUME ChassisInv, [Next]_vars PROVE ChassisInv'
<1>1. ASSUME NEW r \in Requests, Ask(r) PROVE ChassisInv'
  BY <1>1, AskInv
<1>2. CASE MessageTask
  BY <1>2, SendInv, WaitInv, WriteKeyInv DEF MessageTask
<1>3. CASE TimedOut
  BY <1>3, WaitInv
<1>4. CASE CreateQueue
  BY <1>4 DEF ChassisInv, Types, KeyComes, KeyFirst, PinsHeld, PinHeld, CreateQueue
<1>5. CASE AdcTask
  BY <1>4, <1>5, ReceiveInv, ActInv, StartTimerInv DEF AdcTask
<1>6. ASSUME NEW c \in Commands, Expire(c) PROVE ChassisInv'
  BY <1>6, ExpireInv
<1>10. CASE TimerFails
  BY <1>10, TimerFailsInv
<1>7. CASE Supply
  BY <1>7 DEF ChassisInv, Types, KeyComes, KeyFirst, PinsHeld, PinHeld, Supply
<1>8. CASE Restart
  BY <1>8, RestartInv
<1>9. CASE UNCHANGED vars
  BY <1>9 DEF vars, ChassisInv, Types, KeyComes, KeyFirst, PinsHeld, PinHeld
<1> QED
  BY <1>1, <1>2, <1>3, <1>5, <1>6, <1>7, <1>8, <1>9, <1>10 DEF Next, Fault

\* The types, the key of a queued update and the timers of the pins, over preemption,
\* overlapping pulses and restarts.
THEOREM ChassisInvariant == Spec => []ChassisInv
<1>1. Init => ChassisInv
  BY InitInv
<1>2. ChassisInv /\ [Next]_vars => ChassisInv'
  BY NextInv
<1> QED
  BY <1>1, <1>2, PTL DEF Spec

\* The reset of an update is acted on after the key has been written.
THEOREM KeyBeforeReset == Spec => []KeyFirst
<1>1. ChassisInv => KeyFirst
  BY DEF ChassisInv
<1> QED
  BY <1>1, ChassisInvariant, PTL

\* No pin is left enabled without a timer that ends its pulse, unless that timer could
\* not be created.
THEOREM PinsReleased == Spec => []PinsHeld
<1>1. ChassisInv => PinsHeld
  BY DEF ChassisInv
<1> QED
  BY <1>1, ChassisInvariant, PTL

=============================================================================
