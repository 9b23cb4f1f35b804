# IPMB_gd32: a TLA+ model of the board management controller

The repository is the firmware of a small board management controller (BMC) on a
GD32F303: an application (`user/`, `api/`, `bsp/`, `ipmb/`, `ipmi/`,
`sub_devices/`) and a bootloader (`boot/`), both on FreeRTOS. Several boards
with this firmware share two IPMB (I2C) buses. One of them, the main board, polls
the sensors of the others, forwards requests from its console to them, and updates
their firmware. All paths below are relative to `src/bmc_gd32f303/`.

This directory holds TLA+ models of the parts whose correctness depends on
interleaving, loss, order and time, TLC configurations that check them on small
instances, and proofs (TLAPS) of their main safety properties for every value of
the constants.

## 1. The system

| Component | State | Operations | Modelled in |
|---|---|---|---|
| Message core, `ipmi/.../data/MsgHndlr.c` | `RecvDatMsg_Queue`, `ResponseDatMsg_Queue`, `RecvForwardI2CDatMsg_Queue`; the handler's `recvPkt` and `Res` | `MsgCoreHndlr`, `vTaskResponseDatWrite`, `SendMsgAndWait`, `ProcessIPMIReq` | `MsgCore` |
| Serial gateway, `ipmb/libipmiserial-src/Serial.c`, `SerialIfc.c` | none of its own: works on the handler's packets | `ProcessSerialMessage`, `ProcessSerPortReq`, the framing of packets | `MsgCore` (dispatch, number of encodings), `SerialRx` (byte stuffing) |
| I2C, `bsp/bsp_i2c.c` | the receive buffer `g_i2c_Req`, the second slave address registers | slave receive and error interrupts, master writes, `i2c_dualaddr_set/get` | `I2cSlaveRx` (byte by byte), `Mailbox` (what it promises), `MsgCore` (whole messages, registers) |
| Sampling and bus switching, `sub_devices/api_subdevices.c` | per board: bus, online flag; per sensor: reading, failure count | `SubDevice_SampleAll`, `SubDevice_SwitchBus`, upload | `SubDevices`, its messages in `MsgCore` |
| Bootloader, `boot/boot_update.c`, `boot_main.c`, `flash.c`, `api/update/jump.c` | state machine, block number and page, channel; flash; backup register | `boot_ProcessUpdateReq`, `updateMonitor`, `FLASH_Program`, `update_JumpToRun` | `BootUpdate` |
| I2C forwarding in the bootloader, `boot/boot_i2cForward.c` | `updateDatMsg_Queue` | `boot_I2cForwardTask1`, `boot_I2cForwardTask2` | `FirmwareUpdate` |
| Update task, `api/update/update_devs.c` | phase, block at hand, number of tries; it alone reads the message core's queues | `updateDev_isModeVersionLower`, `updateDev_notifyDevBoot`, `updateDev_xmode`, `updateDev_decodeMsg` | `FirmwareUpdate`, `Transfer` (what it promises) |
| Power sequencing and key, `sub_devices/dev_power.c`, `dev_fsm.c` | state machine with time stamp, key history, enable pins | `fsm_Handler`, `KeyPressedDurationMs`, `DevTaskHandler` | `PowerSeq` |
| Chassis control and OEM commands | `g_chassisCtrl_Queue` (length 1), pulse timers, backup registers | `ChassisControl`, `ColdReset`, `UpdateFirmware`, `ChassisCtrl`, the timers' callback | `ChassisCtrl` |
| UART transmit, `bsp/bsp_uartcomm.c`, `api/tools/FIFO.c` | ring buffer with occupancy, `UART_SENDING` | `UART_sendData`, `UART_sendFinally`, transmit interrupt, `UART_sendDataBlock` (past the ring) | `UartTx`, `ByteStream` (what it promises) |
| UART receive, `bsp/bsp_usart0.c`, `bsp_usart1.c` | `g_uart_Req`, `is_start`, the shell's FIFO | receive interrupt | `SerialRx` |
| IPMI command handlers (App, Sensor, Storage) | tables | one handler for each command | contents left out |
| ADC, fan, PID, EEPROM, UTC, shell | single values | conversion, control law, calendar, user interface | not modelled |
| FreeRTOS, GD32 library, lwIP, FatFs, cJSON, cm_backtrace | | | third-party |

`PROJECT.json` lists the source files of each.

**How they interact.** Interrupt handlers put whole messages into queues (with
no room, the message is dropped); tasks take them out. A request from the
console or from IPMB goes through `RecvDatMsg_Queue` to `MsgCoreHndlr`, its answer
through `ResponseDatMsg_Queue` to `vTaskResponseDatWrite`, which writes it to the
line. A request for another board takes the same way out, and `MsgCoreHndlr`
waits for the reply in `RecvForwardI2CDatMsg_Queue`, where the sampler waits for
its own replies. A firmware update uses the same queues for another purpose: the
main board's update task suspends the message core and reads answers and
acknowledgements from them, and the bootloader has tasks that copy both of them to
`updateDatMsg_Queue`.

**What is hard.** Two tasks wait on one reply queue and a reply does not say
whose it is. Late replies stay queued. A forwarded request spans two blocking
calls with timeouts, and leaves state in hardware registers. The update protocol
runs over a line that loses, damages and repeats, between two programs either of
which may be reset, with block numbers of 8 bits, an acknowledgement sent before
the work is done, and an end-of-transmission that travels on another path than
the blocks. The power sequencer waits for pins, some with and some without a
timeout, while a key is pressed at any moment. The bus switcher changes the bus
on evidence gathered on that bus. Two interrupt handlers assemble messages in one
buffer, and a byte that finds it full is never read. The transmitter is started by whoever
finds it idle, a task or the interrupt, and nothing starts it again if both believe the
other will; some tasks write to it past its ring. The bootloader repeats an
acknowledgement after two seconds without a message, whether the sender has had it or not. A chassis command waits in
a queue while what it relies on is still being written. `PROJECT.json` lists these hazards at the lines
where they bite, with the properties that guard against each.

**What makes each part correct.** Message core: answers in order, each to the one
who asked; readings from the board that was asked; no task hangs. Update: an
image is started as a whole or not at all unless the device is reset or an acknowledgement
comes too many, each block in its place, nothing but
the application area written, a channel once recorded kept, no device changed that
has not agreed. Power: the 12 V rail
is not cycled too fast and is gone before power off is reported; each switching
ends; one action for each press of the key. Boards: readings no older than
promised, no board taken off a bus that works, each board found again. Receive paths:
a message is taken whole or not at all, and a disturbance spoils no message but its
own. Transmit path: every byte once, in order, and no stop, until two contexts race. Chassis: every pulse
ends, every command is taken, and an update finds its key.

## 2. The modules

Definitions carry the names of the functions they stand for, where these have one.
`PROJECT.json` maps each definition to its lines. Operators commented `mutant` are
wrong versions of the definition that follows; they are used by no specification
and serve to show that a property is not empty.

### MsgCore

Two tasks, the sampler's requests, the interrupt handlers and the slave boards. A
step of a task is what it does between two calls that can block.
`com` (`idle`, `forward`, `await`, `respond`) is where `MsgCoreHndlr` is: waiting
in `xQueueReceive`, in the first half of `SendMsgAndWait`, in its second half, or
in the send at the end of its loop. `req` is `recvPkt`; `res` is `Res`, which the
code does not clear between messages, so it is a variable that keeps its value.
`ComDrop`, `ComProcess` and `ComReceiveForward` are the three ways a message goes
through the dispatch. `upl` and `poll` are the sampler in `SubDevice_SampleAll`.

A message is its requester and responder address, a sensor byte, how often it has been
encoded for the serial line, whether its checksums are right, and two numbers
that the program does not have: `no`, the request it poses or answers, and
`src`, the request its content answers. They are history, used only by properties.
The console and IPMB masters send any command. In a request `sensor` is the number that
Get Sensor Reading asks about, or `NoSensor` for any other command; in a reply it is the
byte where the answer to Get Sensor Reading repeats that number, and for other commands
this is any byte (`SensorByte`). The sampler looks at the responder's address, this byte
and the completion code only (`Matches`, `api_subdevices.c:460`), so a late reply to
another command that was forwarded may be recorded as a reading, as in the code.
Which reply a waiter gets depends on nothing but the order in `fwdQ`, as in the
code. A timeout is enabled whenever what is waited for is not there.

`saddr1` holds the second slave address registers. `i2c_dualaddr_set` and
`_get` expect a base address and are given a bus number, so the bus number is not
in `Periphs` in the instances and a read gives `Stray`, whatever lies there.

### BootUpdate

The update task and the monitor of the bootloader. The update task suspends the
monitor while it handles a message; resuming it ends the monitor's delay, so each
message is followed by one pass of the monitor in the same step (`Conclude`,
`Wake`). A message taken and acknowledged but not programmed yet is `job`, the one
point inside a message where a reset makes a difference; resets while erasing are
`CrashInErase`. One action per outcome of `boot_ProcessUpdateReq`: `CheckFails`,
`Duplicate`, `WrongNumber`, `OverLength`, `Acknowledge`, `EndOfTransfer`, `Quit`,
`StopStartup`, `GoToApp`, `Ignore`. `ram` is what a reset loses; `flash` and `key`
survive. With `BootSpec` the host sends any message at any time.

### FirmwareUpdate and Transfer

Extends `BootUpdate` with the main board's update task, the device's application as
far as it takes part, the two forwarding tasks and their queues. `snd` is where
`updateDev_task` is (`Phases`): it asks the version (`check`, `hearVersion`; a forced
update leaves this out), asks the device to restart in its bootloader (`notify`,
`hearConsent`), writes a block and waits for its ACK (`write`, `wait`), writes the EOT.
`asked` is the request under way, `fwdQ` the queue of one in which answers arrive. The
task takes the first answer there is, whatever it answers; the upload task it has
suspended may have left one (`late`). How often it asks again is arbitrary, as
`reSend` is not initialised (`NotifyAgain`).

The device in its application answers, or agrees: then its update key is written and
it restarts (`Agree`, `DeviceRestarts`; the order of key and reset is `ChassisCtrl`'s
matter). The bootloader's handlers are those of `BootUpdate`: `Handle` is
`Receive` of the message in `updateDatMsg_Queue`. Blocks can be written damaged or
not at all, the write may report failure (and then be retried), requests, answers and
acknowledgements may be lost, and the device may be reset.

The module is about one device. In an update of all boards what the boards before it
have left in the queue of acknowledgements is `Leftover`: nothing, or (in
`FirmwareUpdateAll`) the ACK of an EOT.

`Transfer` says what all this comes to until the board is reset or an ACK comes too many: its area goes
from the old program over the erased area to one block of the image after the other, each
in its place and once; only the old program or the whole image is started; the sender
goes on when the board has the block it is at, or has taken it and is about to write it.
`IsTransfer` is its specification under the mapping that takes `flash` for the area and
`k` for the sender's place. A reset or an ACK too many ends the promise (`cut`): after it the
sender still moves by one block at a time, and no program changes while it runs.

An ACK is too many (`surplus`) if it comes while the sender is at a block and is not
missing one (`MissesAck`: the device has taken the block at hand, and no ACK is on its way).
The monitor sends one when it has seen no message for `RESEND_TIMEOUT` (`boot_main.c:133-137`)
although the sender goes on: writes that fail, or are lost, do not reach it. `idle`
counts such attempts since the monitor's last pass.

Real time enters in three places, each a guard named for it:

* `TimedOut`: the sender waits 200 ms for an ACK (2 s for the first). A device
  that is neither erasing nor gone handles a message well within that time.
* `Erasing`: only erasing the area keeps the update task busy for the 50 ticks
  after which a forwarding task gives up.
* `SecondOver`: a pass of the monitor comes a second after the one before. In this time a
  sender that tries to get a block over makes at least `PerSecond` attempts that come to
  nothing (20 ms after a failed write, 200 ms after a lost one), or is waiting for the
  ACK of the first block.

An application's receive buffer is shorter than a block: its interrupt reads no more, the
write fails, no task runs and the watchdog restarts the device (`Overrun`; in detail this
is `Stuck` and `Watchdog` of `I2cSlaveRx`).

### PowerSeq

`DevTaskHandler` runs every 10 ms; a pass is one step of `dt` periods, with `dt` up
to `MaxLate`. `Transition` is `g_powerStateTran`, row by row, with the actions as
operators that return whether the action is over and which rails are enabled
after it. `scan` is `Key_ScanST`. The environment moves the key at any moment, so that it
may bounce or be pressed between two passes, and the power-good pins: a supply can become
good only when it is fed, and stays good for some time after it is disabled.
`off` and `up` (the latest passes in a row that found the key up) are history.

### SubDevices

One step is one pass of `SubDevice_uploadTask`: when a second has gone by all
sensors of all boards are sampled (`SampleAll`, any set of those that can be
reached answers), and when two have, the boards that are not online are moved to
the other bus. `MsgCore` models a single request; here its outcome is a choice.
`missed` is history.

### UartTx and ByteStream

`UartTx` is the transmit path: `ring`, `rp`, `wp`, `occupy` are the FIFO, `sending` is
`UART_SENDING`, `dr`, `shift` and `tc` the UART. Each context (a task that prints, an
interrupt that prints, the UART's own interrupt) has a `pc`; what is inside a critical
section is one step, everything else is split wherever a preemption makes a
difference: the test for room and the write, the test of `UART_SENDING` and the call
of `UART_sendFinally`, and in it the test for empty, the mark or the clearing of the status,
and the two halves of `FIFO_Read`. `Poll` and `WaitTbe` are `UART_sendDataBlock`, which the
upload uses on both ports: it looks neither at the ring nor at the status. `CanRun` is
preemption by priority: a context runs while no other of higher priority is inside, and
the interrupt, if requested, goes first.

Any number of contexts print, at any priorities, and nothing keeps them apart. The history
variable `raced` records the first time that one acts on what another is changing
(`Race`); there are four such moments: a block is written for which the room is gone, or
while another is about to clear the status (`Push`); a call finds the status clear of a
transmitter in use (`Test`); a polled byte is written while the UART's
interrupt is due, or another context is in `UART_sendFinally` or polls (`Poll`).

`ByteStream` says what the path promises: blocks are accepted, their bytes go on the line
in order, each once, polled bytes go on the line at once, and what is on the line is sent in
order, at last; until it is broken. `IsStream` is its specification under the mapping
`Queued` (the byte a context holds in its hand, then what is in the ring) and `Line` (the
byte on the line and the one in the data register), with `raced` for broken.

### I2cSlaveRx and Mailbox

`I2cSlaveRx` has the interrupt handlers of both buses flag by flag: `Addressed`
(ADDSEND), `Received` (RBNE), `Stopped` (STPDET), in the order in which the handler
tests them, on one buffer (`channel`, `data` are `g_i2c_Req`). Each bus has a sender that
goes its own way, with messages of any length. It is held while
its byte has not been read, as the peripheral does, and may give up. `Error` is the
error interrupt and `BeginWrite`, `WriteDone`, `WriteFails` are `i2c_bytes_write`, which
masks the events, may clear a STOP or lose a byte that it meets, and resets the
peripheral when it fails. `TasksRun`: a task takes a step only when no interrupt waits.
A byte that finds the buffer full is not read (`bsp_i2c.c:584`): the interrupt comes again
at once, for ever (`Stuck`). The idle task, which holds off the watchdog
(`user/main.c:183`), does not run, so the board restarts (`Watchdog`).

The history variable `owner` is the bus whose message is alone in the buffer: its address
found nothing left over on its bus, and no event of another bus has come since.

`Mailbox` says what `MsgCore` takes for granted: a message on its way is delivered whole,
into the queue it belongs in, or lost; a queue may get anything of one that is spoilt; and
a restart forgets everything. `IsMailbox` is its specification under the mappings
`OnWay` (a message is on its way until its STOP has been handled) and `Spoilt` (it is not
alone in the buffer). It includes the liveness of the mailbox: nothing stays on its way
for ever. `MixedInv` is what remains true of messages that mix: the buffer is not written
beyond its end, nothing but senders' bytes is in it after the first, and each queue gets
only what the network function in its second byte sends there (`Routed`).

### ChassisCtrl

The message task with the three commands that use `g_chassisCtrl_Queue`
(`ChassisControl`, `ColdReset`, `UpdateFirmware`), the sampling task that creates the
queue and takes from it, and the timers that end pulses. The sampling task has the
lowest priority (`MessageTaskBlocked`): this is the only module where a
priority carries a safety property: `KeyFirst`, a part of `ChassisInv`, says that the
update key is written when the reset that was queued with it is acted on. A command before the queue exists calls
the kernel with a null handle; its assertion only prints, so what follows is a fault
and a restart (`Fault`). A timer that cannot be created leaves its pin enabled (`TimerFails`;
the code prints a message); the history variable `lost` records such pins. `key` is the
cell that `BootUpdate` starts from.

### SerialRx

The console's line: `EncodeSerialPkt` and `DecodeSerialPkt` as operators (`Body`,
`Decoded`), and the receive interrupt with one action for each branch (`Open`, `Close`,
`Store`, `Overrun`), after each of which `ToShell` passes the byte to the shell if no
frame is open. The line loses bytes and damages them into others,
delimiters among them. `clean`, `frames`, `lost` and the field `of` of a message
are history.

## 3. The runs

Each passing run was also made with a mutant of the code for each of its
properties (`mutants` in `PROJECT.json`), and finds that property violated.

| Run | Checks | Bounds |
|---|---|---|
| `MsgCoreSafety` | `AnswersInOrder`, `AnswerGoesToAsker`, `ReadingGenuine`, `IInv` | 3 requests, 2 boards, 2 sensors |
| `MsgCoreLiveness` | `CoreReturns`, `RequestsTaken`, `SamplerReturns` | 2 requests, 1 board |
| `BootUpdate` | `BootInv`, `ChannelRecordedOnce`, `ProgrammedStays` | numbers modulo 3, area of 3 blocks |
| `FirmwareUpdate` | `ImageComplete`, `BlocksInPlace`, `SenderNotAhead`, `TransferInv`, `ChangedByConsent`, `IsTransfer` (refinement of `Transfer`), `TransferCompletes` | 3 blocks in an area of 4, numbers modulo 2, 1 reset, all faults |
| `PowerSeq` | `PowerInv`, `OffMeansDischarged`, `PowerCycled`, `ActsOnRelease`, `Settles` | the times of the code |
| `SubDevices` | `UploadInv`, `ReadingRecent`, `MovedOnlyWhenSilent`, `FindsBus` | 2 boards, 2 sensors, periods of the code |
| `UartTx` | `UartInv`, `StallsByRaceOnly`, `IsStream` (refinement of `ByteStream`) | a ring of 3, blocks of up to 2, one context below the interrupt, which also polls, and one above it |
| `I2cSlaveRx` | `RxInv`, `StuckByLongOrMixed`, `IsMailbox` (refinement of `Mailbox`) | 2 buses at once, a message for each, a buffer of 2, queues of 1 |
| `ChassisCtrl` | `PinsHeld`, `ChassisInv`, `PulseEnds`, `Executed` | all commands, one timer of each command before the next is asked |
| `SerialRx` | `SerialInv`, `RequestRead`, `FrameArrives`, `ShellHears` | 2 requests, 2 disturbances, a buffer of 7, a queue of 1 |

`UartTxOverlap` checks `NeverStalls` for two contexts that print, `FirmwareUpdateAll`
checks `AckIsSuccess` with the ACK of an earlier board's EOT still queued; each finds
its property violated (section 5).

**Why the bounds are enough.** The queues of `MsgCore` have lengths of one and two
in the code's application and in the instances; with three requests the
receive queue overflows, and a late reply, a reply to the wrong waiter and a stale
`Res` each need two. Two boards and two sensors are the fewest for which a wrong
board or sensor can be told from the right one. Since the safety properties of
this module are proved for every number of requests, boards and lengths, the
run's purpose is to find errors before a proof is tried. In
`FirmwareUpdate` the block number has 8 bits in the code; `PnMod` 2 makes three
blocks wrap it once and needs the page added. An image of three has a first, a
middle and a last block. `QueueLen` is 1 instead of 3: the sender waits after
each write, so blocks pile up only while the device erases, and two of
them (one in the task's hand) are enough to have old copies of a block delivered
after newer ones were sent. `MaxTries` 0 instead of 100 (the second failed write of a block
gives the update up) and one reset bound repetitions. `PerSecond` 1 lets the monitor pass
after every attempt that comes to nothing, so that it repeats an ACK after three. `LineLen` 2
bounds the acknowledgements on their way: one that the sender is missing and one too many. The safety properties are proved for
all values of these. Times in `PowerSeq` are those of the code in units of 10 ms:
a press of more than 90 ms, a wait of 100 ms.
In `UartTx` a ring of three wraps and overflows with blocks of two; of the two contexts
one is interrupted by the UART's interrupt and the other interrupts it. In `I2cSlaveRx`
one message is longer than the buffer (with the address it has three bytes) and the other
fills it; one on each bus is enough for bytes to mix, for a STOP to meet the next message
of its bus, and for the buffer to fill up by mixing. The second queue's routing is left to the
proof (`Routed`). `SerialRx` has
requests whose frames fit, fit to the byte, overrun the buffer, and cannot be
encoded. That decoding undoes encoding is also evaluated for every input of up to three
bytes (the assumption `RoundTrip` of `MCSerialRx`); it is proved for every input.

Deadlock is not checked in the runs of `BootUpdate` and `FirmwareUpdate`: they end
when the application is started. In the others there is always a step, except
that an instance of `MsgCore` rests (`Rest`) when all its requests are done.

## 4. Fairness

FreeRTOS schedules the ready task of the highest priority (`user/main.h`:
responses 24, message handler 22, update 21, upload 20, devices 15, sampling of the ADC 5;
bootloader: monitor 25, update task 20, forwarding tasks 15 and 16). Each of
these tasks blocks in a queue call or a delay in every round of its loop, so a
lower one runs again and again: weak fairness of each task's steps. The models
do not otherwise use priorities, they allow every interleaving. Safety thus
holds for more schedules than the kernel produces.

* `MsgCore`: weak fairness of the two tasks and of finishing a poll that has
  begun. None for the environment: boards need not answer. That is what the
  timeouts of `SendMsgAndWait` are for, and `CoreReturns` and `SamplerReturns` say.
* `FirmwareUpdate`: weak fairness of the tasks, and of the restart of a device that has
  agreed (the sender waits 300 ms for it); none for its answers, which `SendMsgAndWait` waits for with a timeout;
  strong fairness for the
  forwarding tasks, which compete for a queue of one place and are served in turn;
  strong fairness for a write that arrives undamaged; strong fairness of the timeout,
  because `updateDev_decodeMsg` looks at the clock also while other bytes arrive.
  `TransferCompletes` does not assume that messages arrive. It says that an update ends in
  the new program unless one of the things it lists happens: the sender skips the
  device or gives it up, the device is reset, the sender took for consent what was not
  the device's (`Deceived`), an ACK is lost (`AckLost`) or the EOT (`EotLost`), or an ACK
  too many has put the sender ahead of the device (`Ahead`).
* `PowerSeq`: the task runs; the 12 V supply follows its enable pin, and (a premise
  of `Settles`) does not fail again and again. Nothing is assumed of the 5 V and 3.3 V supplies, which the code waits for with a timeout.
  Without the assumption on 12 V the machine can stay in `P12VEN` or `P12VDIS` for
  ever: these states have no timeout (hazard at `dev_power.c:104`). The other premise of
  `Settles` is that a release which was not forgotten is not followed by a key held for
  ever: each pass then sees `KEY_RELEASED`, and the states on the way take no event.
* `SubDevices`: the task runs, and the disturbance ends (a premise of `FindsBus`).
* `UartTx`: the UART shifts its byte out, and a context that is inside and may run goes on.
* `I2cSlaveRx`: a sender that is not held goes on; a write ends, since it counts its
  attempts; the watchdog's period ends. Strong fairness for each bus's events: the writes
  mask them again and again, and a byte takes longer on the line than in the handler.
* `ChassisCtrl`: the message task gets on and each timer expires. Strong
  fairness for the sampling task: it runs only when the message task is blocked, which
  happens again and again.
* `SerialRx`: a frame that was begun is sent, and (the premise of `ShellHears`, an
  assumption about the user and not about the code) the user goes on typing.

## 5. Where code and text disagree

`UartTxOverlap` finds `NeverStalls` violated. `UART_sendFinally` ("read one byte from
fifo,and start transmit", `bsp_uartcomm.c:129`) tests the FIFO, sets `UART_SENDING` and
reads the FIFO in separate steps. A writer preempted after the test, while another
writer and the interrupt send everything, then sets `UART_SENDING` on an idle
transmitter. No interrupt follows, and every later writer finds it set and leaves
the start to the interrupt: the port stays silent. Tasks, the shell and the error
path of the I2C interrupts all print on this port. With `UART_sendDataBlock` on the same
port one task is enough: its polled byte's transmission-complete interrupt comes between
the test and the mark of the task's next call. (Deadlock is not checked in this run: the
model too stops for good once output does.)

`FirmwareUpdateAll` finds `AckIsSuccess` violated. The bootloader acknowledges the EOT
like a block, but `updateDev_xmode` returns as soon as the EOT is written
(`update_devs.c:174`). In an update of all boards that ACK is still queued, since the
message core is suspended, when the next board's first block is written; any ACK is
taken for the ACK of the block at hand ("client update pakge success",
`update_devs.c:116`), so the sender goes on to the second block whether the first has
arrived or not. From then on it is one block ahead: if the first was damaged the device
refuses all others, and the sender resends for ever.

The following were found while modelling. The models behave so; nothing is stated
about them by the properties.

* The answer to a request forwarded for the console is encoded in
  `ProcessIPMBForardResponse` and again in `ProcessSerPortReq`: the test at
  `SerialIfc.c:155` looks at a field that is `SERIAL_REQUEST` there.
* The requester address kept in the dual address register is not restored ("restore
  the request address", `MsgHndlr.c:274`): the register functions get a bus number for a
  base address.
* A repeated block is not acknowledged again (`boot_update.c:134` is commented out), and
  each repetition that arrives restarts the monitor's count. After one lost ACK the sender
  resends every 200 ms, and gets on only if its writes fail or are lost for long enough
  that the monitor repeats the ACK.
* The same happens when the sender is not missing an ACK. Ten or so writes of the next block
  that are lost, or a hundred that fail, take about two seconds, after which the monitor
  repeats the ACK of the block before (`boot_main.c:133-137`). The sender takes it for the
  block at hand (`update_devs.c:114-116`) and goes on; the device refuses all later
  blocks, so the sender resends for ever, or, if it was at the last block, writes the EOT,
  and the device starts an image without its end ("success!!!", `update_devs.c:265`).
  `surplus` marks this in the model, and the properties say that this and resets are the
  only ways to it.
* The sampler compares a reply's address and the byte at `OptionalStatus` only
  (`api_subdevices.c:460`): a late reply to another command that was forwarded for the
  console is recorded as a reading if this byte is the polled sensor's number.
* With messages on both I2C buses at once the bytes of both mix in `g_i2c_Req`, and a packet
  that is of neither sender is queued as complete ("too short, Not a complete package",
  `bsp_i2c.c:593`, is the only test).
* A message longer than the buffer, or a mixed one, fills it; the next byte is then never
  read (`bsp_i2c.c:584`), its interrupt returns at once, and the watchdog restarts the
  board. An update block that reaches an application is such a message.
* `UART_sendDataBlock` writes past the ring: its bytes overtake those that wait, and a byte
  is lost when an interrupt writes the data register between its two steps.
* A stale answer in the forwarding queue is taken for the version (which is then whatever
  the buffer holds) or for the device's consent; in the latter case the sender writes
  blocks to an application that never acknowledges them, for ever, while the
  message core stays suspended (`Deceived`).
* A device that already is in its bootloader ignores the request to restart in it, so its
  update fails at the notification until it is started by other means (`RequestInBoot`).
* `DevPowerSM_P5VP3VDis` disables 12 V a second time and leaves 5 V and 3.3 V enabled,
  in the state that is "all power closed" (`dev_power.c:150`).
* Only the last sensor of a board decides whether it is online (`api_subdevices.c:519`);
  a board that answers for its other sensors is moved.
* `ColdReset` answers that all is well also when its command was refused, and logs a
  failure when it was accepted (`IPMDevice.c:132`).
* On boards other than the main board the alias of the CPLD's reset pin does not exist,
  so a reset that was accepted does nothing (`dev_main.c:42` is the only definition).
* A pulse that starts while an earlier one on the same pin runs is ended by the earlier
  timer, and may be shorter than intended (`ChassisCtrl.c:62`).

More facts of the code show in the models, and limit what is stated above:

* The answer to a console request for this board goes out over I2C, encoded for the
  serial line (`ComProcess`).
* The ACK of a block is sent before the block is programmed, so a reset in between
  loses a block the sender counts as done (`Acknowledge`, `Program`, `Crash`);
  `ImageComplete` and `SenderNotAhead` except a device that is reset.
* After a reset in the middle of an update the device's page is zero again, and block
  257 cannot be told from block 1. `BlocksInPlace` says that it lands in the place of
  a block with the same number and nowhere else.
* The state "All power GD already" is also entered by a timeout, without the 5 V and
  3.3 V supplies (`WaitP5VP3VPowerGD`).
* A key that comes down again after a single pass up, because it bounces or is pressed
  again at once, raises `KEY_RELEASED` in each pass while it is held (`dev_fsm.c:27`), which
  switches the board on and off. `ActsOnRelease` says that it takes just that.

## 6. The proofs

Every theorem but `StuffingUndone`, which is about operators, has the form
`Spec => []Inv`, `Spec => [][A]_vars` or, for a refinement, `Spec => A!Spec`, and holds
for all values of the constants that satisfy the module's `ASSUME`s. Further premises
are named here. Every safety invariant and action property that a run checks is stated
by a theorem; most of them are conjuncts or consequences of the inductive invariant of
their module.

* **`MsgCoreProofs`**: `TypeCorrect`, `InductiveInvariant`, `OrderCorrect`,
  `AskerCorrect`, `ReadingCorrect`. `AnswersInOrder` speaks of the log alone and is
  not inductive. `IInv` adds that request numbers increase along the whole way: in
  `recvQ`, from there to the request in hand, to `respQ`, to the log (`Ordered`).
  It also says that each message on the way is what was posed under its number or an
  answer to it (`Traced`); in particular `res`, which is never cleared, answers the
  request in hand whenever it is about to be sent. That is where the `continue`
  after a failed check matters.
* **`FirmwareUpdateProofs`**, about `BootUpdate`: `BootInvariant`, `TypeCorrect` (which
  keeps each job in the application area), `ConfirmedCorrect`, `ChannelCorrect`,
  `FlashCorrect`. The argument: the area is erased and the channel set only in
  `START`; a confirmed transfer has left `START` with its first block, and no message
  leads back to it but through a reset. These theorems hold against a host that
  sends any message, for every size of area and of block number.
* **`FirmwareUpdateProofs`**, about `FirmwareUpdate`: `TransferInvariant`, `NotAhead`,
  `WholeOrUntouched`, `InPlace`, `Consent`, for every image, area, modulus of the block
  numbers, set of faults, length of queues, left-over replies, number of resets and of
  attempts between two passes of the monitor, without a premise. `TransferInv` has three
  parts.
  - `InStep`, as long as the device has not been reset and no ACK has come too many
    (`Undisturbed`): with `Taken`, the blocks the device has taken, either `Taken = k` or `Taken = k + 1`; the sound blocks under way are the
    next and copies of the last, in this order (`InOrder`: a copy of an old block never
    follows a newer one, which is why a number that has wrapped cannot be
    mistaken); an ACK is in the line only if `Taken = k + 1`, and then only
    one, which is why the sender may take any ACK for the right one (an ACK that the
    monitor repeats while the sender misses it keeps this true, any other is `surplus`); and `Area` says that
    flash holds the first `Taken` blocks and is erased after them. Damaged messages
    are allowed anywhere.
  - `Keyed`: the state machine is in `START`, where a block erases, only with the key set,
    and a device without the key is untouched, or the sender is done with it and no
    sound block is on its way.
    `ChangedByConsent` follows from it.
  - `Placed`, over any resets and ACKs: the device's page is a multiple of the modulus, so a block
    that is accepted goes to a place of its own number.

  `ChannelKept` and `ProgrammedKept` are `BootUpdate`'s action properties for the whole
  update: its device makes the steps of a bootloader (`TransferKept`), also while its
  application runs and while it restarts.

  `Refinement` is `Spec => IsTransfer`, also without a premise. `InStep`
  gives the mapping its meaning: a sound block that is handled is the last again or
  the next (`InSequence`), so programming is one `WriteBlock`; an ACK that is taken means
  `Taken = k + 1`, so the sender's step is one `Advance`. It needs one fact more,
  `FinishIdle`: when the monitor is about to start the program, no block is left
  to write. `Transfer` has no fairness, so this is its whole specification.
* **`PowerSeqProofs`**: `RailInvariant`, `PowerInvariant`, `OffCorrect`, `CycleCorrect`,
  `KeyCorrect`, for all times, with brownouts and for a key that changes at any moment.
  `RailInv` is the part of the invariant that is about the rails, and is inductive by
  itself. `PowerInv` adds to `OffMeansDischarged` the time the rail has been off in the last
  two states of a power-off (`OffTime`), and what `Key_ScanST` says of the key's past
  (`KeyHistory`): a recorded release means that the last pass that found the key up was the
  first to do so.
* **`SubDevicesProofs`**: `UploadInvariant`, `RecentCorrect`, `MoveCorrect`, for any
  wiring and any loss. `CountsMissed` is the strengthening: while a reading is shown
  the saturating `errCnt` is the true number of samplings missed.

* **`UartTxProofs`**: `DriverInvariant`, `StallFree`, `SendsInOrder`, for any number of callers
  and pollers at any priorities, until two of them race. `OneDriver` says that at most one
  context is in `UART_sendFinally`, with the transmitter at rest, and that what it has found
  of the ring still holds; `Going` that there is somebody to send the bytes that wait.
  `SendsInOrder` is the refinement of `ByteStream` without its fairness: each step accepts a
  block, puts the first byte that waits or a polled one on the line, sends the first byte of
  the line, breaks the stream by a race, or changes nothing.
* **`I2cSlaveRxProofs`**: `BufferInvariant`, `StuckOnlyThen`, `WholeOrNothing`,
  `MixedInvariant`, for any number of buses with messages of any size at once. `Assembled`
  says that the buffer holds the prefix that has been read of a message that is alone in
  it. `WholeOrNothing` is the refinement of `Mailbox` without its fairness. The memory safety
  of `MixedInvariant` rests on the test for room before a byte is read (`Received`).
* **`ChassisCtrlProofs`**: `ChassisInvariant`, `KeyBeforeReset`, `PinsReleased`. `KeyComes`
  is the strengthening: from the moment an update's reset is queued until it is acted
  on, the key is written or the message task is about to write it, and the sampling task
  cannot run in between.
* **`SerialRxProofs`**: `StuffingUndone`, `SerialInvariant`, `FramesArrive`, `RequestsRead`,
  for every set of requests, every buffer and queue and any number of disturbances. Nothing
  is assumed of the requests but that they are sequences of bytes. `StuffingUndone` says
  that the stuffed form of any such sequence has no delimiter in it and that
  `DecodeSerialPkt` gives the sequence back. It is proved by induction
  on the length (the library's induction theorem takes an operator, so the lemma
  `Induction` speaks of a set of numbers, and rests on `<` being well founded); the folds
  behind encoding and decoding are unfolded as functions of the length (`Folded`, `Flattened`).
  `AsSent` in `SerialInv` carries it through the queue: a message taken from an undisturbed
  frame holds its body, so what the message core decodes is what was sent.

Only model-checked: liveness (also the liveness part of the refinements of `Mailbox` and
`ByteStream`), since it rests on fairness and `ENABLED`, which are out of the prover's
reach. The properties of the violated runs of section 5 are proved in the form that names
what these runs do as the exception: `StallsByRaceOnly` for `NeverStalls`, `SenderNotAhead`
for `AckIsSuccess`.

## 7. Not modelled

The content of IPMI answers, ADC conversion, the fan's PID (floating point), calendar
arithmetic, the shell and third-party code: no shared state, or out of reach of
model checking. Third-party code (the kernel, the GD32 library, lwIP, FatFs with its
code pages, cJSON, the AMI IPMI headers and libraries that are compiled in part) makes
up nearly all lines of the repository; the share of all lines that `map` covers says
little for that reason. I2C at bus level is hardware. Priorities, but in `UartTx` and
`ChassisCtrl` (section 4). The bootloader's receive interrupts: `BootUpdate` takes whole
messages. The JSON upload. Two update commands at once, which would create two update
tasks on the same queues, and the requests of others that are lost while the message
core is suspended. A board without a reset pin (section 5), which agrees and never
restarts: safety covers it, `TransferCompletes` assumes a board that restarts.

## 8. What comes next

1. Several devices in one update of all boards, with `Leftover` as what the one before left.
2. The composition of `ChassisCtrl` with `FirmwareUpdate` through the update key.
3. The bootloader's receive interrupts, in the manner of `I2cSlaveRx` and `SerialRx`.
