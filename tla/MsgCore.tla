------------------------------- MODULE MsgCore -------------------------------
(***************************************************************************)
(* The message core of the BMC: two tasks, two interrupt handlers and      *)
(* three FreeRTOS queues that carry IPMI messages between the console (a   *)
(* serial line), the IPMB masters and the slave boards.                    *)
(*                                                                         *)
(*   console / IPMB ISR --recvQ--> MsgCoreHndlr --respQ--> ResponseDatWrite*)
(*   slave replies (ISR) --fwdQ--> MsgCoreHndlr and SubDevice_uploadTask   *)
(*                                                                         *)
(* MsgCoreHndlr forwards a console request for another board through       *)
(* respQ and then waits on fwdQ; the sampler of SubDevice_uploadTask polls *)
(* its sensors through the same two queues.  Nothing in a message says     *)
(* which of the two a reply is for.                                        *)
(*                                                                         *)
(* A step is what a task does between two calls that can block.  The task  *)
(* priorities are left out: every schedule of the fixed-priority kernel is *)
(* one of this specification's behaviours.  A queue call's timeout is the  *)
(* choice of giving up while what it waits for is not there.               *)
(***************************************************************************)
EXTENDS Integers, Sequences, FiniteSets

CONSTANTS
    Slaves,      \* IPMB addresses of the other boards
    Self,        \* this board's IPMB address
    Host,        \* an IPMB master that sends requests to this board
    ConsoleIds,  \* requester addresses the console puts in its requests
    Sensors,     \* sensor numbers
    NoSensor,    \* what is not a sensor number: another command, or another byte
    NoAddr,      \* what an address register holds when no address is set
    Stray,       \* the byte found at an address that is not a register
    Bus,         \* SubDevice_GetBus: the number of the bus in use
    Periphs,     \* base addresses of the I2C peripherals
    PeriphOf,    \* bus number -> base address of its peripheral
    IsMaster,    \* SubDevice_IsSelfMaster
    RecvLen, RespLen, FwdLen,   \* lengths the queues are created with
    MaxReq       \* bound: requests posed in a behaviour

AnyByte == Sensors \union {NoSensor}

Addr == Slaves \union {Self, Host, NoAddr, Stray} \union ConsoleIds

ASSUME QueueLengths ==
    /\ RecvLen \in Nat \ {0}
    /\ RespLen \in Nat \ {0}
    /\ FwdLen \in Nat \ {0}
    /\ MaxReq \in Nat

ASSUME Addresses ==
    /\ Self \notin Slaves
    /\ Bus \in DOMAIN PeriphOf
    /\ PeriphOf[Bus] \in Periphs
    /\ IsMaster \in BOOLEAN

Params == {"IPMI_REQUEST", "SERIAL_REQUEST", "FORWARD_IPMB_REQUEST",
           "HEARTBEAT_REQUEST", "NORMAL_RESPONSE"}

\* MsgPkt_T.  In a request, sensor is the number Get Sensor Reading asks about,
\* or NoSensor if the command is another one; in a reply it is the byte that is
\* found where the answer to Get Sensor Reading repeats the number.  Command and
\* sequence number are in every header, but no task compares them.  no numbers
\* the request a message poses or answers, src the request its content answers:
\* history the program does not have.
Packet == [param : Params, no : Nat, src : Nat, to : Addr, by : Addr,
           sensor : AnyByte, enc : 0..2, ok : BOOLEAN]

VARIABLES
    recvQ,   \* RecvDatMsg_Queue
    respQ,   \* ResponseDatMsg_Queue
    fwdQ,    \* RecvForwardI2CDatMsg_Queue
    com,     \* where MsgCoreHndlr is
    req,     \* its recvPkt
    res,     \* its Res, never cleared between two messages
    upl,     \* where the sampler is
    poll,    \* its requestPkt
    bus,     \* requests the slaves have received and not answered
    saddr1,  \* the second slave address register of each peripheral
    posed,   \* history: the requests posed, the n-th one is number n
    log,     \* history: the answers written to IPMB or to the console
    reading  \* history: the last poll a reading was recorded for, and its reply

comVars == <<com, req, res>>
uplVars == <<upl, poll, reading>>
vars == <<recvQ, respQ, fwdQ, comVars, uplVars, bus, saddr1, posed, log>>

Blank == [param |-> "NORMAL_RESPONSE", no |-> 0, src |-> 0, to |-> NoAddr,
          by |-> NoAddr, sensor |-> NoSensor, enc |-> 0, ok |-> FALSE]

Init ==
    /\ recvQ = <<>> /\ respQ = <<>> /\ fwdQ = <<>>
    /\ com = "idle" /\ req = Blank /\ res = Blank
    /\ upl = "idle" /\ poll = Blank /\ reading = <<Blank, Blank>>
    /\ bus = {}
    /\ saddr1 = [p \in Periphs |-> NoAddr]
    /\ posed = <<>>
    /\ log = <<>>

NextNo == Len(posed) + 1

----------------------------------------------------------------------------
\* Requests from outside, put into recvQ by the interrupt handlers.  With the
\* queue full the message is gone.

EnqueueUnbounded(q, len, m) == Append(q, m)    \* mutant

EnqueueFromISR(q, len, m) == IF Len(q) < len THEN Append(q, m) ELSE q

Request(param, to, by, sensor, ok) ==
    [param |-> param, no |-> NextNo, src |-> NextNo, to |-> to, by |-> by,
     sensor |-> sensor, enc |-> 0, ok |-> ok]

Accept(m) ==
    /\ NextNo <= MaxReq
    /\ posed' = Append(posed, m)
    /\ recvQ' = EnqueueFromISR(recvQ, RecvLen, m)
    /\ UNCHANGED <<respQ, fwdQ, comVars, uplVars, bus, saddr1, log>>

\* A framed request from the console, with any command; ok says whether its
\* checksums are right.
ConsoleRequest ==
    \E to \in Slaves \union {Self}, by \in ConsoleIds, sensor \in AnyByte, ok \in BOOLEAN :
        Accept(Request("SERIAL_REQUEST", to, by, sensor, ok))

\* A request (even netFn) from another IPMB master.
IpmbRequest ==
    \E sensor \in AnyByte, ok \in BOOLEAN :
        Accept(Request("IPMI_REQUEST", Self, Host, sensor, ok))

----------------------------------------------------------------------------
\* MsgCoreHndlr

SwapOneAddress(r) == [r EXCEPT !.by = Self]    \* mutant

\* SwapIPMIMsgHdr and the handler's data: the answer to request r.
SwapIPMIMsgHdr(r) == [r EXCEPT !.to = r.by, !.by = Self]

\* Where i2c_dualaddr_set leaves the register file: it writes through the base
\* address it is given, and enabling the mode then rewrites the register with
\* the mode bit alone.
DualAddrSet(p) ==
    IF p \in Periphs THEN [saddr1 EXCEPT ![p] = NoAddr] ELSE saddr1

DualAddrGet(p) == IF p \in Periphs THEN saddr1[p] ELSE Stray

\* A console request for another board: only the master passes it on.
ForOther(m) == m.param = "SERIAL_REQUEST" /\ m.to # Self

Forwardable(m) == ForOther(m) /\ IsMaster

\* A request that fails its check is dropped; Res keeps what it held, except
\* that the IPMI case has already set its Param.
ComDropTo(where) ==
    /\ com = "idle" /\ recvQ # <<>>
    /\ LET m == Head(recvQ) IN
        /\ ~m.ok \/ (ForOther(m) /\ ~Forwardable(m))
        /\ req' = m
        /\ res' = IF m.param = "IPMI_REQUEST"
                  THEN [res EXCEPT !.param = "NORMAL_RESPONSE"] ELSE res
    /\ com' = where
    /\ recvQ' = Tail(recvQ)
    /\ UNCHANGED <<respQ, fwdQ, uplVars, bus, saddr1, posed, log>>

ComDropNoContinue == ComDropTo("respond")    \* mutant

ComDrop == ComDropTo("idle")

\* A request from IPMB, or one of the console for this board, is processed
\* here.  The console's is answered on IPMB, in the console's encoding.
ComProcess ==
    /\ com = "idle" /\ recvQ # <<>>
    /\ LET m == Head(recvQ) IN
        /\ m.ok
        /\ m.to = Self
        /\ req' = m
        /\ res' = IF m.param = "SERIAL_REQUEST"
                  THEN [SwapIPMIMsgHdr(m) EXCEPT !.param = "IPMI_REQUEST", !.enc = 1]
                  ELSE [SwapIPMIMsgHdr(m) EXCEPT !.param = "NORMAL_RESPONSE"]
    /\ com' = "respond"
    /\ recvQ' = Tail(recvQ)
    /\ UNCHANGED <<respQ, fwdQ, uplVars, bus, saddr1, posed, log>>

\* A console request for another board, on the master.
ComReceiveForward ==
    /\ com = "idle" /\ recvQ # <<>>
    /\ LET m == Head(recvQ) IN
        /\ m.ok
        /\ Forwardable(m)
        /\ req' = [m EXCEPT !.param = "FORWARD_IPMB_REQUEST"]
        /\ saddr1' = DualAddrSet(Bus)
    /\ com' = "forward"
    /\ recvQ' = Tail(recvQ)
    /\ UNCHANGED <<respQ, fwdQ, res, uplVars, bus, posed, log>>

\* SendMsgAndWait, first half: 50 ticks to place the request.
ComForward ==
    /\ com = "forward" /\ Len(respQ) < RespLen
    /\ respQ' = Append(respQ, req)
    /\ com' = "await"
    /\ UNCHANGED <<recvQ, fwdQ, req, res, uplVars, bus, saddr1, posed, log>>

ComForwardTimeout ==
    /\ com = "forward" /\ Len(respQ) = RespLen
    /\ com' = "idle"
    /\ UNCHANGED <<recvQ, respQ, fwdQ, req, res, uplVars, bus, saddr1, posed, log>>

\* SendMsgAndWait, second half, and ProcessIPMBForardResponse: whatever reply
\* is in fwdQ is taken, its responder address is overwritten from the dual
\* address, and it is encoded; ProcessSerPortReq encodes it once more.
ComTakeReply ==
    /\ com = "await" /\ fwdQ # <<>>
    /\ fwdQ' = Tail(fwdQ)
    /\ LET m == Head(fwdQ) IN
        \/ /\ m.ok
           /\ res' = [m EXCEPT !.param = "SERIAL_REQUEST", !.no = req.no,
                               !.to = DualAddrGet(Bus), !.enc = 2]
           /\ com' = "respond"
        \/ /\ ~m.ok
           /\ com' = "idle"
           /\ res' = res
    /\ UNCHANGED <<recvQ, respQ, req, uplVars, bus, saddr1, posed, log>>

ComAwaitForever == FALSE    \* mutant

ComAwaitTimeout ==
    /\ com = "await" /\ fwdQ = <<>>
    /\ com' = "idle"
    /\ UNCHANGED <<recvQ, respQ, fwdQ, req, res, uplVars, bus, saddr1, posed, log>>

\* The send of Res at the end of the loop: 10 ticks, then the answer is lost.
ComRespond ==
    /\ com = "respond" /\ Len(respQ) < RespLen
    /\ respQ' = Append(respQ, res)
    /\ com' = "idle"
    /\ UNCHANGED <<recvQ, fwdQ, req, res, uplVars, bus, saddr1, posed, log>>

ComRespondTimeout ==
    /\ com = "respond" /\ Len(respQ) = RespLen
    /\ com' = "idle"
    /\ UNCHANGED <<recvQ, respQ, fwdQ, req, res, uplVars, bus, saddr1, posed, log>>

MsgCoreHndlr ==
    \/ ComDrop \/ ComProcess \/ ComReceiveForward
    \/ ComForward \/ ComForwardTimeout
    \/ ComTakeReply \/ ComAwaitTimeout
    \/ ComRespond \/ ComRespondTimeout

----------------------------------------------------------------------------
\* vTaskResponseDatWrite

IsAnswer(m) == m.param \in {"IPMI_REQUEST", "SERIAL_REQUEST", "NORMAL_RESPONSE"}

\* ipmb_write may fail; the result is ignored and the peripheral is reset.
\* A request reaches the slave it is addressed to, an answer the log.
ResponseDatWrite ==
    /\ respQ # <<>>
    /\ respQ' = Tail(respQ)
    /\ LET m == Head(respQ) IN
        \/ /\ IsAnswer(m)
           /\ log' = Append(log, m)
           /\ UNCHANGED <<bus, saddr1>>
        \/ /\ ~IsAnswer(m)
           /\ bus' = bus \union {m}
           /\ UNCHANGED <<log, saddr1>>
        \/ /\ m.param # "SERIAL_REQUEST"
           /\ saddr1' = [saddr1 EXCEPT ![PeriphOf[Bus]] = NoAddr]
           /\ UNCHANGED <<bus, log>>
    /\ UNCHANGED <<recvQ, fwdQ, comVars, uplVars, posed>>

----------------------------------------------------------------------------
\* The slaves and the interrupt handler that receives their replies.

\* A reply reaches this board if it is sent to an address it answers to; the
\* handler writes the board's own address over it.
OwnAddress(a) == a = Self \/ (a # NoAddr /\ a = saddr1[PeriphOf[Bus]])

\* The answer to Get Sensor Reading repeats the sensor number; that to another
\* command has any byte in its place.
SensorByte(m) == IF m.sensor \in Sensors THEN {m.sensor} ELSE AnyByte

SlaveReply(m) ==
    /\ bus' = bus \ {m}
    /\ \E ok \in BOOLEAN, byte \in SensorByte(m) :
        fwdQ' = IF OwnAddress(m.by)
                THEN EnqueueFromISR(fwdQ, FwdLen,
                        [m EXCEPT !.param = "IPMI_REQUEST", !.to = Self, !.by = m.to,
                                  !.sensor = byte, !.ok = ok])
                ELSE fwdQ
    /\ UNCHANGED <<recvQ, respQ, comVars, uplVars, saddr1, posed, log>>

\* No answer, or one that is lost on the way.
SlaveSilent(m) ==
    /\ bus' = bus \ {m}
    /\ UNCHANGED <<recvQ, respQ, fwdQ, comVars, uplVars, saddr1, posed, log>>

----------------------------------------------------------------------------
\* SubDevice_SampleAll, one sensor of one board at a time.

UplPoll ==
    /\ IsMaster
    /\ upl = "idle" /\ NextNo <= MaxReq
    /\ \E to \in Slaves, sensor \in Sensors :
        LET m == Request("HEARTBEAT_REQUEST", to, Self, sensor, TRUE) IN
        /\ poll' = m
        /\ posed' = Append(posed, m)
    /\ upl' = "send"
    /\ UNCHANGED <<recvQ, respQ, fwdQ, comVars, reading, bus, saddr1, log>>

UplSend ==
    /\ upl = "send" /\ Len(respQ) < RespLen
    /\ respQ' = Append(respQ, poll)
    /\ upl' = "wait"
    /\ UNCHANGED <<recvQ, fwdQ, comVars, poll, reading, bus, saddr1, posed, log>>

UplSendTimeout ==
    /\ upl = "send" /\ Len(respQ) = RespLen
    /\ upl' = "idle"
    /\ UNCHANGED <<recvQ, respQ, fwdQ, comVars, poll, reading, bus, saddr1, posed, log>>

MatchesBoardOnly(m) == m.by = poll.to    \* mutant

\* The check of SubDevice_readingSensorForeach: the board and the byte at the
\* sensor's place must be the ones polled.  The checksum, the command and the
\* sequence number are not looked at.
Matches(m) == m.by = poll.to /\ m.sensor = poll.sensor

UplTakeReply ==
    /\ upl = "wait" /\ fwdQ # <<>>
    /\ fwdQ' = Tail(fwdQ)
    /\ \E normal \in BOOLEAN :    \* the completion code is CC_NORMAL
        reading' = IF Matches(Head(fwdQ)) /\ normal THEN <<poll, Head(fwdQ)>> ELSE reading
    /\ upl' = "idle"
    /\ UNCHANGED <<recvQ, respQ, comVars, poll, bus, saddr1, posed, log>>

UplWaitForever == FALSE    \* mutant

UplTimeout ==
    /\ upl = "wait" /\ fwdQ = <<>>
    /\ upl' = "idle"
    /\ UNCHANGED <<recvQ, respQ, fwdQ, comVars, poll, reading, bus, saddr1, posed, log>>

Sampler == UplPoll \/ UplSend \/ UplSendTimeout \/ UplTakeReply \/ UplTimeout

----------------------------------------------------------------------------
Next ==
    \/ ConsoleRequest \/ IpmbRequest
    \/ MsgCoreHndlr
    \/ ResponseDatWrite
    \/ \E m \in bus : SlaveReply(m) \/ SlaveSilent(m)
    \/ Sampler

Spec == Init /\ [][Next]_vars

\* Every task that can run does: the kernel schedules a ready task once those
\* above it block, and each of them blocks at every step of this model.  The
\* sampler is obliged to finish a poll, not to begin one.
Fairness ==
    /\ WF_vars(MsgCoreHndlr)
    /\ WF_vars(ResponseDatWrite)
    /\ WF_vars(UplSend \/ UplSendTimeout \/ UplTakeReply \/ UplTimeout)

FairSpec == Spec /\ Fairness

----------------------------------------------------------------------------
\* Properties

\* The type invariant, with the bounds of the three queues.
TypeOK ==
    /\ recvQ \in Seq(Packet) /\ Len(recvQ) <= RecvLen
    /\ respQ \in Seq(Packet) /\ Len(respQ) <= RespLen
    /\ fwdQ \in Seq(Packet) /\ Len(fwdQ) <= FwdLen
    /\ com \in {"idle", "forward", "await", "respond"}
    /\ req \in Packet /\ res \in Packet
    /\ upl \in {"idle", "send", "wait"}
    /\ poll \in Packet
    /\ reading \in Packet \X Packet
    /\ bus \in SUBSET Packet
    /\ saddr1 \in [Periphs -> Addr]
    /\ posed \in Seq(Packet)
    /\ log \in Seq(Packet)

\* No request is answered twice and no answer overtakes another: the answers
\* written by vTaskResponseDatWrite come in the order in which the requests
\* entered RecvDatMsg_Queue, whatever MsgCoreHndlr dropped, forwarded or gave
\* up in between.
AnswersInOrder ==
    \A i, j \in DOMAIN log : i < j => log[i].no < log[j].no

\* An answer that goes out on IPMB for an IPMB request carries the address of
\* the master that posed that very request, and its sensor: Res, which is never
\* cleared, holds nothing of another request.
AnswerGoesToAsker ==
    \A i \in DOMAIN log : log[i].param = "NORMAL_RESPONSE" =>
        /\ log[i].no \in DOMAIN posed
        /\ log[i].to = posed[log[i].no].by
        /\ log[i].sensor = posed[log[i].no].sensor

\* A sensor reading is recorded only from a reply of the polled board, to a
\* request that was sent to it, although replies to forwarded console requests
\* and late replies to earlier polls come through one queue.  It is about the
\* polled sensor, unless the reply is to a command other than Get Sensor Reading:
\* such a reply is taken for a reading when its byte fits.
ReadingGenuine ==
    LET asked == reading[1]
        reply == reading[2] IN
    asked.no # 0 =>
        /\ reply.src \in DOMAIN posed
        /\ posed[reply.src].to = asked.to
        /\ posed[reply.src].sensor \in {asked.sensor, NoSensor}

\* MsgCoreHndlr never hangs: whatever it is doing it returns to its queue.
CoreReturns == com # "idle" ~> com = "idle"

\* A request in RecvDatMsg_Queue is taken out of it some day.
RequestsTaken ==
    \A n \in 1..MaxReq :
        (\E i \in DOMAIN recvQ : recvQ[i].no = n) ~> ~(\E i \in DOMAIN recvQ : recvQ[i].no = n)

\* The sampler never hangs on a board that does not answer, nor on a reply that
\* MsgCoreHndlr took instead.
SamplerReturns == upl # "idle" ~> upl = "idle"

----------------------------------------------------------------------------
\* The inductive strengthening of the safety properties.

\* Request numbers grow from the log through respQ and the request in hand to
\* recvQ, which is what keeps the answers in order.
RecvOrdered ==
    /\ req.no <= Len(posed)
    /\ \A i \in DOMAIN recvQ : recvQ[i].no > req.no /\ recvQ[i].no <= Len(posed)
    /\ \A i, j \in DOMAIN recvQ : i < j => recvQ[i].no < recvQ[j].no

InHand ==
    /\ com \in {"forward", "await"} => ~IsAnswer(req)
    /\ com = "respond" => IsAnswer(res) /\ res.no = req.no
    /\ upl # "idle" => ~IsAnswer(poll)

BehindHand ==
    /\ \A i \in DOMAIN respQ : IsAnswer(respQ[i]) =>
        respQ[i].no <= req.no /\ (com # "idle" => respQ[i].no < req.no)
    /\ \A i \in DOMAIN log : log[i].no <= req.no /\ (com # "idle" => log[i].no < req.no)

RespOrdered ==
    /\ \A i, j \in DOMAIN respQ :
        i < j /\ IsAnswer(respQ[i]) /\ IsAnswer(respQ[j]) => respQ[i].no < respQ[j].no
    /\ \A i \in DOMAIN log, j \in DOMAIN respQ :
        IsAnswer(respQ[j]) => log[i].no < respQ[j].no

Ordered == RecvOrdered /\ InHand /\ BehindHand /\ RespOrdered /\ AnswersInOrder

\* Every message is what was posed under its number, or an answer to it.
Asked(m) ==
    /\ m.src \in DOMAIN posed
    /\ posed[m.src].to = m.to
    /\ posed[m.src].sensor = m.sensor

Replied(m) ==
    /\ m.src \in DOMAIN posed
    /\ posed[m.src].to = m.by
    /\ posed[m.src].sensor \in {m.sensor, NoSensor}

ForAsker(m) ==
    m.param = "NORMAL_RESPONSE" =>
        /\ m.no \in DOMAIN posed
        /\ m.to = posed[m.no].by
        /\ m.sensor = posed[m.no].sensor

RecvTraced ==
    \A i \in DOMAIN recvQ :
        recvQ[i].no \in DOMAIN posed /\ recvQ[i] = posed[recvQ[i].no] /\ Asked(recvQ[i])

HandTraced ==
    /\ com \in {"forward", "await"} => Asked(req)
    /\ com = "respond" => ForAsker(res)
    /\ upl # "idle" => Asked(poll)

RespTraced ==
    \A i \in DOMAIN respQ :
        /\ ForAsker(respQ[i])
        /\ ~IsAnswer(respQ[i]) => Asked(respQ[i])

WireTraced ==
    /\ \A m \in bus : Asked(m)
    /\ \A i \in DOMAIN fwdQ : Replied(fwdQ[i])

Traced ==
    RecvTraced /\ HandTraced /\ RespTraced /\ WireTraced /\ AnswerGoesToAsker /\ ReadingGenuine

IInv == TypeOK /\ Ordered /\ Traced

=============================================================================
