----------------------------- MODULE ModbusSlave -----------------------------
(***************************************************************************)
(* The Modbus RTU slave of the sensor node: the receive and transmit state *)
(* machines of mbrtu.c, their RT-Thread port (one event set, one one-shot  *)
(* timer, a "soft transmit interrupt" thread) and the polling thread of    *)
(* user_mb_app.c and mb.c, driven by a bus on which a master sends frames  *)
(* to this slave, to other slaves and to everybody.                        *)
(*                                                                         *)
(* Four actors share one buffer, ucRTUBuf:                                 *)
(*   - the UART interrupt, which stores the bytes that arrive;             *)
(*   - the tick interrupt, which runs the T3.5 timer callback;             *)
(*   - the transmit thread (priority 10), which sends the buffer;          *)
(*   - the polling thread (priority 15), which reads the request from the  *)
(*     buffer and builds the reply in it.                                  *)
(* Both interrupts have NVIC priority 0, so neither preempts the other and *)
(* a handler is one step.  A thread step is what runs between two points   *)
(* where an interrupt can make a difference; a critical section is one     *)
(* step.  The polling thread never runs while the transmit thread can.     *)
(*                                                                         *)
(* A byte is named by where it comes from: byte i of the n-th frame on the *)
(* bus, of the PDU the handler of that frame left, or of the reply that    *)
(* was sealed with a CRC and sent for it.  A CRC check passes when the     *)
(* checked cells are a whole undamaged frame.                              *)
(***************************************************************************)
EXTENDS Naturals, Sequences, FiniteSets

CONSTANTS
    SizeMin,      \* MB_SER_PDU_SIZE_MIN: the shortest frame the CRC is checked on
    SizeMax,      \* MB_SER_PDU_SIZE_MAX: the size of ucRTUBuf
    Frames,       \* the frames that may appear on the bus
    MaxFrames,    \* bound: how many frames the master sends
    ReplyLens,    \* lengths a handler's reply PDU may have
    Master        \* how disciplined the master is: "any", "conforming" or "quiet"

SizeCrc == 2      \* MB_SER_PDU_SIZE_CRC

ASSUME SizeAssumption ==
    /\ SizeMin \in Nat /\ SizeMax \in Nat
    /\ SizeCrc + 2 <= SizeMin /\ SizeMin <= SizeMax

\* A frame: whom it is addressed to, its length on the wire, whether its CRC is right.
ASSUME FramesAssumption ==
    /\ Frames \subseteq [to : {"us", "other", "broadcast"}, len : Nat \ {0}, crc : BOOLEAN]
    /\ MaxFrames \in Nat
    /\ Master \in {"any", "conforming", "quiet"}

\* The reply PDU fits between the address byte and the CRC: the longest one the register
\* map allows has 2 + 2 * 12 bytes, the shortest is an exception.
ASSUME ReplyAssumption ==
    /\ ReplyLens \subseteq Nat \ {0}
    /\ \A l \in ReplyLens : 1 + l + SizeCrc <= SizeMax

VARIABLES
    eMBState,         \* the protocol stack: not initialised, disabled, enabled
    eRcvState,        \* receive state machine
    eSndState,        \* transmit state machine
    ucRTUBuf,         \* the one frame buffer, a cell per byte
    usRcvBufferPos,   \* how many bytes of the current frame are stored
    usSndBufferCount, \* how many bytes of the reply are still to be sent
    timer,            \* is the one-shot T3.5 timer running?
    rxInt,            \* is the UART receive interrupt enabled?
    rdr,              \* the UART's receive data register: <<>> or the byte in it
    transEvent,       \* EVENT_SERIAL_TRANS_START of event_serial
    transPc,          \* transmit thread: "recv" or "rxOn" (inside the last callback)
    osEvent,          \* the bits of xSlaveOsEvent that are set
    pollPc,           \* where the polling thread is
    recvedEvent,      \* what rt_event_recv returned to it
    ucRcvAddress, usLength, ucMBFrame,   \* eMBPoll's statics
    fault,            \* "none", or what stopped the processor
    sent,             \* the frames put on the bus so far
    line,             \* the next byte on the wire: frame number and byte index
    accepted,         \* history: the frame EV_EXECUTE was posted for (0: none)
    execs, replies    \* history: per frame (0: none), how often executed and answered

rtu  == <<eRcvState, eSndState, ucRTUBuf, usRcvBufferPos, usSndBufferCount>>
port == <<timer, rxInt, rdr, transEvent, transPc>>
poll == <<pollPc, recvedEvent, osEvent>>
mb   == <<eMBState, ucRcvAddress, usLength, ucMBFrame>>
bus  == <<sent, line>>
hist == <<accepted, execs, replies>>
vars == <<rtu, port, poll, mb, bus, hist, fault>>

EventTypes == {"EV_READY", "EV_FRAME_RECEIVED", "EV_EXECUTE", "EV_FRAME_SENT"}

Zero == [src |-> "zero", n |-> 0, i |-> 0]
ReqByte(n, i) == [src |-> "req", n |-> n, i |-> i]
PduByte(n, i) == [src |-> "pdu", n |-> n, i |-> i]
RspByte(n, i) == [src |-> "rsp", n |-> n, i |-> i]
CrcByte(n, i) == [src |-> "crc", n |-> n, i |-> i]
Cell == [src : {"zero", "req", "pdu", "rsp", "crc"}, n : Nat, i : Nat]

-----------------------------------------------------------------------------
\* What the start-up code leaves: RAM cleared, the thread before it has its address.
Init ==
    /\ eMBState = "STATE_NOT_INITIALIZED"
    /\ eRcvState = "STATE_RX_INIT"
    /\ eSndState = "STATE_TX_IDLE"
    /\ ucRTUBuf = [i \in 0 .. SizeMax - 1 |-> Zero]
    /\ usRcvBufferPos = 0
    /\ usSndBufferCount = 0
    /\ timer = "stopped"
    /\ rxInt = "off"
    /\ rdr = <<>>
    /\ transEvent = "clear"
    /\ transPc = "recv"
    /\ osEvent = {}
    /\ pollPc = "boot"
    /\ recvedEvent = {}
    /\ ucRcvAddress = "broadcast"     \* 0, like all statics
    /\ usLength = 0
    /\ ucMBFrame = "NULL"
    /\ fault = "none"
    /\ accepted = 0
    /\ sent = <<>>
    /\ line = [n |-> 0, i |-> 0]
    /\ execs = [n \in 0 .. MaxFrames |-> 0]
    /\ replies = [n \in 0 .. MaxFrames |-> 0]

Running == fault = "none"
IrqPending == rxInt = "on" /\ rdr # <<>>

\* A faulty variant: the two threads have the same priority.
NoPriority == TRUE

\* A thread runs between interrupts; the polling thread only while the transmit thread waits
\* for its event.
TransRuns == Running /\ ~IrqPending
TransWaits == transEvent = "clear" /\ transPc = "recv"
PollRuns == TransRuns /\ TransWaits
\* A critical section runs even though a byte has just arrived.
PollInCritical == Running /\ TransWaits

\* rt_event_send: the bit wakes the polling thread at once when it is suspended, and hands it
\* exactly this bit; when it is not, the bit stays in the set for the next rt_event_recv.
rt_event_send(e) ==
    IF pollPc = "wait"
    THEN /\ pollPc' = "dispatch"
         /\ recvedEvent' = {e}
         /\ UNCHANGED osEvent
    ELSE /\ osEvent' = osEvent \cup {e}
         /\ UNCHANGED <<pollPc, recvedEvent>>

xMBPortEventPost(e) == rt_event_send(e)

\* A faulty variant: the receiver is never let in again once it was switched off.
RxNeverBack(xRxEnable, xTxEnable) ==
    /\ rxInt' = IF xRxEnable THEN rxInt ELSE "off"
    /\ transEvent' = IF xTxEnable THEN "set" ELSE "clear"

\* vMBPortSerialEnable: the receive interrupt and the 485 direction follow xRxEnable; the
\* start bit of the transmit thread is set or taken back.
vMBPortSerialEnable(xRxEnable, xTxEnable) ==
    /\ rxInt' = IF xRxEnable THEN "on" ELSE "off"
    /\ transEvent' = IF xTxEnable THEN "set" ELSE "clear"

-----------------------------------------------------------------------------
(* The bus.                                                                 *)

LineIdle == line.n # 0 => line.i = sent[line.n].len

\* The environment: "any" master may start a frame whenever the wire is free, even before
\* the last one was answered (it timed out); a "conforming" one leaves the silent interval
\* and starts when the slave listens, and waits for the answer to a request it sent to it; a
\* "quiet" one also leaves the slave the time to come back to rt_event_recv.
MasterMaySend ==
    \/ Master = "any"
    \/ /\ timer = "stopped" /\ rdr = <<>>
       /\ eSndState = "STATE_TX_IDLE" /\ eRcvState = "STATE_RX_IDLE"
       /\ \A n \in 1 .. Len(sent) :
             sent[n].to = "us" /\ sent[n].crc /\ sent[n].len \in SizeMin .. SizeMax
                => replies[n] > 0
       /\ sent = <<>> \/ Master = "quiet" => pollPc = "wait"

MasterSend ==
    \E f \in Frames :
      /\ Len(sent) < MaxFrames
      /\ LineIdle
      /\ MasterMaySend
      /\ sent' = Append(sent, f)
      /\ line' = [n |-> Len(sent) + 1, i |-> 0]
      /\ UNCHANGED <<rtu, port, poll, mb, hist, fault>>

\* A byte ends on the wire.  It reaches the data register unless the transceiver is in
\* transmit mode or the UART has not been opened.
ByteArrives ==
    /\ ~LineIdle
    /\ rdr = <<>> \/ rxInt = "off"
    /\ line' = [line EXCEPT !.i = @ + 1]
    /\ rdr' = IF rxInt = "on" THEN <<ReqByte(line.n, line.i)>> ELSE rdr
    /\ UNCHANGED <<rtu, timer, rxInt, transEvent, transPc, poll, mb, sent, hist, fault>>

-----------------------------------------------------------------------------
(* The UART interrupt: xMBRTUReceiveFSM, called once per byte.              *)

xMBRTUReceiveFSM ==
    /\ Running /\ IrqPending
    /\ rdr' = <<>>
    /\ IF eSndState # "STATE_TX_IDLE"
       THEN \* RT_ASSERT( eSndState == STATE_TX_IDLE )
            /\ fault' = "rx"
            /\ UNCHANGED <<rtu, timer>>
       ELSE /\ timer' = "running"
            /\ UNCHANGED <<eSndState, usSndBufferCount, fault>>
            /\ \/ /\ eRcvState \in {"STATE_RX_INIT", "STATE_RX_ERROR"}
                  /\ UNCHANGED <<eRcvState, ucRTUBuf, usRcvBufferPos>>
               \/ /\ eRcvState = "STATE_RX_IDLE"
                  /\ ucRTUBuf' = [ucRTUBuf EXCEPT ![0] = Head(rdr)]
                  /\ usRcvBufferPos' = 1
                  /\ eRcvState' = "STATE_RX_RCV"
               \/ /\ eRcvState = "STATE_RX_RCV"
                  /\ usRcvBufferPos < SizeMax
                  /\ ucRTUBuf' = [ucRTUBuf EXCEPT ![usRcvBufferPos] = Head(rdr)]
                  /\ usRcvBufferPos' = usRcvBufferPos + 1
                  /\ UNCHANGED eRcvState
               \/ /\ eRcvState = "STATE_RX_RCV"
                  /\ usRcvBufferPos >= SizeMax
                  /\ eRcvState' = "STATE_RX_ERROR"
                  /\ UNCHANGED <<ucRTUBuf, usRcvBufferPos>>
    /\ UNCHANGED <<rxInt, transEvent, transPc, poll, mb, bus, hist>>

\* The bytes of a disciplined master's frame follow each other faster than the timer runs.
SilentInterval == Master = "any" \/ (LineIdle /\ rdr = <<>>)

\* The tick interrupt calls the T3.5 callback, which stops the timer.
xMBRTUTimerT35Expired ==
    /\ Running /\ timer = "running"
    /\ SilentInterval
    /\ IF eRcvState = "STATE_RX_IDLE"
       THEN \* the RT_ASSERT of the default branch
            /\ fault' = "t35"
            /\ UNCHANGED <<poll, eRcvState, timer>>
       ELSE /\ IF eRcvState = "STATE_RX_ERROR"
               THEN UNCHANGED poll
               ELSE xMBPortEventPost(IF eRcvState = "STATE_RX_INIT"
                                     THEN "EV_READY" ELSE "EV_FRAME_RECEIVED")
            /\ eRcvState' = "STATE_RX_IDLE"
            /\ timer' = "stopped"
            /\ UNCHANGED fault
    /\ UNCHANGED <<eSndState, ucRTUBuf, usRcvBufferPos, usSndBufferCount,
                   rxInt, rdr, transEvent, transPc, mb, bus, hist>>

-----------------------------------------------------------------------------
(* The transmit thread: serial_soft_trans_irq calls xMBRTUTransmitFSM for   *)
(* as long as EVENT_SERIAL_TRANS_START is set.  The event is not cleared by *)
(* the receive, so the thread spins until vMBPortSerialEnable takes it.     *)
(* The last call posts EV_FRAME_SENT and lets the receiver in ...           *)

\* A faulty variant: the count is tested for being negative, which it never is.
SendsForever == usSndBufferCount >= 0

\* check if we are finished.
MoreToSend == usSndBufferCount # 0

xMBRTUTransmitFSM ==
    /\ TransRuns /\ transEvent = "set" /\ transPc = "recv"
    /\ IF eRcvState # "STATE_RX_IDLE"
       THEN \* RT_ASSERT( eRcvState == STATE_RX_IDLE )
            /\ fault' = "tx"
            /\ UNCHANGED <<rtu, port, poll, replies>>
       ELSE IF eSndState = "STATE_TX_IDLE"
       THEN /\ vMBPortSerialEnable(TRUE, FALSE)
            /\ UNCHANGED <<rtu, timer, rdr, transPc, poll, replies, fault>>
       ELSE IF MoreToSend
       THEN /\ usSndBufferCount' = usSndBufferCount - 1
            /\ UNCHANGED <<eRcvState, eSndState, ucRTUBuf, usRcvBufferPos,
                           port, poll, replies, fault>>
       ELSE /\ xMBPortEventPost("EV_FRAME_SENT")
            /\ vMBPortSerialEnable(TRUE, FALSE)
            /\ transPc' = "rxOn"
            /\ replies' = [replies EXCEPT ![accepted] = @ + 1]
            /\ UNCHANGED <<rtu, timer, rdr, fault>>
    /\ UNCHANGED <<mb, bus, accepted, execs>>

\* ... and only then leaves the transmit state.
TransIdle ==
    /\ TransRuns /\ transPc = "rxOn"
    /\ eSndState' = "STATE_TX_IDLE"
    /\ transPc' = "recv"
    /\ UNCHANGED <<eRcvState, ucRTUBuf, usRcvBufferPos, usSndBufferCount,
                   timer, rxInt, rdr, transEvent, poll, mb, bus, hist, fault>>

-----------------------------------------------------------------------------
(* The polling thread: modbus_slave_thread_entry and eMBPoll.               *)

\* The node has its address: eMBInit opens the UART and creates the event set.
PollInit ==
    /\ PollRuns /\ pollPc = "boot"
    /\ rxInt' = "on"
    /\ osEvent' = {}
    /\ eMBState' = "STATE_DISABLED"
    /\ pollPc' = "enable"
    /\ UNCHANGED <<rtu, timer, rdr, transEvent, transPc, recvedEvent,
                   ucRcvAddress, usLength, ucMBFrame, bus, hist, fault>>

\* iflash_init, tmp117_init, ms5837_init and mbs_sts_init are over: eMBEnable, eMBRTUStart.
PollEnable ==
    /\ PollInCritical /\ pollPc = "enable"
    /\ eRcvState' = "STATE_RX_INIT"
    /\ vMBPortSerialEnable(TRUE, FALSE)
    /\ timer' = "running"
    /\ eMBState' = "STATE_ENABLED"
    /\ pollPc' = "get"
    /\ UNCHANGED <<eSndState, ucRTUBuf, usRcvBufferPos, usSndBufferCount, rdr, transPc,
                   recvedEvent, osEvent, ucRcvAddress, usLength, ucMBFrame,
                   bus, hist, fault>>

\* A faulty variant: the receive without RT_EVENT_FLAG_CLEAR.
EventsNotCleared ==
    /\ pollPc' = "dispatch"
    /\ recvedEvent' = osEvent
    /\ UNCHANGED osEvent

\* RT_EVENT_FLAG_CLEAR: what is returned is taken out of the set.
TakeEvents ==
    /\ pollPc' = "dispatch"
    /\ recvedEvent' = osEvent
    /\ osEvent' = {}

\* xMBPortEventGet: wait for a bit, or take and clear all the bits that are set.
xMBPortEventGet ==
    /\ PollRuns /\ pollPc = "get"
    /\ IF osEvent = {}
       THEN pollPc' = "wait" /\ UNCHANGED <<recvedEvent, osEvent>>
       ELSE TakeEvents
    /\ UNCHANGED <<rtu, port, mb, bus, hist, fault>>

\* The event eMBPoll acts on.  The switch of xMBPortEventGet knows single bits only: when
\* several were set, eEvent is the uninitialised local of eMBPoll and may hold anything.
eEvents == IF Cardinality(recvedEvent) = 1 THEN recvedEvent ELSE EventTypes \cup {"garbage"}

\* usMBCRC16 is 0 over a whole undamaged frame: a request on the bus, or a reply of this
\* slave that is still in the buffer.  A handler that has since run over such a reply may
\* have left it as it was (a register write is echoed) or not.
IsRequest(n) ==
    /\ sent[n].crc /\ usRcvBufferPos = sent[n].len
    /\ \A i \in 0 .. usRcvBufferPos - 1 : ucRTUBuf[i] = ReqByte(n, i)

IsReply(n) ==
    \A i \in 0 .. usRcvBufferPos - 1 :
        ucRTUBuf[i] \in IF i < usRcvBufferPos - SizeCrc
                        THEN {RspByte(n, i), PduByte(n, i)} ELSE {CrcByte(n, i)}

Intact == {[n |-> n, to |-> sent[n].to] : n \in {m \in 1 .. Len(sent) : IsRequest(m)}}
             \cup {[n |-> n, to |-> "us"] : n \in {m \in 0 .. Len(sent) : IsReply(m)}}

\* The check of the CRC can fail.
MayBeDamaged == Intact = {} \/ \E i \in 1 .. usRcvBufferPos - 1 : ucRTUBuf[i].src = "pdu"

\* A faulty variant: the shortest frames are refused.
DropsMinimal == usRcvBufferPos > SizeMin

\* Long enough to hold an address, a function code and the CRC.
LongEnough == usRcvBufferPos >= SizeMin

\* Faulty variants: the address is not looked at, broadcasts are not accepted.
Everyone(to) == TRUE
UsOnly(to) == to = "us"

\* Is the frame for this slave?
ForUs(to) == to \in {"us", "broadcast"}

\* EV_FRAME_RECEIVED: eMBRTUReceive checks length and CRC and fills the statics; a frame for
\* this slave or for everybody is executed on a later EV_EXECUTE.
PollReceive ==
    /\ PollInCritical /\ pollPc = "dispatch"
    /\ "EV_FRAME_RECEIVED" \in eEvents
    /\ pollPc' = "update"
    /\ IF usRcvBufferPos > SizeMax
       THEN \* RT_ASSERT( usRcvBufferPos <= MB_SER_PDU_SIZE_MAX )
            /\ fault' = "length"
            /\ UNCHANGED <<osEvent, mb, accepted>>
       ELSE \/ /\ ~LongEnough \/ MayBeDamaged
               /\ UNCHANGED <<osEvent, mb, accepted, fault>>
            \/ /\ LongEnough
               /\ \E f \in Intact :
                    /\ ucRcvAddress' = f.to
                    /\ IF ForUs(f.to)
                       THEN osEvent' = osEvent \cup {"EV_EXECUTE"} /\ accepted' = f.n
                       ELSE UNCHANGED <<osEvent, accepted>>
               /\ usLength' = usRcvBufferPos - 1 - SizeCrc
               /\ ucMBFrame' = "set"
               /\ UNCHANGED <<eMBState, fault>>
    /\ UNCHANGED <<rtu, port, recvedEvent, bus, execs, replies>>

\* A faulty variant: broadcasts are answered.
AnswersAll == TRUE

\* A broadcast is not answered.
NeedsReply == ucRcvAddress # "broadcast"

\* EV_EXECUTE, first half: the handler reads the request from the buffer and builds the
\* reply PDU over it.  Without any frame received so far ucMBFrame is NULL, which
\* can be read, and usLength 0: no handler finds a request in that.
PollExecute ==
    /\ PollRuns /\ pollPc = "dispatch"
    /\ "EV_EXECUTE" \in eEvents
    /\ pollPc' = IF NeedsReply THEN "send" ELSE "update"
    /\ IF ucMBFrame = "NULL"
       THEN UNCHANGED <<ucRTUBuf, usLength, execs>>
       ELSE /\ \E l \in ReplyLens :
                 /\ usLength' = l
                 /\ ucRTUBuf' = [i \in 0 .. SizeMax - 1 |->
                                    IF i \in 1 .. l THEN PduByte(accepted, i) ELSE ucRTUBuf[i]]
            /\ execs' = [execs EXCEPT ![accepted] = @ + 1]
    /\ UNCHANGED <<eRcvState, eSndState, usRcvBufferPos, usSndBufferCount, port, recvedEvent,
                   osEvent, eMBState, ucRcvAddress, ucMBFrame, bus, accepted, replies, fault>>

\* A faulty variant: a frame that is coming in does not stop the reply.
SendsAnyway == TRUE

\* The receiver is still idle: no frame is coming in.
ReceiverIdle == eRcvState = "STATE_RX_IDLE"

\* EV_EXECUTE, second half: eMBRTUSend adds address and CRC, switches the receiver off and
\* wakes the transmit thread, or gives up when a frame is being received.  The bytes of the
\* PDU, whatever they are, are those of the reply from here on.
eMBRTUSend ==
    /\ PollInCritical /\ pollPc = "send"
    /\ pollPc' = "update"
    /\ IF ReceiverIdle
       THEN /\ ucRTUBuf' = [i \in 0 .. SizeMax - 1 |->
                              CASE i \in 0 .. usLength -> RspByte(accepted, i)
                                [] i \in usLength + 1 .. usLength + SizeCrc -> CrcByte(accepted, i)
                                [] OTHER -> ucRTUBuf[i]]
            /\ usSndBufferCount' = 1 + usLength + SizeCrc
            /\ eSndState' = "STATE_TX_XMIT"
            /\ vMBPortSerialEnable(FALSE, TRUE)
       ELSE UNCHANGED <<ucRTUBuf, usSndBufferCount, eSndState, rxInt, transEvent>>
    /\ UNCHANGED <<eRcvState, usRcvBufferPos, timer, rdr, transPc, recvedEvent, osEvent,
                   mb, bus, hist, fault>>

\* EV_READY, EV_FRAME_SENT and a value that is no event: nothing to do.
PollNothing ==
    /\ PollRuns /\ pollPc = "dispatch"
    /\ eEvents \cap {"EV_READY", "EV_FRAME_SENT", "garbage"} # {}
    /\ pollPc' = "update"
    /\ UNCHANGED <<rtu, port, recvedEvent, osEvent, mb, bus, hist, fault>>

\* mbs_sts_update reads the sensors and refreshes the registers, then the thread sleeps.
PollUpdate ==
    /\ PollRuns /\ pollPc = "update"
    /\ pollPc' = "get"
    /\ UNCHANGED <<rtu, port, recvedEvent, osEvent, mb, bus, hist, fault>>

-----------------------------------------------------------------------------
\* A failed assertion spins inside an interrupt or with interrupts off: main() cannot refresh
\* the watchdog any more and the processor is reset.
WatchdogReset ==
    /\ ~Running
    /\ eMBState' = "STATE_NOT_INITIALIZED"
    /\ eRcvState' = "STATE_RX_INIT"
    /\ eSndState' = "STATE_TX_IDLE"
    /\ ucRTUBuf' = [i \in 0 .. SizeMax - 1 |-> Zero]
    /\ usRcvBufferPos' = 0
    /\ usSndBufferCount' = 0
    /\ timer' = "stopped"
    /\ rxInt' = "off"
    /\ rdr' = <<>>
    /\ transEvent' = "clear"
    /\ transPc' = "recv"
    /\ osEvent' = {}
    /\ pollPc' = "boot"
    /\ recvedEvent' = {}
    /\ ucRcvAddress' = "broadcast"
    /\ usLength' = 0
    /\ ucMBFrame' = "NULL"
    /\ fault' = "none"
    /\ accepted' = 0
    /\ UNCHANGED <<bus, execs, replies>>

UartIsr == xMBRTUReceiveFSM
TickIsr == xMBRTUTimerT35Expired
TransThread == xMBRTUTransmitFSM \/ TransIdle
PollThread ==
    \/ PollInit \/ PollEnable \/ xMBPortEventGet
    \/ PollReceive \/ PollExecute \/ eMBRTUSend \/ PollNothing \/ PollUpdate

Next ==
    \/ MasterSend \/ ByteArrives
    \/ UartIsr \/ TickIsr \/ TransThread \/ PollThread \/ WatchdogReset

Spec == Init /\ [][Next]_vars

\* The wire delivers, interrupts are taken, and every thread that can run gets the processor.
Fairness ==
    /\ WF_vars(ByteArrives) /\ WF_vars(UartIsr) /\ WF_vars(TickIsr)
    /\ WF_vars(TransThread) /\ WF_vars(PollThread) /\ WF_vars(WatchdogReset)

FairSpec == Spec /\ Fairness

-----------------------------------------------------------------------------
(* Properties.                                                              *)

StackType ==
    /\ eMBState \in {"STATE_NOT_INITIALIZED", "STATE_DISABLED", "STATE_ENABLED"}
    /\ eRcvState \in {"STATE_RX_INIT", "STATE_RX_IDLE", "STATE_RX_RCV", "STATE_RX_ERROR"}
    /\ eSndState \in {"STATE_TX_IDLE", "STATE_TX_XMIT"}
    /\ ucRTUBuf \in [0 .. SizeMax - 1 -> Cell]
    /\ usRcvBufferPos \in Nat
    /\ usSndBufferCount \in Nat
    /\ fault \in {"none", "rx", "t35", "tx", "length"}

PortType ==
    /\ timer \in {"stopped", "running"}
    /\ rxInt \in {"off", "on"}
    /\ rdr \in Seq(Cell) /\ Len(rdr) <= 1
    /\ transEvent \in {"clear", "set"}
    /\ transPc \in {"recv", "rxOn"}

PollType ==
    /\ osEvent \subseteq EventTypes /\ recvedEvent \subseteq EventTypes
    /\ pollPc \in {"boot", "enable", "get", "wait", "dispatch", "send", "update"}
    /\ ucRcvAddress \in {"us", "other", "broadcast"}
    /\ usLength \in Nat
    /\ ucMBFrame \in {"NULL", "set"}

BusType ==
    /\ sent \in Seq(Frames) /\ Len(sent) <= MaxFrames
    /\ line \in [n : Nat, i : Nat] /\ line.n <= Len(sent)
    /\ accepted \in 0 .. Len(sent)
    /\ execs \in [0 .. MaxFrames -> Nat]
    /\ replies \in [0 .. MaxFrames -> Nat]

\* The values the variables take.
TypeOK == StackType /\ PortType /\ PollType /\ BusType

\* Whatever the bus does, three of the stack's assertions cannot fail: the T3.5 timer never
\* expires in an idle receiver (xMBRTUTimerT35Expired), the transmitter never runs while a
\* frame is received (xMBRTUTransmitFSM) and a frame never outgrows the buffer (eMBRTUReceive).
AssertsHold == fault \notin {"t35", "tx", "length"}

\* The facts that make AssertsHold inductive: the timer runs only while the receiver waits
\* for the end of something; from eMBRTUSend until the receiver is let in again nobody else
\* touches the stack; the transmit state is left only by the transmit thread.
TimerInFrame == timer = "running" => eRcvState # "STATE_RX_IDLE"
ReceiverParked ==
    /\ transEvent = "set" => rxInt = "off" /\ transPc = "recv"
    /\ transEvent = "set" \/ transPc = "rxOn" <=> eSndState = "STATE_TX_XMIT"
    /\ eSndState = "STATE_TX_XMIT" => eRcvState = "STATE_RX_IDLE"
FrameFits == usRcvBufferPos <= SizeMax

StackInv == AssertsHold /\ TimerInFrame /\ ReceiverParked /\ FrameFits

\* From the moment eMBRTUSend sealed a reply with its CRC until the last byte is out, no
\* byte of the buffer changes: what is on the wire is the frame the CRC was computed over.
ReplyIntact == [][Running /\ eSndState = "STATE_TX_XMIT" => UNCHANGED ucRTUBuf]_vars

\* Whatever happened on the bus, and even after a watchdog reset, the slave listens again:
\* the polling thread is back in rt_event_recv with the receiver on and the transmitter idle.
ListensAgain ==
    []<>(/\ Running /\ pollPc = "wait"
         /\ rxInt = "on" /\ eSndState = "STATE_TX_IDLE" /\ eRcvState = "STATE_RX_IDLE")

\* eMBPoll handles the event it was given: the event it acts on is the one that was posted.
EventHandled == pollPc = "dispatch" => eEvents = recvedEvent

\* What EV_EXECUTE works on is the frame that passed the address check of eMBPoll: every
\* byte of the PDU in the buffer belongs to it, and it is for this slave or for everybody.
ExecutesOwnFrames ==
    pollPc = "dispatch" /\ recvedEvent = {"EV_EXECUTE"} =>
        /\ accepted # 0 /\ sent[accepted].to \in {"us", "broadcast"}
        /\ \A i \in 1 .. usLength : ucRTUBuf[i] = ReqByte(accepted, i)

\* A reply overtaken by another frame is not sent: when eMBRTUSend finds the receiver idle,
\* the buffer still holds the reply that the handler built.
StaleReplyAborted ==
    pollPc = "send" /\ eRcvState = "STATE_RX_IDLE" =>
        \A i \in 1 .. usLength : ucRTUBuf[i] = PduByte(accepted, i)

\* The receive callback never runs while a reply is being transmitted (the assertion at the
\* head of xMBRTUReceiveFSM).
NoReceiveDuringTransmit == fault # "rx"

Valid(f) == f.crc /\ f.len \in SizeMin .. SizeMax

\* No request is executed twice, none is executed or answered that was damaged or meant for
\* another slave, and a broadcast is executed but never answered.
AtMostOnce ==
    /\ execs[0] = 0 /\ replies[0] = 0
    /\ \A n \in 1 .. Len(sent) :
         /\ replies[n] <= execs[n] /\ execs[n] <= 1
         /\ execs[n] = 1 => Valid(sent[n]) /\ sent[n].to # "other"
         /\ replies[n] = 1 => sent[n].to = "us"

\* Every sound request for this slave is answered.
Answered ==
    \A n \in 1 .. MaxFrames :
        (n <= Len(sent) /\ sent[n].to = "us" /\ Valid(sent[n])) ~> replies[n] = 1

\* Every sound broadcast is executed.
BroadcastExecuted ==
    \A n \in 1 .. MaxFrames :
        (n <= Len(sent) /\ sent[n].to = "broadcast" /\ Valid(sent[n])) ~> execs[n] = 1

=============================================================================
