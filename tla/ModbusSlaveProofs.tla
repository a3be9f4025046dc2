-------------------------- MODULE ModbusSlaveProofs --------------------------
(***************************************************************************)
(* What holds of the Modbus slave for every buffer size and set of frames: *)
(* with every master, the type invariant, the assertions of the stack that *)
(* cannot fail, and that a reply is not disturbed while it is being sent;  *)
(* with a quiet one, that every request is executed once, from its own     *)
(* bytes, and that nothing stops the processor.                            *)
(***************************************************************************)
EXTENDS ModbusSlave, FiniteSetTheorems, TLAPS

\* The cells that name the bytes are cells.
LEMMA CellType ==
    /\ Zero \in Cell
    /\ \A n, i \in Nat : /\ ReqByte(n, i) \in Cell /\ PduByte(n, i) \in Cell
                         /\ RspByte(n, i) \in Cell
                         /\ CrcByte(n, i) \in Cell
BY DEF Zero, ReqByte, PduByte, RspByte, CrcByte, Cell

\* A posted event keeps the polling thread's variables in their types.
LEMMA PostType ==
    ASSUME PollType, NEW e \in EventTypes, xMBPortEventPost(e)
    PROVE  /\ osEvent' \subseteq EventTypes /\ recvedEvent' \subseteq EventTypes
           /\ pollPc' \in {"boot", "enable", "get", "wait", "dispatch", "send", "update"}
BY DEF PollType, rt_event_send, xMBPortEventPost

\* The type invariant holds when the processor starts.
LEMMA TypeInit == Init => TypeOK
<1> SUFFICES ASSUME Init PROVE TypeOK
  OBVIOUS
<1>1. StackType BY CellType DEF Init, StackType
<1>2. PortType BY DEF Init, PortType
<1>3. PollType BY DEF Init, PollType
<1>4. BusType BY FramesAssumption DEF Init, BusType
<1> QED BY <1>1, <1>2, <1>3, <1>4 DEF TypeOK

\* What the master and the wire do keeps the types.
LEMMA TypeMaster == TypeOK /\ (MasterSend \/ ByteArrives) => TypeOK'
<1>1. ASSUME TypeOK, MasterSend PROVE TypeOK'
  <2>1. StackType' BY <1>1 DEF MasterSend, TypeOK, StackType, rtu, mb
  <2>2. PortType' BY <1>1 DEF MasterSend, TypeOK, PortType, port
  <2>3. PollType' BY <1>1 DEF MasterSend, TypeOK, PollType, poll, mb
  <2>4. BusType'
    <3>1. PICK f \in Frames : sent' = Append(sent, f) /\ line' = [n |-> Len(sent) + 1, i |-> 0]
      BY <1>1 DEF MasterSend
    <3>2. sent' \in Seq(Frames) /\ Len(sent') = Len(sent) + 1 /\ Len(sent) \in Nat
      BY <1>1, <3>1 DEF TypeOK, BusType
    <3>3. Len(sent') <= MaxFrames
      BY <1>1, <3>2, FramesAssumption DEF MasterSend
    <3>4. line' \in [n : Nat, i : Nat] /\ line'.n <= Len(sent')
      BY <3>1, <3>2
    <3>5. accepted' \in 0 .. Len(sent')
      BY <1>1, <3>2 DEF MasterSend, TypeOK, BusType, hist
    <3> QED BY <1>1, <3>2, <3>3, <3>4, <3>5 DEF MasterSend, TypeOK, BusType, hist
  <2> QED BY <2>1, <2>2, <2>3, <2>4 DEF TypeOK
<1>2. ASSUME TypeOK, ByteArrives PROVE TypeOK'
  <2>1. StackType' BY <1>2 DEF ByteArrives, TypeOK, StackType, rtu, mb
  <2>2. PortType'
    <3>1. ReqByte(line.n, line.i) \in Cell BY <1>2, CellType DEF TypeOK, BusType
    <3> QED BY <1>2, <3>1 DEF ByteArrives, TypeOK, PortType
  <2>3. PollType' BY <1>2 DEF ByteArrives, TypeOK, PollType, poll, mb
  <2>4. BusType' BY <1>2 DEF ByteArrives, TypeOK, BusType, hist
  <2> QED BY <2>1, <2>2, <2>3, <2>4 DEF TypeOK
<1> QED BY <1>1, <1>2

\* The UART interrupt keeps the types.
LEMMA TypeUart == TypeOK /\ UartIsr => TypeOK'
<1> SUFFICES ASSUME TypeOK, UartIsr PROVE TypeOK'
  OBVIOUS
<1>1. StackType'
  <2>1. Head(rdr) \in Cell
    BY DEF UartIsr, xMBRTUReceiveFSM, IrqPending, PortType, TypeOK
  <2>2. ucRTUBuf' \in [0 .. SizeMax - 1 -> Cell] /\ usRcvBufferPos' \in Nat
    BY <2>1 DEF UartIsr, xMBRTUReceiveFSM, TypeOK, StackType, rtu
  <2> QED BY <2>2 DEF UartIsr, xMBRTUReceiveFSM, TypeOK, StackType, rtu, mb
<1>2. PortType' BY DEF UartIsr, xMBRTUReceiveFSM, TypeOK, PortType
<1>3. PollType' BY DEF UartIsr, xMBRTUReceiveFSM, TypeOK, PollType, poll, mb
<1>4. BusType' BY DEF UartIsr, xMBRTUReceiveFSM, TypeOK, BusType, bus, hist
<1> QED BY <1>1, <1>2, <1>3, <1>4 DEF TypeOK

\* The tick interrupt keeps the types.
LEMMA TypeTick == TypeOK /\ TickIsr => TypeOK'
<1> SUFFICES ASSUME TypeOK, TickIsr PROVE TypeOK'
  OBVIOUS
<1>1. StackType' BY DEF TickIsr, xMBRTUTimerT35Expired, TypeOK, StackType, mb
<1>2. PortType' BY DEF TickIsr, xMBRTUTimerT35Expired, TypeOK, PortType
<1>3. PollType'
  BY PostType DEF TickIsr, xMBRTUTimerT35Expired, TypeOK, PollType, EventTypes, poll, mb
<1>4. BusType' BY DEF TickIsr, xMBRTUTimerT35Expired, TypeOK, BusType, bus, hist
<1> QED BY <1>1, <1>2, <1>3, <1>4 DEF TypeOK

\* The transmit thread keeps the types.
LEMMA TypeTrans == TypeOK /\ TransThread => TypeOK'
<1>1. ASSUME TypeOK, xMBRTUTransmitFSM PROVE TypeOK'
  <2>1. StackType'
    <3>1. usSndBufferCount' \in Nat
      BY <1>1 DEF vMBPortSerialEnable, xMBRTUTransmitFSM, MoreToSend, TypeOK, StackType, rtu
    <3> QED BY <1>1, <3>1 DEF xMBRTUTransmitFSM, TypeOK, StackType, rtu, mb
  <2>2. PortType'
    BY <1>1 DEF xMBRTUTransmitFSM, vMBPortSerialEnable, TypeOK, PortType, port
  <2>3. PollType'
    BY <1>1, PostType DEF xMBRTUTransmitFSM, TypeOK, PollType, EventTypes, poll, mb
  <2>4. BusType'
    <3>1. replies' = replies \/ replies' = [replies EXCEPT ![accepted] = @ + 1]
      BY <1>1 DEF vMBPortSerialEnable, xMBRTUTransmitFSM
    <3>2. replies \in [0 .. MaxFrames -> Nat]
      BY <1>1 DEF TypeOK, BusType
    <3>3. replies' \in [0 .. MaxFrames -> Nat]
      BY <3>1, <3>2
    <3> QED BY <1>1, <3>3 DEF xMBRTUTransmitFSM, TypeOK, BusType, bus
  <2> QED BY <2>1, <2>2, <2>3, <2>4 DEF TypeOK
<1>2. ASSUME TypeOK, TransIdle PROVE TypeOK'
  <2>1. StackType' BY <1>2 DEF TransIdle, TypeOK, StackType, mb
  <2>2. PortType' BY <1>2 DEF TransIdle, TypeOK, PortType
  <2>3. PollType' BY <1>2 DEF TransIdle, TypeOK, PollType, poll, mb
  <2>4. BusType' BY <1>2 DEF TransIdle, TypeOK, BusType, bus, hist
  <2> QED BY <2>1, <2>2, <2>3, <2>4 DEF TypeOK
<1> QED BY <1>1, <1>2 DEF TransThread

\* The polling thread keeps the types.
LEMMA TypePoll == TypeOK /\ PollThread => TypeOK'
<1>1. ASSUME TypeOK, PollInit PROVE TypeOK'
  <2>1. StackType' BY <1>1 DEF PollInit, TypeOK, StackType, rtu
  <2>2. PortType' BY <1>1 DEF PollInit, TypeOK, PortType
  <2>3. PollType' BY <1>1 DEF PollInit, TypeOK, PollType
  <2>4. BusType' BY <1>1 DEF PollInit, TypeOK, BusType, bus, hist
  <2> QED BY <2>1, <2>2, <2>3, <2>4 DEF TypeOK
<1>2. ASSUME TypeOK, PollEnable PROVE TypeOK'
  <2>1. StackType' BY <1>2 DEF PollEnable, vMBPortSerialEnable, TypeOK, StackType
  <2>2. PortType' BY <1>2 DEF PollEnable, vMBPortSerialEnable, TypeOK, PortType
  <2>3. PollType' BY <1>2 DEF PollEnable, vMBPortSerialEnable, TypeOK, PollType
  <2>4. BusType' BY <1>2 DEF PollEnable, vMBPortSerialEnable, TypeOK, BusType, bus, hist
  <2> QED BY <2>1, <2>2, <2>3, <2>4 DEF TypeOK
<1>3. ASSUME TypeOK, xMBPortEventGet PROVE TypeOK'
  <2>1. StackType' BY <1>3 DEF xMBPortEventGet, TypeOK, StackType, rtu, mb
  <2>2. PortType' BY <1>3 DEF xMBPortEventGet, TypeOK, PortType, port
  <2>3. PollType' BY <1>3 DEF xMBPortEventGet, TakeEvents, TypeOK, PollType, mb
  <2>4. BusType' BY <1>3 DEF xMBPortEventGet, TypeOK, BusType, bus, hist
  <2> QED BY <2>1, <2>2, <2>3, <2>4 DEF TypeOK
<1>4. ASSUME TypeOK, PollReceive PROVE TypeOK'
  <2>1. StackType' BY <1>4 DEF PollReceive, TypeOK, StackType, rtu, mb
  <2>2. PortType' BY <1>4 DEF PollReceive, TypeOK, PortType, port
  <2>3. Intact \subseteq [n : 0 .. Len(sent), to : {"us", "other", "broadcast"}]
    <3>1. \A m \in 1 .. Len(sent) : sent[m].to \in {"us", "other", "broadcast"}
      BY <1>4, FramesAssumption DEF TypeOK, BusType
    <3>2. Len(sent) \in Nat BY <1>4 DEF TypeOK, BusType
    <3> QED BY <3>1, <3>2 DEF Intact
  <2>4. PollType'
    <3>1. usLength' \in Nat
      BY <1>4, SizeAssumption DEF PollReceive, LongEnough, SizeCrc, TypeOK, StackType, PollType, mb
    <3> QED BY <1>4, <2>3, <3>1 DEF PollReceive, TypeOK, PollType, EventTypes, mb
  <2>5. BusType'
    <3>1. accepted' \in 0 .. Len(sent)
      BY <1>4, <2>3 DEF PollReceive, TypeOK, BusType
    <3> QED BY <1>4, <3>1 DEF PollReceive, TypeOK, BusType, bus
  <2> QED BY <2>1, <2>2, <2>4, <2>5 DEF TypeOK
<1>5. ASSUME TypeOK, PollExecute PROVE TypeOK'
  <2>1. StackType'
    <3>1. ucRTUBuf' \in [0 .. SizeMax - 1 -> Cell]
      <4>1. accepted \in Nat BY <1>5 DEF TypeOK, BusType
      <4>2. \A i \in Nat : PduByte(accepted, i) \in Cell BY <4>1, CellType
      <4>3. \A l \in ReplyLens :
               [i \in 0 .. SizeMax - 1 |-> IF i \in 1 .. l THEN PduByte(accepted, i) ELSE ucRTUBuf[i]]
                  \in [0 .. SizeMax - 1 -> Cell]
        BY <1>5, <4>2, SizeAssumption DEF TypeOK, StackType
      <4> QED BY <1>5, <4>3 DEF PollExecute, TypeOK, StackType
    <3> QED BY <1>5, <3>1 DEF PollExecute, TypeOK, StackType
  <2>2. PortType' BY <1>5 DEF PollExecute, TypeOK, PortType, port
  <2>3. PollType' BY <1>5, ReplyAssumption DEF PollExecute, TypeOK, PollType
  <2>4. BusType'
    <3>1. execs' = execs \/ execs' = [execs EXCEPT ![accepted] = @ + 1]
      BY <1>5 DEF PollExecute
    <3>2. execs \in [0 .. MaxFrames -> Nat]
      BY <1>5 DEF TypeOK, BusType
    <3>3. execs' \in [0 .. MaxFrames -> Nat]
      BY <3>1, <3>2
    <3> QED BY <1>5, <3>3 DEF PollExecute, TypeOK, BusType, bus
  <2> QED BY <2>1, <2>2, <2>3, <2>4 DEF TypeOK
<1>6. ASSUME TypeOK, eMBRTUSend PROVE TypeOK'
  <2>1. StackType'
    <3>1. ucRTUBuf' \in [0 .. SizeMax - 1 -> Cell]
      <4>1. accepted \in Nat BY <1>6 DEF TypeOK, BusType
      <4>2. \A i \in Nat : RspByte(accepted, i) \in Cell /\ CrcByte(accepted, i) \in Cell
        BY <4>1, CellType
      <4>3. ucRTUBuf \in [0 .. SizeMax - 1 -> Cell] BY <1>6 DEF TypeOK, StackType
      <4>4. CASE ReceiverIdle
        <5>1. ucRTUBuf' = [i \in 0 .. SizeMax - 1 |->
                             CASE i \in 0 .. usLength -> RspByte(accepted, i)
                               [] i \in usLength + 1 .. usLength + SizeCrc -> CrcByte(accepted, i)
                               [] OTHER -> ucRTUBuf[i]]
          BY <1>6, <4>4 DEF eMBRTUSend
        <5> QED BY <5>1, <4>2, <4>3, SizeAssumption
      <4>5. CASE ~ReceiverIdle
        BY <1>6, <4>3, <4>5 DEF eMBRTUSend, vMBPortSerialEnable
      <4> QED BY <4>4, <4>5
    <3>2. usSndBufferCount' \in Nat
      BY <1>6 DEF eMBRTUSend, vMBPortSerialEnable, SizeCrc, TypeOK, StackType, PollType
    <3> QED BY <1>6, <3>1, <3>2 DEF eMBRTUSend, vMBPortSerialEnable, TypeOK, StackType, mb
  <2>2. PortType' BY <1>6 DEF eMBRTUSend, vMBPortSerialEnable, TypeOK, PortType
  <2>3. PollType' BY <1>6 DEF eMBRTUSend, vMBPortSerialEnable, TypeOK, PollType, mb
  <2>4. BusType' BY <1>6 DEF eMBRTUSend, vMBPortSerialEnable, TypeOK, BusType, bus, hist
  <2> QED BY <2>1, <2>2, <2>3, <2>4 DEF TypeOK
<1>7. ASSUME TypeOK, PollNothing \/ PollUpdate PROVE TypeOK'
  <2>1. StackType' BY <1>7 DEF PollNothing, PollUpdate, TypeOK, StackType, rtu, mb
  <2>2. PortType' BY <1>7 DEF PollNothing, PollUpdate, TypeOK, PortType, port
  <2>3. PollType' BY <1>7 DEF PollNothing, PollUpdate, TypeOK, PollType, mb
  <2>4. BusType' BY <1>7 DEF PollNothing, PollUpdate, TypeOK, BusType, bus, hist
  <2> QED BY <2>1, <2>2, <2>3, <2>4 DEF TypeOK
<1> QED BY <1>1, <1>2, <1>3, <1>4, <1>5, <1>6, <1>7 DEF PollThread

\* A watchdog reset puts every variable back into its type.
LEMMA TypeReset == TypeOK /\ WatchdogReset => TypeOK'
<1> SUFFICES ASSUME TypeOK, WatchdogReset PROVE TypeOK'
  OBVIOUS
<1>1. StackType' BY CellType DEF WatchdogReset, StackType
<1>2. PortType' BY DEF WatchdogReset, PortType
<1>3. PollType' BY DEF WatchdogReset, PollType
<1>4. BusType' BY DEF WatchdogReset, TypeOK, BusType, bus
<1> QED BY <1>1, <1>2, <1>3, <1>4 DEF TypeOK

\* Every step keeps the types.
LEMMA TypeStep == TypeOK /\ [Next]_vars => TypeOK'
<1>1. ASSUME TypeOK, UNCHANGED vars PROVE TypeOK'
  BY <1>1 DEF vars, rtu, port, poll, mb, bus, hist, TypeOK, StackType, PortType, PollType, BusType
<1> QED BY <1>1, TypeMaster, TypeUart, TypeTick, TypeTrans, TypePoll, TypeReset DEF Next

\* TypeOK holds throughout every behaviour of the slave.
THEOREM TypeCorrect == Spec => []TypeOK
BY TypeInit, TypeStep, PTL DEF Spec

-----------------------------------------------------------------------------
\* StackInv holds when the processor starts.
LEMMA StackInit == Init => StackInv
BY SizeAssumption DEF Init, StackInv, AssertsHold, TimerInFrame, ReceiverParked, FrameFits

\* Every step of the stack keeps StackInv: AssertsHold follows from the other three, which
\* say between them why the receiver and the transmitter are never at work together.
LEMMA StackStep == TypeOK /\ StackInv /\ [Next]_vars => StackInv'
<1> SUFFICES ASSUME TypeOK, StackInv, [Next]_vars PROVE StackInv'
  OBVIOUS
<1> USE DEF StackInv, AssertsHold, TimerInFrame, ReceiverParked, FrameFits
<1>1. CASE MasterSend
  BY <1>1 DEF MasterSend, rtu, port
<1>2. CASE ByteArrives
  BY <1>2 DEF ByteArrives, rtu
<1>3. CASE UartIsr
  <2>1. rxInt = "on" /\ transEvent' = transEvent /\ transPc' = transPc /\ rxInt' = rxInt
    BY <1>3 DEF UartIsr, xMBRTUReceiveFSM, IrqPending
  <2>2. CASE eSndState # "STATE_TX_IDLE"
    BY <1>3, <2>1, <2>2 DEF UartIsr, xMBRTUReceiveFSM, rtu
  <2>3. CASE eSndState = "STATE_TX_IDLE"
    <3>1. AssertsHold' /\ TimerInFrame'
      BY <1>3, <2>3 DEF UartIsr, xMBRTUReceiveFSM
    <3>2. ReceiverParked'
      BY <1>3, <2>1, <2>3 DEF UartIsr, xMBRTUReceiveFSM
    <3>3. FrameFits'
      BY <1>3, <2>3, SizeAssumption DEF UartIsr, xMBRTUReceiveFSM, TypeOK, StackType, SizeCrc
    <3> QED BY <3>1, <3>2, <3>3
  <2> QED BY <2>2, <2>3
<1>4. CASE TickIsr
  BY <1>4 DEF TickIsr, xMBRTUTimerT35Expired, TypeOK, StackType, PortType
<1>5. CASE xMBRTUTransmitFSM
  BY <1>5 DEF xMBRTUTransmitFSM, vMBPortSerialEnable, rtu, port
<1>6. CASE TransIdle
  BY <1>6 DEF TransIdle, TransRuns, TypeOK, PortType
<1>7. CASE PollInit
  BY <1>7 DEF PollInit, PollRuns, TransWaits, rtu
<1>8. CASE PollEnable
  BY <1>8 DEF PollEnable, PollInCritical, TransWaits, vMBPortSerialEnable
<1>9. CASE xMBPortEventGet \/ PollNothing \/ PollUpdate
  BY <1>9 DEF xMBPortEventGet, PollNothing, PollUpdate, rtu, port
<1>10. CASE PollReceive
  BY <1>10, SizeAssumption DEF PollReceive, rtu, port, TypeOK, StackType
<1>11. CASE PollExecute
  BY <1>11 DEF PollExecute, port
<1>12. CASE eMBRTUSend
  BY <1>12 DEF eMBRTUSend, PollInCritical, TransWaits, ReceiverIdle, vMBPortSerialEnable
<1>13. CASE WatchdogReset
  BY <1>13, SizeAssumption DEF WatchdogReset
<1>14. CASE UNCHANGED vars
  BY <1>14 DEF vars, rtu, port
<1> QED
  BY <1>1, <1>2, <1>3, <1>4, <1>5, <1>6, <1>7, <1>8, <1>9, <1>10, <1>11, <1>12, <1>13, <1>14
  DEF Next, TransThread, PollThread

\* For every master, frame set and buffer size, the assertions of xMBRTUTimerT35Expired,
\* xMBRTUTransmitFSM and eMBRTUReceive never fail.
THEOREM StackSafe == Spec => []StackInv
<1>1. Init => TypeOK /\ StackInv BY TypeInit, StackInit
<1>2. TypeOK /\ StackInv /\ [Next]_vars => (TypeOK /\ StackInv)' BY TypeStep, StackStep
<1> QED BY <1>1, <1>2, PTL DEF Spec

\* A step that is taken while a reply is being sent leaves the buffer alone.
LEMMA IntactStep ==
    TypeOK /\ StackInv /\ [Next]_vars =>
        (Running /\ eSndState = "STATE_TX_XMIT" => UNCHANGED ucRTUBuf)
<1> SUFFICES ASSUME TypeOK, StackInv, [Next]_vars, Running, eSndState = "STATE_TX_XMIT"
             PROVE  ucRTUBuf' = ucRTUBuf
  OBVIOUS
<1>1. ~TransWaits
  BY DEF StackInv, ReceiverParked, TransWaits, TypeOK, PortType
<1>2. ~PollThread
  BY <1>1 DEF PollThread, PollInit, PollEnable, xMBPortEventGet, PollReceive, PollExecute,
              eMBRTUSend, PollNothing, PollUpdate, PollRuns, PollInCritical
<1>3. ~WatchdogReset
  BY DEF WatchdogReset
<1>4. CASE UartIsr
  BY <1>4 DEF UartIsr, xMBRTUReceiveFSM, rtu
<1>5. CASE MasterSend \/ ByteArrives \/ TickIsr \/ UNCHANGED vars
  BY <1>5 DEF MasterSend, ByteArrives, TickIsr, xMBRTUTimerT35Expired, vars, rtu
<1>6. CASE TransThread
  BY <1>6 DEF TransThread, TransIdle, xMBRTUTransmitFSM, vMBPortSerialEnable, rtu
<1> QED BY <1>2, <1>3, <1>4, <1>5, <1>6 DEF Next

\* For every master, frame set and buffer size, the bytes on the wire are the bytes
\* eMBRTUSend computed the CRC over.
THEOREM RepliesIntact == Spec => ReplyIntact
<1>1. TypeOK /\ StackInv /\ [Next]_vars =>
         [Running /\ eSndState = "STATE_TX_XMIT" => UNCHANGED ucRTUBuf]_vars
  BY IntactStep
<1> QED BY <1>1, TypeCorrect, StackSafe, PTL DEF Spec, ReplyIntact

-----------------------------------------------------------------------------
(* A quiet master.                                                          *)

\* The frame on the bus.
Last == Len(sent)

\* The receiver has nothing to do, or the transmitter.
Silent == eRcvState = "STATE_RX_IDLE" /\ timer = "stopped" /\ rdr = <<>> /\ LineIdle
NotSending == eSndState = "STATE_TX_IDLE" /\ transEvent = "clear" /\ transPc = "recv"
Listening == NotSending /\ rxInt = "on"

\* The buffer holds the whole frame, or the part of it that has come.
Stored == \A i \in 0 .. usRcvBufferPos - 1 : ucRTUBuf[i] = ReqByte(Last, i)
Whole ==
    /\ Last # 0 /\ sent[Last].len = usRcvBufferPos /\ usRcvBufferPos \in 1 .. SizeMax
    /\ Stored

\* How often the frame was executed and answered.
Count(e, r) == Last # 0 /\ execs[Last] = e /\ replies[Last] = r

\* What the slave is doing with the one frame there is.  Before the first:
Booting ==
    /\ pollPc \in {"boot", "enable"} /\ osEvent = {}
    /\ sent = <<>> /\ rdr = <<>> /\ eRcvState = "STATE_RX_INIT" /\ timer = "stopped" /\ NotSending

Waking ==
    /\ pollPc \in {"get", "wait"} /\ osEvent = {}
    /\ sent = <<>> /\ rdr = <<>> /\ eRcvState = "STATE_RX_INIT" /\ timer = "running" /\ Listening

\* The bytes of the frame come in; line.i - Len(rdr) of them have been taken.
Receiving ==
    /\ pollPc = "wait" /\ osEvent = {} /\ Listening /\ Count(0, 0)
    /\ line.i <= sent[Last].len
    /\ rdr = <<>> \/ (line.i > 0 /\ rdr = <<ReqByte(Last, line.i - 1)>>)
    /\ \/ eRcvState = "STATE_RX_IDLE" /\ timer = "stopped" /\ line.i = Len(rdr)
       \/ /\ eRcvState = "STATE_RX_RCV" /\ timer = "running" /\ Stored
          /\ usRcvBufferPos \in 1 .. SizeMax /\ line.i = usRcvBufferPos + Len(rdr)
       \/ /\ eRcvState = "STATE_RX_ERROR" /\ timer = "running"
          /\ line.i > SizeMax + Len(rdr)

Received ==
    /\ pollPc = "dispatch" /\ recvedEvent = {"EV_FRAME_RECEIVED"} /\ osEvent = {}
    /\ Silent /\ Listening /\ Count(0, 0) /\ Whole

\* The frame has passed the checks of eMBRTUReceive and the address check of eMBPoll.
Accepted ==
    /\ \/ pollPc \in {"update", "get"} /\ osEvent = {"EV_EXECUTE"}
       \/ pollPc = "dispatch" /\ recvedEvent = {"EV_EXECUTE"} /\ osEvent = {}
    /\ Silent /\ Listening /\ Count(0, 0) /\ Whole
    /\ accepted = Last /\ Valid(sent[Last]) /\ sent[Last].to \in {"us", "broadcast"}
    /\ ucRcvAddress = sent[Last].to /\ ucMBFrame = "set" /\ usLength = usRcvBufferPos - 1 - SizeCrc

\* The reply has been built, and is being sent.
Replying ==
    /\ pollPc = "send" /\ osEvent = {} /\ Silent /\ Listening /\ Count(1, 0)
    /\ accepted = Last /\ Valid(sent[Last]) /\ sent[Last].to = "us"
    /\ \A i \in 1 .. usLength : ucRTUBuf[i] = PduByte(accepted, i)

Transmitting ==
    /\ pollPc = "update" /\ osEvent = {} /\ Silent /\ Count(1, 0)
    /\ eSndState = "STATE_TX_XMIT" /\ transEvent = "set" /\ transPc = "recv"
    /\ accepted = Last /\ Valid(sent[Last]) /\ sent[Last].to = "us"

\* All is done but to hear of it.
Done ==
    /\ Silent /\ rxInt = "on"
    /\ \/ NotSending
       \/ /\ eSndState = "STATE_TX_XMIT" /\ transEvent = "clear" /\ transPc = "rxOn"
          /\ pollPc = "update"
    /\ \/ pollPc \in {"update", "get"} /\ osEvent \in {{}, {"EV_READY"}, {"EV_FRAME_SENT"}}
       \/ /\ pollPc = "dispatch" /\ osEvent = {}
          /\ recvedEvent \in {{"EV_READY"}, {"EV_FRAME_SENT"}}
       \/ pollPc = "wait" /\ osEvent = {}

\* What holds in all of them.
Counted ==
    /\ Running /\ line.n = Last /\ AtMostOnce
    /\ \A n \in 1 .. MaxFrames : n > Last => execs[n] = 0 /\ replies[n] = 0

QuietInv ==
    /\ Counted
    /\ \/ Booting \/ Waking \/ Receiving \/ Received
       \/ Accepted \/ Replying \/ Transmitting \/ Done

LEMMA QuietInit == Init => QuietInv
<1> SUFFICES ASSUME Init PROVE QuietInv
  OBVIOUS
<1>1. Booting
  BY DEF Init, Booting, NotSending
<1>2. Last = 0
  BY DEF Init, Last
<1>3. Counted
  BY <1>2, FramesAssumption DEF Init, Counted, Running, AtMostOnce, Last
<1> QED BY <1>1, <1>3 DEF QuietInv

\* A thread that dispatches has one event, so eMBPoll gets what was posted.
LEMMA OneEvent ==
    ASSUME QuietInv, pollPc = "dispatch"
    PROVE  eEvents = recvedEvent
<1>1. \E e \in EventTypes : recvedEvent = {e}
  BY DEF QuietInv, Booting, Waking, Receiving, Received, Accepted, Replying, Transmitting, Done, EventTypes
<1>2. Cardinality(recvedEvent) = 1
  BY <1>1, FS_Singleton
<1> QED BY <1>2 DEF eEvents

\* A step that leaves the frames and their counts alone.
LEMMA SameCounts ==
    ASSUME Counted, Running', UNCHANGED <<sent, execs, replies>>, line'.n = line.n
    PROVE  Counted' /\ Last' = Last
BY DEF Counted, Last, AtMostOnce, Valid

\* The frame that is on the bus is executed, or answered.
LEMMA CountOne ==
    ASSUME TypeOK, Counted, Running', UNCHANGED <<sent, line>>, Last # 0, Valid(sent[Last]), 
           \/ /\ execs' = [execs EXCEPT ![Last] = @ + 1] /\ UNCHANGED replies
              /\ Count(0, 0) /\ sent[Last].to \in {"us", "broadcast"}
           \/ /\ replies' = [replies EXCEPT ![Last] = @ + 1] /\ UNCHANGED execs
              /\ Count(1, 0) /\ sent[Last].to = "us"
    PROVE  /\ Counted' /\ Last' = Last
           /\ execs'[Last] = 1 /\ replies'[Last] = IF execs' = execs THEN 1 ELSE 0
<1>1. Last \in Nat /\ Last <= MaxFrames /\ MaxFrames \in Nat
  BY FramesAssumption DEF TypeOK, BusType, Last
<1>2. execs \in [0 .. MaxFrames -> Nat] /\ replies \in [0 .. MaxFrames -> Nat]
  BY DEF TypeOK, BusType
<1>3. Last' = Last
  BY DEF Last
<1>4. Last \in 0 .. MaxFrames
  BY <1>1
<1>5. /\ execs'[Last] = 1 /\ replies'[Last] = IF execs' = execs THEN 1 ELSE 0
      /\ sent[Last].to # "other" /\ (replies'[Last] = 1 => sent[Last].to = "us")
  <2>1. CASE /\ execs' = [execs EXCEPT ![Last] = @ + 1] /\ UNCHANGED replies
             /\ Count(0, 0) /\ sent[Last].to \in {"us", "broadcast"}
    <3>1. execs[Last] = 0 /\ replies[Last] = 0
      BY <2>1 DEF Count
    <3>2. execs'[Last] = 1 /\ replies'[Last] = 0
      BY <1>2, <1>4, <2>1, <3>1
    <3> QED BY <2>1, <3>1, <3>2
  <2>2. CASE /\ replies' = [replies EXCEPT ![Last] = @ + 1] /\ UNCHANGED execs
             /\ Count(1, 0) /\ sent[Last].to = "us"
    <3>1. execs[Last] = 1 /\ replies[Last] = 0
      BY <2>2 DEF Count
    <3>2. execs'[Last] = 1 /\ replies'[Last] = 1
      BY <1>2, <1>4, <2>2, <3>1
    <3> QED BY <2>2, <3>1, <3>2
  <2> QED BY <2>1, <2>2
<1>6. \A n \in 0 .. MaxFrames : n # Last => execs'[n] = execs[n] /\ replies'[n] = replies[n]
  BY <1>2, <1>4
<1>7. AtMostOnce'
  <2>1. execs'[0] = 0 /\ replies'[0] = 0
    BY <1>1, <1>6 DEF Counted, AtMostOnce
  <2>2. ASSUME NEW n \in 1 .. Last
        PROVE  /\ replies'[n] <= execs'[n] /\ execs'[n] <= 1
               /\ execs'[n] = 1 => Valid(sent[n]) /\ sent[n].to # "other"
               /\ replies'[n] = 1 => sent[n].to = "us"
    <3>1. CASE n = Last
      BY <1>5, <3>1
    <3>2. CASE n # Last
      BY <1>1, <1>6, <3>2 DEF Counted, AtMostOnce, Last
    <3> QED BY <3>1, <3>2
  <2> QED BY <2>1, <2>2 DEF AtMostOnce, Last, Valid
<1>8. \A n \in 1 .. MaxFrames : n > Last => execs'[n] = 0 /\ replies'[n] = 0
  BY <1>1, <1>6 DEF Counted
<1>9. line'.n = Last'
  BY <1>3 DEF Counted
<1> QED BY <1>3, <1>5, <1>7, <1>8, <1>9 DEF Counted

\* A master that is quiet sends when the slave waits, and the frame is a new one.
LEMMA QuietMaster ==
    ASSUME Master = "quiet", TypeOK, QuietInv, MasterSend
    PROVE  QuietInv'
<1>1. /\ pollPc = "wait" /\ timer = "stopped" /\ rdr = <<>>
      /\ eSndState = "STATE_TX_IDLE" /\ eRcvState = "STATE_RX_IDLE" /\ Len(sent) < MaxFrames
      /\ UNCHANGED <<rtu, port, poll, mb, hist, fault>>
  BY DEF MasterSend, MasterMaySend
<1>2. PICK f \in Frames : sent' = Append(sent, f) /\ line' = [n |-> Len(sent) + 1, i |-> 0]
  BY DEF MasterSend
<1>3. osEvent = {} /\ Listening
  BY <1>1 DEF QuietInv, Booting, Waking, Receiving, Received, Accepted, Replying, Transmitting, Done,
              Listening, NotSending
<1>4. /\ Last \in Nat /\ Last < MaxFrames /\ MaxFrames \in Nat /\ Last' = Last + 1
      /\ sent'[Last'] = f /\ \A n \in 1 .. Last : sent'[n] = sent[n]
  BY <1>1, <1>2, FramesAssumption DEF TypeOK, BusType, Last
<1>5. f.len \in Nat \ {0}
  BY FramesAssumption
<1>6. execs' = execs /\ replies' = replies /\ execs[Last + 1] = 0 /\ replies[Last + 1] = 0
  BY <1>1, <1>4 DEF QuietInv, Counted, hist
<1>7. Counted'
  <2>1. AtMostOnce'
    <3>1. execs'[0] = 0 /\ replies'[0] = 0
      BY <1>6 DEF QuietInv, Counted, AtMostOnce
    <3>2. ASSUME NEW n \in 1 .. Last'
          PROVE  /\ replies'[n] <= execs'[n] /\ execs'[n] <= 1
                 /\ execs'[n] = 1 => Valid(sent'[n]) /\ sent'[n].to # "other"
                 /\ replies'[n] = 1 => sent'[n].to = "us"
      <4>1. CASE n = Last + 1
        BY <1>6, <4>1
      <4>2. CASE n # Last + 1
        <5>1. n \in 1 .. Last
          BY <1>4, <4>2
        <5> QED BY <1>4, <1>6, <5>1 DEF QuietInv, Counted, AtMostOnce, Last
      <4> QED BY <4>1, <4>2
    <3> QED BY <3>1, <3>2 DEF AtMostOnce, Last, Valid
  <2>2. \A n \in 1 .. MaxFrames : n > Last' => execs'[n] = 0 /\ replies'[n] = 0
    BY <1>4, <1>6 DEF QuietInv, Counted
  <2>3. Running' /\ line'.n = Last'
    BY <1>1, <1>2, <1>4 DEF QuietInv, Counted, Running, Last
  <2> QED BY <2>1, <2>2, <2>3 DEF Counted
<1>8. Receiving'
  <2>1. pollPc' = "wait" /\ osEvent' = {} /\ Listening'
    BY <1>1, <1>3 DEF poll, port, rtu, Listening, NotSending
  <2>2. Count(0, 0)'
    BY <1>4, <1>6 DEF Count
  <2>3. /\ line'.i = 0 /\ rdr' = <<>> /\ Len(rdr') = 0
        /\ eRcvState' = "STATE_RX_IDLE" /\ timer' = "stopped"
    BY <1>1, <1>2 DEF port, rtu
  <2>4. line'.i <= sent'[Last'].len
    BY <1>4, <1>5, <2>3
  <2> QED BY <2>1, <2>2, <2>3, <2>4 DEF Receiving
<1> QED BY <1>7, <1>8 DEF QuietInv

\* Only a frame that is being received puts bytes on the wire or into the data register.
LEMMA BytesOfFrame ==
    ASSUME TypeOK, QuietInv, ~LineIdle \/ rdr # <<>>
    PROVE  Receiving
<1>1. CASE rdr # <<>>
  BY <1>1 DEF QuietInv, Booting, Waking, Received, Accepted, Replying, Transmitting, Done, Silent
<1>2. CASE ~LineIdle
  <2>1. Last # 0
    BY <1>2 DEF LineIdle, QuietInv, Counted
  <2>2. sent # <<>>
    BY <2>1 DEF Last
  <2> QED BY <1>2, <2>2 DEF QuietInv, Booting, Waking, Received, Accepted, Replying, Transmitting, Done, Silent
<1> QED BY <1>1, <1>2

LEMMA QuietByte ==
    ASSUME TypeOK, QuietInv, ByteArrives
    PROVE  QuietInv'
<1>1. ~LineIdle /\ Receiving
  BY BytesOfFrame DEF ByteArrives
<1>2. line.n = Last /\ Last # 0 /\ line.i # sent[Last].len /\ line.i \in Nat /\ line.n \in Nat
  BY <1>1 DEF LineIdle, QuietInv, Counted, TypeOK, BusType
<1>3. Last \in 1 .. Len(sent) /\ sent \in Seq(Frames)
  BY <1>2 DEF TypeOK, BusType, Last
<1>4. sent[Last].len \in Nat
  BY <1>3, FramesAssumption
<1>5. /\ rdr = <<>> /\ rdr' = <<ReqByte(Last, line.i)>> /\ line' = [line EXCEPT !.i = line.i + 1]
      /\ UNCHANGED <<rtu, timer, rxInt, transEvent, transPc, poll, mb, sent, hist, fault>>
  BY <1>1, <1>2 DEF ByteArrives, Receiving, Listening
<1>6. line'.n = line.n /\ line'.i = line.i + 1 /\ Len(rdr) = 0 /\ Len(rdr') = 1
  BY <1>5 DEF TypeOK, BusType
<1>7. Counted' /\ Last' = Last
  BY <1>5, <1>6, SameCounts DEF QuietInv, Counted, Running, hist
<1>8. Receiving'
  <2>1. pollPc' = "wait" /\ osEvent' = {} /\ Listening' /\ Count(0, 0)'
    BY <1>1, <1>5, <1>7 DEF Receiving, poll, rtu, Listening, NotSending, Count, hist
  <2>2. line'.i <= sent'[Last'].len
    BY <1>1, <1>2, <1>4, <1>5, <1>6, <1>7 DEF Receiving
  <2>3. line'.i > 0 /\ rdr' = <<ReqByte(Last', line'.i - 1)>>
    BY <1>2, <1>5, <1>6, <1>7
  <2>4. Stored => Stored'
    BY <1>5, <1>7 DEF Stored, rtu
  <2>5. usRcvBufferPos \in Nat /\ SizeMax \in Nat
    BY SizeAssumption DEF TypeOK, StackType
  <2>6. \/ eRcvState' = "STATE_RX_IDLE" /\ timer' = "stopped" /\ line'.i = Len(rdr')
        \/ /\ eRcvState' = "STATE_RX_RCV" /\ timer' = "running" /\ Stored'
           /\ usRcvBufferPos' \in 1 .. SizeMax /\ line'.i = usRcvBufferPos' + Len(rdr')
        \/ /\ eRcvState' = "STATE_RX_ERROR" /\ timer' = "running"
           /\ line'.i > SizeMax + Len(rdr')
    BY <1>1, <1>2, <1>5, <1>6, <2>4, <2>5 DEF Receiving, rtu
  <2> QED BY <2>1, <2>2, <2>3, <2>6 DEF Receiving
<1> QED BY <1>7, <1>8 DEF QuietInv

\* xMBRTUReceiveFSM stores the byte in its place, until the buffer is full.
LEMMA QuietUart ==
    ASSUME TypeOK, QuietInv, UartIsr
    PROVE  QuietInv'
<1>1. rdr # <<>> /\ Receiving
  BY BytesOfFrame DEF UartIsr, xMBRTUReceiveFSM, IrqPending
<1>2. /\ line.i \in Nat \ {0} /\ rdr = <<ReqByte(Last, line.i - 1)>>
      /\ Len(rdr) = 1 /\ Head(rdr) = ReqByte(Last, line.i - 1)
  BY <1>1 DEF Receiving, TypeOK, BusType
<1>3. /\ eSndState = "STATE_TX_IDLE" /\ rdr' = <<>> /\ timer' = "running"
      /\ UNCHANGED <<eSndState, fault, rxInt, transEvent, transPc, poll, mb, bus, hist>>
  BY <1>1 DEF UartIsr, xMBRTUReceiveFSM, Receiving, Listening, NotSending
<1>4. /\ pollPc' = "wait" /\ osEvent' = {} /\ Listening' /\ Len(rdr') = 0 /\ line' = line
  BY <1>1, <1>3 DEF Receiving, poll, Listening, NotSending, bus
<1>5. Counted' /\ Last' = Last /\ Count(0, 0)' /\ line.i <= sent'[Last'].len
  BY <1>1, <1>3, SameCounts DEF QuietInv, Counted, Running, hist, bus, Receiving, Count, Last
<1>6. SizeMax \in Nat /\ SizeMax >= 1 /\ ucRTUBuf \in [0 .. SizeMax - 1 -> Cell]
  BY SizeAssumption DEF TypeOK, StackType, SizeCrc
<1>7. \/ /\ eRcvState' = "STATE_RX_RCV" /\ Stored'
         /\ usRcvBufferPos' \in 1 .. SizeMax /\ line.i = usRcvBufferPos'
      \/ eRcvState' = "STATE_RX_ERROR" /\ line.i > SizeMax
  <2>1. CASE eRcvState = "STATE_RX_IDLE"
    <3>1. /\ ucRTUBuf' = [ucRTUBuf EXCEPT ![0] = Head(rdr)]
          /\ usRcvBufferPos' = 1 /\ eRcvState' = "STATE_RX_RCV"
      BY <1>3, <2>1 DEF UartIsr, xMBRTUReceiveFSM
    <3>2. line.i = 1
      BY <1>1, <1>2, <2>1 DEF Receiving
    <3>3. ucRTUBuf'[0] = ReqByte(Last, 0)
      BY <1>2, <1>6, <3>1, <3>2
    <3>4. Stored'
      BY <1>5, <3>1, <3>3 DEF Stored
    <3> QED BY <1>6, <3>1, <3>2, <3>4
  <2>2. CASE eRcvState = "STATE_RX_RCV" /\ usRcvBufferPos < SizeMax
    <3>1. /\ ucRTUBuf' = [ucRTUBuf EXCEPT ![usRcvBufferPos] = Head(rdr)]
          /\ usRcvBufferPos' = usRcvBufferPos + 1 /\ eRcvState' = eRcvState
      BY <1>3, <2>2, <1>6 DEF UartIsr, xMBRTUReceiveFSM, TypeOK, StackType
    <3>2. usRcvBufferPos \in 1 .. SizeMax /\ line.i = usRcvBufferPos + 1 /\ Stored
      BY <1>1, <1>2, <2>2 DEF Receiving
    <3>3. ASSUME NEW i \in 0 .. usRcvBufferPos PROVE ucRTUBuf'[i] = ReqByte(Last, i)
      <4>1. CASE i = usRcvBufferPos
        <5>1. Head(rdr) = ReqByte(Last, usRcvBufferPos)
          BY <1>2, <3>2
        <5> QED BY <1>6, <2>2, <3>1, <3>2, <4>1, <5>1
      <4>2. CASE i # usRcvBufferPos
        BY <1>6, <2>2, <3>1, <3>2, <4>2 DEF Stored
      <4> QED BY <4>1, <4>2
    <3>4. Stored'
      BY <1>5, <3>1, <3>2, <3>3 DEF Stored
    <3> QED BY <1>6, <2>2, <3>1, <3>2, <3>4
  <2>3. CASE eRcvState = "STATE_RX_RCV" /\ ~(usRcvBufferPos < SizeMax)
    <3>1. usRcvBufferPos \in 1 .. SizeMax /\ line.i = usRcvBufferPos + 1
      BY <1>1, <1>2, <2>3 DEF Receiving
    <3>2. eRcvState' = "STATE_RX_ERROR"
      BY <1>3, <2>3, <3>1, <1>6 DEF UartIsr, xMBRTUReceiveFSM
    <3> QED BY <1>6, <2>3, <3>1, <3>2
  <2>4. CASE eRcvState = "STATE_RX_ERROR"
    <3>1. eRcvState' = eRcvState
      BY <1>3, <2>4 DEF UartIsr, xMBRTUReceiveFSM
    <3>2. line.i > SizeMax
      BY <1>1, <1>2, <1>6, <2>4 DEF Receiving
    <3> QED BY <2>4, <3>1, <3>2
  <2> QED BY <1>1, <2>1, <2>2, <2>3, <2>4 DEF Receiving
<1>8. Receiving'
  BY <1>2, <1>3, <1>4, <1>5, <1>6, <1>7 DEF Receiving
<1> QED BY <1>5, <1>8 DEF QuietInv

\* The silent interval ends the frame, or the start of the slave.
LEMMA QuietTick ==
    ASSUME Master = "quiet", TypeOK, QuietInv, TickIsr
    PROVE  QuietInv'
<1>1. Running /\ timer = "running" /\ LineIdle /\ rdr = <<>>
  BY DEF TickIsr, xMBRTUTimerT35Expired, SilentInterval
<1>2. UNCHANGED <<eSndState, ucRTUBuf, usRcvBufferPos, rxInt, rdr, transEvent, transPc, bus, hist>>
  BY DEF TickIsr, xMBRTUTimerT35Expired
<1>3. Waking \/ Receiving
  BY <1>1 DEF QuietInv, Booting, Received, Accepted, Replying, Transmitting, Done, Silent
<1>4. eRcvState # "STATE_RX_IDLE"
  BY <1>1, <1>3 DEF Waking, Receiving
<1>5. /\ eRcvState' = "STATE_RX_IDLE" /\ timer' = "stopped" /\ fault' = fault
      /\ IF eRcvState = "STATE_RX_ERROR" THEN UNCHANGED poll
         ELSE xMBPortEventPost(IF eRcvState = "STATE_RX_INIT" THEN "EV_READY" ELSE "EV_FRAME_RECEIVED")
  BY <1>4 DEF TickIsr, xMBRTUTimerT35Expired
<1>6. Counted' /\ Last' = Last
  BY <1>1, <1>2, <1>5, SameCounts DEF QuietInv, Running, hist, bus
<1>7. Silent' /\ Listening'
  BY <1>1, <1>2, <1>3, <1>5 DEF Silent, Listening, NotSending, LineIdle, bus, Waking, Receiving
<1>8. CASE Waking
  <2>1. rt_event_send("EV_READY")
    BY <1>5, <1>8 DEF Waking, xMBPortEventPost
  <2>2. Done'
    BY <1>7, <1>8, <2>1 DEF Done, Waking, rt_event_send, Listening
  <2> QED BY <1>6, <2>2 DEF QuietInv
<1>9. CASE Receiving /\ eRcvState = "STATE_RX_ERROR"
  <2>1. Done'
    BY <1>5, <1>7, <1>9 DEF Done, Receiving, poll, Listening
  <2> QED BY <1>6, <2>1 DEF QuietInv
<1>10. CASE Receiving /\ eRcvState = "STATE_RX_RCV"
  <2>1. rt_event_send("EV_FRAME_RECEIVED")
    BY <1>5, <1>10 DEF xMBPortEventPost
  <2>2. pollPc' = "dispatch" /\ recvedEvent' = {"EV_FRAME_RECEIVED"} /\ osEvent' = {}
    BY <1>10, <2>1 DEF Receiving, rt_event_send
  <2>3. /\ Last # 0 /\ sent[Last].len = line.i /\ line.i = usRcvBufferPos + Len(rdr) /\ Len(rdr) = 0
        /\ usRcvBufferPos \in 1 .. SizeMax /\ Stored /\ Count(0, 0)
    BY <1>1, <1>10 DEF Receiving, Count, LineIdle, QuietInv, Counted
  <2>4. Whole'
    BY <1>2, <1>6, <2>3, SizeAssumption DEF Whole, Stored, bus
  <2>5. Count(0, 0)'
    BY <1>2, <1>6, <2>3 DEF Count, hist
  <2> QED BY <1>6, <1>7, <2>2, <2>4, <2>5 DEF QuietInv, Received
<1> QED BY <1>3, <1>4, <1>8, <1>9, <1>10 DEF Receiving

\* The transmit thread sends the reply and then says so.
LEMMA QuietTrans ==
    ASSUME TypeOK, QuietInv, TransThread
    PROVE  QuietInv'
<1>1. CASE xMBRTUTransmitFSM
  <2>1. Transmitting /\ Running
    BY <1>1 DEF xMBRTUTransmitFSM, TransRuns, QuietInv, Booting, Waking, Receiving, Received, Accepted,
                Replying, Done, Listening, NotSending
  <2>2. eRcvState = "STATE_RX_IDLE" /\ eSndState # "STATE_TX_IDLE"
    BY <2>1 DEF Transmitting, Silent
  <2>3. CASE MoreToSend
    <3>1. UNCHANGED <<eRcvState, eSndState, port, poll, replies, fault, mb, bus, accepted, execs>>
      BY <1>1, <2>2, <2>3 DEF xMBRTUTransmitFSM
    <3>2. Counted' /\ Last' = Last
      BY <2>1, <3>1, SameCounts DEF QuietInv, Running, bus
    <3>3. Transmitting'
      BY <2>1, <3>1, <3>2 DEF Transmitting, Silent, LineIdle, Count, Valid, port, poll, bus
    <3> QED BY <3>2, <3>3 DEF QuietInv
  <2>4. CASE ~MoreToSend
    <3>1. /\ xMBPortEventPost("EV_FRAME_SENT") /\ vMBPortSerialEnable(TRUE, FALSE)
          /\ transPc' = "rxOn" /\ replies' = [replies EXCEPT ![accepted] = @ + 1]
          /\ UNCHANGED <<rtu, timer, rdr, fault, mb, bus, accepted, execs>>
      BY <1>1, <2>2, <2>4 DEF xMBRTUTransmitFSM
    <3>2. /\ accepted = Last /\ Last # 0 /\ Count(1, 0) /\ Valid(sent[Last]) /\ sent[Last].to = "us"
      BY <2>1 DEF Transmitting, Count
    <3>3. Counted' /\ Last' = Last
      BY <2>1, <3>1, <3>2, CountOne DEF QuietInv, Running, bus
    <3>4. pollPc' = "update" /\ osEvent' = {"EV_FRAME_SENT"}
      BY <2>1, <3>1 DEF Transmitting, xMBPortEventPost, rt_event_send
    <3>5. Silent' /\ rxInt' = "on" /\ transEvent' = "clear" /\ eSndState' = "STATE_TX_XMIT"
      BY <2>1, <3>1 DEF Transmitting, Silent, LineIdle, rtu, bus, vMBPortSerialEnable
    <3>6. Done'
      BY <3>1, <3>4, <3>5 DEF Done
    <3> QED BY <3>3, <3>6 DEF QuietInv
  <2> QED BY <2>3, <2>4
<1>2. CASE TransIdle
  <2>1. Done /\ pollPc = "update" /\ transEvent = "clear" /\ Running
    BY <1>2 DEF TransIdle, TransRuns, QuietInv, Booting, Waking, Receiving, Received, Accepted,
                Replying, Transmitting, Done, Listening, NotSending
  <2>2. /\ eSndState' = "STATE_TX_IDLE" /\ transPc' = "recv"
        /\ UNCHANGED <<eRcvState, timer, rxInt, rdr, transEvent, poll, mb, bus, hist, fault>>
    BY <1>2 DEF TransIdle
  <2>3. Counted' /\ Last' = Last
    BY <2>1, <2>2, SameCounts DEF QuietInv, Running, bus, hist
  <2>4. Done'
    BY <2>1, <2>2 DEF Done, Silent, NotSending, LineIdle, poll, bus
  <2> QED BY <2>3, <2>4 DEF QuietInv
<1> QED BY <1>1, <1>2 DEF TransThread

\* A CRC check passes for the frame in the buffer, if it came undamaged, and for nothing else.
LEMMA OnlyTheFrame ==
    ASSUME TypeOK, Whole
    PROVE  /\ Intact = IF sent[Last].crc THEN {[n |-> Last, to |-> sent[Last].to]} ELSE {}
           /\ MayBeDamaged <=> ~sent[Last].crc
<1>1. /\ Last \in 1 .. Len(sent) /\ usRcvBufferPos \in 1 .. SizeMax /\ sent[Last].len = usRcvBufferPos
      /\ \A i \in 0 .. usRcvBufferPos - 1 : ucRTUBuf[i] = ReqByte(Last, i)
  BY DEF Whole, Stored, Last, TypeOK, BusType
<1>2. SizeMax \in Nat
  BY SizeAssumption
<1>3. ucRTUBuf[0] = ReqByte(Last, 0) /\ 0 \in 0 .. usRcvBufferPos - 1
  BY <1>1, <1>2
<1>4. ASSUME NEW m \in 1 .. Len(sent) PROVE IsRequest(m) <=> (m = Last /\ sent[Last].crc)
  <2>1. CASE m = Last
    BY <1>1, <2>1 DEF IsRequest
  <2>2. CASE m # Last
    <3>1. ReqByte(m, 0).n = m /\ ReqByte(Last, 0).n = Last
      BY DEF ReqByte
    <3>2. ucRTUBuf[0] # ReqByte(m, 0)
      BY <1>3, <2>2, <3>1
    <3> QED BY <1>3, <2>2, <3>2 DEF IsRequest
  <2> QED BY <2>1, <2>2
<1>5. ASSUME NEW m PROVE ~IsReply(m)
  <2>1. ucRTUBuf[0].src = "req"
    BY <1>3 DEF ReqByte
  <2>2. RspByte(m, 0).src = "rsp" /\ PduByte(m, 0).src = "pdu" /\ CrcByte(m, 0).src = "crc"
    BY DEF RspByte, PduByte, CrcByte
  <2> QED BY <1>3, <2>1, <2>2 DEF IsReply
<1>6. ASSUME NEW i \in 1 .. usRcvBufferPos - 1 PROVE ucRTUBuf[i].src # "pdu"
  <2>1. ucRTUBuf[i] = ReqByte(Last, i)
    BY <1>1, <1>2
  <2> QED BY <2>1 DEF ReqByte
<1>7. sent[Last].crc \in BOOLEAN
  <2>1. sent[Last] \in Frames
    BY <1>1 DEF TypeOK, BusType
  <2> QED BY <2>1, FramesAssumption
<1>8. Intact = IF sent[Last].crc THEN {[n |-> Last, to |-> sent[Last].to]} ELSE {}
  <2>1. {m \in 0 .. Len(sent) : IsReply(m)} = {}
    BY <1>5
  <2>2. {m \in 1 .. Len(sent) : IsRequest(m)} = IF sent[Last].crc THEN {Last} ELSE {}
    BY <1>1, <1>4, <1>7
  <2> QED BY <2>1, <2>2 DEF Intact
<1> QED BY <1>6, <1>8 DEF MayBeDamaged

\* The polling thread.
LEMMA QuietPoll ==
    ASSUME TypeOK, QuietInv, PollThread
    PROVE  QuietInv'
<1>1. Running /\ transEvent = "clear" /\ transPc = "recv"
  BY DEF PollThread, PollInit, PollEnable, xMBPortEventGet, PollReceive, PollExecute, eMBRTUSend,
         PollNothing, PollUpdate, PollRuns, PollInCritical, TransWaits, TransRuns
<1> USE DEF Running
<1>2. CASE PollInit
  <2>1. /\ pollPc = "boot" /\ pollPc' = "enable" /\ osEvent' = {}
        /\ UNCHANGED <<rtu, timer, rdr, transEvent, transPc, bus, hist, fault>>
    BY <1>2 DEF PollInit
  <2>2. Booting
    BY <2>1 DEF QuietInv, Waking, Receiving, Received, Accepted, Replying, Transmitting, Done
  <2>3. Booting'
    BY <2>1, <2>2 DEF Booting, NotSending, rtu, bus
  <2>4. Counted'
    BY <1>1, <2>1, SameCounts DEF QuietInv, bus, hist
  <2> QED BY <2>3, <2>4 DEF QuietInv
<1>3. CASE PollEnable
  <2>1. /\ pollPc = "enable" /\ pollPc' = "get" /\ eRcvState' = "STATE_RX_INIT" /\ timer' = "running"
        /\ rxInt' = "on" /\ transEvent' = "clear"
        /\ UNCHANGED <<eSndState, rdr, transPc, osEvent, bus, hist, fault>>
    BY <1>3 DEF PollEnable, vMBPortSerialEnable
  <2>2. Booting
    BY <2>1 DEF QuietInv, Waking, Receiving, Received, Accepted, Replying, Transmitting, Done
  <2>3. Waking'
    BY <2>1, <2>2 DEF Booting, Waking, Listening, NotSending, bus
  <2>4. Counted'
    BY <1>1, <2>1, SameCounts DEF QuietInv, bus, hist
  <2> QED BY <2>3, <2>4 DEF QuietInv
<1>4. CASE xMBPortEventGet
  <2>1. /\ pollPc = "get" /\ UNCHANGED <<rtu, port, mb, bus, hist, fault>>
        /\ IF osEvent = {} THEN pollPc' = "wait" /\ osEvent' = osEvent
           ELSE pollPc' = "dispatch" /\ recvedEvent' = osEvent /\ osEvent' = {}
    BY <1>4 DEF xMBPortEventGet, TakeEvents
  <2>2. Counted' /\ Last' = Last
    BY <1>1, <2>1, SameCounts DEF QuietInv, bus, hist
  <2>3. Waking \/ Accepted \/ Done
    BY <2>1 DEF QuietInv, Booting, Receiving, Received, Replying, Transmitting
  <2>4. CASE Waking
    <3>1. Waking'
      BY <2>1, <2>4 DEF Waking, Listening, NotSending, rtu, port, bus
    <3> QED BY <2>2, <3>1 DEF QuietInv
  <2>5. CASE Accepted
    <3>1. osEvent = {"EV_EXECUTE"}
      BY <2>1, <2>5 DEF Accepted
    <3>2. Silent' /\ Listening' /\ Count(0, 0)' /\ Whole'
      BY <2>1, <2>2, <2>5
      DEF Accepted, Silent, Listening, NotSending, Count, Whole, Stored, LineIdle, rtu, port, bus, hist
    <3>3. Accepted'
      BY <2>1, <2>2, <2>5, <3>1, <3>2 DEF Accepted, Valid, mb, bus, hist, rtu
    <3> QED BY <2>2, <3>3 DEF QuietInv
  <2>6. CASE Done
    <3>1. Done'
      BY <2>1, <2>6 DEF Done, Silent, NotSending, LineIdle, rtu, port, bus
    <3> QED BY <2>2, <3>1 DEF QuietInv
  <2> QED BY <2>3, <2>4, <2>5, <2>6
<1>5. CASE PollReceive
  <2>1. /\ pollPc = "dispatch" /\ "EV_FRAME_RECEIVED" \in eEvents /\ pollPc' = "update"
        /\ UNCHANGED <<rtu, port, recvedEvent, bus, execs, replies>>
    BY <1>5 DEF PollReceive
  <2>2. "EV_FRAME_RECEIVED" \in recvedEvent
    BY <2>1, OneEvent
  <2>3. Received
    BY <2>1, <2>2 DEF QuietInv, Booting, Waking, Receiving, Accepted, Replying, Transmitting, Done
  <2>4. Whole /\ osEvent = {} /\ Count(0, 0)
    BY <2>3 DEF Received
  <2>5. usRcvBufferPos \in 1 .. SizeMax /\ SizeMax \in Nat /\ ~(usRcvBufferPos > SizeMax)
    BY <2>4, SizeAssumption DEF Whole
  <2>6. /\ fault' = fault
        /\ \/ (~LongEnough \/ MayBeDamaged) /\ UNCHANGED <<osEvent, mb, accepted>>
           \/ /\ LongEnough
              /\ \E f \in Intact :
                    /\ ucRcvAddress' = f.to
                    /\ IF ForUs(f.to)
                       THEN osEvent' = osEvent \cup {"EV_EXECUTE"} /\ accepted' = f.n
                       ELSE UNCHANGED <<osEvent, accepted>>
              /\ usLength' = usRcvBufferPos - 1 - SizeCrc /\ ucMBFrame' = "set"
    BY <1>5, <2>5 DEF PollReceive
  <2>7. Counted' /\ Last' = Last
    BY <1>1, <2>1, <2>6, SameCounts DEF QuietInv, bus
  <2>8. Silent' /\ Listening' /\ Count(0, 0)' /\ Whole'
    BY <2>1, <2>3, <2>7
    DEF Received, Silent, Listening, NotSending, Count, Whole, Stored, LineIdle, rtu, port, bus
  <2>9. ASSUME osEvent' = {} PROVE QuietInv'
    <3>1. Done'
      BY <2>1, <2>8, <2>9 DEF Done, Listening
    <3> QED BY <2>7, <3>1 DEF QuietInv
  <2>10. ASSUME osEvent' # {} PROVE QuietInv'
    <3>1. PICK f \in Intact : /\ ucRcvAddress' = f.to /\ LongEnough /\ ForUs(f.to)
                              /\ osEvent' = osEvent \cup {"EV_EXECUTE"} /\ accepted' = f.n
                              /\ usLength' = usRcvBufferPos - 1 - SizeCrc /\ ucMBFrame' = "set"
      BY <2>4, <2>6, <2>10
    <3>2. sent[Last].crc /\ f = [n |-> Last, to |-> sent[Last].to]
      BY <2>4, OnlyTheFrame
    <3>3. f.n = Last /\ f.to = sent[Last].to
      BY <3>2
    <3>4. Valid(sent[Last])
      BY <2>4, <2>5, <3>1, <3>2, SizeAssumption DEF Valid, Whole, LongEnough
    <3>5. sent' = sent /\ usRcvBufferPos' = usRcvBufferPos
      BY <2>1 DEF bus, rtu
    <3>6. Valid(sent'[Last']) /\ sent'[Last'].to \in {"us", "broadcast"}
      BY <2>7, <3>1, <3>3, <3>4, <3>5 DEF ForUs
    <3>7. Accepted'
      BY <2>1, <2>4, <2>7, <2>8, <3>1, <3>3, <3>5, <3>6 DEF Accepted, Valid
    <3> QED BY <2>7, <3>7 DEF QuietInv
  <2> QED BY <2>9, <2>10
<1>6. CASE PollExecute
  <2>1. pollPc = "dispatch" /\ "EV_EXECUTE" \in eEvents
    BY <1>6 DEF PollExecute
  <2>2. "EV_EXECUTE" \in recvedEvent
    BY <2>1, OneEvent
  <2>3. Accepted
    BY <2>1, <2>2 DEF QuietInv, Booting, Waking, Receiving, Received, Replying, Transmitting, Done
  <2>4. /\ \E l \in ReplyLens :
              /\ usLength' = l
              /\ ucRTUBuf' = [i \in 0 .. SizeMax - 1 |->
                                 IF i \in 1 .. l THEN PduByte(accepted, i) ELSE ucRTUBuf[i]]
        /\ pollPc' = IF NeedsReply THEN "send" ELSE "update"
        /\ execs' = [execs EXCEPT ![accepted] = @ + 1]
        /\ UNCHANGED <<fault, eRcvState, eSndState, port, osEvent, bus, accepted, replies>>
    BY <1>6, <2>3 DEF PollExecute, Accepted
  <2>5. /\ osEvent = {} /\ accepted = Last /\ Last # 0 /\ Count(0, 0) /\ Valid(sent[Last])
        /\ sent[Last].to \in {"us", "broadcast"} /\ ucRcvAddress = sent[Last].to
    BY <2>1, <2>3 DEF Accepted, Count
  <2>6. Counted' /\ Last' = Last /\ execs'[Last] = 1 /\ replies' = replies
    BY <1>1, <2>4, <2>5, CountOne DEF QuietInv, bus
  <2>7. Silent' /\ Listening' /\ Count(1, 0)'
    BY <2>3, <2>4, <2>5, <2>6 DEF Accepted, Silent, Listening, NotSending, LineIdle, Count, port, bus
  <2>8. CASE NeedsReply
    <3>1. PICK l \in ReplyLens :
              /\ usLength' = l
              /\ ucRTUBuf' = [i \in 0 .. SizeMax - 1 |->
                                 IF i \in 1 .. l THEN PduByte(accepted, i) ELSE ucRTUBuf[i]]
      BY <2>4
    <3>2. l \in Nat /\ 1 + l + SizeCrc <= SizeMax /\ SizeMax \in Nat
      BY ReplyAssumption, SizeAssumption
    <3>3. \A i \in 1 .. usLength' : ucRTUBuf'[i] = PduByte(accepted', i)
      BY <2>4, <3>1, <3>2 DEF SizeCrc
    <3>4. sent'[Last'].to = "us" /\ Valid(sent'[Last']) /\ accepted' = Last'
      BY <2>4, <2>5, <2>6, <2>8 DEF NeedsReply, bus
    <3>5. Replying'
      BY <2>4, <2>5, <2>7, <2>8, <3>3, <3>4 DEF Replying, Valid
    <3> QED BY <2>6, <3>5 DEF QuietInv
  <2>9. CASE ~NeedsReply
    <3>1. Done'
      BY <2>4, <2>5, <2>7, <2>9 DEF Done, Listening
    <3> QED BY <2>6, <3>1 DEF QuietInv
  <2> QED BY <2>8, <2>9
<1>7. CASE eMBRTUSend
  <2>1. Replying
    BY <1>7 DEF eMBRTUSend, QuietInv, Booting, Waking, Receiving, Received, Accepted, Transmitting, Done
  <2>2. ReceiverIdle
    BY <2>1 DEF Replying, Silent, ReceiverIdle
  <2>3. /\ pollPc' = "update" /\ eSndState' = "STATE_TX_XMIT" /\ transEvent' = "set"
        /\ UNCHANGED <<eRcvState, timer, rdr, transPc, osEvent, mb, bus, hist, fault>>
    BY <1>7, <2>2 DEF eMBRTUSend, vMBPortSerialEnable
  <2>4. Counted' /\ Last' = Last
    BY <1>1, <2>3, SameCounts DEF QuietInv, bus, hist
  <2>5. Transmitting'
    BY <1>1, <2>1, <2>3, <2>4 DEF Replying, Transmitting, Silent, LineIdle, Count, Valid, bus, hist
  <2> QED BY <2>4, <2>5 DEF QuietInv
<1>8. CASE PollNothing
  <2>1. /\ pollPc = "dispatch" /\ pollPc' = "update"
        /\ eEvents \cap {"EV_READY", "EV_FRAME_SENT", "garbage"} # {}
        /\ UNCHANGED <<rtu, port, osEvent, mb, bus, hist, fault>>
    BY <1>8 DEF PollNothing
  <2>2. recvedEvent \cap {"EV_READY", "EV_FRAME_SENT", "garbage"} # {}
    BY <2>1, OneEvent
  <2>3. Done /\ osEvent = {}
    BY <2>1, <2>2 DEF QuietInv, Booting, Waking, Receiving, Received, Accepted, Replying, Transmitting, Done
  <2>4. Done'
    BY <2>1, <2>3 DEF Done, Silent, NotSending, LineIdle, rtu, port, bus
  <2>5. Counted'
    BY <1>1, <2>1, SameCounts DEF QuietInv, bus, hist
  <2> QED BY <2>4, <2>5 DEF QuietInv
<1>9. CASE PollUpdate
  <2>1. pollPc = "update" /\ pollPc' = "get" /\ UNCHANGED <<rtu, port, osEvent, mb, bus, hist, fault>>
    BY <1>9 DEF PollUpdate
  <2>2. Counted' /\ Last' = Last
    BY <1>1, <2>1, SameCounts DEF QuietInv, bus, hist
  <2>3. Accepted \/ Done
    BY <1>1, <2>1 DEF QuietInv, Booting, Waking, Receiving, Received, Replying, Transmitting
  <2>4. CASE Accepted
    <3>1. osEvent = {"EV_EXECUTE"}
      BY <2>1, <2>4 DEF Accepted
    <3>2. Silent' /\ Listening' /\ Count(0, 0)' /\ Whole'
      BY <2>1, <2>2, <2>4
      DEF Accepted, Silent, Listening, NotSending, Count, Whole, Stored, LineIdle, rtu, port, bus, hist
    <3>3. Accepted'
      BY <2>1, <2>2, <2>4, <3>1, <3>2 DEF Accepted, Valid, mb, bus, hist, rtu
    <3> QED BY <2>2, <3>3 DEF QuietInv
  <2>5. CASE Done
    <3>1. Done'
      BY <1>1, <2>1, <2>5 DEF Done, Silent, NotSending, LineIdle, rtu, port, bus
    <3> QED BY <2>2, <3>1 DEF QuietInv
  <2> QED BY <2>3, <2>4, <2>5
<1> QED
  BY <1>2, <1>3, <1>4, <1>5, <1>6, <1>7, <1>8, <1>9 DEF PollThread

LEMMA QuietStep ==
    ASSUME Master = "quiet", TypeOK, QuietInv, [Next]_vars
    PROVE  QuietInv'
<1>1. CASE MasterSend
  BY <1>1, QuietMaster
<1>2. CASE ByteArrives
  BY <1>2, QuietByte
<1>3. CASE UartIsr
  BY <1>3, QuietUart
<1>4. CASE TickIsr
  BY <1>4, QuietTick
<1>5. CASE TransThread
  BY <1>5, QuietTrans
<1>6. CASE PollThread
  BY <1>6, QuietPoll
<1>7. CASE WatchdogReset
  BY <1>7 DEF WatchdogReset, QuietInv, Counted
<1>8. CASE UNCHANGED vars
  BY <1>8 DEF vars, rtu, port, poll, mb, bus, hist, QuietInv, Counted, Running, AtMostOnce, Valid, Last,
              Silent, NotSending, Listening, Stored, Whole, Count, LineIdle, Booting, Waking,
              Receiving, Received, Accepted, Replying, Transmitting, Done
<1> QED BY <1>1, <1>2, <1>3, <1>4, <1>5, <1>6, <1>7, <1>8 DEF Next

LEMMA QuietInvariant ==
    ASSUME Master = "quiet"
    PROVE  Spec => [](TypeOK /\ QuietInv)
<1>1. Init => TypeOK /\ QuietInv
  BY TypeInit, QuietInit
<1>2. TypeOK /\ QuietInv /\ [Next]_vars => (TypeOK /\ QuietInv)'
  BY TypeStep, QuietStep
<1> QED BY <1>1, <1>2, PTL DEF Spec

\* With a quiet master eMBPoll always acts on the event that was posted: xMBPortEventGet never
\* finds two of them.
THEOREM EventsHandled ==
    ASSUME Master = "quiet"
    PROVE  Spec => []EventHandled
<1>1. QuietInv => EventHandled
  BY OneEvent DEF EventHandled
<1> QED BY <1>1, QuietInvariant, PTL

\* With a quiet master EV_EXECUTE works on the request that eMBPoll checked, all of it and no
\* byte of another frame.
THEOREM OwnFramesExecuted ==
    ASSUME Master = "quiet"
    PROVE  Spec => []ExecutesOwnFrames
<1>1. TypeOK /\ QuietInv => ExecutesOwnFrames
  <2> SUFFICES ASSUME TypeOK, QuietInv, pollPc = "dispatch", recvedEvent = {"EV_EXECUTE"}
               PROVE  /\ accepted # 0 /\ sent[accepted].to \in {"us", "broadcast"}
                      /\ \A i \in 1 .. usLength : ucRTUBuf[i] = ReqByte(accepted, i)
    BY DEF ExecutesOwnFrames
  <2>1. Accepted
    BY DEF QuietInv, Booting, Waking, Receiving, Received, Replying, Transmitting, Done
  <2>2. /\ accepted = Last /\ Last # 0 /\ sent[Last].to \in {"us", "broadcast"}
        /\ usRcvBufferPos \in 1 .. SizeMax /\ usLength = usRcvBufferPos - 1 - SizeCrc /\ Stored
    BY <2>1 DEF Accepted, Whole
  <2>3. ASSUME NEW i \in 1 .. usLength PROVE i \in 0 .. usRcvBufferPos - 1
    BY <2>2, SizeAssumption DEF SizeCrc
  <2> QED BY <2>2, <2>3 DEF Stored
<1> QED BY <1>1, QuietInvariant, PTL

\* With a quiet master no request is executed twice or answered twice, none that is damaged or for
\* another slave is executed at all, and no broadcast is answered.
THEOREM ExecutedAtMostOnce ==
    ASSUME Master = "quiet"
    PROVE  Spec => []AtMostOnce
<1>1. QuietInv => AtMostOnce
  BY DEF QuietInv, Counted
<1> QED BY <1>1, QuietInvariant, PTL

\* With a quiet master eMBRTUSend sends the reply the handler built, ...
THEOREM RepliesFresh ==
    ASSUME Master = "quiet"
    PROVE  Spec => []StaleReplyAborted
<1>1. QuietInv => StaleReplyAborted
  BY DEF QuietInv, Booting, Waking, Receiving, Received, Accepted, Replying, Transmitting, Done, StaleReplyAborted
<1> QED BY <1>1, QuietInvariant, PTL

\* ... and the assertion of xMBRTUReceiveFSM holds, nor does anything else stop the processor.
THEOREM NeverStops ==
    ASSUME Master = "quiet"
    PROVE  Spec => [](Running /\ NoReceiveDuringTransmit)
<1>1. QuietInv => Running /\ NoReceiveDuringTransmit
  BY DEF QuietInv, Counted, Running, NoReceiveDuringTransmit
<1> QED BY <1>1, QuietInvariant, PTL
=============================================================================
