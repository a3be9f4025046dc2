------------------------------ MODULE Registers ------------------------------
(***************************************************************************)
(* The holding registers: what a request reads and writes, what it is      *)
(* answered, and what mbs_sts_update puts in between.                      *)
(* (mbfuncholding.c, EV_EXECUTE in mb.c, user_mb_app.c, drv_tmp117.c)      *)
(*                                                                         *)
(* One thread does all of it: eMBPoll takes one event, then mbs_sts_update *)
(* runs, and so on.  How frames come to be events is in ModbusSlave; here  *)
(* every received frame is for this slave and is executed by a later poll. *)
(* How the calibration gets into flash is in CalStore; here it gets there  *)
(* as a whole.                                                             *)
(***************************************************************************)
EXTENDS Tmp117, Sequences

CONSTANTS
    NREGS,       \* S_REG_HOLDING_NREGS (12)
    Requests,    \* the PDUs a master may send
    Address,     \* of this node, from drv_autoaddr_get_addr
    Raws,        \* what the temperature register of the TMP117 may hold
    Readings,    \* what the status word and the MS5837 may give
    Any          \* words that stand for whatever an undetermined word may hold

MBS_REG_CNT == 0
MBS_ADDR_IND == 1
MBS_STATUS_IND == 2
SOFT_VER_IND == 3
CALC_K_IND == 4
CALC_B_IND == 5
TMP117_TEMP_IND == 6
MS5837_LTEMP_IND == 7
MS5837_LPRES_IND == 8
MAX_IND == 9
SOFT_VER == 261   \* 0x0105

\* A PDU: function code, length in bytes, the fields of its header, the words that follow it,
\* and whether it was sent to everybody.  fn 3 uses addr and count, fn 6 waddr and vals,
\* fn 23 all.
PDU == [fn : Nat, len : Nat, addr : Word, count : Word, waddr : Word, wcount : Word, bytes : Nat,
        vals : Seq(Word), broadcast : BOOLEAN]

ASSUME RegistersAssumption ==
    /\ NREGS \in Nat /\ NREGS >= MAX_IND
    /\ Requests \subseteq PDU
    /\ \A q \in Requests : q.fn = 6 => Len(q.vals) = 1
    /\ \A q \in Requests : q.fn = 23 /\ q.len >= 10 => Len(q.vals) = (q.len - 10) \div 2
    /\ Address \in Word /\ Raws \subseteq Word /\ Readings \subseteq Word /\ Any \subseteq Word

VARIABLES
    pc,         \* "start", "poll" or "update": where the thread is
    regs,       \* usSRegHoldBuf
    flash,      \* the calibration in flash
    pdu,        \* the frame that waits for EV_EXECUTE, or NoPDU
    reply,      \* what was sent last
    \* What the properties remember.
    sample,     \* the register of the TMP117 at the last update, or NoSample if the read failed
    known,      \* the calibration as the master knows it from what it wrote; Unknown in part
    durable     \* ... and what of that is to survive a restart

vars == <<pc, regs, flash, pdu, reply, sample, known, durable>>

NoPDU == [fn |-> 0]
NoSample == -1
Unknown == -1
NoReply == [kind |-> "none", code |-> "none", data |-> <<>>]

\* The registers after a reset.
Zeroed == [i \in 0 .. NREGS - 1 |-> 0]

Init ==
    /\ pc = "start" /\ regs = Zeroed /\ flash = [K |-> 0, B |-> 0]
    /\ pdu = NoPDU /\ reply = NoReply /\ sample = NoSample
    /\ known = [K |-> Unknown, B |-> Unknown] /\ durable = known

-----------------------------------------------------------------------------
(* The thread: start-up and update.                                         *)

\* A faulty variant: the halves of the data word are swapped.
SwappedHalves == [K |-> flash.B, B |-> flash.K]

rd_calc_data == [K |-> flash.K, B |-> flash.B]

\* mbs_sts_init, and the stack is enabled.
mbs_sts_init ==
    /\ pc = "start"
    /\ pc' = "poll"
    /\ regs' = [regs EXCEPT ![MBS_REG_CNT] = MAX_IND, ![SOFT_VER_IND] = SOFT_VER,
                            ![MBS_ADDR_IND] = Address,
                            ![CALC_K_IND] = rd_calc_data.K, ![CALC_B_IND] = rd_calc_data.B]
    /\ UNCHANGED <<flash, pdu, reply, sample, known, durable>>

\* The values tmp117_get_temp may return if the sensor gave temp: any one if the product
\* overflows.
tmp117_get_temp(temp, k, b) ==
    LET t == Hundredths(temp)
    IN  IF ProductFits(t, k) THEN {UInt16(Scaled(t, k, b))} ELSE Any

\* A faulty variant: the temperature is scaled with the calibration in flash.
FlashCalibration == [k |-> Int16(flash.K), b |-> Int16(flash.B)]

Calibration == [k |-> Int16(regs[CALC_K_IND]), b |-> Int16(regs[CALC_B_IND])]

\* What mbs_sts_update makes of temperature, status, and temperature and pressure of the MS5837.
Updated(t, s, l, p) ==
    [regs EXCEPT ![MBS_STATUS_IND] = s, ![MS5837_LTEMP_IND] = l, ![MS5837_LPRES_IND] = p,
                 ![TMP117_TEMP_IND] = t]

\* If the TMP117 does not answer, temp is what was on the stack.
mbs_sts_update ==
    /\ pc = "update"
    /\ pc' = "poll"
    /\ \E s, l, p \in Readings :
         \/ \E temp \in Raws : \E t \in tmp117_get_temp(temp, Calibration.k, Calibration.b) :
              regs' = Updated(t, s, l, p) /\ sample' = temp
         \/ \E temp \in Any : \E t \in tmp117_get_temp(temp, Calibration.k, Calibration.b) :
              regs' = Updated(t, s, l, p) /\ sample' = NoSample
    /\ reply' = NoReply
    /\ UNCHANGED <<flash, pdu, known, durable>>

-----------------------------------------------------------------------------
(* The register functions.  Each gives the outcome of a request: its        *)
(* exception, or "NONE", the registers and the calibration in flash after   *)
(* it, and the words its normal reply carries.                              *)

Outcome(eStatus, r, f, data) == [eStatus |-> eStatus, regs |-> r, flash |-> f, data |-> data]
Refuse(eStatus) == Outcome(eStatus, regs, flash, <<>>)

\* The handlers add one to the address, the callback takes it away again; usAddress is unsigned
\* and S_REG_HOLDING_START is 0.
InRange(usAddress, usNRegs) == ((((usAddress + 1) % 65536) - 1) % 65536) + usNRegs <= NREGS

\* eMBRegHoldingCB to write the words v: the registers afterwards, ...
Write(usAddress, usNRegs, v) ==
    [i \in DOMAIN regs |-> IF i \in usAddress .. usAddress + usNRegs - 1 THEN v[i - usAddress + 1]
                           ELSE regs[i]]

\* ... and the calibration in flash: wr_calc_data is called once CALC_B is written.
Stored(usAddress, usNRegs, r) ==
    IF CALC_B_IND \in usAddress .. usAddress + usNRegs - 1
    THEN [K |-> r[CALC_K_IND], B |-> r[CALC_B_IND]] ELSE flash

\* eMBRegHoldingCB to read, from registers r.
Read(r, usAddress, usNRegs) == [j \in 1 .. usNRegs |-> r[usAddress + j - 1]]

\* A faulty variant: a longer frame is taken too.
AtLeast(usLen) == usLen >= 5

\* The length of a single write and of a read.
ExactLength(usLen) == usLen = 5

\* The reply to a single write is the request.
eMBFuncWriteHoldingRegister(q) ==
    IF ~ExactLength(q.len) THEN {Refuse("ILLEGAL_DATA_VALUE")}
    ELSE IF ~InRange(q.waddr, 1) THEN {Refuse("ILLEGAL_DATA_ADDRESS")}
    ELSE LET r == Write(q.waddr, 1, q.vals)
         IN  {Outcome("NONE", r, Stored(q.waddr, 1, r), q.vals)}

eMBFuncReadHoldingRegister(q) ==
    IF ~ExactLength(q.len) \/ q.count \notin 1 .. 125 THEN {Refuse("ILLEGAL_DATA_VALUE")}
    ELSE IF ~InRange(q.addr, q.count) THEN {Refuse("ILLEGAL_DATA_ADDRESS")}
    ELSE {Outcome("NONE", regs, flash, Read(regs, q.addr, q.count))}

\* The words read/write takes from the buffer: what the frame is too short for is what the buffer
\* held before.
Words(q) ==
    {v \in [1 .. q.wcount -> Any \cup {q.vals[j] : j \in DOMAIN q.vals}] :
        \A j \in 1 .. q.wcount : 10 + 2 * j <= q.len => v[j] = q.vals[j]}

\* A faulty variant: what is read is what was there before the write.
OldRegisters(r) == regs

\* What the read callback of read/write reads, after the write callback.
NewRegisters(r) == r

\* A PDU too short for the header falls through, and is sent back as it is.
eMBFuncReadWriteMultipleHoldingRegister(q) ==
    IF q.len < 10 THEN {Refuse("NONE")}
    ELSE IF q.count \notin 1 .. 125 \/ q.wcount \notin 1 .. 121 \/ 2 * q.wcount # q.bytes
    THEN {Refuse("ILLEGAL_DATA_VALUE")}
    ELSE IF ~InRange(q.waddr, q.wcount) THEN {Refuse("ILLEGAL_DATA_ADDRESS")}
    ELSE {LET r == Write(q.waddr, q.wcount, v)
              f == Stored(q.waddr, q.wcount, r)
          IN  IF InRange(q.addr, q.count)
              THEN Outcome("NONE", r, f, Read(NewRegisters(r), q.addr, q.count))
              ELSE Outcome("ILLEGAL_DATA_ADDRESS", r, f, <<>>) : v \in Words(q)}

\* The handlers in xFuncHandlers.
Outcomes(q) ==
    CASE q.fn = 3 -> eMBFuncReadHoldingRegister(q)
      [] q.fn = 6 -> eMBFuncWriteHoldingRegister(q)
      [] q.fn = 23 -> eMBFuncReadWriteMultipleHoldingRegister(q)
      [] OTHER -> {Refuse("ILLEGAL_FUNCTION")}

-----------------------------------------------------------------------------
(* The reference: what a request asks for.                                  *)

Existing(addr, n) == n >= 1 /\ addr + n - 1 < NREGS

\* The frame holds what its header says.
Complete(q) ==
    CASE q.fn \in {3, 6} -> q.len = 5
      [] q.fn = 23 -> q.len = 10 + q.bytes /\ q.bytes = 2 * q.wcount
      [] OTHER -> TRUE

Writes(q) == q.fn = 6 \/ q.fn = 23
Reads(q) == q.fn = 3 \/ q.fn = 23

\* A request that can be met: it asks for at most 125 and gives at most 121 registers, all of
\* which exist.
Acceptable(q) ==
    /\ q.fn \in {3, 6, 23} /\ Complete(q)
    /\ Reads(q) => Existing(q.addr, q.count) /\ q.count <= 125
    /\ Writes(q) => Existing(q.waddr, Len(q.vals)) /\ Len(q.vals) <= 121

\* The registers request q writes.
Targets(q) == IF Writes(q) THEN q.waddr .. q.waddr + Len(q.vals) - 1 ELSE {}

\* The registers it may reach although it is refused or not complete.
MayWrite(q) == q.fn = 23 /\ ~Acceptable(q)

\* What the master knows of register i after its request q, if it knew v before.
Learned(q, i, v) ==
    IF MayWrite(q) THEN Unknown
    ELSE IF Acceptable(q) /\ i \in Targets(q) THEN q.vals[i - q.waddr + 1] ELSE v

Learns(q) == [K |-> Learned(q, CALC_K_IND, known.K), B |-> Learned(q, CALC_B_IND, known.B)]

-----------------------------------------------------------------------------
(* The thread: eMBPoll.                                                     *)

\* EV_FRAME_RECEIVED.
Receive(q) ==
    /\ pc = "poll" /\ pdu = NoPDU
    /\ pdu' = q /\ pc' = "update"
    /\ UNCHANGED <<regs, flash, reply, sample, known, durable>>

\* EV_READY or EV_FRAME_SENT.
PollNothing ==
    /\ pc = "poll"
    /\ pc' = "update"
    /\ UNCHANGED <<regs, flash, pdu, reply, sample, known, durable>>

\* EV_EXECUTE.
Execute ==
    /\ pc = "poll" /\ pdu # NoPDU
    /\ \E o \in Outcomes(pdu) :
         /\ regs' = o.regs /\ flash' = o.flash
         /\ reply' = IF pdu.broadcast THEN NoReply
                     ELSE IF o.eStatus = "NONE" THEN [kind |-> "normal", code |-> "none", data |-> o.data]
                     ELSE [kind |-> "exception", code |-> o.eStatus, data |-> <<>>]
    /\ pdu' = NoPDU /\ pc' = "update"
    /\ known' = Learns(pdu)
    /\ durable' = IF MayWrite(pdu) \/ (Acceptable(pdu) /\ CALC_B_IND \in Targets(pdu)) THEN known' ELSE durable
    /\ UNCHANGED sample

\* The watchdog or the power supply resets the node.
Reset ==
    /\ pc' = "start" /\ regs' = Zeroed /\ pdu' = NoPDU /\ reply' = NoReply /\ sample' = NoSample
    /\ known' = durable
    /\ UNCHANGED <<flash, durable>>

Next ==
    \/ mbs_sts_init \/ mbs_sts_update \/ PollNothing \/ Execute \/ Reset
    \/ \E q \in Requests : Receive(q)

Spec == Init /\ [][Next]_vars

-----------------------------------------------------------------------------
(* Properties.                                                              *)

\* Whenever a request is executed, the temperature register holds the temperature of the last
\* reading, calibrated with the K and B that are in the registers at that time, however they got
\* there; if the sensor answered, measured within its range, and the result fits 16 bits.
Calibrated ==
    pc = "poll" /\ sample # NoSample /\ InSensorRange(sample) =>
        LET k == Int16(regs[CALC_K_IND])
            b == Int16(regs[CALC_B_IND])
            t == Reference(sample, k, b)
        IN  Representable(t) => Magnitude(Int16(regs[TMP117_TEMP_IND]) - t) <= 2

\* What the master wrote to the calibration registers is what they hold from then on, whatever
\* else is requested and measured; after a restart they hold what was written up to the last
\* write of CALC_B.
MasterView ==
    pc # "start" =>
        /\ known.K # Unknown => regs[CALC_K_IND] = known.K
        /\ known.B # Unknown => regs[CALC_B_IND] = known.B

\* A poll has executed request pdu.
Executed == pdu # NoPDU /\ pdu' = NoPDU /\ pc' = "update"

\* A request that can be met is met: the registers it writes hold its words, no other has
\* changed, and the words of the reply are those of the registers after the write.
Met ==
    [][LET q == pdu
       IN  Executed /\ Acceptable(q) =>
             /\ \A i \in DOMAIN regs :
                  regs'[i] = IF i \in Targets(q) THEN q.vals[i - q.waddr + 1] ELSE regs[i]
             /\ IF q.broadcast THEN reply'.kind = "none"
                ELSE /\ reply'.kind = "normal"
                     /\ Reads(q) => /\ Len(reply'.data) = q.count
                                    /\ \A j \in 1 .. q.count : reply'.data[j] = regs'[q.addr + j - 1]]_vars

\* A request that cannot be met is answered with an exception and changes nothing; only
\* read/write with registers to read that do not exist has written by then, and one whose frame
\* is not complete may be carried out.
Refused ==
    [][LET q == pdu
       IN  Executed /\ ~Acceptable(q) /\ (Complete(q) \/ q.fn # 23) =>
             /\ ~q.broadcast => reply'.kind = "exception"
             /\ \/ regs' = regs /\ flash' = flash
                \/ q.fn = 23 /\ Existing(q.waddr, Len(q.vals)) /\ ~Existing(q.addr, q.count)]_vars
=============================================================================
