------------------------------- MODULE I2cBus --------------------------------
(***************************************************************************)
(* A sensor's I2C bus, driven by software: i2c-bit-ops.c on the pins of    *)
(* drv_soft_i2c.c, under rt_i2c_transfer.  Both lines are open drain; a    *)
(* line is high when neither side pulls it low.                            *)
(*                                                                         *)
(* A function of i2c-bit-ops.c is the sequence of what it does to the      *)
(* lines, and each of these is a step: the thread can be preempted, and    *)
(* the processor reset, between any two of them.  The sensor, which keeps  *)
(* its power through a reset, follows the edges it sees.  Transfers do not *)
(* overlap: rt_i2c_transfer holds the lock of the bus.                     *)
(***************************************************************************)
EXTENDS Integers, Sequences

CONSTANTS
    Address,     \* of the sensor, 7 bits
    Transfers,   \* the msgs of transfers: sequences of messages [rd |-> BOOLEAN, buf |-> bytes]
    Registers,   \* the bytes a sensor may send, in turn
    Retries,     \* values of bus->retries; 0 in this firmware
    MaxNacks,    \* bound: how often the sensor does not answer to its address
    MaxFaults    \* bound: how often it holds the clock low or the processor is reset

Byte == 0 .. 255
Messages == [rd : BOOLEAN, buf : Seq(Byte)]

\* The first bit of both addresses is 1, tmp_i2c_addr (0x48) and pres_i2c_addr (0x76).  A driver's
\* transfer has a message, and a message that reads has a byte to read.
ASSUME BusAssumption ==
    /\ Address \in 64 .. 127
    /\ \A msgs \in Transfers :
         /\ msgs \in Seq(Messages) /\ msgs # <<>>
         /\ \A i \in DOMAIN msgs : msgs[i].rd => msgs[i].buf # <<>>
    /\ \A r \in Registers : r \in Seq(Byte) /\ r # <<>>
    /\ Retries \subseteq Nat /\ MaxNacks \in Nat /\ MaxFaults \in Nat

VARIABLES
    scl, sda,    \* how the pins drive the lines; 0 pulls low
    dev,         \* the sensor
    pc,          \* where the thread is
    ops,         \* what the current function does to the lines, ...
    done,        \* ... and how much of it it has done
    xfer,        \* i2c_bit_xfer: its messages and how far it is
    retries,
    \* What the properties remember.
    result,      \* of the last transfer: "none" yet, "num" or "error"
    since,       \* transfers begun since the start, at most 3 told apart
    unlocked,    \* whether stm32_i2c_bus_unlock found the data line low: "no", "yes", "failed"
    busy,        \* whether the sensor did not answer to its address in this transfer
    skipped,     \* whether the sensor ever held the clock for longer than the thread waited
    faults       \* nacks, and holds and resets, so far

vars == <<scl, sda, dev, pc, ops, done, xfer, retries, result, since, unlocked, busy, skipped, faults>>

-----------------------------------------------------------------------------
(* The sensor.                                                              *)

SCL == IF dev.hold THEN 0 ELSE scl
SDA == IF dev.sda = 0 THEN 0 ELSE sda

\* Bit i of a byte, 7 first.
pow2 == <<1, 2, 4, 8, 16, 32, 64, 128, 256>>
BitOf(byte, i) == (byte \div pow2[i + 1]) % 2

\* The byte the sensor is sending.
Sending(d) == d.regs[(d.sent % Len(d.regs)) + 1]

Idle(d) == [d EXCEPT !.st = "idle", !.sda = 1]

\* The clock rises: a bit is taken in, or the acknowledge.
Rises(d, level) ==
    IF d.st = "idle" THEN d
    ELSE [d EXCEPT !.bit = @ + 1,
                   !.sr = IF d.bit < 8 /\ d.st # "send" THEN 2 * @ + level ELSE @,
                   !.ack = IF d.bit = 8 THEN 1 - level ELSE @]

\* The clock falls: after eight bits the acknowledge is given, after nine the next byte begins.
Falls(d, answers) ==
    CASE d.st = "idle" -> d
      [] d.st = "address" /\ d.bit = 8 ->
           IF d.sr \div 2 = Address /\ answers THEN [d EXCEPT !.sda = 0] ELSE Idle(d)
      [] d.st = "receive" /\ d.bit = 8 -> [d EXCEPT !.sda = 0, !.got = Append(@, d.sr)]
      [] d.st = "send" /\ d.bit = 8 -> [d EXCEPT !.sda = 1]
      [] d.st = "address" /\ d.bit = 9 /\ d.sr % 2 = 1 ->
           [d EXCEPT !.st = "send", !.bit = 0, !.sent = 0, !.sda = BitOf(d.regs[1], 7)]
      [] d.bit = 9 /\ (d.st = "receive" \/ (d.st = "address" /\ d.sr % 2 = 0)) ->
           [d EXCEPT !.st = "receive", !.bit = 0, !.sr = 0, !.sda = 1]
      [] d.st = "send" /\ d.bit = 9 /\ d.ack = 0 -> Idle(d)
      [] d.st = "send" /\ d.bit = 9 /\ d.ack = 1 ->
           LET e == [d EXCEPT !.bit = 0, !.sent = @ + 1] IN [e EXCEPT !.sda = BitOf(Sending(e), 7)]
      [] d.st = "send" /\ d.bit \in 1 .. 7 -> [d EXCEPT !.sda = BitOf(Sending(d), 7 - d.bit)]
      [] OTHER -> d

\* What the sensor makes of one line changing from old to new levels <<SCL, SDA>>: an edge of the
\* data line while the clock is high is a start or a stop condition.
Sees(d, old, new, answers) ==
    CASE old[1] < new[1] -> Rises(d, new[2])
      [] old[1] > new[1] -> Falls(d, answers)
      [] old = <<1, 1>> /\ new = <<1, 0>> -> [d EXCEPT !.st = "address", !.bit = 0, !.sr = 0, !.sda = 1]
      [] old = <<1, 0>> /\ new = <<1, 1>> -> Idle(d)
      [] OTHER -> d

\* The levels of the lines if the pins drive c and a.
Levels(c, a) == <<IF dev.hold THEN 0 ELSE c, IF dev.sda = 0 THEN 0 ELSE a>>

\* The pins drive the lines with c and a, one of which may be new.  At the end of its address the
\* sensor may be busy.
Drive(c, a) ==
    /\ scl' = c /\ sda' = a
    /\ \/ /\ dev' = Sees(dev, <<SCL, SDA>>, Levels(c, a), TRUE)
          /\ UNCHANGED <<faults, busy>>
       \/ /\ dev.st = "address" /\ dev.bit = 8 /\ SCL = 1 /\ c = 0
          /\ faults.nacks < MaxNacks
          /\ faults' = [faults EXCEPT !.nacks = @ + 1]
          /\ busy' = TRUE
          /\ dev' = Sees(dev, <<SCL, SDA>>, Levels(c, a), FALSE)

\* It holds the clock, which is low, ...
HoldClock ==
    /\ SCL = 0 /\ ~dev.hold /\ dev.st # "idle"
    /\ faults.others < MaxFaults
    /\ faults' = [faults EXCEPT !.others = @ + 1]
    /\ dev' = [dev EXCEPT !.hold = TRUE]
    /\ UNCHANGED <<scl, sda, pc, ops, done, xfer, retries, result, since, unlocked, busy, skipped>>

\* ... and lets go of it, upon which it may rise.
ReleaseClock ==
    /\ dev.hold
    /\ dev' = LET d == [dev EXCEPT !.hold = FALSE] IN IF scl = 1 THEN Rises(d, SDA) ELSE d
    /\ UNCHANGED <<scl, sda, pc, ops, done, xfer, retries, result, since, unlocked, busy, skipped, faults>>

-----------------------------------------------------------------------------
(* What the functions do to the lines.  SCL_H waits for the clock and may   *)
(* run into its timeout; TRY_SCL_H does too, and the function returns.      *)

i2c_start == <<"SDA_L", "SCL_L">>
i2c_restart == <<"SDA_H", "SCL_H", "SDA_L", "SCL_L">>

\* A faulty variant: the clock is left low.
StopsLow == <<"SDA_L", "SDA_H">>

i2c_stop == <<"SDA_L", "SCL_H", "SDA_H">>

i2c_waitack == <<"SDA_H", "TRY_SCL_H", "GET_ACK", "SCL_L">>

\* The same steps again and again, n in all; for each bit of a byte, 7 first, three.
Cycle(n, steps) == [k \in 1 .. n |-> steps[((k - 1) % Len(steps)) + 1]]

\* A faulty variant: the data line is set while the clock is high.
WritesHigh(data) ==
    [k \in 1 .. 24 |->
        <<IF BitOf(data, 7 - (k - 1) \div 3) = 1 THEN "SDA_H" ELSE "SDA_L", "SCL_L", "TRY_SCL_H">>[((k - 1) % 3) + 1]]
    \o <<"SCL_L">> \o i2c_waitack

i2c_writeb(data) ==
    [k \in 1 .. 24 |->
        <<"SCL_L", IF BitOf(data, 7 - (k - 1) \div 3) = 1 THEN "SDA_H" ELSE "SDA_L", "TRY_SCL_H">>[((k - 1) % 3) + 1]]
    \o <<"SCL_L">> \o i2c_waitack

i2c_readb == <<"SDA_H">> \o Cycle(24, <<"TRY_SCL_H", "GET_SDA", "SCL_L">>)

i2c_send_ack_or_nack(ack) == (IF ack THEN <<"SDA_L">> ELSE <<>>) \o <<"TRY_SCL_H", "SCL_L">>

\* rt_pin_mode drives both pins low, as the output register is 0 after a reset.
stm32_i2c_gpio_init == <<"SCL_L", "SDA_L", "SCL", "SDA_H">>

\* One pulse of stm32_i2c_bus_unlock, which does not wait for the clock.
UnlockPulse == <<"SCL", "SCL_L">>

\* One step on the lines.  The clock is not up yet while the sensor holds it.
Line ==
    /\ done < Len(ops)
    /\ LET op == ops[done + 1]
           Waits == op \in {"SCL_H", "TRY_SCL_H"} /\ dev.hold
           Driven(c, a) == Drive(c, a) /\ done' = done + 1 /\ UNCHANGED xfer
           Still == UNCHANGED <<scl, sda, dev, faults, busy>>
       IN  \/ op = "SDA_L" /\ Driven(scl, 0) /\ UNCHANGED skipped
           \/ op = "SDA_H" /\ Driven(scl, 1) /\ UNCHANGED skipped
           \/ op = "SCL_L" /\ Driven(0, sda) /\ UNCHANGED skipped
           \/ op = "SCL" /\ Driven(1, sda) /\ skipped' = (skipped \/ dev.hold)
           \/ op \in {"SCL_H", "TRY_SCL_H"} /\ ~dev.hold /\ Driven(1, sda) /\ UNCHANGED skipped
           \/ Waits /\ scl = 0 /\ scl' = 1 /\ UNCHANGED <<sda, dev, done, xfer, faults, busy, skipped>>
           \/ /\ Waits /\ scl = 1   \* -RT_ETIMEOUT
              /\ done' = IF op = "SCL_H" THEN done + 1 ELSE Len(ops)
              /\ xfer' = IF op = "SCL_H" THEN xfer ELSE [xfer EXCEPT !.ret = "timeout"]
              /\ skipped' = TRUE
              /\ Still
           \/ /\ op = "GET_ACK"
              /\ xfer' = [xfer EXCEPT !.ret = IF SDA = 0 THEN "ack" ELSE "nack"]
              /\ done' = done + 1
              /\ Still /\ UNCHANGED skipped
           \/ /\ op = "GET_SDA"
              /\ xfer' = [xfer EXCEPT !.data = (2 * @ + SDA) % 256]
              /\ done' = done + 1
              /\ Still /\ UNCHANGED skipped
    /\ UNCHANGED <<pc, ops, retries, result, since, unlocked>>

-----------------------------------------------------------------------------
(* The thread.                                                              *)

NoXfer == [msgs |-> <<>>, i |-> 0, n |-> 0, try |-> 0, ret |-> "none", data |-> 0, read |-> <<>>]

\* The lines are pulled up, and the sensor is idle.
Init ==
    /\ scl = 1 /\ sda = 1
    /\ \E r \in Registers :
         dev = [st |-> "idle", bit |-> 0, sr |-> 0, sda |-> 1, hold |-> FALSE, ack |-> 0,
                regs |-> r, sent |-> 0, got |-> <<>>]
    /\ pc = "boot" /\ ops = <<>> /\ done = 0 /\ xfer = NoXfer /\ retries \in Retries
    /\ result = "none" /\ since = 0 /\ unlocked = "no" /\ busy = FALSE /\ skipped = FALSE
    /\ faults = [nacks |-> 0, others |-> 0]

Unhindered == UNCHANGED <<scl, sda, dev, retries, busy, skipped, faults>>

\* The function has done what it does to the lines.
At(place) == pc = place /\ done = Len(ops)

\* The next function is called.
Call(f) == ops' = f /\ done' = 0

\* rt_hw_i2c_init: the pins, ...
rt_hw_i2c_init ==
    /\ At("boot")
    /\ Call(stm32_i2c_gpio_init) /\ pc' = "unlock"
    /\ Unhindered /\ UNCHANGED <<xfer, result, since, unlocked>>

\* A faulty variant: seven pulses.
FewPulses == 7

\* The pulses that free a data line the sensor holds.
Pulses == 9

\* ... then stm32_i2c_bus_unlock if the data line is low, ...
stm32_i2c_bus_unlock ==
    /\ At("unlock")
    /\ IF SDA = 0
       THEN Call(Cycle(2 * Pulses, UnlockPulse)) /\ unlocked' = "yes"
       ELSE UNCHANGED <<ops, done>> /\ unlocked' = "no"
    /\ pc' = "unlocked"
    /\ Unhindered /\ UNCHANGED <<xfer, result, since>>

\* ... whose error nobody looks at.
UnlockReturns ==
    /\ At("unlocked")
    /\ unlocked' = IF SDA = 0 THEN "failed" ELSE unlocked
    /\ pc' = "idle"
    /\ Unhindered /\ UNCHANGED <<ops, done, xfer, result, since>>

\* The address byte of message m.
AddressByte(m) == 2 * Address + (IF m.rd THEN 1 ELSE 0)

\* rt_i2c_transfer: i2c_bit_xfer begins.
rt_i2c_transfer(msgs) ==
    /\ At("idle")
    /\ xfer' = [NoXfer EXCEPT !.msgs = msgs, !.i = 1]
    /\ Call(i2c_start \o i2c_writeb(AddressByte(msgs[1])))
    /\ pc' = "address"
    /\ since' = IF since < 3 THEN since + 1 ELSE 3
    /\ result' = "none" /\ busy' = FALSE
    /\ dev' = [dev EXCEPT !.got = <<>>]
    /\ UNCHANGED <<scl, sda, retries, unlocked, skipped, faults>>

Message == xfer.msgs[xfer.i]

\* The transfer ends with a stop condition, and r is its result.
Out(r) == Call(i2c_stop) /\ pc' = "stop" /\ result' = r

\* The next byte of the message, the next message after a repeated start, or the end; x is the
\* transfer with what has been done so far.
GoOn(x) ==
    LET m == x.msgs[x.i]
    IN  IF x.n < Len(m.buf)
        THEN /\ Call(IF m.rd THEN i2c_readb ELSE i2c_writeb(m.buf[x.n + 1]))
             /\ pc' = IF m.rd THEN "recv" ELSE "send"
             /\ xfer' = [x EXCEPT !.data = 0, !.ret = "none"]
             /\ UNCHANGED result
        ELSE IF x.i < Len(x.msgs)
        THEN /\ Call(i2c_restart \o i2c_writeb(AddressByte(x.msgs[x.i + 1])))
             /\ pc' = "address"
             /\ xfer' = [x EXCEPT !.i = @ + 1, !.n = 0, !.try = 0]
             /\ UNCHANGED result
        ELSE Out("num") /\ xfer' = x

\* A faulty variant: the attempt is not counted.
NotCounted(x) == x

\* One more attempt to send the address.
Counted(x) == [x EXCEPT !.try = @ + 1]

\* i2c_send_address returns to its loop: once more after a stop and a start, or out.
i2c_send_address ==
    /\ At("address")
    /\ \/ xfer.ret = "ack" /\ GoOn(xfer)
       \/ /\ xfer.ret # "ack" /\ xfer.try < retries
          /\ xfer' = Counted(xfer)
          /\ Call(i2c_stop \o i2c_start \o i2c_writeb(AddressByte(Message)))
          /\ UNCHANGED <<pc, result>>
       \/ xfer.ret # "ack" /\ xfer.try = retries /\ Out("error") /\ UNCHANGED xfer
    /\ Unhindered /\ UNCHANGED <<since, unlocked>>

\* Whether i2c_writeb returned a positive value.
Acknowledged(ret) == ret = "ack"

\* i2c_send_bytes, after a byte.
i2c_send_bytes ==
    /\ At("send")
    /\ IF Acknowledged(xfer.ret) THEN GoOn([xfer EXCEPT !.n = @ + 1]) ELSE Out("error") /\ UNCHANGED xfer
    /\ Unhindered /\ UNCHANGED <<since, unlocked>>

\* i2c_recv_bytes, after i2c_readb: the byte is stored and acknowledged, unless it is the last.
i2c_recv_bytes ==
    /\ At("recv")
    /\ IF xfer.ret = "timeout" THEN Out("error") /\ UNCHANGED xfer
       ELSE /\ xfer' = [xfer EXCEPT !.n = @ + 1, !.read = Append(@, xfer.data)]
            /\ Call(i2c_send_ack_or_nack(xfer.n + 1 < Len(Message.buf)))
            /\ pc' = "recvack"
            /\ UNCHANGED result
    /\ Unhindered /\ UNCHANGED <<since, unlocked>>

AfterAck ==
    /\ At("recvack")
    /\ IF xfer.ret = "timeout" THEN Out("error") /\ UNCHANGED xfer ELSE GoOn(xfer)
    /\ Unhindered /\ UNCHANGED <<since, unlocked>>

\* i2c_bit_xfer returns.
Return ==
    /\ At("stop")
    /\ pc' = "idle"
    /\ Unhindered /\ UNCHANGED <<ops, done, xfer, result, since, unlocked>>

\* A reset: the pins float, one a little earlier than the other.
Reset ==
    /\ pc # "boot" /\ faults.others < MaxFaults
    /\ LET Released(first) ==
             LET d == Sees(dev, <<SCL, SDA>>, first, TRUE)
             IN  Sees(d, <<first[1], IF d.sda = 0 THEN 0 ELSE first[2]>>,
                      <<IF d.hold THEN 0 ELSE 1, d.sda>>, TRUE)
       IN  \E first \in {Levels(1, sda), Levels(scl, 1)} : dev' = Released(first)
    /\ scl' = 1 /\ sda' = 1
    /\ pc' = "boot" /\ Call(<<>>) /\ xfer' = NoXfer
    /\ result' = "none" /\ since' = 0 /\ unlocked' = "no" /\ busy' = FALSE
    /\ faults' = [faults EXCEPT !.others = @ + 1]
    /\ UNCHANGED <<retries, skipped>>

Thread ==
    \/ Line \/ rt_hw_i2c_init \/ stm32_i2c_bus_unlock \/ UnlockReturns
    \/ i2c_send_address \/ i2c_send_bytes \/ i2c_recv_bytes \/ AfterAck \/ Return

Next == Thread \/ (\E msgs \in Transfers : rt_i2c_transfer(msgs)) \/ HoldClock \/ ReleaseClock \/ Reset

\* The thread goes on with what it has begun.
Spec == Init /\ [][Next]_vars /\ WF_vars(Thread)

-----------------------------------------------------------------------------
(* Properties.                                                              *)

\* The first k of the parts, one after the other.
Joined(parts) ==
    LET joined[k \in 0 .. Len(parts)] == IF k = 0 THEN <<>> ELSE joined[k - 1] \o parts[k]
    IN  joined

\* What the first k messages of a transfer write to the sensor, and what they read of it, which
\* sends its bytes from the first one on after each address.
Written(msgs) == Joined([k \in 1 .. Len(msgs) |-> IF msgs[k].rd THEN <<>> ELSE msgs[k].buf])

FirstBytes(regs, n) == [j \in 1 .. n |-> regs[((j - 1) % Len(regs)) + 1]]

Read(regs, msgs) ==
    Joined([k \in 1 .. Len(msgs) |-> IF msgs[k].rd THEN FirstBytes(regs, Len(msgs[k].buf)) ELSE <<>>])

\* A transfer that reports success has done what it says: the sensor has received the bytes that
\* were to be written, no more and no less, and those that were read are the sensor's.  What comes
\* after a reset that stm32_i2c_bus_unlock could not mend is true again from the third transfer on:
\* until then the sensor may take the address for data, and acknowledge it.
Truthful ==
    pc = "idle" /\ result = "num" /\ ~skipped /\ (unlocked = "failed" => since = 3) =>
        /\ dev.got = Written(xfer.msgs)[Len(xfer.msgs)]
        /\ xfer.read = Read(dev.regs, xfer.msgs)[Len(xfer.msgs)]

\* After a transfer, whether it failed or not, the bus is free: the lines are high and the sensor
\* waits for a start condition; after a reset that stm32_i2c_bus_unlock could not mend, after the
\* second transfer.
BusFree ==
    pc = "idle" /\ since > 0 /\ ~skipped /\ (unlocked = "failed" => since > 1) =>
        SCL = 1 /\ SDA = 1 /\ dev.st = "idle"

\* A transfer succeeds if the sensor answers; after a reset that left the data line low, from the
\* second transfer on, wherever the reset struck.
WorksAgain ==
    pc = "idle" /\ since > 0 /\ ~skipped /\ ~busy /\ (unlocked # "no" => since > 1) => result = "num"

\* A transfer comes to its end, even if the sensor holds the clock for ever.
Ends == pc \notin {"idle", "boot"} ~> pc \in {"idle", "boot"}
=============================================================================
