----------------------------- MODULE I2cBusProofs -----------------------------
(***************************************************************************)
(* The I2C bus keeps its promises for every transfer, every content of the *)
(* sensor and any number of resets, held clocks and unanswered addresses.  *)
(***************************************************************************)
EXTENDS I2cBus, ListsProofs, TLAPS

-----------------------------------------------------------------------------
(* The sensor by itself.                                                    *)

States == {"idle", "address", "receive", "send"}
Dev == [st : States, bit : Nat, sr : Nat, sda : {0, 1}, hold : BOOLEAN,
        ack : {0, 1}, regs : Registers, sent : Nat, got : Seq(Nat)]

\* Where the sensor can be in a byte when the clock is at c, and what it does to the data line.
DevAt(d, c) ==
    /\ d.st = "idle" => d.sda = 1 /\ ~d.hold
    /\ d.st \in {"address", "receive"} => d.bit \in 0 .. 8 + c /\ (d.sda = 0 <=> d.bit = 8 + c)
    /\ d.st = "send" =>
         /\ d.bit \in c .. 8 + c
         /\ d.bit = 8 + c => d.sda = 1
         /\ d.bit < 8 + c => d.sda = BitOf(Sending(d), 7 + c - d.bit)

SensorInv == scl \in {0, 1} /\ sda \in {0, 1} /\ dev \in Dev /\ DevAt(dev, SCL)

-----------------------------------------------------------------------------
(* The thread and the sensor.                                               *)

left == Len(ops) - done

\* The clocks of the current byte so far, at each place of i2c_writeb ...
Clocks(w, c) ==
    IF w >= 6 THEN ((29 - w) \div 3) + (IF (29 - w) % 3 = 2 THEN c ELSE 0)
    ELSE IF w >= 4 THEN 8 ELSE IF w = 3 THEN 8 + c ELSE 9

\* ... and how the pins are.
WritePins(byte) ==
    \/ \E i \in 0 .. 7 :
         \/ left = 29 - 3 * i /\ (IF i = 0 THEN scl = 0 ELSE SCL = 1)
         \/ left = 28 - 3 * i /\ scl = 0
         \/ left = 27 - 3 * i /\ sda = BitOf(byte, 7 - i)
    \/ left = 5 /\ SCL = 1
    \/ left = 4 /\ scl = 0
    \/ left = 3 /\ sda = 1
    \/ left \in {1, 2} /\ SCL = 1 /\ sda = 1

\* After k clocks, the last of which is still high if c = 1: the sensor takes in the byte, ...
Together(d, k, byte) ==
    /\ d.st \in {"address", "receive"} /\ d.bit = k
    /\ d.sr = byte \div pow2[IF k <= 8 THEN 9 - k ELSE 1]
\* ... or it is one clock behind, because it began with an acknowledge, ...
Behind(d, k, c) ==
    /\ d.st = "receive"
    /\ d.bit = IF k = 0 THEN 8 ELSE IF k = 1 /\ c = 1 THEN 9 ELSE k - 1
\* ... or it takes the first bit for the acknowledge of the byte it has sent.
Late(d, k, c) ==
    /\ d.st = "send"
    /\ \/ k = 0 /\ d.bit = 8
       \/ k = 1 /\ c = 1 /\ d.bit = 9 /\ d.ack = 0

First(u) == unlocked = u /\ since = 1

\* The sensor takes all that comes for data.
AsData == unlocked = "failed" /\ since \in {1, 2}

\* The sensor does not listen.
Deaf == dev.st = "idle" /\ (busy \/ First("yes"))

Free == SCL = 1 /\ sda = 1 /\ dev.st = "idle"

\* In the acknowledge of a byte, with c the level of the clock.
Stuck(c) == First("failed") /\ dev.st = "receive" /\ dev.bit = 8 + c

\* The sensor does not see the start condition.
Unheard == First("yes") /\ (dev.st = "idle" \/ Late(dev, 0, 0))

Openings == {i2c_start, i2c_restart, i2c_stop \o i2c_start}

\* Before the address: up to a start condition, ...
OpeningPhase ==
    \/ left = 34 /\ scl = 0 /\ (dev.sda = 1 \/ Stuck(0))
    \/ left = 33 /\ Len(ops) = 34 /\ sda = 0 /\ (dev.sda = 1 \/ Stuck(SCL))
    \/ left = 32 /\ Len(ops) = 34 /\ SCL = 1 /\ sda = 0 /\ (dev.sda = 1 \/ Stuck(1))
    \/ left = 33 /\ Len(ops) = 33 /\ scl = 0 /\ dev.sda = 1
    \/ left = 32 /\ Len(ops) = 33 /\ sda = 1 /\ dev.sda = 1
    \/ /\ left = 31 /\ sda = 1
       /\ \/ SCL = 1 /\ dev.sda = 1
          \/ scl = 0 /\ (Unheard \/ Stuck(0))
          \/ SCL = 1 /\ AsData /\ dev.st = "receive" /\ dev.bit = 9
    \/ /\ left = 30
       /\ \/ SCL = 1 /\ dev.st = "address" /\ dev.bit = 0 /\ dev.sr = 0
          \/ scl = 0 /\ (Unheard \/ Stuck(0))
          \/ SCL = 1 /\ AsData /\ dev.st = "receive" /\ dev.bit = 9

\* ... within it: the sensor follows, ...
Following(byte) ==
    /\ Together(dev, Clocks(left, SCL), byte)
    /\ dev.st = "receive" => AsData
    /\ left = 1 => xfer.ret = "ack"

\* ... or does not, ...
Missing ==
    /\ \/ Deaf
       \/ Behind(dev, Clocks(left, SCL), SCL) /\ First("failed")
       \/ Late(dev, Clocks(left, SCL), SCL) /\ First("yes")
    /\ left = 1 => xfer.ret = "nack"

\* ... and after it.
AddressEnd ==
    /\ left = 0 /\ scl = 0
    /\ \/ /\ xfer.ret = "ack" /\ dev.bit = 0
          /\ dev.st = "receive" => dev.sr = 0
          /\ \/ dev.st = IF Message.rd THEN "send" ELSE "receive"
             \/ AsData /\ dev.st = "receive"
          /\ dev.st = "send" => dev.sent = 0
       \/ xfer.ret = "nack" /\ (Deaf \/ Stuck(0))

AddressPhase ==
    LET byte == AddressByte(Message)
    IN  /\ xfer.n = 0
        /\ ops \in {p \o i2c_writeb(byte) : p \in Openings}
        /\ \/ OpeningPhase
           \/ left \in 1 .. 29 /\ WritePins(byte) /\ (Following(byte) \/ Missing)
           \/ AddressEnd

SendPhase ==
    /\ ~Message.rd /\ xfer.n < Len(Message.buf)
    /\ ops = i2c_writeb(Message.buf[xfer.n + 1])
    /\ \/ /\ left \in 1 .. 29 /\ WritePins(Message.buf[xfer.n + 1])
          /\ Together(dev, Clocks(left, SCL), Message.buf[xfer.n + 1]) /\ dev.st = "receive"
          /\ left = 1 => xfer.ret = "ack"
       \/ /\ left = 0 /\ scl = 0 /\ xfer.ret = "ack"
          /\ dev.st = "receive" /\ dev.bit = 0 /\ dev.sr = 0

\* The sensor sends its byte number n, or takes the clocks for those of a byte it receives.
Reading(k, n) ==
    /\ dev.bit = k
    /\ \/ dev.st = "send" /\ dev.sent = n
       \/ AsData /\ dev.st = "receive"

\* The thread has k bits of the byte.
Taken(k) == dev.st = "send" => xfer.data = Sending(dev) \div pow2[9 - k]

RecvBits(n) ==
    \/ left = 25 /\ scl = 0 /\ Reading(0, n) /\ Taken(0)
    \/ \E i \in 0 .. 7 :
         \/ left = 24 - 3 * i /\ Reading(i + SCL, n) /\ sda = 1 /\ Taken(i)
         \/ left = 23 - 3 * i /\ Reading(i + 1, n) /\ SCL = 1 /\ sda = 1 /\ Taken(i)
         \/ left = 22 - 3 * i /\ Reading(i + 1, n) /\ SCL = 1 /\ sda = 1 /\ Taken(i + 1)
    \/ left = 0 /\ Reading(8, n) /\ scl = 0 /\ sda = 1 /\ Taken(8)

RecvPhase ==
    /\ Message.rd /\ xfer.n < Len(Message.buf) /\ xfer.ret = "none"
    /\ ops = i2c_readb /\ RecvBits(xfer.n)

\* ... and acknowledges byte number n if more are to come.
AckBits(more, n) ==
    LET acked == dev.st = "send" => dev.ack = IF more THEN 1 ELSE 0
    IN  \/ left = 3 /\ scl = 0 /\ Reading(8, n - 1)
        \/ left = 2 /\ Reading(8 + SCL, n - 1) /\ sda = (IF more THEN 0 ELSE 1) /\ (SCL = 1 => acked)
        \/ left = 1 /\ SCL = 1 /\ Reading(9, n - 1) /\ acked
        \/ left = 0 /\ scl = 0 /\ (IF more THEN Reading(0, n)
                                  ELSE dev.st = "idle" \/ (AsData /\ dev.st = "receive" /\ dev.bit = 0))

RecvAckPhase ==
    LET more == xfer.n < Len(Message.buf)
    IN  /\ Message.rd /\ xfer.n \in 1 .. Len(Message.buf) /\ xfer.ret = "none"
        /\ ops = i2c_send_ack_or_nack(more) /\ AckBits(more, xfer.n)

Failed == result = "error" => busy \/ (unlocked # "no" /\ since = 1)

StopPhase ==
    /\ ops = i2c_stop /\ result \in {"num", "error"} /\ Failed
    /\ \/ left = 3 /\ scl = 0 /\ (dev.sda = 1 \/ Stuck(0))
       \/ left = 2 /\ sda = 0 /\ (dev.sda = 1 \/ Stuck(SCL))
       \/ left = 1 /\ SCL = 1 /\ sda = 0 /\ (dev.sda = 1 \/ Stuck(1))
       \/ left = 0 /\ SCL = 1 /\ sda = 1 /\ (dev.st = "idle" \/ Stuck(1))

IdlePhase ==
    /\ left = 0 /\ sda = 1 /\ since \in 0 .. 3
    /\ since = 0 =>
         \/ unlocked = "no" /\ Free
         \/ unlocked = "yes" /\ scl = 0 /\ (dev.st = "idle" \/ Late(dev, 0, 0))
         \/ unlocked = "failed" /\ scl = 0 /\ dev.st = "receive" /\ dev.bit = 8
    /\ since > 0 =>
         /\ result \in {"num", "error"} /\ Failed
         /\ SCL = 1 /\ (dev.st = "idle" \/ Stuck(1))

UnlockPhase ==
    /\ ops = stm32_i2c_gpio_init /\ since = 0
    /\ \/ left = 4
       \/ left = 3 /\ scl = 0
       \/ left = 2 /\ scl = 0 /\ sda = 0
       \/ left = 1 /\ SCL = 1 /\ sda = 0
       \/ left = 0 /\ SCL = 1 /\ sda = 1 /\ (dev.st = "idle" \/ dev.sda = 0)

\* After p pulses.
Pulsed(p, c) ==
    \/ dev.st = "idle"
    \/ p = 0 /\ c = 1 /\ dev.st \in {"address", "receive"} /\ dev.bit = 9
    \/ p > 0 /\ dev.st = "receive" /\ dev.bit = p - 1 + c
    \/ dev.st = "send" /\ dev.bit >= p - 1 + c /\ (dev.bit = 9 => dev.ack = 0)

PulsePhase ==
    /\ since = 0 /\ sda = 1
    /\ \/ unlocked = "no" /\ left = 0 /\ Free
       \/ /\ unlocked = "yes" /\ ops = Cycle(18, UnlockPulse)
          /\ \/ left = 18 /\ SCL = 1 /\ Pulsed(0, 1)
             \/ \E p \in 1 .. 9 : left = 18 - 2 * p /\ scl = 0 /\ Pulsed(p, 0)
             \/ \E p \in 0 .. 8 : left = 17 - 2 * p /\ SCL = 1 /\ Pulsed(p, 1)

Transferring == {"address", "send", "recv", "recvack", "stop"}

Xfer == [msgs : Transfers \cup {<<>>}, i : Nat, n : Nat, try : Nat, ret : {"none", "ack", "nack", "timeout"},
         data : Nat, read : Seq(Nat)]

BusInv ==
    /\ pc \in Transferring \cup {"boot", "unlock", "unlocked", "idle"}
    /\ Len(ops) \in Nat /\ done \in Nat /\ xfer \in Xfer /\ unlocked \in {"no", "yes", "failed"}
    /\ since = 0 => result = "none"
    /\ pc = "boot" => left = 0 /\ since = 0
    /\ pc = "unlock" => UnlockPhase
    /\ pc = "unlocked" => PulsePhase
    /\ pc = "idle" => IdlePhase
    /\ pc \in Transferring =>
         since \in 1 .. 3 /\ xfer.msgs \in Transfers /\ xfer.i \in 1 .. Len(xfer.msgs)
    /\ pc = "address" => AddressPhase
    /\ pc = "send" => SendPhase
    /\ pc = "recv" => RecvPhase
    /\ pc = "recvack" => RecvAckPhase
    /\ pc = "stop" => StopPhase

\* What sensor d has got and transfer x has read so far, with n bytes of the message written or m read.
SoundFor(x, d, n, m) ==
    /\ d.got = Written(x.msgs)[x.i - 1] \o (IF x.msgs[x.i].rd THEN <<>> ELSE SubSeq(x.msgs[x.i].buf, 1, n))
    /\ x.read = Read(d.regs, x.msgs)[x.i - 1] \o (IF x.msgs[x.i].rd THEN FirstBytes(d.regs, m) ELSE <<>>)

Sound(n, m) == SoundFor(xfer, dev, n, m)

TruthInv ==
    (unlocked = "failed" => since = 3) =>
        /\ pc = "address" => Sound(0, 0)
        /\ pc = "send" => Sound(IF left <= 4 THEN xfer.n + 1 ELSE xfer.n, 0)
        /\ pc \in {"recv", "recvack"} => Sound(0, xfer.n)
        /\ pc \in {"stop", "idle"} /\ result = "num" =>
             /\ dev.got = Written(xfer.msgs)[Len(xfer.msgs)]
             /\ xfer.read = Read(dev.regs, xfer.msgs)[Len(xfer.msgs)]

Inv == SensorInv /\ (skipped \/ (BusInv /\ TruthInv))

-----------------------------------------------------------------------------
(* Bits of a byte.                                                          *)

LEMMA Bits ==
    ASSUME NEW byte \in Byte, NEW k \in 0 .. 7
    PROVE  /\ BitOf(byte, 7 - k) \in {0, 1}
           /\ 2 * (byte \div pow2[9 - k]) + BitOf(byte, 7 - k) = byte \div pow2[9 - (k + 1)]
           /\ byte \div pow2[9] = 0 /\ byte \div pow2[1] = byte
<1>1. byte \in Nat /\ byte < 256
  BY DEF Byte
<1>2. k = 0 \/ k = 1 \/ k = 2 \/ k = 3 \/ k = 4 \/ k = 5 \/ k = 6 \/ k = 7
  OBVIOUS
<1>3. CASE k = 0
  BY <1>1, <1>3 DEF BitOf, pow2
<1>4. CASE k = 1
  BY <1>1, <1>4 DEF BitOf, pow2
<1>5. CASE k = 2
  BY <1>1, <1>5 DEF BitOf, pow2
<1>6. CASE k = 3
  BY <1>1, <1>6 DEF BitOf, pow2
<1>7. CASE k = 4
  BY <1>1, <1>7 DEF BitOf, pow2
<1>8. CASE k = 5
  BY <1>1, <1>8 DEF BitOf, pow2
<1>9. CASE k = 6
  BY <1>1, <1>9 DEF BitOf, pow2
<1>10. CASE k = 7
  BY <1>1, <1>10 DEF BitOf, pow2
<1> QED BY <1>2, <1>3, <1>4, <1>5, <1>6, <1>7, <1>8, <1>9, <1>10

-----------------------------------------------------------------------------
(* What the sensor sees: from d to e, nothing, an edge of the clock, a      *)
(* start or a stop condition.                                               *)

AlikeR(d, e) ==
    /\ e.st = d.st /\ e.bit = d.bit /\ e.sr = d.sr /\ e.sda = d.sda /\ e.ack = d.ack
    /\ e.regs = d.regs /\ e.sent = d.sent /\ e.got = d.got

RiseR(d, level, e) ==
    /\ e.st = d.st /\ e.sda = d.sda /\ e.regs = d.regs /\ e.sent = d.sent /\ e.got = d.got
    /\ d.st # "idle" =>
         /\ e.bit = d.bit + 1
         /\ e.sr = IF d.bit < 8 /\ d.st # "send" THEN 2 * d.sr + level ELSE d.sr
         /\ e.ack = IF d.bit = 8 THEN 1 - level ELSE d.ack

IdleR(d, e) == e.st = "idle" /\ e.sda = 1 /\ e.regs = d.regs /\ e.got = d.got

FallR(d, answers, e) ==
    /\ e.regs = d.regs
    /\ d.st = "idle" => IdleR(d, e)
    /\ d.st = "address" /\ d.bit = 8 =>
         IF d.sr \div 2 = Address /\ answers
         THEN e.st = d.st /\ e.bit = d.bit /\ e.sr = d.sr /\ e.sda = 0 /\ e.got = d.got
         ELSE IdleR(d, e)
    /\ d.st = "receive" /\ d.bit = 8 =>
         e.st = d.st /\ e.bit = d.bit /\ e.sr = d.sr /\ e.sda = 0 /\ e.got = Append(d.got, d.sr)
    /\ d.st = "send" /\ d.bit = 8 =>
         e.st = d.st /\ e.bit = d.bit /\ e.sda = 1 /\ e.sent = d.sent /\ e.got = d.got
    /\ d.bit = 9 /\ d.st = "address" /\ d.sr % 2 = 1 =>
         e.st = "send" /\ e.bit = 0 /\ e.sent = 0 /\ e.sda = BitOf(Sending(e), 7) /\ e.got = d.got
    /\ d.bit = 9 /\ (d.st = "receive" \/ (d.st = "address" /\ d.sr % 2 = 0)) =>
         e.st = "receive" /\ e.bit = 0 /\ e.sr = 0 /\ e.sda = 1 /\ e.got = d.got
    /\ d.bit = 9 /\ d.st = "send" /\ d.ack = 0 => IdleR(d, e)
    /\ d.bit = 9 /\ d.st = "send" /\ d.ack = 1 =>
         /\ e.st = "send" /\ e.bit = 0 /\ e.sent = d.sent + 1 /\ e.sda = BitOf(Sending(e), 7)
         /\ e.got = d.got
    /\ d.st = "send" /\ d.bit \in 1 .. 7 =>
         /\ e.st = d.st /\ e.bit = d.bit /\ e.sent = d.sent /\ e.sda = BitOf(Sending(d), 7 - d.bit)
         /\ e.got = d.got
    /\ d.st \in {"address", "receive"} /\ d.bit < 8 => AlikeR(d, e)

StartR(d, e) == e.st = "address" /\ e.bit = 0 /\ e.sr = 0 /\ e.sda = 1 /\ e.regs = d.regs /\ e.got = d.got

LEMMA SendingBit ==
    ASSUME NEW d \in Dev, NEW i \in 0 .. 7
    PROVE  Sending(d) \in Byte /\ BitOf(Sending(d), i) \in {0, 1} /\ (d.sent = 0 => Sending(d) = d.regs[1])
<1>1. d.regs \in Seq(Byte) /\ d.regs # <<>> /\ d.sent \in Nat
  BY BusAssumption DEF Dev
<1> DEFINE r == d.regs
           n == d.sent
<1>2. Len(r) \in Nat \ {0} /\ r \in [1 .. Len(r) -> Byte]
  BY <1>1
<1> HIDE DEF r, n
<1>3. n \in Nat
  BY <1>1 DEF n
<1>4. (n % Len(r)) + 1 \in 1 .. Len(r) /\ (n = 0 => (n % Len(r)) + 1 = 1)
  BY <1>2, <1>3
<1>5. r[(n % Len(r)) + 1] \in Byte
  BY <1>2, <1>4
<1>6. Sending(d) = r[(n % Len(r)) + 1]
  BY Zenon DEF Sending, r, n
<1>7. 7 - i \in 0 .. 7 /\ 7 - (7 - i) = i
  OBVIOUS
<1>8. Sending(d) \in Byte
  BY <1>5, <1>6
<1> QED BY <1>4, <1>6, <1>7, <1>8, Bits DEF r, n

LEMMA RisesIs ==
    ASSUME NEW d \in Dev, NEW v \in {0, 1}
    PROVE  LET e == Rises(d, v) IN e \in Dev /\ RiseR(d, v, e) /\ e.hold = d.hold
<1>1. CASE d.st = "idle"
  BY <1>1 DEF Rises, RiseR
<1>2. CASE d.st # "idle"
  <2> DEFINE b == d.bit + 1
             s == IF d.bit < 8 /\ d.st # "send" THEN 2 * d.sr + v ELSE d.sr
             a == IF d.bit = 8 THEN 1 - v ELSE d.ack
             e == [d EXCEPT !.bit = b, !.sr = s, !.ack = a]
  <2>1. d.bit \in Nat /\ d.sr \in Nat /\ d.ack \in {0, 1}
    BY DEF Dev
  <2>2. b \in Nat /\ s \in Nat /\ a \in {0, 1}
    BY <2>1
  <2>3. Rises(d, v) = e
    BY <1>2, Zenon DEF Rises
  <2> HIDE DEF b, s, a
  <2>4. e \in Dev /\ e.st = d.st /\ e.bit = b /\ e.sr = s /\ e.sda = d.sda /\ e.hold = d.hold
        /\ e.ack = a /\ e.regs = d.regs /\ e.sent = d.sent /\ e.got = d.got
    BY <2>2, ZenonT(60) DEF Dev, States
  <2> HIDE DEF e
  <2> QED BY <2>3, <2>4 DEF RiseR, b, s, a
<1> QED BY <1>1, <1>2

LEMMA IdleIs ==
    ASSUME NEW d \in Dev
    PROVE  LET e == Idle(d) IN e \in Dev /\ IdleR(d, e) /\ e.hold = d.hold
<1> DEFINE o == 1
<1>1. o \in {0, 1} /\ "idle" \in States
  BY DEF States
<1>2. Idle(d) = [d EXCEPT !.st = "idle", !.sda = o]
  BY DEF Idle
<1> HIDE DEF o
<1>3. LET e == Idle(d)
      IN  e \in Dev /\ e.st = "idle" /\ e.sda = o /\ e.regs = d.regs /\ e.got = d.got /\ e.hold = d.hold
  BY <1>1, <1>2, ZenonT(60) DEF Dev, States
<1> QED BY <1>3 DEF IdleR, o

\* A falling edge, place by place; what it makes of the sensor is what FallR says.
LEMMA FallsIs ==
    ASSUME NEW d \in Dev, DevAt(d, 1), NEW answers \in BOOLEAN
    PROVE  LET e == Falls(d, answers) IN e \in Dev /\ FallR(d, answers, e) /\ e.hold = d.hold
<1> DEFINE z == 0
           o == 1
           f == Falls(d, answers)
<1>1. z \in {0, 1} /\ o \in {0, 1} /\ z \in Nat
  OBVIOUS
<1>2. /\ d.bit \in Nat /\ d.sr \in Nat /\ d.ack \in {0, 1} /\ d.sent \in Nat /\ d.got \in Seq(Nat)
      /\ d.st \in States /\ d.sr % 2 \in {0, 1}
  BY DEF Dev
<1>3. CASE d.st = "idle"
  <2>1. f = d
    BY <1>3, Zenon DEF Falls
  <2>2. d.sda = 1
    BY <1>3 DEF DevAt
  <2> QED BY <1>3, <2>1, <2>2 DEF FallR, IdleR
<1>4. CASE d.st = "address" /\ d.bit = 8
  <2>1. CASE d.sr \div 2 = Address /\ answers
    <3>1. f = [d EXCEPT !.sda = z]
      BY <1>4, <2>1 DEF Falls
    <3> HIDE DEF z, f
    <3>2. /\ f \in Dev /\ f.sda = z /\ f.st = d.st /\ f.bit = d.bit /\ f.sr = d.sr
          /\ f.regs = d.regs /\ f.got = d.got /\ f.hold = d.hold
      BY <1>1, <3>1, ZenonT(60) DEF Dev, States
    <3>3. IF d.sr \div 2 = Address /\ answers
          THEN f.st = d.st /\ f.bit = d.bit /\ f.sr = d.sr /\ f.sda = 0 /\ f.got = d.got
          ELSE IdleR(d, f)
      BY <2>1, <3>2, Zenon DEF z
    <3> QED BY <1>4, <3>2, <3>3 DEF FallR, f
  <2>2. CASE ~(d.sr \div 2 = Address /\ answers)
    <3>1. f = Idle(d)
      BY <1>4, <2>2 DEF Falls
    <3> HIDE DEF f
    <3>2. f \in Dev /\ IdleR(d, f) /\ f.hold = d.hold
      BY <3>1, IdleIs, Zenon
    <3>3. f.regs = d.regs
      BY <3>2 DEF IdleR
    <3>4. IF d.sr \div 2 = Address /\ answers
          THEN f.st = d.st /\ f.bit = d.bit /\ f.sr = d.sr /\ f.sda = 0 /\ f.got = d.got
          ELSE IdleR(d, f)
      BY <2>2, <3>2, Zenon
    <3> QED BY <1>4, <3>2, <3>3, <3>4 DEF FallR, f
  <2> QED BY <2>1, <2>2
<1>5. CASE d.st = "receive" /\ d.bit = 8
  <2> DEFINE g == Append(d.got, d.sr)
  <2>1. g \in Seq(Nat)
    BY <1>2
  <2>2. f = [d EXCEPT !.sda = z, !.got = g]
    BY <1>5 DEF Falls
  <2> HIDE DEF z, g, f
  <2>3. /\ f \in Dev /\ f.sda = z /\ f.st = d.st /\ f.bit = d.bit /\ f.sr = d.sr
        /\ f.regs = d.regs /\ f.got = g /\ f.hold = d.hold
    BY <1>1, <2>1, <2>2, ZenonT(60) DEF Dev, States
  <2> QED BY <1>5, <2>3 DEF FallR, z, f, g
<1>6. CASE d.st = "send" /\ d.bit = 8
  <2>1. f = [d EXCEPT !.sda = o]
    BY <1>6 DEF Falls
  <2> HIDE DEF o, f
  <2>2. /\ f \in Dev /\ f.sda = o /\ f.st = d.st /\ f.bit = d.bit /\ f.sent = d.sent
        /\ f.regs = d.regs /\ f.got = d.got /\ f.hold = d.hold
    BY <1>1, <2>1, ZenonT(60) DEF Dev, States
  <2> QED BY <1>6, <2>2 DEF FallR, o, f
<1>7. CASE d.st = "address" /\ d.bit = 9 /\ d.sr % 2 = 1
  <2> DEFINE b == BitOf(d.regs[1], 7)
  <2>1. f = [d EXCEPT !.st = "send", !.bit = z, !.sent = z, !.sda = b]
    BY <1>7 DEF Falls
  <2>2. b \in {0, 1}
    <3>1. d.regs \in Seq(Byte) /\ d.regs # <<>>
      BY BusAssumption DEF Dev
    <3>2. d.regs[1] \in Byte /\ 0 \in 0 .. 7
      BY <3>1
    <3> QED BY <3>2, Bits
  <2> HIDE DEF z, b, f
  <2>3. /\ f \in Dev /\ f.st = "send" /\ f.bit = z /\ f.sent = z /\ f.sda = b
        /\ f.regs = d.regs /\ f.got = d.got /\ f.hold = d.hold
    BY <1>1, <2>1, <2>2, ZenonT(60) DEF Dev, States
  <2>4. Sending(f) = f.regs[1]
    <3>1. z \in 0 .. 7
      BY DEF z
    <3> QED BY <2>3, <3>1, SendingBit DEF z
  <2>5. f.sda = BitOf(Sending(f), 7)
    BY <2>3, <2>4 DEF b
  <2> QED BY <1>7, <2>3, <2>5 DEF FallR, z, f
<1>8. CASE d.bit = 9 /\ (d.st = "receive" \/ (d.st = "address" /\ d.sr % 2 = 0))
  <2>1. f = [d EXCEPT !.st = "receive", !.bit = z, !.sr = z, !.sda = o]
    BY <1>8 DEF Falls
  <2> HIDE DEF z, o, f
  <2>2. /\ f \in Dev /\ f.st = "receive" /\ f.bit = z /\ f.sr = z /\ f.sda = o
        /\ f.regs = d.regs /\ f.got = d.got /\ f.hold = d.hold
    BY <1>1, <2>1, ZenonT(60) DEF Dev, States
  <2> QED BY <1>8, <2>2 DEF FallR, z, o, f
<1>9. CASE d.st = "send" /\ d.bit = 9 /\ d.ack = 0
  <2>1. f = Idle(d)
    BY <1>9 DEF Falls
  <2> HIDE DEF f
  <2>2. f \in Dev /\ IdleR(d, f) /\ f.hold = d.hold
    BY <2>1, IdleIs, Zenon
  <2>3. f.regs = d.regs
    BY <2>2 DEF IdleR
  <2> QED BY <1>9, <2>2, <2>3 DEF FallR, f
<1>10. CASE d.st = "send" /\ d.bit = 9 /\ d.ack = 1
  <2> DEFINE n == d.sent + 1
             e == [d EXCEPT !.bit = z, !.sent = n]
             b == BitOf(Sending(e), 7)
  <2>1. f = [e EXCEPT !.sda = b]
    BY <1>10 DEF Falls
  <2>2. n \in Nat
    BY <1>2
  <2> HIDE DEF z, n, f
  <2>3. /\ e \in Dev /\ e.st = d.st /\ e.bit = z /\ e.sent = n
        /\ e.regs = d.regs /\ e.got = d.got /\ e.hold = d.hold
    BY <1>1, <2>2, ZenonT(60) DEF Dev, States
  <2> HIDE DEF e
  <2>4. b \in {0, 1}
    <3>1. 7 \in 0 .. 7
      OBVIOUS
    <3> QED BY <2>3, <3>1, SendingBit
  <2> HIDE DEF b
  <2>5. /\ f \in Dev /\ f.st = e.st /\ f.bit = e.bit /\ f.sent = e.sent /\ f.sda = b
        /\ f.regs = e.regs /\ f.got = e.got /\ f.hold = e.hold
    BY <2>1, <2>3, <2>4, ZenonT(60) DEF Dev, States
  <2>6. f.sda = BitOf(Sending(f), 7)
    <3>1. Sending(f) = Sending(e)
      BY <2>5, Zenon DEF Sending
    <3> QED BY <2>5, <3>1, Zenon DEF b
  <2> QED BY <1>10, <2>3, <2>5, <2>6 DEF FallR, z, n, f
<1>11. CASE d.st = "send" /\ d.bit \in 1 .. 7
  <2> DEFINE b == BitOf(Sending(d), 7 - d.bit)
  <2>1. f = [d EXCEPT !.sda = b]
    BY <1>11 DEF Falls
  <2>2. b \in {0, 1}
    <3>1. 7 - d.bit \in 0 .. 7
      BY <1>11
    <3> QED BY <3>1, SendingBit
  <2> HIDE DEF b, f
  <2>3. /\ f \in Dev /\ f.st = d.st /\ f.bit = d.bit /\ f.sent = d.sent /\ f.sda = b
        /\ f.regs = d.regs /\ f.got = d.got /\ f.hold = d.hold
    BY <2>1, <2>2, ZenonT(60) DEF Dev, States
  <2> QED BY <1>11, <2>3 DEF FallR, f, b
<1>12. CASE d.st \in {"address", "receive"} /\ d.bit < 8
  <2>1. f = d
    BY <1>12 DEF Falls
  <2> HIDE DEF f
  <2> QED BY <1>12, <2>1, <1>2 DEF FallR, AlikeR, f
<1>13. \/ d.st = "idle" \/ (d.st = "address" /\ d.bit = 8) \/ (d.st = "receive" /\ d.bit = 8)
       \/ (d.st = "send" /\ d.bit = 8) \/ (d.st = "address" /\ d.bit = 9 /\ d.sr % 2 = 1)
       \/ (d.bit = 9 /\ (d.st = "receive" \/ (d.st = "address" /\ d.sr % 2 = 0)))
       \/ (d.st = "send" /\ d.bit = 9 /\ d.ack = 0) \/ (d.st = "send" /\ d.bit = 9 /\ d.ack = 1)
       \/ (d.st = "send" /\ d.bit \in 1 .. 7) \/ (d.st \in {"address", "receive"} /\ d.bit < 8)
  BY <1>2 DEF DevAt, States
<1> QED BY <1>3, <1>4, <1>5, <1>6, <1>7, <1>8, <1>9, <1>10, <1>11, <1>12, <1>13, Zenon

\* Each of them leaves the sensor where it can be.
LEMMA RiseKeeps ==
    ASSUME NEW d \in Dev, NEW e \in Dev, NEW v \in {0, 1}, DevAt(d, 0), RiseR(d, v, e), ~e.hold
    PROVE  DevAt(e, 1)
<1>1. d.bit \in Nat /\ e.bit \in Nat /\ d.st \in States /\ d.sda \in {0, 1}
  BY DEF Dev
<1>2. e.regs = d.regs /\ e.sent = d.sent /\ e.st = d.st /\ e.sda = d.sda
  BY DEF RiseR
<1>3. Sending(e) = Sending(d)
  BY <1>2, Zenon DEF Sending
<1>4. CASE d.st = "idle"
  BY <1>2, <1>4 DEF DevAt
<1>5. CASE d.st # "idle"
  <2>1. e.bit = d.bit + 1
    BY <1>5 DEF RiseR
  <2>2. CASE d.st = "send"
    <3>1. /\ d.bit \in 0 .. 8
          /\ d.bit = 8 => d.sda = 1
          /\ d.bit < 8 => d.sda = BitOf(Sending(d), 7 + 0 - d.bit)
      BY <2>2 DEF DevAt
    <3>2. 7 + 0 - d.bit = 7 + 1 - e.bit
      BY <1>1, <2>1
    <3> QED BY <1>1, <1>2, <1>3, <2>1, <2>2, <3>1, <3>2 DEF DevAt
  <2>3. CASE d.st \in {"address", "receive"}
    <3>1. d.bit \in 0 .. 8 /\ (d.sda = 0 <=> d.bit = 8)
      BY <2>3 DEF DevAt
    <3> QED BY <1>1, <1>2, <2>1, <2>3, <3>1 DEF DevAt
  <2> QED BY <1>1, <1>5, <2>2, <2>3 DEF States
<1> QED BY <1>4, <1>5

LEMMA FallKeeps ==
    ASSUME NEW d \in Dev, NEW e \in Dev, NEW a \in BOOLEAN, DevAt(d, 1), FallR(d, a, e), ~e.hold
    PROVE  DevAt(e, 0)
<1>1. /\ d.bit \in Nat /\ e.bit \in Nat /\ d.st \in States /\ d.sda \in {0, 1} /\ e.sda \in {0, 1}
      /\ d.sr \in Nat /\ d.ack \in {0, 1} /\ d.sr % 2 \in {0, 1}
  BY DEF Dev
<1>2. CASE IdleR(d, e)
  BY <1>2 DEF IdleR, DevAt
<1>3. CASE d.st = "idle"
  BY <1>2, <1>3 DEF FallR
<1>4. CASE d.st = "address"
  <2>1. d.bit \in 0 .. 9 /\ (d.sda = 0 <=> d.bit = 9)
    BY <1>4 DEF DevAt
  <2>2. CASE d.bit < 8
    <3>1. AlikeR(d, e)
      BY <1>4, <2>2 DEF FallR
    <3>2. e.st = d.st /\ e.bit = d.bit /\ e.sda = d.sda
      BY <3>1 DEF AlikeR
    <3> QED BY <1>1, <1>4, <2>1, <2>2, <3>2 DEF DevAt
  <2>3. CASE d.bit = 8
    <3>1. IF d.sr \div 2 = Address /\ a
          THEN e.st = d.st /\ e.bit = d.bit /\ e.sr = d.sr /\ e.sda = 0 /\ e.got = d.got
          ELSE IdleR(d, e)
      BY <1>4, <2>3 DEF FallR
    <3>2. (e.st = d.st /\ e.bit = d.bit /\ e.sda = 0) \/ IdleR(d, e)
      BY <3>1, Zenon
    <3> QED BY <1>2, <1>4, <2>3, <3>2 DEF DevAt
  <2>4. CASE d.bit = 9
    <3>1. \/ e.st = "send" /\ e.bit = 0 /\ e.sda = BitOf(Sending(e), 7)
          \/ e.st = "receive" /\ e.bit = 0 /\ e.sda = 1
      BY <1>1, <1>4, <2>4 DEF FallR
    <3> QED BY <3>1 DEF DevAt
  <2> QED BY <2>1, <2>2, <2>3, <2>4
<1>5. CASE d.st = "receive"
  <2>1. d.bit \in 0 .. 9 /\ (d.sda = 0 <=> d.bit = 9)
    BY <1>5 DEF DevAt
  <2>2. CASE d.bit < 8
    <3>1. AlikeR(d, e)
      BY <1>5, <2>2 DEF FallR
    <3>2. e.st = d.st /\ e.bit = d.bit /\ e.sda = d.sda
      BY <3>1 DEF AlikeR
    <3> QED BY <1>1, <1>5, <2>1, <2>2, <3>2 DEF DevAt
  <2>3. CASE d.bit = 8
    <3>1. e.st = "receive" /\ e.bit = 8 /\ e.sda = 0
      BY <1>5, <2>3 DEF FallR
    <3> QED BY <3>1 DEF DevAt
  <2>4. CASE d.bit = 9
    <3>1. e.st = "receive" /\ e.bit = 0 /\ e.sda = 1
      BY <1>5, <2>4 DEF FallR
    <3> QED BY <3>1 DEF DevAt
  <2> QED BY <2>1, <2>2, <2>3, <2>4
<1>6. CASE d.st = "send"
  <2>1. d.bit \in 1 .. 9
    BY <1>6 DEF DevAt
  <2>2. CASE d.bit \in 1 .. 7
    <3>1. e.st = "send" /\ e.bit = d.bit /\ e.sent = d.sent /\ e.sda = BitOf(Sending(d), 7 - d.bit) /\ e.regs = d.regs
      BY <1>6, <2>2 DEF FallR
    <3>2. Sending(e) = Sending(d)
      BY <3>1, Zenon DEF Sending
    <3>3. 7 - d.bit = 7 + 0 - e.bit
      BY <3>1, <1>1
    <3> QED BY <2>2, <3>1, <3>2, <3>3 DEF DevAt
  <2>3. CASE d.bit = 8
    <3>1. e.st = "send" /\ e.bit = 8 /\ e.sda = 1
      BY <1>6, <2>3 DEF FallR
    <3> QED BY <3>1 DEF DevAt
  <2>4. CASE d.bit = 9
    <3>1. IdleR(d, e) \/ (e.st = "send" /\ e.bit = 0 /\ e.sda = BitOf(Sending(e), 7))
      BY <1>1, <1>6, <2>4 DEF FallR
    <3> QED BY <1>2, <3>1 DEF DevAt
  <2> QED BY <2>1, <2>2, <2>3, <2>4
<1> QED BY <1>1, <1>3, <1>4, <1>5, <1>6 DEF States

LEMMA StartIs ==
    ASSUME NEW d \in Dev
    PROVE  LET e == [d EXCEPT !.st = "address", !.bit = 0, !.sr = 0, !.sda = 1]
           IN  e \in Dev /\ StartR(d, e) /\ e.hold = d.hold
<1> DEFINE z == 0
           o == 1
           e == [d EXCEPT !.st = "address", !.bit = z, !.sr = z, !.sda = o]
<1>1. z \in Nat /\ o \in {0, 1} /\ "address" \in States
  BY DEF States
<1> HIDE DEF z, o
<1>2. /\ e \in Dev /\ e.st = "address" /\ e.bit = z /\ e.sr = z /\ e.sda = o
      /\ e.regs = d.regs /\ e.got = d.got /\ e.hold = d.hold
  BY <1>1, ZenonT(60) DEF Dev, States
<1> HIDE DEF e
<1>3. e \in Dev /\ StartR(d, e) /\ e.hold = d.hold
  BY <1>2 DEF StartR, z, o
<1>4. e = [d EXCEPT !.st = "address", !.bit = 0, !.sr = 0, !.sda = 1]
  BY DEF e, z, o
<1> QED BY <1>3, <1>4, Zenon

LEMMA HeldIs ==
    ASSUME NEW d \in Dev, NEW h \in BOOLEAN
    PROVE  LET e == [d EXCEPT !.hold = h] IN e \in Dev /\ AlikeR(d, e) /\ e.hold = h
BY ZenonT(60) DEF Dev, States, AlikeR

LEMMA GotIs ==
    ASSUME NEW d \in Dev
    PROVE  LET e == [d EXCEPT !.got = <<>>]
           IN  /\ e \in Dev /\ e.hold = d.hold /\ e.got = <<>> /\ e.st = d.st /\ e.bit = d.bit /\ e.sr = d.sr
               /\ e.sda = d.sda /\ e.ack = d.ack /\ e.regs = d.regs /\ e.sent = d.sent
<1>1. <<>> \in Seq(Nat)
  OBVIOUS
<1> QED BY <1>1, ZenonT(60) DEF Dev, States

LEMMA AlikeKeeps ==
    ASSUME NEW d, NEW e, NEW c, DevAt(d, c), AlikeR(d, e), d.st = "idle" => ~e.hold
    PROVE  DevAt(e, c)
<1>1. Sending(e) = Sending(d)
  BY Zenon DEF Sending, AlikeR
<1>2. e.st = d.st /\ e.bit = d.bit /\ e.sda = d.sda
  BY DEF AlikeR
<1> QED BY <1>1, <1>2, Zenon DEF DevAt

-----------------------------------------------------------------------------
(* What a step on the lines is to the sensor.                               *)

Calm == SCL' = SCL /\ AlikeR(dev, dev')
Rise == SCL = 0 /\ SCL' = 1 /\ RiseR(dev, SDA, dev')
Fall(answers) == SCL = 1 /\ SCL' = 0 /\ FallR(dev, answers, dev')
Start == SCL = 1 /\ SCL' = 1 /\ StartR(dev, dev')
Stop == SCL = 1 /\ SCL' = 1 /\ IdleR(dev, dev')

LEMMA SensorFacts ==
    ASSUME SensorInv
    PROVE  /\ SCL \in {0, 1} /\ SDA \in {0, 1} /\ dev \in Dev /\ DevAt(dev, SCL) /\ dev.hold \in BOOLEAN
           /\ dev.sda \in {0, 1} /\ scl \in {0, 1} /\ sda \in {0, 1}
           /\ SCL = 1 <=> (scl = 1 /\ ~dev.hold)
           /\ dev.sda = 1 => SDA = sda
           /\ dev.sda = 0 => SDA = 0
           /\ scl = 0 => SCL = 0
           /\ dev.st = "idle" => dev.sda = 1 /\ ~dev.hold
<1>1. dev \in Dev /\ dev.hold \in BOOLEAN /\ dev.sda \in {0, 1} /\ scl \in {0, 1} /\ sda \in {0, 1} /\ DevAt(dev, SCL)
  BY DEF SensorInv, Dev
<1>2. dev.st = "idle" => dev.sda = 1 /\ ~dev.hold
  BY <1>1 DEF DevAt
<1> QED BY <1>1, <1>2 DEF SCL, SDA

\* The lines at rest, or one that changes while it does not matter.
LEMMA CalmKeeps ==
    ASSUME SensorInv, dev' \in Dev, AlikeR(dev, dev'), dev'.hold = dev.hold, scl' \in {0, 1}, sda' \in {0, 1},
           scl' = scl \/ dev.hold
    PROVE  SensorInv' /\ Calm
<1>1. SCL' = SCL
  BY SensorFacts DEF SCL
<1>2. DevAt(dev, SCL) /\ (dev.st = "idle" => ~dev'.hold)
  BY SensorFacts
<1>3. DevAt(dev', SCL)
  BY <1>2, AlikeKeeps
<1> QED BY <1>1, <1>3 DEF SensorInv, Calm

LEMMA AlikeSelf == ASSUME NEW d PROVE AlikeR(d, d)
BY DEF AlikeR

LEMMA SeesRise == ASSUME NEW d, NEW v, NEW w, NEW a PROVE Sees(d, <<0, v>>, <<1, w>>, a) = Rises(d, w)
BY DEF Sees

LEMMA SeesFall == ASSUME NEW d, NEW v, NEW w, NEW a PROVE Sees(d, <<1, v>>, <<0, w>>, a) = Falls(d, a)
BY DEF Sees

LEMMA SeesLow == ASSUME NEW d, NEW v, NEW w, NEW a PROVE Sees(d, <<0, v>>, <<0, w>>, a) = d
BY DEF Sees

LEMMA SeesSame == ASSUME NEW d, NEW v, NEW a PROVE Sees(d, <<1, v>>, <<1, v>>, a) = d
BY DEF Sees

LEMMA SeesStart ==
    ASSUME NEW d, NEW a
    PROVE  Sees(d, <<1, 1>>, <<1, 0>>, a) = [d EXCEPT !.st = "address", !.bit = 0, !.sr = 0, !.sda = 1]
BY DEF Sees

LEMMA SeesStop == ASSUME NEW d, NEW a PROVE Sees(d, <<1, 0>>, <<1, 1>>, a) = Idle(d)
BY DEF Sees

LEMMA SclLow ==
    ASSUME SensorInv, Drive(0, sda)
    PROVE  /\ SensorInv' /\ scl' = 0 /\ sda' = sda /\ dev'.hold = dev.hold
           /\ SCL = 0 => Calm /\ busy' = busy
           /\ SCL = 1 => \/ Fall(TRUE) /\ busy' = busy
                         \/ Fall(FALSE) /\ busy' = TRUE /\ dev.st = "address" /\ dev.bit = 8
<1> DEFINE old == <<SCL, SDA>>
           new == Levels(0, sda)
<1>1. new = <<0, SDA>>
  BY SensorFacts DEF Levels, SDA
<1>2. CASE SCL = 0
  <2>1. dev' = Sees(dev, old, new, TRUE) /\ scl' = 0 /\ sda' = sda /\ busy' = busy
    BY <1>2 DEF Drive
  <2>2. dev' = dev
    <3>1. dev' = Sees(dev, <<0, SDA>>, <<0, SDA>>, TRUE)
      BY <1>1, <1>2, <2>1
    <3> QED BY <3>1, SeesLow, Zenon
  <2>3. scl = 0 \/ dev.hold
    BY <1>2, SensorFacts
  <2>4. SensorInv' /\ Calm
    BY <2>1, <2>2, <2>3, SensorFacts, CalmKeeps, AlikeSelf
  <2>5. SCL # 1
    BY <1>2
  <2> QED BY <2>1, <2>2, <2>4, <2>5, Zenon
<1>3. CASE SCL = 1
  <2>1. PICK a \in BOOLEAN : /\ dev' = Sees(dev, old, new, a) /\ scl' = 0 /\ sda' = sda
                             /\ a => busy' = busy
                             /\ ~a => busy' = TRUE /\ dev.st = "address" /\ dev.bit = 8
    BY DEF Drive
  <2>2. dev' = Falls(dev, a)
    <3>1. dev' = Sees(dev, <<1, SDA>>, <<0, SDA>>, a)
      BY <1>1, <1>3, <2>1
    <3> QED BY <3>1, SeesFall, Zenon
  <2>3. dev \in Dev /\ DevAt(dev, 1) /\ ~dev.hold
    BY <1>3, SensorFacts
  <2>4. dev' \in Dev /\ FallR(dev, a, dev') /\ dev'.hold = dev.hold
    BY <2>2, <2>3, FallsIs, Zenon
  <2>5. DevAt(dev', 0) /\ ~dev'.hold
    BY <2>3, <2>4, FallKeeps
  <2>6. SCL' = 0
    BY <2>1, <2>5 DEF SCL
  <2>7. sda \in {0, 1}
    BY SensorFacts
  <2>8. SensorInv'
    BY <2>1, <2>4, <2>5, <2>6, <2>7 DEF SensorInv
  <2>9. Fall(a)
    BY <1>3, <2>4, <2>6 DEF Fall
  <2>10. SCL # 0
    BY <1>3
  <2>11. CASE a
    <3>1. Fall(TRUE) /\ busy' = busy
      BY <2>1, <2>9, <2>11
    <3> QED BY <2>1, <2>4, <2>8, <2>10, <3>1, Zenon
  <2>12. CASE ~a
    <3>1. Fall(FALSE) /\ busy' = TRUE /\ dev.st = "address" /\ dev.bit = 8
      BY <2>1, <2>9, <2>12
    <3> QED BY <2>1, <2>4, <2>8, <2>10, <3>1, Zenon
  <2> QED BY <2>11, <2>12
<1> QED BY <1>2, <1>3, SensorFacts

LEMMA SclHigh ==
    ASSUME SensorInv, Drive(1, sda)
    PROVE  /\ SensorInv' /\ scl' = 1 /\ sda' = sda /\ dev'.hold = dev.hold /\ busy' = busy
           /\ SCL = 1 \/ dev.hold => Calm
           /\ SCL = 0 /\ ~dev.hold => Rise
<1> DEFINE old == <<SCL, SDA>>
           new == Levels(1, sda)
<1>1. dev' = Sees(dev, old, new, TRUE) /\ scl' = 1 /\ sda' = sda /\ busy' = busy
  BY DEF Drive
<1>2. new = <<IF dev.hold THEN 0 ELSE 1, SDA>>
  BY DEF Levels, SDA
<1>3. CASE SCL = 1 \/ dev.hold
  <2>1. new = old
    BY <1>2, <1>3, SensorFacts
  <2>2. dev' = dev
    <3>1. \/ dev' = Sees(dev, <<0, SDA>>, <<0, SDA>>, TRUE)
          \/ dev' = Sees(dev, <<1, SDA>>, <<1, SDA>>, TRUE)
      BY <1>1, <2>1, SensorFacts
    <3>2. CASE dev' = Sees(dev, <<0, SDA>>, <<0, SDA>>, TRUE)
      BY <3>2, SeesLow, Zenon
    <3>3. CASE dev' = Sees(dev, <<1, SDA>>, <<1, SDA>>, TRUE)
      BY <3>3, SeesSame, Zenon
    <3> QED BY <3>1, <3>2, <3>3
  <2>3. scl = 1 \/ dev.hold
    BY <1>3, SensorFacts
  <2>4. SensorInv' /\ Calm
    BY <1>1, <2>2, <2>3, SensorFacts, CalmKeeps, AlikeSelf
  <2>5. ~(SCL = 0 /\ ~dev.hold)
    BY <1>3
  <2> QED BY <1>1, <2>2, <2>4, <2>5, Zenon
<1>4. CASE SCL = 0 /\ ~dev.hold
  <2>1. dev' = Rises(dev, SDA)
    <3>1. dev' = Sees(dev, <<0, SDA>>, <<1, SDA>>, TRUE)
      BY <1>1, <1>2, <1>4
    <3> QED BY <3>1, SeesRise, Zenon
  <2>2. dev \in Dev /\ DevAt(dev, 0) /\ SDA \in {0, 1} /\ sda \in {0, 1}
    BY <1>4, SensorFacts
  <2>3. dev' \in Dev /\ RiseR(dev, SDA, dev') /\ dev'.hold = dev.hold
    BY <2>1, <2>2, RisesIs, Zenon
  <2>4. DevAt(dev', 1) /\ ~dev'.hold
    BY <1>4, <2>2, <2>3, RiseKeeps
  <2>5. SCL' = 1
    BY <1>1, <2>4 DEF SCL
  <2>6. SensorInv'
    BY <1>1, <2>2, <2>3, <2>4, <2>5 DEF SensorInv
  <2>7. Rise
    BY <1>4, <2>3, <2>5 DEF Rise
  <2>8. SCL # 1
    BY <1>4
  <2> QED BY <1>1, <1>4, <2>3, <2>6, <2>7, <2>8
<1> QED BY <1>3, <1>4, SensorFacts

LEMMA SdaTo ==
    ASSUME SensorInv, NEW a \in {0, 1}, Drive(scl, a)
    PROVE  /\ SensorInv' /\ scl' = scl /\ sda' = a /\ dev'.hold = dev.hold /\ busy' = busy
           /\ SCL = 0 \/ dev.sda = 0 \/ a = sda => Calm
           /\ SCL = 1 /\ dev.sda = 1 /\ sda = 1 /\ a = 0 => Start
           /\ SCL = 1 /\ dev.sda = 1 /\ sda = 0 /\ a = 1 => Stop
<1> DEFINE old == <<SCL, SDA>>
           new == Levels(scl, a)
<1>1. dev' = Sees(dev, old, new, TRUE) /\ scl' = scl /\ sda' = a /\ busy' = busy
  <2>1. ~(SCL = 1 /\ scl = 0)
    BY SensorFacts
  <2> QED BY <2>1 DEF Drive
<1>2. new = <<SCL, IF dev.sda = 0 THEN 0 ELSE a>>
  BY DEF Levels, SCL
<1>3. CASE SCL = 0 \/ dev.sda = 0 \/ a = sda
  <2>1. dev' = dev
    <3> DEFINE w == IF dev.sda = 0 THEN 0 ELSE a
    <3>1. w \in {0, 1} /\ (dev.sda = 0 \/ a = sda => w = SDA)
      BY SensorFacts DEF SDA
    <3>2. new = <<SCL, w>>
      BY <1>2
    <3> HIDE DEF w
    <3>3. \/ dev' = Sees(dev, <<0, SDA>>, <<0, w>>, TRUE)
          \/ dev' = Sees(dev, <<1, SDA>>, <<1, SDA>>, TRUE)
      BY <1>1, <1>3, <3>1, <3>2, SensorFacts
    <3>4. CASE dev' = Sees(dev, <<0, SDA>>, <<0, w>>, TRUE)
      BY <3>4, SeesLow, Zenon
    <3>5. CASE dev' = Sees(dev, <<1, SDA>>, <<1, SDA>>, TRUE)
      BY <3>5, SeesSame, Zenon
    <3> QED BY <3>3, <3>4, <3>5
  <2>2. SensorInv' /\ Calm
    BY <1>1, <2>1, SensorFacts, CalmKeeps, AlikeSelf
  <2>3. ~(SCL = 1 /\ dev.sda = 1 /\ sda = 1 /\ a = 0) /\ ~(SCL = 1 /\ dev.sda = 1 /\ sda = 0 /\ a = 1)
    BY <1>3
  <2> QED BY <1>1, <2>1, <2>2, <2>3
<1>4. CASE SCL = 1 /\ dev.sda = 1 /\ a # sda
  <2>1. dev \in Dev /\ ~dev.hold /\ sda \in {0, 1} /\ SDA = sda /\ scl \in {0, 1}
    BY <1>4, SensorFacts
  <2>2. CASE sda = 1
    <3>1. dev' = [dev EXCEPT !.st = "address", !.bit = 0, !.sr = 0, !.sda = 1]
      <4>1. dev' = Sees(dev, <<1, 1>>, <<1, 0>>, TRUE)
        BY <1>1, <1>2, <1>4, <2>1, <2>2
      <4> QED BY <4>1, SeesStart
    <3>2. dev' \in Dev /\ StartR(dev, dev') /\ dev'.hold = dev.hold
      BY <2>1, <3>1, StartIs, Zenon
    <3>3. SCL' = 1
      BY <1>1, <1>4, <2>1, <3>2 DEF SCL
    <3>4. DevAt(dev', 1)
      BY <3>2 DEF StartR, DevAt
    <3> QED BY <1>1, <1>4, <2>1, <2>2, <3>2, <3>3, <3>4 DEF SensorInv, Start
  <2>3. CASE sda = 0
    <3>1. dev' = Idle(dev)
      <4>1. dev' = Sees(dev, <<1, 0>>, <<1, 1>>, TRUE)
        BY <1>1, <1>2, <1>4, <2>1, <2>3
      <4> QED BY <4>1, SeesStop
    <3>2. dev' \in Dev /\ IdleR(dev, dev') /\ dev'.hold = dev.hold
      BY <2>1, <3>1, IdleIs, Zenon
    <3>3. SCL' = 1
      BY <1>1, <1>4, <2>1, <3>2 DEF SCL
    <3>4. DevAt(dev', 1)
      BY <2>1, <3>2 DEF IdleR, DevAt
    <3>5. SensorInv' /\ Stop
      BY <1>1, <1>4, <2>1, <3>2, <3>3, <3>4 DEF SensorInv, Stop
    <3> QED BY <1>1, <1>4, <2>3, <3>2, <3>5
  <2> QED BY <2>1, <2>2, <2>3
<1> QED BY <1>3, <1>4, SensorFacts

-----------------------------------------------------------------------------
(* One step of a function.                                                  *)

Framed == pc' = pc /\ ops' = ops /\ retries' = retries /\ result' = result /\ since' = since /\ unlocked' = unlocked

\* The step is done, or the thread waits for the clock.
Onward == Framed /\ done' = done + 1 /\ xfer' = xfer
Waiting == Framed /\ done' = done /\ xfer' = xfer

LEMMA LineFrame == ASSUME Line PROVE Framed /\ done < Len(ops)
BY DEF Line, Framed

LEMMA DoesSda ==
    ASSUME SensorInv, Line, NEW a \in {0, 1}, ops[done + 1] = IF a = 1 THEN "SDA_H" ELSE "SDA_L"
    PROVE  /\ SensorInv' /\ Onward /\ skipped' = skipped
           /\ scl' = scl /\ sda' = a /\ dev'.hold = dev.hold /\ busy' = busy
           /\ SCL = 0 \/ dev.sda = 0 \/ a = sda => Calm
           /\ SCL = 1 /\ dev.sda = 1 /\ sda = 1 /\ a = 0 => Start
           /\ SCL = 1 /\ dev.sda = 1 /\ sda = 0 /\ a = 1 => Stop
<1>1. Drive(scl, a) /\ done' = done + 1 /\ xfer' = xfer /\ skipped' = skipped
  <2>1. CASE a = 1
    BY <2>1 DEF Line
  <2>2. CASE a = 0
    BY <2>2 DEF Line
  <2> QED BY <2>1, <2>2
<1>2. Onward
  BY <1>1, LineFrame DEF Onward
<1> QED BY <1>1, <1>2, SdaTo

LEMMA DoesLow ==
    ASSUME SensorInv, Line, ops[done + 1] = "SCL_L"
    PROVE  /\ SensorInv' /\ Onward /\ skipped' = skipped
           /\ scl' = 0 /\ sda' = sda /\ dev'.hold = dev.hold
           /\ SCL = 0 => Calm /\ busy' = busy
           /\ SCL = 1 => \/ Fall(TRUE) /\ busy' = busy
                         \/ Fall(FALSE) /\ busy' = TRUE /\ dev.st = "address" /\ dev.bit = 8
<1>1. Drive(0, sda) /\ done' = done + 1 /\ xfer' = xfer /\ skipped' = skipped
  BY DEF Line
<1>2. Onward
  BY <1>1, LineFrame DEF Onward
<1> QED BY <1>1, <1>2, SclLow, Zenon

LEMMA DoesHigh ==
    ASSUME SensorInv, Line, ops[done + 1] \in {"SCL", "SCL_H", "TRY_SCL_H"}
    PROVE  /\ SensorInv' /\ sda' = sda
           /\ ~skipped' =>
                /\ ~skipped /\ busy' = busy
                /\ \/ Waiting /\ dev.hold /\ dev'.hold /\ Calm
                   \/ /\ Onward /\ ~dev'.hold /\ SCL' = 1
                      /\ SCL = 1 => Calm
                      /\ SCL = 0 => Rise
<1>1. CASE /\ Drive(1, sda) /\ done' = done + 1 /\ xfer' = xfer
           /\ \/ skipped' = skipped /\ ~dev.hold
              \/ skipped' = (skipped \/ dev.hold)
  <2>1. SensorInv' /\ scl' = 1 /\ sda' = sda /\ dev'.hold = dev.hold /\ busy' = busy
    BY <1>1, SclHigh, Zenon
  <2>2. SUFFICES ASSUME ~skipped'
                 PROVE  /\ ~skipped /\ ~dev.hold /\ Onward
                        /\ SCL' = 1
                        /\ SCL = 1 => Calm
                        /\ SCL = 0 => Rise
    BY <2>1, <2>2, Zenon
  <2>3. ~skipped /\ ~dev.hold /\ done' = done + 1 /\ xfer' = xfer
    <3>1. CASE skipped' = skipped /\ ~dev.hold
      BY <1>1, <2>2, <3>1, Zenon
    <3>2. CASE skipped' = (skipped \/ dev.hold)
      <4>1. ~(skipped \/ dev.hold)
        BY <2>2, <3>2, Zenon
      <4> QED BY <1>1, <4>1, Zenon
    <3> QED BY <1>1, <3>1, <3>2, Zenon
  <2>4. Onward
    BY <2>3, LineFrame DEF Onward
  <2>5. SCL' = 1
    BY <2>1, <2>3 DEF SCL
  <2> QED BY <1>1, <2>3, <2>4, <2>5, SclHigh, Zenon
<1>2. CASE dev.hold /\ scl = 0 /\ scl' = 1 /\ UNCHANGED <<sda, dev, done, xfer, faults, busy, skipped>>
  <2>1. SensorInv' /\ Calm
    BY <1>2, CalmKeeps, AlikeSelf, SensorFacts
  <2>2. Waiting
    BY <1>2, LineFrame DEF Waiting
  <2> QED BY <1>2, <2>1, <2>2
<1>3. CASE skipped' = TRUE /\ UNCHANGED <<scl, sda, dev, faults, busy>>
  <2>1. SensorInv'
    BY <1>3, CalmKeeps, AlikeSelf, SensorFacts
  <2> QED BY <1>3, <2>1
<1> QED BY <1>1, <1>2, <1>3 DEF Line

LEMMA DoesGet ==
    ASSUME SensorInv, Line, ops[done + 1] \in {"GET_ACK", "GET_SDA"}
    PROVE  /\ SensorInv' /\ Calm /\ Framed /\ done' = done + 1 /\ skipped' = skipped
           /\ scl' = scl /\ sda' = sda /\ dev' = dev /\ busy' = busy
           /\ ops[done + 1] = "GET_ACK" => xfer' = [xfer EXCEPT !.ret = IF SDA = 0 THEN "ack" ELSE "nack"]
           /\ ops[done + 1] = "GET_SDA" => xfer' = [xfer EXCEPT !.data = (2 * @ + SDA) % 256]
<1>1. /\ UNCHANGED <<scl, sda, dev, busy, skipped>> /\ done' = done + 1
      /\ ops[done + 1] = "GET_ACK" => xfer' = [xfer EXCEPT !.ret = IF SDA = 0 THEN "ack" ELSE "nack"]
      /\ ops[done + 1] = "GET_SDA" => xfer' = [xfer EXCEPT !.data = (2 * @ + SDA) % 256]
  BY DEF Line
<1>2. SensorInv' /\ Calm
  BY <1>1, CalmKeeps, AlikeSelf, SensorFacts
<1> QED BY <1>1, <1>2, LineFrame

LEMMA LineOps ==
    ASSUME Line
    PROVE  ops[done + 1] \in {"SDA_L", "SDA_H", "SCL_L", "SCL", "SCL_H", "TRY_SCL_H", "GET_ACK", "GET_SDA"}
BY DEF Line

\* The sensor goes on whatever the thread does.
LEMMA LineKeeps == ASSUME SensorInv, Line PROVE SensorInv'
<1>1. CASE ops[done + 1] \in {"SDA_L", "SDA_H"}
  <2>1. \E a \in {0, 1} : ops[done + 1] = IF a = 1 THEN "SDA_H" ELSE "SDA_L"
    <3>1. CASE ops[done + 1] = "SDA_L"
      <4>1. ops[done + 1] = IF 0 = 1 THEN "SDA_H" ELSE "SDA_L"
        BY <3>1
      <4> QED BY <4>1
    <3>2. CASE ops[done + 1] = "SDA_H"
      <4>1. ops[done + 1] = IF 1 = 1 THEN "SDA_H" ELSE "SDA_L"
        BY <3>2
      <4> QED BY <4>1
    <3> QED BY <1>1, <3>1, <3>2
  <2> QED BY <2>1, DoesSda
<1>2. CASE ops[done + 1] = "SCL_L"
  BY <1>2, DoesLow
<1>3. CASE ops[done + 1] \in {"SCL", "SCL_H", "TRY_SCL_H"}
  BY <1>3, DoesHigh
<1>4. CASE ops[done + 1] \in {"GET_ACK", "GET_SDA"}
  BY <1>4, DoesGet
<1> QED BY <1>1, <1>2, <1>3, <1>4, LineOps

LEMMA ReleaseIs ==
    ASSUME SensorInv, ReleaseClock
    PROVE  /\ SensorInv' /\ ~dev'.hold /\ Framed /\ done' = done /\ xfer' = xfer /\ skipped' = skipped
           /\ scl' = scl /\ sda' = sda /\ busy' = busy /\ dev.hold /\ SCL = 0
           /\ scl = 0 => Calm
           /\ scl = 1 => Rise
<1> DEFINE d == [dev EXCEPT !.hold = FALSE]
<1>1. /\ dev.hold /\ scl' = scl /\ sda' = sda /\ busy' = busy /\ done' = done /\ xfer' = xfer /\ skipped' = skipped /\ Framed
      /\ dev' = IF scl = 1 THEN Rises(d, SDA) ELSE d
  BY DEF ReleaseClock, Framed
<1>2. dev \in Dev /\ SCL = 0 /\ SDA \in {0, 1} /\ DevAt(dev, 0) /\ dev.st # "idle" /\ scl \in {0, 1} /\ sda \in {0, 1}
  BY <1>1, SensorFacts
<1>3. d \in Dev /\ AlikeR(dev, d) /\ d.hold = FALSE
  BY <1>2, HeldIs
<1> HIDE DEF d
<1>4. DevAt(d, 0)
  BY <1>2, <1>3, AlikeKeeps
<1>5. CASE scl = 0
  <2>1. dev' = d
    BY <1>1, <1>5
  <2>2. SCL' = 0
    BY <1>1, <1>5, <2>1, <1>3 DEF SCL
  <2>3. SensorInv' /\ Calm
    BY <1>1, <1>2, <1>3, <1>4, <2>1, <2>2 DEF SensorInv, Calm
  <2> QED BY <1>1, <1>2, <1>3, <1>5, <2>1, <2>3
<1>6. CASE scl = 1
  <2>1. dev' = Rises(d, SDA)
    BY <1>1, <1>6
  <2>2. dev' \in Dev /\ RiseR(d, SDA, dev') /\ dev'.hold = FALSE
    BY <1>2, <1>3, <2>1, RisesIs
  <2>3. DevAt(dev', 1)
    BY <1>2, <1>3, <1>4, <2>2, RiseKeeps
  <2>4. SCL' = 1
    BY <1>1, <1>6, <2>2 DEF SCL
  <2>5. RiseR(dev, SDA, dev')
    BY <1>3, <2>2 DEF RiseR, AlikeR
  <2>6. SensorInv' /\ Rise
    BY <1>1, <1>2, <2>2, <2>3, <2>4, <2>5 DEF SensorInv, Rise
  <2> QED BY <1>1, <1>2, <1>6, <2>2, <2>6
<1> QED BY <1>2, <1>5, <1>6

LEMMA HoldIs ==
    ASSUME SensorInv, HoldClock
    PROVE  /\ SensorInv' /\ Framed /\ done' = done /\ xfer' = xfer /\ skipped' = skipped
           /\ scl' = scl /\ sda' = sda /\ busy' = busy /\ Calm
<1>1. /\ SCL = 0 /\ dev.st # "idle" /\ scl' = scl /\ sda' = sda /\ busy' = busy /\ done' = done
      /\ xfer' = xfer /\ skipped' = skipped /\ Framed /\ dev' = [dev EXCEPT !.hold = TRUE]
  BY DEF HoldClock, Framed
<1>2. dev \in Dev /\ DevAt(dev, 0) /\ scl \in {0, 1} /\ sda \in {0, 1}
  BY <1>1, SensorFacts
<1>3. dev' \in Dev /\ AlikeR(dev, dev') /\ dev'.hold = TRUE
  BY <1>1, <1>2, HeldIs
<1>4. DevAt(dev', 0)
  BY <1>1, <1>2, <1>3, AlikeKeeps
<1>5. SCL' = 0
  BY <1>3 DEF SCL
<1>6. SensorInv' /\ Calm
  BY <1>1, <1>2, <1>3, <1>4, <1>5 DEF SensorInv, Calm
<1> QED BY <1>1, <1>6

Bit == {0, 1}

\* Whatever a line does, the sensor is where it can be.
Seen(d, c, v, k, w) == Sees(d, <<c, v>>, <<k, w>>, TRUE)

LEMMA SeesKeeps ==
    ASSUME NEW d \in Dev, NEW c \in Bit, NEW v \in Bit, NEW k \in Bit, NEW w \in Bit,
           DevAt(d, c), d.hold => c = 0 /\ k = 0
    PROVE  Seen(d, c, v, k, w) \in Dev /\ DevAt(Seen(d, c, v, k, w), k) /\ Seen(d, c, v, k, w).hold = d.hold
<1> DEFINE e == Sees(d, <<c, v>>, <<k, w>>, TRUE)
<1> SUFFICES e \in Dev /\ DevAt(e, k) /\ e.hold = d.hold
  BY DEF Seen
<1> USE DEF Bit
<1>1. CASE c = 0 /\ k = 1
  <2>1. e = Rises(d, w)
    BY <1>1, SeesRise
  <2>2. e \in Dev /\ RiseR(d, w, e) /\ e.hold = d.hold
    BY <2>1, RisesIs, Zenon
  <2>3. ~d.hold /\ DevAt(d, 0)
    BY <1>1
  <2>4. ~e.hold
    BY <2>2, <2>3, Zenon
  <2> HIDE DEF e
  <2> QED BY <1>1, <2>2, <2>3, <2>4, RiseKeeps
<1>2. CASE c = 1 /\ k = 0
  <2>1. e = Falls(d, TRUE)
    BY <1>2, SeesFall
  <2>2. DevAt(d, 1)
    BY <1>2
  <2>3. e \in Dev /\ FallR(d, TRUE, e) /\ e.hold = d.hold
    BY <2>1, <2>2, FallsIs, Zenon
  <2>4. ~d.hold
    BY <1>2
  <2>5. ~e.hold
    BY <2>3, <2>4, Zenon
  <2> HIDE DEF e
  <2> QED BY <1>2, <2>2, <2>3, <2>5, FallKeeps
<1>3. CASE c = 0 /\ k = 0
  <2>1. e = d
    BY <1>3, SeesLow
  <2> QED BY <1>3, <2>1
<1>4. CASE c = 1 /\ k = 1 /\ v = w
  <2>1. e = d
    BY <1>4, SeesSame
  <2> QED BY <1>4, <2>1
<1>5. CASE c = 1 /\ k = 1 /\ v = 1 /\ w = 0
  <2>1. e = [d EXCEPT !.st = "address", !.bit = 0, !.sr = 0, !.sda = 1]
    BY <1>5, SeesStart
  <2> HIDE DEF e
  <2>2. e \in Dev /\ StartR(d, e) /\ e.hold = d.hold
    BY <2>1, StartIs, Zenon
  <2> QED BY <1>5, <2>2 DEF StartR, DevAt
<1>6. CASE c = 1 /\ k = 1 /\ v = 0 /\ w = 1
  <2>1. e = Idle(d)
    BY <1>6, SeesStop
  <2> HIDE DEF e
  <2>2. e \in Dev /\ IdleR(d, e) /\ e.hold = d.hold
    BY <2>1, IdleIs, Zenon
  <2> QED BY <1>6, <2>2 DEF IdleR, DevAt
<1> QED BY <1>1, <1>2, <1>3, <1>4, <1>5, <1>6

LEMMA ResetKeeps == ASSUME SensorInv, Reset PROVE SensorInv'
<1>1. PICK c \in {0, 1}, a \in {0, 1} :
        LET first == Levels(c, a)
            d == Sees(dev, <<SCL, SDA>>, first, TRUE)
        IN  dev' = Sees(d, <<first[1], IF d.sda = 0 THEN 0 ELSE first[2]>>, <<IF d.hold THEN 0 ELSE 1, d.sda>>, TRUE)
  BY SensorFacts DEF Reset
<1> DEFINE k == IF dev.hold THEN 0 ELSE c
           w == IF dev.sda = 0 THEN 0 ELSE a
           d == Seen(dev, SCL, SDA, k, w)
           v == IF d.sda = 0 THEN 0 ELSE w
           h == IF d.hold THEN 0 ELSE 1
<1>2. dev' = Seen(d, k, v, h, d.sda)
  BY <1>1 DEF Levels, Seen
<1>3. k \in Bit /\ w \in Bit /\ (dev.hold => SCL = 0 /\ k = 0)
  BY SensorFacts DEF Bit
<1> HIDE DEF k, w
<1>4. d \in Dev /\ DevAt(d, k) /\ d.hold = dev.hold
  <2>1. dev \in Dev /\ SCL \in Bit /\ SDA \in Bit /\ DevAt(dev, SCL)
    BY SensorFacts DEF Bit
  <2> QED BY <1>3, <2>1, SeesKeeps, SMT
<1> HIDE DEF d
<1>5. d.sda \in Bit /\ v \in Bit /\ h \in Bit /\ (d.hold => k = 0 /\ h = 0)
  BY <1>3, <1>4 DEF Dev, Bit
<1> HIDE DEF v
<1>6. dev' \in Dev /\ DevAt(dev', h) /\ dev'.hold = d.hold
  <2> HIDE DEF h
  <2> DEFINE s == d.sda
  <2>1. dev' = Seen(d, k, v, h, s) /\ s \in Bit
    BY <1>2, <1>5
  <2> HIDE DEF s
  <2>2. d \in Dev /\ DevAt(d, k) /\ k \in Bit /\ v \in Bit /\ h \in Bit /\ (d.hold => k = 0 /\ h = 0)
    BY <1>3, <1>4, <1>5
  <2>3. Seen(d, k, v, h, s) \in Dev /\ DevAt(Seen(d, k, v, h, s), h) /\ Seen(d, k, v, h, s).hold = d.hold
    BY <2>1, <2>2, SeesKeeps, SMT
  <2> QED BY <2>1, <2>3, Zenon
<1>7. scl' = 1 /\ sda' = 1
  BY DEF Reset
<1>8. SCL' = h
  BY <1>6, <1>7 DEF SCL
<1> QED BY <1>6, <1>7, <1>8 DEF SensorInv

-----------------------------------------------------------------------------
(* The functions step by step.                                              *)

Strings == {"SDA_L", "SDA_H", "SCL_L", "SCL", "SCL_H", "TRY_SCL_H", "GET_ACK", "GET_SDA"}

LEMMA SeqFrom ==
    ASSUME NEW S, NEW n \in Nat, NEW f \in [1 .. n -> S]
    PROVE  f \in Seq(S) /\ Len(f) = n
<1>1. f \in Seq(S)
  BY SeqDef, Zenon
<1>2. Len(f) \in Nat /\ DOMAIN f = 1 .. Len(f) /\ DOMAIN f = 1 .. n
  BY <1>1, LenProperties
<1>3. 1 .. Len(f) = 1 .. n
  BY <1>2
<1>4. Len(f) = n
  <2>1. Len(f) >= 1 => Len(f) \in 1 .. n
    BY <1>2, <1>3
  <2>2. n >= 1 => n \in 1 .. Len(f)
    BY <1>2, <1>3
  <2> QED BY <1>2, <2>1, <2>2
<1> QED BY <1>1, <1>4

LEMMA WriteTable ==
    ASSUME NEW byte
    PROVE  LET w == i2c_writeb(byte)
           IN  /\ w \in Seq(Strings) /\ Len(w) = 29
               /\ \A i \in 0 .. 7 : /\ w[3 * i + 1] = "SCL_L"
                                    /\ w[3 * i + 2] = IF BitOf(byte, 7 - i) = 1 THEN "SDA_H" ELSE "SDA_L"
                                    /\ w[3 * i + 3] = "TRY_SCL_H"
               /\ w[25] = "SCL_L" /\ w[26] = "SDA_H" /\ w[27] = "TRY_SCL_H" /\ w[28] = "GET_ACK" /\ w[29] = "SCL_L"
<1> DEFINE w == i2c_writeb(byte)
           F == [k \in 1 .. 24 |->
                   <<"SCL_L", IF BitOf(byte, 7 - (k - 1) \div 3) = 1 THEN "SDA_H" ELSE "SDA_L", "TRY_SCL_H">>[((k - 1) % 3) + 1]]
<1>1. F \in Seq(Strings) /\ Len(F) = 24
  <2>1. ASSUME NEW k \in 1 .. 24 PROVE F[k] \in Strings
    <3> DEFINE x == IF BitOf(byte, 7 - (k - 1) \div 3) = 1 THEN "SDA_H" ELSE "SDA_L"
    <3>1. x \in Strings
      BY DEF Strings
    <3> HIDE DEF x
    <3>2. ((k - 1) % 3) + 1 \in 1 .. 3
      OBVIOUS
    <3>3. <<"SCL_L", x, "TRY_SCL_H">>[((k - 1) % 3) + 1] \in Strings
      BY <3>1, <3>2 DEF Strings
    <3> QED BY <3>3 DEF x
  <2>2. F \in [1 .. 24 -> Strings]
    BY <2>1, Zenon
  <2> HIDE DEF F
  <2>3. 24 \in Nat
    OBVIOUS
  <2> QED BY <2>2, <2>3, SeqFrom
<1>2. ASSUME NEW i \in 0 .. 7
      PROVE  F[3 * i + 1] = "SCL_L" /\ F[3 * i + 3] = "TRY_SCL_H"
             /\ F[3 * i + 2] = IF BitOf(byte, 7 - i) = 1 THEN "SDA_H" ELSE "SDA_L"
  <2>1. /\ 3 * i + 1 \in 1 .. 24 /\ 3 * i + 2 \in 1 .. 24 /\ 3 * i + 3 \in 1 .. 24
        /\ ((3 * i + 1 - 1) % 3) + 1 = 1 /\ ((3 * i + 2 - 1) % 3) + 1 = 2 /\ ((3 * i + 3 - 1) % 3) + 1 = 3
        /\ (3 * i + 2 - 1) \div 3 = i
    OBVIOUS
  <2> QED BY <2>1
<1>3. i2c_waitack \in Seq(Strings) /\ <<"SCL_L">> \in Seq(Strings) /\ Len(i2c_waitack) = 4 /\ Len(<<"SCL_L">>) = 1
  BY DEF i2c_waitack, Strings
<1> DEFINE G == F \o <<"SCL_L">>
<1>4. w = G \o i2c_waitack
  BY DEF i2c_writeb
<1> HIDE DEF F, w
<1>5. /\ G \in Seq(Strings) /\ Len(G) = 25 /\ G[25] = "SCL_L"
      /\ \A k \in 1 .. 24 : G[k] = F[k]
  <2>1. /\ G \in Seq(Strings) /\ Len(G) = Len(F) + Len(<<"SCL_L">>)
        /\ \A k \in 1 .. Len(F) + Len(<<"SCL_L">>) : G[k] = IF k <= Len(F) THEN F[k] ELSE <<"SCL_L">>[k - Len(F)]
    BY <1>1, <1>3, ConcatProperties
  <2> HIDE DEF G
  <2> QED BY <1>1, <1>3, <2>1, SMTT(30)
<1> HIDE DEF G
<1>6. /\ w \in Seq(Strings) /\ Len(w) = 29
      /\ \A k \in 1 .. 24 : w[k] = F[k]
      /\ w[25] = "SCL_L" /\ w[26] = "SDA_H" /\ w[27] = "TRY_SCL_H" /\ w[28] = "GET_ACK" /\ w[29] = "SCL_L"
  <2>1. /\ w \in Seq(Strings) /\ Len(w) = Len(G) + Len(i2c_waitack)
        /\ \A k \in 1 .. Len(G) + Len(i2c_waitack) : w[k] = IF k <= Len(G) THEN G[k] ELSE i2c_waitack[k - Len(G)]
    BY <1>3, <1>4, <1>5, ConcatProperties
  <2>2. Len(G) = 25 /\ Len(i2c_waitack) = 4 /\ Len(G) + Len(i2c_waitack) = 29
    BY <1>3, <1>5
  <2>3. ASSUME NEW k \in 1 .. 29 PROVE w[k] = IF k <= 25 THEN G[k] ELSE i2c_waitack[k - 25]
    BY <2>1, <2>2, Zenon
  <2>4. w[26] = i2c_waitack[1] /\ w[27] = i2c_waitack[2] /\ w[28] = i2c_waitack[3] /\ w[29] = i2c_waitack[4]
    BY <2>3
  <2>5. i2c_waitack[1] = "SDA_H" /\ i2c_waitack[2] = "TRY_SCL_H" /\ i2c_waitack[3] = "GET_ACK" /\ i2c_waitack[4] = "SCL_L"
    BY DEF i2c_waitack
  <2>6. w[25] = G[25] /\ \A k \in 1 .. 24 : w[k] = G[k]
    BY <2>3
  <2> QED BY <1>5, <2>1, <2>2, <2>4, <2>5, <2>6
<1>7. ASSUME NEW i \in 0 .. 7
      PROVE  w[3 * i + 1] = "SCL_L" /\ w[3 * i + 3] = "TRY_SCL_H"
             /\ w[3 * i + 2] = IF BitOf(byte, 7 - i) = 1 THEN "SDA_H" ELSE "SDA_L"
  <2>1. 3 * i + 1 \in 1 .. 24 /\ 3 * i + 2 \in 1 .. 24 /\ 3 * i + 3 \in 1 .. 24
    OBVIOUS
  <2> QED BY <1>2, <1>6, <2>1, ZenonT(60)
<1> QED BY <1>6, <1>7, Zenon DEF w

LEMMA ReadTable ==
    /\ Len(i2c_readb) = 25 /\ i2c_readb[1] = "SDA_H"
    /\ \A i \in 0 .. 7 :
         i2c_readb[3 * i + 2] = "TRY_SCL_H" /\ i2c_readb[3 * i + 3] = "GET_SDA" /\ i2c_readb[3 * i + 4] = "SCL_L"
<1> DEFINE C == Cycle(24, <<"TRY_SCL_H", "GET_SDA", "SCL_L">>)
           r == i2c_readb
<1>1. C = [k \in 1 .. 24 |-> <<"TRY_SCL_H", "GET_SDA", "SCL_L">>[((k - 1) % 3) + 1]]
  <2>1. Len(<<"TRY_SCL_H", "GET_SDA", "SCL_L">>) = 3
    OBVIOUS
  <2> QED BY <2>1, Zenon DEF Cycle
<1> HIDE DEF C
<1>2. C \in Seq(Strings) /\ Len(C) = 24
  <2>1. ASSUME NEW k \in 1 .. 24 PROVE C[k] \in Strings
    <3>1. ((k - 1) % 3) + 1 \in 1 .. 3
      OBVIOUS
    <3> QED BY <1>1, <3>1 DEF Strings
  <2>2. C \in [1 .. 24 -> Strings]
    BY <1>1, <2>1, Zenon
  <2>3. 24 \in Nat
    OBVIOUS
  <2> QED BY <2>2, <2>3, SeqFrom
<1>3. <<"SDA_H">> \in Seq(Strings) /\ Len(<<"SDA_H">>) = 1
  BY DEF Strings
<1>4. r = <<"SDA_H">> \o C
  BY DEF i2c_readb, C
<1> HIDE DEF r
<1>5. /\ Len(r) = Len(<<"SDA_H">>) + Len(C)
      /\ \A k \in 1 .. Len(<<"SDA_H">>) + Len(C) :
           r[k] = IF k <= Len(<<"SDA_H">>) THEN <<"SDA_H">>[k] ELSE C[k - Len(<<"SDA_H">>)]
  BY <1>2, <1>3, <1>4, ConcatProperties
<1>6. Len(<<"SDA_H">>) = 1 /\ Len(C) = 24 /\ Len(<<"SDA_H">>) + Len(C) = 25
  BY <1>2, <1>3
<1>7. ASSUME NEW k \in 1 .. 25 PROVE r[k] = IF k <= 1 THEN <<"SDA_H">>[k] ELSE C[k - 1]
  BY <1>5, <1>6, Zenon
<1>8. r[1] = "SDA_H"
  BY <1>7
<1>9. ASSUME NEW i \in 0 .. 7
      PROVE  r[3 * i + 2] = "TRY_SCL_H" /\ r[3 * i + 3] = "GET_SDA" /\ r[3 * i + 4] = "SCL_L"
  <2>1. /\ 3 * i + 1 \in 1 .. 24 /\ 3 * i + 2 \in 1 .. 24 /\ 3 * i + 3 \in 1 .. 24
        /\ ((3 * i + 1 - 1) % 3) + 1 = 1 /\ ((3 * i + 2 - 1) % 3) + 1 = 2 /\ ((3 * i + 3 - 1) % 3) + 1 = 3
    OBVIOUS
  <2>2. r[3 * i + 2] = C[3 * i + 1] /\ r[3 * i + 3] = C[3 * i + 2] /\ r[3 * i + 4] = C[3 * i + 3]
    BY <1>7
  <2> QED BY <1>1, <2>1, <2>2
<1> QED BY <1>5, <1>6, <1>8, <1>9 DEF r

LEMMA PulseTable ==
    LET u == Cycle(18, UnlockPulse)
    IN  Len(u) = 18 /\ \A p \in 0 .. 8 : u[2 * p + 1] = "SCL" /\ u[2 * p + 2] = "SCL_L"
<1> DEFINE u == Cycle(18, UnlockPulse)
<1>1. u = [k \in 1 .. 18 |-> <<"SCL", "SCL_L">>[((k - 1) % 2) + 1]]
  <2>1. Len(<<"SCL", "SCL_L">>) = 2
    OBVIOUS
  <2> QED BY <2>1, Zenon DEF Cycle, UnlockPulse
<1> HIDE DEF u
<1>2. ASSUME NEW k \in 1 .. 18 PROVE u[k] \in Strings
  <2>1. ((k - 1) % 2) + 1 \in 1 .. 2
    OBVIOUS
  <2> QED BY <1>1, <2>1 DEF Strings
<1>3. u \in [1 .. 18 -> Strings]
  BY <1>1, <1>2, Zenon
<1>4. Len(u) = 18
  <2>1. 18 \in Nat
    OBVIOUS
  <2> QED BY <1>3, <2>1, SeqFrom
<1>5. ASSUME NEW p \in 0 .. 8 PROVE u[2 * p + 1] = "SCL" /\ u[2 * p + 2] = "SCL_L"
  <2>1. /\ 2 * p + 1 \in 1 .. 18 /\ 2 * p + 2 \in 1 .. 18
        /\ ((2 * p + 1 - 1) % 2) + 1 = 1 /\ ((2 * p + 2 - 1) % 2) + 1 = 2
    OBVIOUS
  <2> QED BY <1>1, <2>1
<1> QED BY <1>4, <1>5 DEF u

LEMMA OpeningTable ==
    ASSUME NEW p \in Openings
    PROVE  /\ p \in Seq(Strings)
           /\ \/ Len(p) = 2 /\ p[1] = "SDA_L" /\ p[2] = "SCL_L"
              \/ Len(p) = 4 /\ p[1] = "SDA_H" /\ p[2] = "SCL_H" /\ p[3] = "SDA_L" /\ p[4] = "SCL_L"
              \/ Len(p) = 5 /\ p[1] = "SDA_L" /\ p[2] = "SCL_H" /\ p[3] = "SDA_H" /\ p[4] = "SDA_L" /\ p[5] = "SCL_L"
<1>1. CASE p = i2c_start
  BY <1>1 DEF i2c_start, Strings
<1>2. CASE p = i2c_restart
  BY <1>2 DEF i2c_restart, Strings
<1>3. CASE p = i2c_stop \o i2c_start
  <2>1. i2c_stop \in Seq(Strings) /\ i2c_start \in Seq(Strings) /\ Len(i2c_stop) = 3 /\ Len(i2c_start) = 2
    BY DEF i2c_stop, i2c_start, Strings
  <2>2. /\ p \in Seq(Strings) /\ Len(p) = Len(i2c_stop) + Len(i2c_start)
        /\ \A k \in 1 .. Len(i2c_stop) + Len(i2c_start) :
             p[k] = IF k <= Len(i2c_stop) THEN i2c_stop[k] ELSE i2c_start[k - Len(i2c_stop)]
    BY <1>3, <2>1, ConcatProperties
  <2>3. Len(i2c_stop) = 3 /\ Len(i2c_stop) + Len(i2c_start) = 5
    BY <2>1
  <2>4. ASSUME NEW k \in 1 .. 5 PROVE p[k] = IF k <= 3 THEN i2c_stop[k] ELSE i2c_start[k - 3]
    BY <2>2, <2>3, Zenon
  <2>5. p[1] = i2c_stop[1] /\ p[2] = i2c_stop[2] /\ p[3] = i2c_stop[3] /\ p[4] = i2c_start[1] /\ p[5] = i2c_start[2]
    BY <2>4
  <2>6. p[1] = "SDA_L" /\ p[2] = "SCL_H" /\ p[3] = "SDA_H" /\ p[4] = "SDA_L" /\ p[5] = "SCL_L"
    BY <2>5 DEF i2c_stop, i2c_start
  <2> QED BY <2>2, <2>3, <2>6
<1> QED BY <1>1, <1>2, <1>3 DEF Openings

LEMMA OpeningOps ==
    ASSUME NEW byte, ops \in {p \o i2c_writeb(byte) : p \in Openings}, done \in Nat
    PROVE  /\ Len(ops) \in {31, 33, 34}
           /\ left = 34 => ops[done + 1] = "SDA_L"
           /\ left = 33 /\ Len(ops) = 34 => ops[done + 1] = "SCL_H"
           /\ left = 32 /\ Len(ops) = 34 => ops[done + 1] = "SDA_H"
           /\ left = 33 /\ Len(ops) = 33 => ops[done + 1] = "SDA_H"
           /\ left = 32 /\ Len(ops) = 33 => ops[done + 1] = "SCL_H"
           /\ left = 31 => ops[done + 1] = "SDA_L"
           /\ left = 30 => ops[done + 1] = "SCL_L"
           /\ left \in 1 .. 29 => ops[done + 1] = i2c_writeb(byte)[30 - left]
<1> DEFINE w == i2c_writeb(byte)
<1>1. PICK p \in Openings : ops = p \o w
  OBVIOUS
<1>2. w \in Seq(Strings) /\ Len(w) = 29
  BY WriteTable
<1> HIDE DEF w
<1>3. p \in Seq(Strings) /\ Len(p) \in {2, 4, 5}
  BY OpeningTable
<1>4. /\ Len(ops) = Len(p) + Len(w)
      /\ \A k \in 1 .. Len(p) + Len(w) : ops[k] = IF k <= Len(p) THEN p[k] ELSE w[k - Len(p)]
  BY <1>1, <1>2, <1>3, ConcatProperties
<1>5. Len(ops) = Len(p) + 29
  BY <1>2, <1>4
<1>6. ASSUME NEW j \in 1 .. Len(p) + 29 PROVE ops[j] = IF j <= Len(p) THEN p[j] ELSE w[j - Len(p)]
  BY <1>2, <1>4
<1>7. done + 1 = Len(p) + 29 - left + 1 /\ left \in Int
  BY <1>3, <1>5 DEF left
<1>8. left \in 1 .. 29 => ops[done + 1] = w[30 - left]
  <2> SUFFICES ASSUME left \in 1 .. 29 PROVE ops[done + 1] = w[30 - left]
    OBVIOUS
  <2> DEFINE j == done + 1
  <2>1. j \in 1 .. Len(p) + 29 /\ ~(j <= Len(p)) /\ j - Len(p) = 30 - left
    BY <1>3, <1>7
  <2> HIDE DEF j
  <2>2. ops[j] = w[30 - left]
    BY <1>6, <2>1
  <2> QED BY <2>2 DEF j
<1>9. left \in 30 .. 34 /\ left <= Len(ops) => ops[done + 1] = p[done + 1] /\ done + 1 = Len(p) + 30 - left
  <2> SUFFICES ASSUME left \in 30 .. 34, left <= Len(ops)
               PROVE  ops[done + 1] = p[done + 1] /\ done + 1 = Len(p) + 30 - left
    OBVIOUS
  <2> DEFINE j == done + 1
  <2>1. j \in 1 .. Len(p) + 29 /\ j <= Len(p) /\ j = Len(p) + 30 - left
    BY <1>3, <1>5, <1>7
  <2> HIDE DEF j
  <2>2. ops[j] = p[j]
    BY <1>6, <2>1
  <2> QED BY <2>1, <2>2 DEF j
<1>10. left <= Len(ops)
  BY <1>3, <1>5 DEF left
<1>11. \/ Len(p) = 2 /\ p[1] = "SDA_L" /\ p[2] = "SCL_L"
       \/ Len(p) = 4 /\ p[1] = "SDA_H" /\ p[2] = "SCL_H" /\ p[3] = "SDA_L" /\ p[4] = "SCL_L"
       \/ Len(p) = 5 /\ p[1] = "SDA_L" /\ p[2] = "SCL_H" /\ p[3] = "SDA_H" /\ p[4] = "SDA_L" /\ p[5] = "SCL_L"
  BY OpeningTable
<1>12. CASE Len(p) = 2
  <2>1. p[1] = "SDA_L" /\ p[2] = "SCL_L" /\ Len(ops) = 31
    BY <1>5, <1>12, <1>11
  <2> QED BY <1>8, <1>9, <1>10, <1>12, <2>1 DEF w
<1>13. CASE Len(p) = 4
  <2>1. p[1] = "SDA_H" /\ p[2] = "SCL_H" /\ p[3] = "SDA_L" /\ p[4] = "SCL_L" /\ Len(ops) = 33
    BY <1>5, <1>13, <1>11
  <2> QED BY <1>8, <1>9, <1>10, <1>13, <2>1 DEF w
<1>14. CASE Len(p) = 5
  <2>1. p[1] = "SDA_L" /\ p[2] = "SCL_H" /\ p[3] = "SDA_H" /\ p[4] = "SDA_L" /\ p[5] = "SCL_L" /\ Len(ops) = 34
    BY <1>5, <1>14, <1>11
  <2> QED BY <1>8, <1>9, <1>10, <1>14, <2>1 DEF w
<1> QED BY <1>3, <1>12, <1>13, <1>14

-----------------------------------------------------------------------------
(* A byte is written: what the lines do, whoever moves them.                *)

FallWrites ==
    \/ Fall(TRUE) /\ busy' = busy
    \/ Fall(FALSE) /\ busy' = TRUE /\ dev.st = "address" /\ dev.bit = 8

\* Four kinds of steps, by the clocks before and after: nothing the sensor sees, ...
QuietStep ==
    /\ Calm /\ Clocks(left, SCL)' = Clocks(left, SCL) /\ busy' = busy /\ xfer' = xfer
    /\ left' \in 1 .. 29 /\ (left' = 1 <=> left = 1) /\ (left' <= 4 <=> left <= 4)
\* ... the acknowledge read, ...
AckStep ==
    /\ Calm /\ left = 2 /\ left' = 1 /\ SCL = 1 /\ sda = 1 /\ busy' = busy
    /\ xfer' = [xfer EXCEPT !.ret = IF SDA = 0 THEN "ack" ELSE "nack"]
\* ... a bit clocked in, ...
RiseStep(byte) ==
    /\ Rise /\ Clocks(left, SCL)' = Clocks(left, SCL) + 1 /\ busy' = busy /\ xfer' = xfer
    /\ sda = (IF Clocks(left, SCL) < 8 THEN BitOf(byte, 7 - Clocks(left, SCL)) ELSE 1)
    /\ Clocks(left, SCL) \in 0 .. 8
    /\ left' \in 2 .. 29 /\ (left' <= 4 <=> left <= 4)
\* ... and the end of a clock, of the last one of a byte and of any other.
FallStep ==
    /\ FallWrites /\ xfer' = xfer /\ Clocks(left, SCL)' = Clocks(left, SCL)
    /\ left' \in 2 .. 29 /\ Clocks(left, SCL) \in 1 .. 8
    /\ IF Clocks(left, SCL) = 8 THEN left = 5 /\ left' = 4 ELSE left > 5 /\ left' > 4
LastStep == FallWrites /\ xfer' = xfer /\ left = 1 /\ left' = 0 /\ scl' = 0

WriteGoes(byte) ==
    /\ Framed /\ done' \in Nat
    /\ \/ (QuietStep \/ AckStep \/ RiseStep(byte) \/ FallStep) /\ WritePins(byte)'
       \/ LastStep

LEMMA ClocksAre ==
    ASSUME NEW c \in {0, 1}
    PROVE  /\ \A i \in 0 .. 7 : Clocks(29 - 3 * i, c) = i /\ Clocks(28 - 3 * i, c) = i /\ Clocks(27 - 3 * i, c) = i + c
           /\ Clocks(5, c) = 8 /\ Clocks(4, c) = 8 /\ Clocks(3, c) = 8 + c /\ Clocks(2, c) = 9 /\ Clocks(1, c) = 9
<1>1. ASSUME NEW i \in 0 .. 7
      PROVE  Clocks(29 - 3 * i, c) = i /\ Clocks(28 - 3 * i, c) = i /\ Clocks(27 - 3 * i, c) = i + c
  <2>1. /\ 29 - (29 - 3 * i) = 3 * i /\ 29 - (28 - 3 * i) = 3 * i + 1 /\ 29 - (27 - 3 * i) = 3 * i + 2
        /\ 29 - 3 * i >= 6 /\ 28 - 3 * i >= 6 /\ 27 - 3 * i >= 6
    OBVIOUS
  <2>2. /\ (3 * i) \div 3 = i /\ (3 * i + 1) \div 3 = i /\ (3 * i + 2) \div 3 = i
        /\ (3 * i) % 3 = 0 /\ (3 * i + 1) % 3 = 1 /\ (3 * i + 2) % 3 = 2
    OBVIOUS
  <2> QED BY <2>1, <2>2 DEF Clocks
<1>2. Clocks(5, c) = 8 /\ Clocks(4, c) = 8 /\ Clocks(3, c) = 8 + c /\ Clocks(2, c) = 9 /\ Clocks(1, c) = 9
  BY DEF Clocks
<1> QED BY <1>1, <1>2

LEMMA LeftGoes ==
    ASSUME Len(ops) \in Nat, done \in Nat, ops' = ops
    PROVE  /\ left \in Int
           /\ done' = done + 1 => left' = left - 1 /\ done' \in Nat
           /\ done' = done => left' = left /\ done' \in Nat
BY DEF left

LEMMA WriteLine ==
    ASSUME SensorInv, Line, ~skipped', NEW byte \in Byte, Len(ops) \in Nat, done \in Nat,
           left \in 1 .. 29, ops[done + 1] = i2c_writeb(byte)[30 - left], WritePins(byte)
    PROVE  SensorInv' /\ WriteGoes(byte) /\ ~skipped
<1> DEFINE w == i2c_writeb(byte)
           k == Clocks(left, SCL)
<1>1. /\ \A i \in 0 .. 7 : /\ w[3 * i + 1] = "SCL_L"
                           /\ w[3 * i + 2] = IF BitOf(byte, 7 - i) = 1 THEN "SDA_H" ELSE "SDA_L"
                           /\ w[3 * i + 3] = "TRY_SCL_H"
      /\ w[25] = "SCL_L" /\ w[26] = "SDA_H" /\ w[27] = "TRY_SCL_H" /\ w[28] = "GET_ACK" /\ w[29] = "SCL_L"
  BY WriteTable
<1>2. ops[done + 1] = w[30 - left]
  OBVIOUS
<1> HIDE DEF w
<1>3. SCL \in {0, 1}
  BY SensorFacts
<1>4. SensorInv'
  BY LineKeeps
<1>5. SCL' \in {0, 1} /\ sda' \in {0, 1} /\ (scl' = 0 => SCL' = 0)
  BY <1>4 DEF SensorInv, SCL, Dev
<1>6. ASSUME NEW i \in 0 .. 7, left = 29 - 3 * i, IF i = 0 THEN scl = 0 ELSE SCL = 1
      PROVE  WriteGoes(byte) /\ ~skipped
  <2>1. ops[done + 1] = "SCL_L"
    <3>1. 30 - left = 3 * i + 1
      BY <1>6
    <3> QED BY <1>1, <1>2, <3>1
  <2>2. Onward /\ skipped' = skipped /\ scl' = 0 /\ xfer' = xfer
    BY <2>1, DoesLow DEF Onward
  <2>3. Framed /\ left' = 28 - 3 * i /\ done' \in Nat
    BY <1>6, <2>2, LeftGoes DEF Onward, Framed
  <2>4. k = i /\ Clocks(left, SCL)' = i
    BY <1>3, <1>5, <1>6, <2>3, ClocksAre
  <2>5. WritePins(byte)'
    BY <2>2, <2>3 DEF WritePins
  <2>6. CASE i = 0
    <3>1. SCL = 0
      BY <1>6, <2>6, SensorFacts
    <3>2. Calm /\ busy' = busy
      BY <2>1, <3>1, DoesLow
    <3>3. QuietStep
      BY <1>6, <2>2, <2>3, <2>4, <2>6, <3>2 DEF QuietStep
    <3> QED BY <2>2, <2>3, <2>5, <3>3 DEF WriteGoes
  <2>7. CASE i # 0
    <3>1. FallWrites
      BY <1>6, <2>1, <2>7, DoesLow DEF FallWrites
    <3>2. FallStep
      BY <1>6, <2>2, <2>3, <2>4, <2>7, <3>1 DEF FallStep
    <3> QED BY <2>2, <2>3, <2>5, <3>2 DEF WriteGoes
  <2> QED BY <2>6, <2>7
<1>7. ASSUME NEW i \in 0 .. 7, left = 28 - 3 * i, scl = 0
      PROVE  WriteGoes(byte) /\ ~skipped
  <2> DEFINE a == BitOf(byte, 7 - i)
  <2>1. ops[done + 1] = IF a = 1 THEN "SDA_H" ELSE "SDA_L"
    <3>1. 30 - left = 3 * i + 2
      BY <1>7
    <3> QED BY <1>1, <1>2, <3>1, ZenonT(60)
  <2>2. a \in {0, 1} /\ SCL = 0
    BY <1>7, Bits, SensorFacts
  <2> HIDE DEF a
  <2>3. Onward /\ skipped' = skipped /\ scl' = scl /\ sda' = a /\ busy' = busy /\ Calm /\ xfer' = xfer
    BY <2>1, <2>2, DoesSda DEF Onward
  <2>4. Framed /\ left' = 27 - 3 * i /\ done' \in Nat
    BY <1>7, <2>3, LeftGoes, SMTT(30) DEF Onward, Framed
  <2>5. SCL' = 0
    BY <1>5, <1>7, <2>3
  <2>6. k = i /\ Clocks(left, SCL)' = i
    <3>1. k = i
      BY <1>3, <1>7, ClocksAre
    <3>2. Clocks(left, SCL)' = i + 0
      BY <1>5, <2>4, <2>5, ClocksAre
    <3> QED BY <3>1, <3>2
  <2>7. WritePins(byte)'
    BY <2>3, <2>4 DEF WritePins, a
  <2>8. QuietStep
    BY <1>7, <2>3, <2>4, <2>6 DEF QuietStep
  <2> QED BY <2>3, <2>4, <2>7, <2>8 DEF WriteGoes
<1>8. ASSUME NEW i \in 0 .. 7, left = 27 - 3 * i, sda = BitOf(byte, 7 - i)
      PROVE  WriteGoes(byte) /\ ~skipped
  <2>1. ops[done + 1] = "TRY_SCL_H"
    <3>1. 30 - left = 3 * i + 3
      BY <1>8
    <3> QED BY <1>1, <1>2, <3>1
  <2>2. /\ ~skipped /\ busy' = busy /\ sda' = sda
        /\ \/ Waiting /\ dev.hold /\ dev'.hold /\ Calm
           \/ /\ Onward /\ ~dev'.hold /\ SCL' = 1
              /\ SCL = 1 => Calm
              /\ SCL = 0 => Rise
    BY <2>1, DoesHigh
  <2>3. k = i + SCL
    BY <1>3, <1>8, ClocksAre
  <2>4. CASE Waiting /\ Calm
    <3>1. Framed /\ left' = left /\ done' \in Nat /\ xfer' = xfer
      BY <2>4, LeftGoes DEF Waiting, Framed
    <3>2. Clocks(left, SCL)' = k
      BY <2>4, <3>1 DEF Calm
    <3>3. WritePins(byte)'
      BY <1>8, <2>2, <3>1 DEF WritePins
    <3>4. QuietStep
      BY <2>2, <2>4, <3>1, <3>2 DEF QuietStep
    <3> QED BY <2>2, <3>1, <3>3, <3>4 DEF WriteGoes
  <2>5. CASE Onward /\ SCL' = 1 /\ (SCL = 1 => Calm) /\ (SCL = 0 => Rise)
    <3>1. Framed /\ left' = 26 - 3 * i /\ done' \in Nat /\ xfer' = xfer
      BY <1>8, <2>5, LeftGoes DEF Onward, Framed
    <3>2. Clocks(left, SCL)' = i + 1 /\ WritePins(byte)'
      <4>1. CASE i = 7
        BY <1>5, <2>5, <3>1, <4>1, ClocksAre DEF WritePins
      <4>2. CASE i < 7
        <5> DEFINE j == i + 1
        <5>1. j \in 0 .. 7 /\ left' = 29 - 3 * j /\ j # 0
          BY <3>1, <4>2
        <5> HIDE DEF j
        <5>2. Clocks(left, SCL)' = j /\ WritePins(byte)'
          BY <1>5, <2>5, <5>1, ClocksAre DEF WritePins
        <5> QED BY <5>2 DEF j
      <4> QED BY <4>1, <4>2
    <3>3. left' <= 4 <=> left <= 4
      BY <1>8, <3>1
    <3>4. left' \in 2 .. 29 /\ left # 1
      BY <1>8, <3>1
    <3>5. CASE SCL = 1
      <4>1. QuietStep
        BY <2>2, <2>3, <2>5, <3>1, <3>2, <3>3, <3>4, <3>5 DEF QuietStep
      <4> QED BY <2>2, <3>1, <3>2, <4>1 DEF WriteGoes
    <3>6. CASE SCL = 0
      <4>1. k = i /\ k < 8 /\ k \in 0 .. 8
        BY <2>3, <3>6
      <4>2. RiseStep(byte)
        BY <1>8, <2>2, <2>5, <3>1, <3>2, <3>3, <3>4, <3>6, <4>1 DEF RiseStep
      <4> QED BY <2>2, <3>1, <3>2, <4>2 DEF WriteGoes
    <3> QED BY <1>3, <3>5, <3>6
  <2> QED BY <2>2, <2>4, <2>5
<1>9. CASE left = 5 /\ SCL = 1
  <2>1. ops[done + 1] = "SCL_L"
    BY <1>1, <1>2, <1>9
  <2>2. Onward /\ skipped' = skipped /\ scl' = 0 /\ xfer' = xfer /\ FallWrites
    BY <1>9, <2>1, DoesLow DEF Onward, FallWrites
  <2>3. Framed /\ left' = 4 /\ done' \in Nat
    BY <1>9, <2>2, LeftGoes DEF Onward, Framed
  <2>4. k = 8 /\ Clocks(left, SCL)' = 8 /\ WritePins(byte)'
    BY <1>3, <1>5, <1>9, <2>2, <2>3, ClocksAre DEF WritePins
  <2>5. FallStep
    BY <1>9, <2>2, <2>3, <2>4 DEF FallStep
  <2> QED BY <1>4, <2>2, <2>3, <2>4, <2>5 DEF WriteGoes
<1>10. CASE left = 4 /\ scl = 0
  <2>1. ops[done + 1] = IF 1 = 1 THEN "SDA_H" ELSE "SDA_L"
    BY <1>1, <1>2, <1>10
  <2>2. SCL = 0 /\ 1 \in {0, 1}
    BY <1>10, SensorFacts
  <2>3. Onward /\ skipped' = skipped /\ scl' = scl /\ sda' = 1 /\ busy' = busy /\ Calm /\ xfer' = xfer
    BY <2>1, <2>2, DoesSda DEF Onward
  <2>4. Framed /\ left' = 3 /\ done' \in Nat
    BY <1>10, <2>3, LeftGoes DEF Onward, Framed
  <2>5. SCL' = 0
    BY <1>5, <1>10, <2>3
  <2>6. k = 8 /\ Clocks(left, SCL)' = 8 /\ WritePins(byte)'
    <3>1. k = 8
      BY <1>3, <1>10, ClocksAre
    <3>2. Clocks(left, SCL)' = 8 + 0
      BY <1>5, <2>4, <2>5, ClocksAre
    <3>3. WritePins(byte)'
      BY <2>3, <2>4 DEF WritePins
    <3> QED BY <3>1, <3>2, <3>3
  <2>7. QuietStep
    BY <1>10, <2>3, <2>4, <2>6 DEF QuietStep
  <2> QED BY <1>4, <2>3, <2>4, <2>6, <2>7 DEF WriteGoes
<1>11. CASE left = 3 /\ sda = 1
  <2>1. ops[done + 1] = "TRY_SCL_H"
    BY <1>1, <1>2, <1>11
  <2>2. /\ ~skipped /\ busy' = busy /\ sda' = sda
        /\ \/ Waiting /\ dev.hold /\ dev'.hold /\ Calm
           \/ /\ Onward /\ ~dev'.hold /\ SCL' = 1
              /\ SCL = 1 => Calm
              /\ SCL = 0 => Rise
    BY <2>1, DoesHigh
  <2>3. k = 8 + SCL
    BY <1>3, <1>11, ClocksAre
  <2>4. CASE Waiting /\ Calm
    <3>1. Framed /\ left' = left /\ done' \in Nat /\ xfer' = xfer
      BY <2>4, LeftGoes DEF Waiting, Framed
    <3>2. Clocks(left, SCL)' = k
      BY <2>4, <3>1 DEF Calm
    <3>3. WritePins(byte)'
      BY <1>11, <2>2, <3>1 DEF WritePins
    <3>4. QuietStep
      BY <2>2, <2>4, <3>1, <3>2 DEF QuietStep
    <3> QED BY <1>4, <2>2, <3>1, <3>3, <3>4 DEF WriteGoes
  <2>5. CASE Onward /\ SCL' = 1 /\ (SCL = 1 => Calm) /\ (SCL = 0 => Rise)
    <3>1. Framed /\ left' = 2 /\ done' \in Nat /\ xfer' = xfer
      BY <1>11, <2>5, LeftGoes DEF Onward, Framed
    <3>2. Clocks(left, SCL)' = 9 /\ WritePins(byte)'
      BY <1>5, <1>11, <2>2, <2>5, <3>1, ClocksAre DEF WritePins
    <3>5. CASE SCL = 1
      <4>1. QuietStep
        BY <1>11, <2>2, <2>3, <2>5, <3>1, <3>2, <3>5 DEF QuietStep
      <4> QED BY <1>4, <2>2, <3>1, <3>2, <4>1 DEF WriteGoes
    <3>6. CASE SCL = 0
      <4>1. k = 8 /\ ~(k < 8) /\ k \in 0 .. 8
        BY <2>3, <3>6
      <4>2. RiseStep(byte)
        BY <1>11, <2>2, <2>5, <3>1, <3>2, <3>6, <4>1 DEF RiseStep
      <4> QED BY <1>4, <2>2, <3>1, <3>2, <4>2 DEF WriteGoes
    <3> QED BY <1>3, <3>5, <3>6
  <2> QED BY <2>2, <2>4, <2>5
<1>12. CASE left = 2 /\ SCL = 1 /\ sda = 1
  <2>1. ops[done + 1] = "GET_ACK"
    BY <1>1, <1>2, <1>12
  <2>2. /\ Calm /\ Framed /\ done' = done + 1 /\ skipped' = skipped /\ sda' = sda /\ busy' = busy
        /\ xfer' = [xfer EXCEPT !.ret = IF SDA = 0 THEN "ack" ELSE "nack"]
    BY <2>1, DoesGet
  <2>3. left' = 1 /\ done' \in Nat /\ SCL' = 1
    BY <1>12, <2>2, LeftGoes DEF Framed, Calm
  <2>4. AckStep /\ WritePins(byte)'
    BY <1>12, <2>2, <2>3 DEF AckStep, WritePins
  <2> QED BY <1>4, <2>2, <2>3, <2>4 DEF WriteGoes
<1>13. CASE left = 1 /\ SCL = 1
  <2>1. ops[done + 1] = "SCL_L"
    BY <1>1, <1>2, <1>13
  <2>2. Onward /\ skipped' = skipped /\ scl' = 0 /\ xfer' = xfer /\ FallWrites
    BY <1>13, <2>1, DoesLow DEF Onward, FallWrites
  <2>3. Framed /\ left' = 0 /\ done' \in Nat
    BY <1>13, <2>2, LeftGoes DEF Onward, Framed
  <2>4. LastStep
    BY <1>13, <2>2, <2>3 DEF LastStep
  <2> QED BY <1>4, <2>2, <2>3, <2>4 DEF WriteGoes
<1>14. left \in {1, 2} => left = 1 \/ left = 2
  OBVIOUS
<1> QED BY <1>4, <1>6, <1>7, <1>8, <1>9, <1>10, <1>11, <1>12, <1>13, <1>14 DEF WritePins

LEMMA WriteSensor ==
    ASSUME SensorInv, HoldClock \/ ReleaseClock, NEW byte \in Byte, Len(ops) \in Nat, done \in Nat,
           left \in 1 .. 29, WritePins(byte)
    PROVE  WriteGoes(byte)
<1>1. SCL \in {0, 1} /\ (scl = 0 \/ scl = 1)
  BY SensorFacts
<1>2. /\ Framed /\ done' = done /\ xfer' = xfer /\ scl' = scl /\ sda' = sda /\ busy' = busy
      /\ Calm \/ (Rise /\ scl = 1)
  BY <1>1, HoldIs, ReleaseIs
<1>3. left' = left /\ done' \in Nat
  BY <1>2, LeftGoes DEF Framed
<1>4. CASE Calm
  <2>1. SCL' = SCL
    BY <1>4 DEF Calm
  <2>2. WritePins(byte)' /\ Clocks(left, SCL)' = Clocks(left, SCL)
    BY <1>2, <1>3, <2>1 DEF WritePins
  <2>3. QuietStep
    BY <1>2, <1>3, <1>4, <2>2 DEF QuietStep
  <2> QED BY <1>2, <1>3, <2>2, <2>3 DEF WriteGoes
<1>5. CASE Rise /\ scl = 1
  <2>1. SCL = 0 /\ SCL' = 1
    BY <1>5 DEF Rise
  <2>2. CASE left = 3 /\ sda = 1
    <3>1. Clocks(left, SCL) = 8 /\ Clocks(left, SCL)' = 9
      <4>1. Clocks(3, 0) = 8 + 0 /\ Clocks(3, 1) = 8 + 1
        BY ClocksAre
      <4> QED BY <1>3, <2>1, <2>2, <4>1
    <3>2. WritePins(byte)'
      BY <1>2, <1>3, <2>2 DEF WritePins
    <3>3. RiseStep(byte)
      BY <1>2, <1>3, <1>5, <2>2, <3>1 DEF RiseStep
    <3> QED BY <1>2, <1>3, <3>2, <3>3 DEF WriteGoes
  <2>3. ASSUME NEW i \in 0 .. 7, left = 27 - 3 * i, sda = BitOf(byte, 7 - i) PROVE WriteGoes(byte)
    <3>1. Clocks(left, SCL) = i /\ Clocks(left, SCL)' = i + 1
      <4>1. Clocks(27 - 3 * i, 0) = i + 0 /\ Clocks(27 - 3 * i, 1) = i + 1
        BY ClocksAre
      <4> QED BY <1>3, <2>1, <2>3, <4>1
    <3>2. WritePins(byte)'
      BY <1>2, <1>3, <2>3 DEF WritePins
    <3>3. RiseStep(byte)
      BY <1>2, <1>3, <1>5, <2>3, <3>1 DEF RiseStep
    <3> QED BY <1>2, <1>3, <3>2, <3>3 DEF WriteGoes
  <2> QED BY <1>5, <2>1, <2>2, <2>3 DEF WritePins
<1> QED BY <1>2, <1>4, <1>5

-----------------------------------------------------------------------------
(* What the sensor makes of a byte that is written.                         *)

LEMMA TogetherRise ==
    ASSUME NEW d \in Dev, NEW e \in Dev, DevAt(d, 0), NEW byte \in Byte, NEW k \in 0 .. 8, Together(d, k, byte),
           NEW s, s = (IF k < 8 THEN BitOf(byte, 7 - k) ELSE 1), NEW v, v = (IF d.sda = 0 THEN 0 ELSE s), RiseR(d, v, e)
    PROVE  Together(e, k + 1, byte) /\ e.st = d.st /\ e.got = d.got
<1>1. /\ d.st \in {"address", "receive"} /\ d.bit = k /\ d.sr \in Nat
      /\ d.sda = 0 <=> k = 8
      /\ d.sr = byte \div pow2[9 - k]
  BY DEF Together, DevAt, Dev
<1>2. /\ e.st = d.st /\ e.got = d.got /\ e.bit = k + 1
      /\ e.sr = IF k < 8 THEN 2 * d.sr + v ELSE d.sr
  BY <1>1 DEF RiseR
<1>3. CASE k < 8
  <2>1. v = BitOf(byte, 7 - k)
    BY <1>1, <1>3
  <2>2. k \in 0 .. 7
    BY <1>3
  <2>3. e.sr = byte \div pow2[9 - (k + 1)]
    BY <1>1, <1>2, <1>3, <2>1, <2>2, Bits
  <2> QED BY <1>1, <1>2, <1>3, <2>3 DEF Together
<1>4. CASE k = 8
  BY <1>1, <1>2, <1>4 DEF Together
<1> QED BY <1>3, <1>4

LEMMA TogetherFall ==
    ASSUME NEW d \in Dev, NEW e \in Dev, DevAt(d, 1), NEW byte \in Byte, NEW k \in 1 .. 8, Together(d, k, byte),
           d.st = "address" => byte \div 2 = Address, NEW a \in BOOLEAN, FallR(d, a, e)
    PROVE  /\ \/ Together(e, k, byte) /\ e.st = d.st
              \/ k = 8 /\ d.st = "address" /\ ~a /\ e.st = "idle"
           /\ e.got = IF k = 8 /\ d.st = "receive" THEN Append(d.got, byte) ELSE d.got
<1>1. /\ d.st \in {"address", "receive"} /\ d.bit = k /\ d.sr \in Nat
      /\ d.sr = byte \div pow2[9 - k]
  BY DEF Together, Dev
<1>2. CASE k < 8
  <2>1. AlikeR(d, e)
    BY <1>1, <1>2 DEF FallR
  <2>2. e.st = d.st /\ e.bit = d.bit /\ e.sr = d.sr /\ e.got = d.got
    BY <2>1 DEF AlikeR
  <2>3. Together(e, k, byte)
    BY <1>1, <1>2, <2>2 DEF Together
  <2> QED BY <1>2, <2>2, <2>3
<1>3. CASE k = 8
  <2>1. d.sr = byte
    <3>1. byte \div pow2[1] = byte
      BY Bits
    <3> QED BY <1>1, <1>3, <3>1
  <2>2. CASE d.st = "receive"
    <3>1. e.st = d.st /\ e.bit = d.bit /\ e.sr = d.sr /\ e.got = Append(d.got, d.sr)
      BY <1>1, <1>3, <2>2 DEF FallR
    <3>2. Together(e, k, byte)
      BY <1>1, <1>3, <3>1 DEF Together
    <3> QED BY <1>3, <2>1, <2>2, <3>1, <3>2
  <2>3. CASE d.st = "address"
    <3>1. IF d.sr \div 2 = Address /\ a
          THEN e.st = d.st /\ e.bit = d.bit /\ e.sr = d.sr /\ e.sda = 0 /\ e.got = d.got
          ELSE IdleR(d, e)
      BY <1>1, <1>3, <2>3 DEF FallR
    <3>2. d.sr \div 2 = Address
      BY <2>1, <2>3
    <3>3. CASE a
      <4>1. e.st = d.st /\ e.bit = d.bit /\ e.sr = d.sr /\ e.got = d.got
        BY <3>1, <3>2, <3>3, Zenon
      <4>2. Together(e, k, byte)
        BY <1>1, <1>3, <4>1 DEF Together
      <4> QED BY <2>3, <4>1, <4>2
    <3>4. CASE ~a
      <4>1. IdleR(d, e)
        BY <3>1, <3>4, Zenon
      <4>2. e.st = "idle" /\ e.got = d.got
        BY <4>1 DEF IdleR
      <4> QED BY <1>3, <2>3, <3>4, <4>2
    <3> QED BY <3>3, <3>4
  <2> QED BY <1>1, <2>2, <2>3
<1> QED BY <1>2, <1>3

LEMMA TogetherLast ==
    ASSUME NEW d \in Dev, NEW e \in Dev, DevAt(d, 1), NEW byte \in Byte, Together(d, 9, byte),
           NEW a \in BOOLEAN, FallR(d, a, e)
    PROVE  /\ e.bit = 0 /\ e.got = d.got
           /\ e.st = IF d.st = "address" /\ byte % 2 = 1 THEN "send" ELSE "receive"
           /\ e.st = "receive" => e.sr = 0
           /\ e.st = "send" => e.sent = 0
<1>1. d.sr = byte
  <2>1. byte \div pow2[1] = byte
    BY Bits
  <2> QED BY <2>1 DEF Together
<1>2. byte % 2 \in {0, 1}
  BY DEF Byte
<1>3. d.st \in {"address", "receive"} /\ d.bit = 9
  BY DEF Together
<1>4. CASE d.st = "address" /\ byte % 2 = 1
  <2>1. e.st = "send" /\ e.bit = 0 /\ e.sent = 0 /\ e.got = d.got
    BY <1>1, <1>3, <1>4 DEF FallR
  <2> QED BY <1>4, <2>1
<1>5. CASE ~(d.st = "address" /\ byte % 2 = 1)
  <2>1. e.st = "receive" /\ e.bit = 0 /\ e.sr = 0 /\ e.got = d.got
    BY <1>1, <1>2, <1>3, <1>5 DEF FallR
  <2> QED BY <1>5, <2>1
<1> QED BY <1>4, <1>5

LEMMA BehindRise ==
    ASSUME NEW d \in Dev, NEW e \in Dev, NEW k \in 0 .. 8, Behind(d, k, 0), NEW v, RiseR(d, v, e)
    PROVE  Behind(e, k + 1, 1)
<1>1. d.st = "receive" /\ d.bit = IF k = 0 THEN 8 ELSE k - 1
  BY DEF Behind
<1>2. e.st = "receive" /\ e.bit = d.bit + 1
  BY <1>1 DEF RiseR
<1> QED BY <1>1, <1>2 DEF Behind

LEMMA BehindFall ==
    ASSUME NEW d \in Dev, NEW e \in Dev, NEW k \in 1 .. 9, Behind(d, k, 1), NEW a \in BOOLEAN, FallR(d, a, e)
    PROVE  Behind(e, k, 0)
<1>1. d.st = "receive" /\ d.bit = IF k = 1 THEN 9 ELSE k - 1
  BY DEF Behind
<1>2. CASE k = 1
  <2>1. e.st = "receive" /\ e.bit = 0
    BY <1>1, <1>2 DEF FallR
  <2> QED BY <1>2, <2>1 DEF Behind
<1>3. CASE k \in 2 .. 8
  <2>1. AlikeR(d, e)
    BY <1>1, <1>3 DEF FallR
  <2>2. e.st = "receive" /\ e.bit = k - 1
    BY <1>1, <1>3, <2>1 DEF AlikeR
  <2> QED BY <1>3, <2>2 DEF Behind
<1>4. CASE k = 9
  <2>1. e.st = "receive" /\ e.bit = 8
    BY <1>1, <1>4 DEF FallR
  <2> QED BY <1>4, <2>1 DEF Behind
<1> QED BY <1>2, <1>3, <1>4

LEMMA LateRise ==
    ASSUME NEW d \in Dev, NEW e \in Dev, NEW k \in 0 .. 8, Late(d, k, 0), RiseR(d, 1, e)
    PROVE  k = 0 /\ Late(e, 1, 1)
<1>1. d.st = "send" /\ k = 0 /\ d.bit = 8
  BY DEF Late
<1>2. e.st = "send" /\ e.bit = 9 /\ e.ack = 0
  BY <1>1 DEF RiseR
<1> QED BY <1>1, <1>2 DEF Late

LEMMA LateFall ==
    ASSUME NEW d \in Dev, NEW e \in Dev, NEW k \in 1 .. 9, Late(d, k, 1), NEW a \in BOOLEAN, FallR(d, a, e)
    PROVE  k = 1 /\ e.st = "idle" /\ e.got = d.got
<1>1. d.st = "send" /\ k = 1 /\ d.bit = 9 /\ d.ack = 0
  BY DEF Late
<1>2. IdleR(d, e)
  BY <1>1 DEF FallR
<1> QED BY <1>1, <1>2 DEF IdleR

-----------------------------------------------------------------------------
(* Messages and transfers.                                                  *)

LEMMA MessageFacts ==
    ASSUME NEW msgs \in Transfers, NEW i \in 1 .. Len(msgs)
    PROVE  /\ Len(msgs) \in Nat /\ msgs[i].rd \in BOOLEAN /\ msgs[i].buf \in Seq(Byte) /\ Len(msgs[i].buf) \in Nat
           /\ msgs[i].rd => Len(msgs[i].buf) > 0
           /\ \A j \in 1 .. Len(msgs[i].buf) : msgs[i].buf[j] \in Byte
<1>1. msgs \in Seq(Messages) /\ (msgs[i].rd => msgs[i].buf # <<>>) /\ msgs[i] \in Messages
  <2>1. msgs \in Seq(Messages)
    BY BusAssumption
  <2>2. i \in DOMAIN msgs /\ msgs[i] \in Messages
    BY <2>1
  <2> QED BY <2>1, <2>2, BusAssumption
<1>2. msgs[i].rd \in BOOLEAN /\ msgs[i].buf \in Seq(Byte)
  BY <1>1 DEF Messages
<1> DEFINE b == msgs[i].buf
<1>3. b \in Seq(Byte)
  BY <1>2
<1> HIDE DEF b
<1>4. Len(b) \in Nat /\ (b # <<>> => Len(b) > 0) /\ \A j \in 1 .. Len(b) : b[j] \in Byte
  BY <1>3
<1> QED BY <1>1, <1>2, <1>4 DEF b

LEMMA AddressFacts ==
    ASSUME NEW m, m.rd \in BOOLEAN
    PROVE  LET b == AddressByte(m)
           IN  b \in Byte /\ b \div 2 = Address /\ (b % 2 = 1 <=> m.rd) /\ BitOf(b, 7) = 1
<1>1. Address \in 64 .. 127
  BY BusAssumption
<1>2. CASE m.rd
  <2>1. AddressByte(m) = 2 * Address + 1
    BY <1>2 DEF AddressByte
  <2> QED BY <1>1, <1>2, <2>1 DEF Byte, BitOf, pow2
<1>3. CASE ~m.rd
  <2>1. AddressByte(m) = 2 * Address
    BY <1>1, <1>3 DEF AddressByte
  <2> QED BY <1>1, <1>3, <2>1 DEF Byte, BitOf, pow2
<1> QED BY <1>2, <1>3

LEMMA XferRet ==
    ASSUME NEW x \in Xfer, NEW r \in {"none", "ack", "nack", "timeout"}
    PROVE  LET y == [x EXCEPT !.ret = r]
           IN  /\ y \in Xfer /\ y.ret = r /\ y.msgs = x.msgs /\ y.i = x.i /\ y.n = x.n
               /\ y.try = x.try /\ y.data = x.data /\ y.read = x.read
BY ZenonT(60) DEF Xfer

LEMMA XferData ==
    ASSUME NEW x \in Xfer, NEW v \in Nat
    PROVE  LET y == [x EXCEPT !.data = v]
           IN  /\ y \in Xfer /\ y.data = v /\ y.msgs = x.msgs /\ y.i = x.i /\ y.n = x.n
               /\ y.try = x.try /\ y.ret = x.ret /\ y.read = x.read
BY ZenonT(60) DEF Xfer

LEMMA XferWrites ==
    ASSUME SensorInv, xfer \in Xfer, NEW byte, WriteGoes(byte)
    PROVE  /\ xfer' \in Xfer /\ xfer'.msgs = xfer.msgs /\ xfer'.i = xfer.i /\ xfer'.n = xfer.n
           /\ xfer'.data = xfer.data /\ xfer'.read = xfer.read
           /\ ~AckStep => xfer' = xfer
           /\ AckStep => xfer'.ret = IF SDA = 0 THEN "ack" ELSE "nack"
           /\ Message' = Message
<1>1. AckStep \/ xfer' = xfer
  BY DEF WriteGoes, QuietStep, RiseStep, FallStep, LastStep
<1>2. CASE xfer' = xfer /\ ~AckStep
  BY <1>2 DEF Message
<1>3. CASE AckStep
  <2> DEFINE r == IF SDA = 0 THEN "ack" ELSE "nack"
  <2>1. xfer' = [xfer EXCEPT !.ret = r] /\ r \in {"none", "ack", "nack", "timeout"}
    BY <1>3 DEF AckStep
  <2> HIDE DEF r
  <2>2. /\ xfer' \in Xfer /\ xfer'.ret = r /\ xfer'.msgs = xfer.msgs /\ xfer'.i = xfer.i /\ xfer'.n = xfer.n
        /\ xfer'.data = xfer.data /\ xfer'.read = xfer.read
    BY <2>1, XferRet, Zenon
  <2>3. Message' = Message
    BY <2>2, Zenon DEF Message
  <2> QED BY <1>3, <2>2, <2>3 DEF r
<1> QED BY <1>1, <1>2, <1>3

-----------------------------------------------------------------------------
(* The address is written.                                                  *)

LEMMA Remembered ==
    ASSUME Framed
    PROVE  (AsData' <=> AsData) /\ \A u : First(u)' <=> First(u)
BY DEF Framed, AsData, First

LEMMA SensorPrimed ==
    ASSUME SensorInv'
    PROVE  /\ SCL' \in {0, 1} /\ dev' \in Dev /\ DevAt(dev', SCL') /\ scl' \in {0, 1} /\ sda' \in {0, 1}
           /\ dev'.sda \in {0, 1} /\ (scl' = 0 => SCL' = 0) /\ (SCL' = 1 <=> (scl' = 1 /\ ~dev'.hold))
           /\ dev'.st = "idle" => dev'.sda = 1
BY DEF SensorInv, SCL, Dev, DevAt

Writing(byte) == left \in 1 .. 29 /\ WritePins(byte) /\ (Following(byte) \/ Missing)

LEMMA AddressFollowed ==
    ASSUME SensorInv, SensorInv', NEW byte \in Byte, byte \div 2 = Address, byte % 2 = 1 <=> Message.rd,
           xfer \in Xfer, left \in 1 .. 29, Following(byte), WriteGoes(byte)
    PROVE  /\ Following(byte)' \/ Missing' \/ AddressEnd'
           /\ AddressEnd' \/ (left' \in 1 .. 29 /\ WritePins(byte)')
           /\ ~AsData => dev'.got = dev.got
<1> DEFINE k == Clocks(left, SCL)
<1>1. /\ dev \in Dev /\ DevAt(dev, SCL) /\ dev.sda \in {0, 1}
      /\ dev' \in Dev /\ DevAt(dev', SCL') /\ Framed
  BY SensorFacts, SensorPrimed DEF WriteGoes
<1>2. /\ Together(dev, k, byte) /\ (dev.st = "receive" => AsData) /\ (left = 1 => xfer.ret = "ack")
      /\ dev.st \in {"address", "receive"} /\ dev.bit = k
  BY DEF Following, Together
<1>3. AsData' <=> AsData
  BY <1>1, Remembered
<1>4. CASE QuietStep /\ WritePins(byte)'
  <2>1. AlikeR(dev, dev') /\ Clocks(left, SCL)' = k /\ xfer' = xfer /\ (left' = 1 => left = 1) /\ left' \in 1 .. 29
    BY <1>4 DEF QuietStep, Calm
  <2>2. dev'.st = dev.st /\ dev'.bit = dev.bit /\ dev'.sr = dev.sr /\ dev'.got = dev.got
    BY <2>1 DEF AlikeR
  <2>3. Together(dev', k, byte)
    BY <1>2, <2>2 DEF Together
  <2>4. Following(byte)'
    BY <1>2, <1>3, <2>1, <2>2, <2>3 DEF Following
  <2> QED BY <1>4, <2>1, <2>2, <2>4
<1>5. CASE AckStep /\ WritePins(byte)'
  <2>1. AlikeR(dev, dev') /\ left = 2 /\ left' = 1 /\ SCL = 1 /\ SCL' = 1
    BY <1>5 DEF AckStep, Calm
  <2>2. dev'.st = dev.st /\ dev'.bit = dev.bit /\ dev'.sr = dev.sr /\ dev'.got = dev.got
    BY <2>1 DEF AlikeR
  <2>3. k = 9 /\ Clocks(left, SCL)' = 9
    BY <2>1, ClocksAre
  <2>4. dev.sda = 0
    BY <1>1, <1>2, <2>1, <2>3 DEF DevAt
  <2>5. xfer'.ret = "ack"
    BY <1>5, <2>4, SensorFacts, XferWrites
  <2>6. Together(dev', 9, byte)
    BY <1>2, <2>2, <2>3 DEF Together
  <2>7. Following(byte)'
    BY <1>2, <1>3, <2>2, <2>3, <2>5, <2>6 DEF Following
  <2> QED BY <1>5, <2>1, <2>2, <2>7
<1>6. CASE RiseStep(byte) /\ WritePins(byte)'
  <2>1. /\ SCL = 0 /\ RiseR(dev, SDA, dev') /\ Clocks(left, SCL)' = k + 1 /\ k \in 0 .. 8 /\ xfer' = xfer
        /\ left' \in 2 .. 29 /\ sda = (IF k < 8 THEN BitOf(byte, 7 - k) ELSE 1)
    BY <1>6 DEF RiseStep, Rise
  <2>2. SDA = (IF dev.sda = 0 THEN 0 ELSE sda) /\ DevAt(dev, 0)
    BY <1>1, <2>1 DEF SDA
  <2> HIDE DEF k
  <2>3. Together(dev', k + 1, byte) /\ dev'.st = dev.st /\ dev'.got = dev.got
    BY <1>1, <1>2, <2>1, <2>2, TogetherRise
  <2>4. Following(byte)'
    BY <1>2, <1>3, <2>1, <2>3 DEF Following
  <2> QED BY <1>6, <2>1, <2>3, <2>4
<1>7. CASE FallStep /\ WritePins(byte)'
  <2>1. /\ FallWrites /\ Clocks(left, SCL)' = k /\ k \in 1 .. 8 /\ xfer' = xfer /\ left' \in 2 .. 29
    BY <1>7 DEF FallStep
  <2>2. PICK a \in BOOLEAN : SCL = 1 /\ FallR(dev, a, dev') /\ (~a => busy' = TRUE)
    BY <2>1 DEF FallWrites, Fall
  <2>3. DevAt(dev, 1)
    BY <1>1, <2>2
  <2> HIDE DEF k
  <2>4. /\ \/ Together(dev', k, byte) /\ dev'.st = dev.st
           \/ k = 8 /\ dev.st = "address" /\ ~a /\ dev'.st = "idle"
        /\ dev'.got = IF k = 8 /\ dev.st = "receive" THEN Append(dev.got, byte) ELSE dev.got
    BY <1>1, <1>2, <2>1, <2>2, <2>3, TogetherFall
  <2>5. ~AsData => dev'.got = dev.got
    BY <1>2, <2>4
  <2>6. CASE Together(dev', k, byte) /\ dev'.st = dev.st
    <3>1. Following(byte)'
      BY <1>2, <1>3, <2>1, <2>6 DEF Following
    <3> QED BY <1>7, <2>1, <2>5, <3>1
  <2>7. CASE ~a /\ dev'.st = "idle"
    <3>1. Missing'
      BY <2>1, <2>2, <2>7 DEF Missing, Deaf
    <3> QED BY <1>7, <2>1, <2>5, <3>1
  <2> QED BY <2>4, <2>6, <2>7
<1>8. CASE LastStep
  <2>1. FallWrites /\ left = 1 /\ left' = 0 /\ scl' = 0 /\ xfer' = xfer
    BY <1>8 DEF LastStep
  <2>2. PICK a \in BOOLEAN : SCL = 1 /\ FallR(dev, a, dev')
    BY <2>1 DEF FallWrites, Fall
  <2>3. k = 9 /\ DevAt(dev, 1)
    BY <1>1, <2>1, <2>2, ClocksAre
  <2>4. Together(dev, 9, byte)
    BY <1>2, <2>3
  <2>5. /\ dev'.bit = 0 /\ dev'.got = dev.got
        /\ dev'.st = IF dev.st = "address" /\ byte % 2 = 1 THEN "send" ELSE "receive"
        /\ dev'.st = "receive" => dev'.sr = 0
        /\ dev'.st = "send" => dev'.sent = 0
    BY <1>1, <2>2, <2>3, <2>4, TogetherLast
  <2>6. xfer'.ret = "ack" /\ Message' = Message
    BY <1>2, <2>1 DEF Message
  <2>7. \/ dev'.st = IF Message.rd THEN "send" ELSE "receive"
        \/ AsData /\ dev'.st = "receive"
    <3>1. CASE dev.st = "address"
      BY <2>5, <3>1
    <3>2. CASE dev.st = "receive"
      BY <1>2, <2>5, <3>2
    <3> QED BY <1>2, <3>1, <3>2
  <2>8. AddressEnd'
    BY <1>3, <2>1, <2>5, <2>6, <2>7 DEF AddressEnd
  <2> QED BY <2>5, <2>8
<1> QED BY <1>4, <1>5, <1>6, <1>7, <1>8 DEF WriteGoes

LEMMA AddressMissed ==
    ASSUME SensorInv, SensorInv', NEW byte \in Byte, BitOf(byte, 7) = 1,
           xfer \in Xfer, left \in 1 .. 29, Missing, WriteGoes(byte)
    PROVE  /\ Missing' \/ AddressEnd'
           /\ AddressEnd' \/ (left' \in 1 .. 29 /\ WritePins(byte)')
           /\ ~AsData => dev'.got = dev.got
<1> DEFINE k == Clocks(left, SCL)
<1>1. /\ dev \in Dev /\ DevAt(dev, SCL) /\ dev.sda \in {0, 1}
      /\ dev' \in Dev /\ DevAt(dev', SCL') /\ Framed
  BY SensorFacts, SensorPrimed DEF WriteGoes
<1>2. /\ \/ Deaf
         \/ Behind(dev, k, SCL) /\ First("failed")
         \/ Late(dev, k, SCL) /\ First("yes")
      /\ left = 1 => xfer.ret = "nack"
  BY DEF Missing
<1>3. (First("yes")' <=> First("yes")) /\ (First("failed")' <=> First("failed"))
  BY <1>1, Remembered
<1>4. First("failed") => AsData
  BY DEF First, AsData
<1>5. CASE QuietStep /\ WritePins(byte)'
  <2>1. /\ AlikeR(dev, dev') /\ SCL' = SCL /\ Clocks(left, SCL)' = k /\ xfer' = xfer /\ busy' = busy
        /\ left' = 1 => left = 1
        /\ left' \in 1 .. 29
    BY <1>5 DEF QuietStep, Calm
  <2>2. dev'.st = dev.st /\ dev'.bit = dev.bit /\ dev'.ack = dev.ack /\ dev'.got = dev.got
    BY <2>1 DEF AlikeR
  <2>3. Missing'
    BY <1>2, <1>3, <2>1, <2>2 DEF Missing, Deaf, Behind, Late
  <2> QED BY <1>5, <2>1, <2>2, <2>3
<1>6. CASE AckStep /\ WritePins(byte)'
  <2>1. AlikeR(dev, dev') /\ left = 2 /\ left' = 1 /\ SCL = 1 /\ SCL' = 1 /\ sda = 1 /\ busy' = busy
    BY <1>6 DEF AckStep, Calm
  <2>2. dev'.st = dev.st /\ dev'.bit = dev.bit /\ dev'.got = dev.got
    BY <2>1 DEF AlikeR
  <2>3. k = 9 /\ Clocks(left, SCL)' = 9
    BY <2>1, ClocksAre
  <2>4. Deaf \/ (dev.st = "receive" /\ dev.bit = 8 /\ First("failed"))
    BY <1>2, <2>3 DEF Behind, Late
  <2>5. dev.sda = 1
    BY <1>1, <2>1, <2>4 DEF DevAt, Deaf
  <2>6. xfer'.ret = "nack"
    BY <1>6, <2>1, <2>5, SensorFacts, XferWrites
  <2>7. Missing'
    BY <1>3, <2>1, <2>2, <2>3, <2>4, <2>6 DEF Missing, Deaf, Behind
  <2> QED BY <1>6, <2>1, <2>2, <2>7
<1>7. CASE RiseStep(byte) /\ WritePins(byte)'
  <2>1. /\ SCL = 0 /\ SCL' = 1 /\ RiseR(dev, SDA, dev') /\ Clocks(left, SCL)' = k + 1 /\ k \in 0 .. 8 /\ busy' = busy
        /\ left' \in 2 .. 29 /\ sda = (IF k < 8 THEN BitOf(byte, 7 - k) ELSE 1)
    BY <1>7 DEF RiseStep, Rise
  <2>2. dev'.got = dev.got /\ dev'.st = dev.st
    BY <2>1 DEF RiseR
  <2> HIDE DEF k
  <2>3. CASE Deaf
    BY <1>3, <1>7, <2>1, <2>2, <2>3 DEF Missing, Deaf
  <2>4. CASE Behind(dev, k, SCL) /\ First("failed")
    <3>1. Behind(dev', k + 1, 1)
      BY <1>1, <2>1, <2>4, BehindRise
    <3>2. Missing'
      BY <1>3, <2>1, <2>4, <3>1 DEF Missing
    <3> QED BY <1>7, <2>1, <2>2, <3>2
  <2>5. CASE Late(dev, k, SCL) /\ First("yes")
    <3>1. k = 0 /\ dev.st = "send" /\ dev.bit = 8
      BY <2>1, <2>5 DEF Late
    <3>2. dev.sda = 1
      BY <1>1, <2>1, <3>1 DEF DevAt
    <3>3. SDA = 1
      <4>1. sda = BitOf(byte, 7)
        BY <2>1, <3>1
      <4> QED BY <3>2, <4>1, SensorFacts
    <3>4. RiseR(dev, 1, dev') /\ Late(dev, k, 0)
      BY <2>1, <2>5, <3>3
    <3>5. Late(dev', 1, 1)
      BY <1>1, <2>1, <3>4, LateRise
    <3>6. Missing'
      BY <1>3, <2>1, <2>5, <3>1, <3>5 DEF Missing
    <3> QED BY <1>7, <2>1, <2>2, <3>6
  <2> QED BY <1>2, <2>3, <2>4, <2>5
<1>8. CASE FallStep /\ WritePins(byte)'
  <2>1. /\ FallWrites /\ Clocks(left, SCL)' = k /\ k \in 1 .. 8 /\ left' \in 2 .. 29
    BY <1>8 DEF FallStep
  <2>2. PICK a \in BOOLEAN : SCL = 1 /\ SCL' = 0 /\ FallR(dev, a, dev') /\ (busy => busy')
    <3>1. CASE Fall(TRUE) /\ busy' = busy
      BY <3>1, Zenon DEF Fall
    <3>2. CASE Fall(FALSE) /\ busy' = TRUE
      BY <3>2, Zenon DEF Fall
    <3> QED BY <2>1, <3>1, <3>2 DEF FallWrites
  <2> HIDE DEF k
  <2>3. CASE Deaf
    <3>1. IdleR(dev, dev')
      BY <2>2, <2>3 DEF FallR, Deaf
    <3>2. dev'.st = "idle" /\ dev'.got = dev.got
      BY <3>1 DEF IdleR
    <3>3. Missing'
      BY <1>3, <2>1, <2>2, <2>3, <3>2 DEF Missing, Deaf
    <3> QED BY <1>8, <2>1, <3>2, <3>3
  <2>4. CASE Behind(dev, k, SCL) /\ First("failed")
    <3>1. Behind(dev', k, 0)
      BY <1>1, <2>1, <2>2, <2>4, BehindFall
    <3>2. Missing'
      BY <1>3, <2>1, <2>2, <2>4, <3>1 DEF Missing
    <3> QED BY <1>4, <1>8, <2>1, <2>4, <3>2
  <2>5. CASE Late(dev, k, SCL) /\ First("yes")
    <3>1. dev'.st = "idle" /\ dev'.got = dev.got
      BY <1>1, <2>1, <2>2, <2>5, LateFall
    <3>2. Missing'
      BY <1>3, <2>1, <2>5, <3>1 DEF Missing, Deaf
    <3> QED BY <1>8, <2>1, <3>1, <3>2
  <2> QED BY <1>2, <2>3, <2>4, <2>5
<1>9. CASE LastStep
  <2>1. FallWrites /\ left = 1 /\ left' = 0 /\ scl' = 0 /\ xfer' = xfer
    BY <1>9 DEF LastStep
  <2>2. PICK a \in BOOLEAN : SCL = 1 /\ SCL' = 0 /\ FallR(dev, a, dev') /\ (busy => busy')
    <3>1. CASE Fall(TRUE) /\ busy' = busy
      BY <3>1, Zenon DEF Fall
    <3>2. CASE Fall(FALSE) /\ busy' = TRUE
      BY <3>2, Zenon DEF Fall
    <3> QED BY <2>1, <3>1, <3>2 DEF FallWrites
  <2>3. k = 9 /\ xfer'.ret = "nack"
    BY <1>2, <2>1, <2>2, ClocksAre
  <2>4. CASE Deaf
    <3>1. IdleR(dev, dev')
      BY <2>2, <2>4 DEF FallR, Deaf
    <3>2. dev'.st = "idle" /\ dev'.got = dev.got
      BY <3>1 DEF IdleR
    <3>3. AddressEnd'
      BY <1>3, <2>1, <2>2, <2>3, <2>4, <3>2 DEF AddressEnd, Deaf
    <3> QED BY <3>2, <3>3
  <2>5. CASE Behind(dev, k, SCL) /\ First("failed")
    <3>1. Behind(dev', 9, 0)
      BY <1>1, <2>2, <2>3, <2>5, BehindFall
    <3>2. AddressEnd'
      BY <1>3, <2>1, <2>3, <2>5, <3>1 DEF AddressEnd, Stuck, Behind
    <3> QED BY <1>4, <2>5, <3>2
  <2>6. CASE Late(dev, k, SCL) /\ First("yes")
    BY <2>3, <2>6 DEF Late
  <2> QED BY <1>2, <2>4, <2>5, <2>6
<1> QED BY <1>5, <1>6, <1>7, <1>8, <1>9 DEF WriteGoes

LEMMA AlikeFields ==
    ASSUME NEW d, NEW e, AlikeR(d, e)
    PROVE  /\ e.st = d.st /\ e.bit = d.bit /\ e.sr = d.sr /\ e.sda = d.sda /\ e.ack = d.ack
           /\ e.regs = d.regs /\ e.sent = d.sent /\ e.got = d.got /\ Sending(e) = Sending(d)
BY Zenon DEF AlikeR, Sending

LEMMA DoesSdaL ==
    ASSUME SensorInv, Line, ops[done + 1] = "SDA_L"
    PROVE  /\ Onward /\ skipped' = skipped /\ scl' = scl /\ sda' = 0 /\ busy' = busy
           /\ SCL = 0 \/ dev.sda = 0 => Calm
           /\ SCL = 1 /\ dev.sda = 1 /\ sda = 1 => Start
<1>1. ops[done + 1] = IF 0 = 1 THEN "SDA_H" ELSE "SDA_L"
  OBVIOUS
<1>2. 0 \in {0, 1}
  OBVIOUS
<1> QED BY <1>1, <1>2, DoesSda

LEMMA DoesSdaH ==
    ASSUME SensorInv, Line, ops[done + 1] = "SDA_H"
    PROVE  /\ Onward /\ skipped' = skipped /\ scl' = scl /\ sda' = 1 /\ busy' = busy
           /\ SCL = 0 \/ dev.sda = 0 => Calm
           /\ SCL = 1 /\ dev.sda = 1 /\ sda = 0 => Stop
<1>1. ops[done + 1] = IF 1 = 1 THEN "SDA_H" ELSE "SDA_L"
  OBVIOUS
<1>2. 1 \in {0, 1}
  OBVIOUS
<1> QED BY <1>1, <1>2, DoesSda

\* The clock goes up in a step that waits for it.
Upward == (Waiting /\ Calm) \/ (Onward /\ SCL' = 1 /\ (SCL = 1 => Calm) /\ (SCL = 0 => Rise))

LEMMA DoesWait ==
    ASSUME SensorInv, Line, ~skipped', ops[done + 1] \in {"SCL", "SCL_H", "TRY_SCL_H"}
    PROVE  ~skipped /\ busy' = busy /\ sda' = sda /\ Upward
BY DoesHigh DEF Upward

LEMMA StuckAlike ==
    ASSUME Framed, dev'.st = dev.st, dev'.bit = dev.bit, NEW c
    PROVE  Stuck(c)' <=> Stuck(c)
BY Remembered DEF Stuck

LEMMA StuckRises ==
    ASSUME Framed, Rise, Stuck(0)
    PROVE  Stuck(1)'
<1>1. dev.st = "receive" /\ dev.bit = 8 /\ RiseR(dev, SDA, dev') /\ First("failed")
  BY DEF Stuck, Rise
<1>2. dev'.st = "receive" /\ dev'.bit = 9
  BY <1>1 DEF RiseR
<1> QED BY <1>1, <1>2, Remembered DEF Stuck

LEMMA OpeningLine ==
    ASSUME SensorInv, SensorInv', Line, ~skipped', NEW byte \in Byte,
           ops \in {p \o i2c_writeb(byte) : p \in Openings}, done \in Nat, OpeningPhase
    PROVE  /\ ~skipped /\ Framed /\ done' \in Nat /\ xfer' = xfer /\ dev'.got = dev.got
           /\ OpeningPhase' \/ (left' = 29 /\ WritePins(byte)' /\ (Following(byte)' \/ Missing'))
<1>1. /\ Len(ops) \in {31, 33, 34}
      /\ left = 34 => ops[done + 1] = "SDA_L"
      /\ left = 33 /\ Len(ops) = 34 => ops[done + 1] = "SCL_H"
      /\ left = 32 /\ Len(ops) = 34 => ops[done + 1] = "SDA_H"
      /\ left = 33 /\ Len(ops) = 33 => ops[done + 1] = "SDA_H"
      /\ left = 32 /\ Len(ops) = 33 => ops[done + 1] = "SCL_H"
      /\ left = 31 => ops[done + 1] = "SDA_L"
      /\ left = 30 => ops[done + 1] = "SCL_L"
  BY OpeningOps, ZenonT(60)
<1>2. /\ SCL \in {0, 1} /\ dev.sda \in {0, 1} /\ DevAt(dev, SCL) /\ dev \in Dev
      /\ scl = 0 => SCL = 0
  BY SensorFacts
<1>3. /\ SCL' \in {0, 1} /\ dev' \in Dev /\ DevAt(dev', SCL')
      /\ scl' = 0 => SCL' = 0
  BY SensorPrimed
<1>4. Len(ops) \in Nat
  BY <1>1
<1>5. Framed
  BY LineFrame
<1>6. Onward => left' = left - 1 /\ done' \in Nat /\ xfer' = xfer /\ Len(ops)' = Len(ops)
  BY <1>4, LeftGoes DEF Onward, Framed
<1>7. Waiting => left' = left /\ done' \in Nat /\ xfer' = xfer /\ Len(ops)' = Len(ops)
  BY <1>4, LeftGoes DEF Waiting, Framed
<1>8. (AsData' <=> AsData) /\ (First("yes")' <=> First("yes")) /\ (First("failed")' <=> First("failed"))
  BY <1>5, Remembered
<1>9. Stuck(0) \/ Stuck(1) => AsData
  BY DEF Stuck, AsData, First
<1>10. CASE left = 34 /\ scl = 0 /\ (dev.sda = 1 \/ Stuck(0))
  <2>1. Onward /\ skipped' = skipped /\ scl' = scl /\ sda' = 0 /\ Calm
    BY <1>1, <1>2, <1>10, DoesSdaL
  <2>2. dev'.st = dev.st /\ dev'.bit = dev.bit /\ dev'.sda = dev.sda /\ dev'.got = dev.got /\ SCL' = 0
    BY <1>2, <1>10, <2>1, AlikeFields DEF Calm
  <2>3. dev'.sda = 1 \/ Stuck(0)'
    BY <1>5, <1>10, <2>2, StuckAlike
  <2>4. left' = 33 /\ Len(ops)' = 34
    <3>1. Len(ops) = 34
      <4> DEFINE n == Len(ops)
      <4>1. n \in {31, 33, 34}
        BY <1>1
      <4>2. n - done = 34
        BY <1>10 DEF left
      <4> HIDE DEF n
      <4>3. n = 34
        BY <4>1, <4>2
      <4> QED BY <4>3 DEF n
    <3> QED BY <1>6, <1>10, <2>1, <3>1
  <2>5. OpeningPhase'
    BY <2>1, <2>2, <2>3, <2>4 DEF OpeningPhase
  <2> QED BY <1>5, <1>6, <2>1, <2>2, <2>5
<1>11. CASE left = 33 /\ Len(ops) = 34 /\ sda = 0 /\ (dev.sda = 1 \/ Stuck(SCL))
  <2>1. ~skipped /\ sda' = sda /\ Upward
    BY <1>1, <1>11, DoesWait
  <2>2. CASE Waiting /\ Calm
    <3>1. dev'.st = dev.st /\ dev'.bit = dev.bit /\ dev'.sda = dev.sda /\ dev'.got = dev.got /\ SCL' = SCL
      BY <2>2, AlikeFields DEF Calm
    <3>2. dev'.sda = 1 \/ Stuck(SCL)'
      BY <1>8, <1>11, <3>1 DEF Stuck
    <3>3. OpeningPhase'
      BY <1>7, <1>11, <2>1, <2>2, <3>1, <3>2 DEF OpeningPhase
    <3> QED BY <1>5, <1>7, <2>1, <2>2, <3>1, <3>3
  <2>3. CASE Onward /\ SCL' = 1 /\ SCL = 1 /\ Calm
    <3>1. dev'.st = dev.st /\ dev'.bit = dev.bit /\ dev'.sda = dev.sda /\ dev'.got = dev.got
      BY <2>3, AlikeFields DEF Calm
    <3>2. dev'.sda = 1 \/ Stuck(1)'
      BY <1>8, <1>11, <2>3, <3>1 DEF Stuck
    <3>3. OpeningPhase'
      BY <1>6, <1>11, <2>1, <2>3, <3>1, <3>2 DEF OpeningPhase
    <3> QED BY <1>5, <1>6, <2>1, <2>3, <3>1, <3>3
  <2>4. CASE Onward /\ SCL' = 1 /\ SCL = 0 /\ Rise
    <3>1. dev'.sda = dev.sda /\ dev'.got = dev.got
      BY <2>4 DEF Rise, RiseR
    <3>2. dev'.sda = 1 \/ Stuck(1)'
      BY <1>5, <1>11, <2>4, <3>1, StuckRises
    <3>3. OpeningPhase'
      BY <1>6, <1>11, <2>1, <2>4, <3>1, <3>2 DEF OpeningPhase
    <3> QED BY <1>5, <1>6, <2>1, <2>4, <3>1, <3>3
  <2> QED BY <1>2, <2>1, <2>2, <2>3, <2>4 DEF Upward
<1>12. CASE left = 32 /\ Len(ops) = 34 /\ SCL = 1 /\ sda = 0 /\ (dev.sda = 1 \/ Stuck(1))
  <2>1. Onward /\ skipped' = skipped /\ sda' = 1
    BY <1>1, <1>12, DoesSdaH
  <2>2. CASE dev.sda = 1
    <3>1. Stop
      BY <1>1, <1>12, <2>2, DoesSdaH
    <3>2. SCL' = 1 /\ dev'.sda = 1 /\ dev'.got = dev.got
      BY <3>1 DEF Stop, IdleR
    <3>3. OpeningPhase'
      BY <1>6, <1>12, <2>1, <3>2 DEF OpeningPhase
    <3> QED BY <1>5, <1>6, <2>1, <3>2, <3>3
  <2>3. CASE dev.sda = 0
    <3>1. Stuck(1) /\ Calm
      BY <1>1, <1>12, <2>3, DoesSdaH
    <3>2. dev'.st = dev.st /\ dev'.bit = dev.bit /\ dev'.sda = dev.sda /\ dev'.got = dev.got /\ SCL' = 1
      BY <1>12, <3>1, AlikeFields DEF Calm
    <3>3. AsData' /\ dev'.st = "receive" /\ dev'.bit = 9
      BY <1>8, <1>9, <3>1, <3>2 DEF Stuck
    <3>4. OpeningPhase'
      BY <1>6, <1>12, <2>1, <3>2, <3>3 DEF OpeningPhase
    <3> QED BY <1>5, <1>6, <2>1, <3>2, <3>4
  <2> QED BY <1>2, <2>2, <2>3
<1>13. CASE left = 33 /\ Len(ops) = 33 /\ scl = 0 /\ dev.sda = 1
  <2>1. Onward /\ skipped' = skipped /\ scl' = scl /\ sda' = 1 /\ Calm
    BY <1>1, <1>2, <1>13, DoesSdaH
  <2>2. dev'.sda = dev.sda /\ dev'.got = dev.got
    BY <2>1, AlikeFields DEF Calm
  <2>3. OpeningPhase'
    BY <1>6, <1>13, <2>1, <2>2 DEF OpeningPhase
  <2> QED BY <1>5, <1>6, <2>1, <2>2, <2>3
<1>14. CASE left = 32 /\ Len(ops) = 33 /\ sda = 1 /\ dev.sda = 1
  <2>1. ~skipped /\ sda' = sda /\ Upward
    BY <1>1, <1>14, DoesWait
  <2>2. CASE Waiting /\ Calm
    <3>1. dev'.sda = dev.sda /\ dev'.got = dev.got
      BY <2>2, AlikeFields DEF Calm
    <3>2. OpeningPhase'
      BY <1>7, <1>14, <2>1, <2>2, <3>1 DEF OpeningPhase
    <3> QED BY <1>5, <1>7, <2>1, <2>2, <3>1, <3>2
  <2>3. CASE Onward /\ SCL' = 1 /\ (Calm \/ Rise)
    <3>1. dev'.sda = dev.sda /\ dev'.got = dev.got
      BY <2>3, AlikeFields DEF Calm, Rise, RiseR
    <3>2. OpeningPhase'
      BY <1>6, <1>14, <2>1, <2>3, <3>1 DEF OpeningPhase
    <3> QED BY <1>5, <1>6, <2>1, <2>3, <3>1, <3>2
  <2> QED BY <1>2, <2>1, <2>2, <2>3 DEF Upward
<1>15. CASE /\ left = 31 /\ sda = 1
            /\ \/ SCL = 1 /\ dev.sda = 1
               \/ scl = 0 /\ (Unheard \/ Stuck(0))
               \/ SCL = 1 /\ AsData /\ dev.st = "receive" /\ dev.bit = 9
  <2>1. Onward /\ skipped' = skipped /\ sda' = 0 /\ scl' = scl
    BY <1>1, <1>15, DoesSdaL
  <2>2. left' = 30
    BY <1>6, <1>15, <2>1
  <2>3. CASE SCL = 1 /\ dev.sda = 1
    <3>1. Start
      BY <1>1, <1>15, <2>3, DoesSdaL
    <3>2. SCL' = 1 /\ dev'.st = "address" /\ dev'.bit = 0 /\ dev'.sr = 0 /\ dev'.got = dev.got
      BY <3>1 DEF Start, StartR
    <3>3. OpeningPhase'
      BY <2>2, <3>2 DEF OpeningPhase
    <3> QED BY <1>5, <1>6, <2>1, <3>2, <3>3
  <2>4. CASE scl = 0 /\ (Unheard \/ Stuck(0))
    <3>1. Calm
      BY <1>1, <1>2, <1>15, <2>4, DoesSdaL
    <3>2. dev'.st = dev.st /\ dev'.bit = dev.bit /\ dev'.got = dev.got /\ dev'.ack = dev.ack
      BY <3>1, AlikeFields DEF Calm
    <3>3. Unheard' \/ Stuck(0)'
      BY <1>8, <2>4, <3>2 DEF Unheard, Late, Stuck
    <3>4. OpeningPhase'
      BY <2>1, <2>2, <2>4, <3>3 DEF OpeningPhase
    <3> QED BY <1>5, <1>6, <2>1, <3>2, <3>4
  <2>5. CASE SCL = 1 /\ AsData /\ dev.st = "receive" /\ dev.bit = 9
    <3>1. dev.sda = 0
      BY <1>2, <2>5 DEF DevAt
    <3>2. Calm
      BY <1>1, <1>15, <3>1, DoesSdaL
    <3>3. dev'.st = dev.st /\ dev'.bit = dev.bit /\ dev'.got = dev.got /\ SCL' = SCL
      BY <3>2, AlikeFields DEF Calm
    <3>4. OpeningPhase'
      BY <1>8, <2>2, <2>5, <3>3 DEF OpeningPhase
    <3> QED BY <1>5, <1>6, <2>1, <3>3, <3>4
  <2> QED BY <1>15, <2>3, <2>4, <2>5
<1>16. CASE /\ left = 30
            /\ \/ SCL = 1 /\ dev.st = "address" /\ dev.bit = 0 /\ dev.sr = 0
               \/ scl = 0 /\ (Unheard \/ Stuck(0))
               \/ SCL = 1 /\ AsData /\ dev.st = "receive" /\ dev.bit = 9
  <2>1. Onward /\ skipped' = skipped /\ scl' = 0
    BY <1>1, <1>16, DoesLow
  <2>2. left' = 29 /\ SCL' = 0
    BY <1>3, <1>6, <1>16, <2>1
  <2>3. WritePins(byte)'
    <3>1. left' = 29 - 3 * 0 /\ 0 \in 0 .. 7
      BY <2>2
    <3> QED BY <2>1, <3>1 DEF WritePins
  <2>4. Clocks(left, SCL)' = 0
    <3>1. Clocks(29, 0) = 0
      BY DEF Clocks
    <3> QED BY <2>2, <3>1
  <2>5. byte \div pow2[9] = 0
    BY Bits
  <2>6. CASE SCL = 1 /\ dev.st = "address" /\ dev.bit = 0 /\ dev.sr = 0
    <3>1. \E a \in BOOLEAN : FallR(dev, a, dev')
      BY <1>1, <1>16, <2>6, DoesLow DEF Fall
    <3>2. AlikeR(dev, dev')
      BY <2>6, <3>1 DEF FallR
    <3>3. dev'.st = "address" /\ dev'.bit = 0 /\ dev'.sr = 0 /\ dev'.got = dev.got
      BY <2>6, <3>2, AlikeFields
    <3>4. Together(dev', 0, byte)
      BY <2>5, <3>3 DEF Together
    <3>5. Following(byte)'
      BY <2>2, <2>4, <3>3, <3>4 DEF Following
    <3> QED BY <1>5, <1>6, <2>1, <2>2, <2>3, <3>3, <3>5
  <2>7. CASE scl = 0 /\ (Unheard \/ Stuck(0))
    <3>1. Calm
      BY <1>1, <1>2, <1>16, <2>7, DoesLow
    <3>2. dev'.st = dev.st /\ dev'.bit = dev.bit /\ dev'.got = dev.got /\ dev'.ack = dev.ack
      BY <3>1, AlikeFields DEF Calm
    <3>3. CASE Unheard
      BY <1>5, <1>6, <1>8, <2>1, <2>2, <2>3, <2>4, <3>2, <3>3 DEF Unheard, Missing, Deaf, Late
    <3>4. CASE Stuck(0)
      BY <1>5, <1>6, <1>8, <2>1, <2>2, <2>3, <2>4, <3>2, <3>4 DEF Stuck, Missing, Behind
    <3> QED BY <2>7, <3>3, <3>4
  <2>8. CASE SCL = 1 /\ AsData /\ dev.st = "receive" /\ dev.bit = 9
    <3>1. \E a \in BOOLEAN : FallR(dev, a, dev')
      BY <1>1, <1>16, <2>8, DoesLow DEF Fall
    <3>2. dev'.st = "receive" /\ dev'.bit = 0 /\ dev'.sr = 0 /\ dev'.got = dev.got
      BY <2>8, <3>1 DEF FallR
    <3>3. Together(dev', 0, byte)
      BY <2>5, <3>2 DEF Together
    <3>4. Following(byte)'
      BY <1>8, <2>2, <2>4, <2>8, <3>2, <3>3 DEF Following
    <3> QED BY <1>5, <1>6, <2>1, <2>2, <2>3, <3>2, <3>4
  <2> QED BY <1>16, <2>6, <2>7, <2>8
<1> QED BY <1>10, <1>11, <1>12, <1>13, <1>14, <1>15, <1>16 DEF OpeningPhase

\* The sensor holds the clock or lets go of it.
Stirs ==
    /\ Framed /\ done' = done /\ xfer' = xfer /\ scl' = scl /\ sda' = sda /\ busy' = busy /\ skipped' = skipped
    /\ Calm \/ (Rise /\ scl = 1)

LEMMA StirsIs == ASSUME SensorInv, HoldClock \/ ReleaseClock PROVE SensorInv' /\ Stirs
<1>1. scl = 0 \/ scl = 1
  BY SensorFacts
<1> QED BY <1>1, HoldIs, ReleaseIs DEF Stirs

LEMMA OpeningStirs ==
    ASSUME SensorInv, SensorInv', Stirs, Len(ops) \in Nat, done \in Nat, OpeningPhase
    PROVE  OpeningPhase' /\ dev'.got = dev.got
<1>1. Framed /\ left' = left /\ Len(ops)' = Len(ops) /\ scl' = scl /\ sda' = sda
  BY LeftGoes DEF Stirs, Framed
<1>2. (AsData' <=> AsData) /\ (First("yes")' <=> First("yes")) /\ (First("failed")' <=> First("failed"))
  BY <1>1, Remembered
<1>3. CASE Calm
  <2>1. /\ dev'.st = dev.st /\ dev'.bit = dev.bit /\ dev'.sr = dev.sr /\ dev'.sda = dev.sda /\ dev'.ack = dev.ack
        /\ dev'.got = dev.got /\ SCL' = SCL
    BY <1>3, AlikeFields DEF Calm
  <2>2. (Stuck(0)' <=> Stuck(0)) /\ (Stuck(1)' <=> Stuck(1)) /\ (Stuck(SCL)' <=> Stuck(SCL)) /\ (Unheard' <=> Unheard)
    BY <1>2, <2>1 DEF Stuck, Unheard, Late
  <2> QED BY <1>1, <1>2, <2>1, <2>2 DEF OpeningPhase
<1>4. CASE Rise /\ scl = 1
  <2>1. SCL = 0 /\ SCL' = 1 /\ dev'.sda = dev.sda /\ dev'.got = dev.got
    BY <1>4 DEF Rise, RiseR
  <2>2. \/ left = 33 /\ Len(ops) = 34 /\ sda = 0 /\ (dev.sda = 1 \/ Stuck(SCL))
        \/ left = 32 /\ Len(ops) = 33 /\ sda = 1 /\ dev.sda = 1
    BY <1>4, <2>1 DEF OpeningPhase
  <2>3. Stuck(SCL) => Stuck(SCL)'
    <3>1. Stuck(0) => Stuck(1)'
      BY <1>1, <1>4, StuckRises
    <3>2. (Stuck(SCL) <=> Stuck(0)) /\ (Stuck(SCL)' <=> Stuck(1)')
      BY <2>1 DEF Stuck
    <3> QED BY <3>1, <3>2
  <2> QED BY <1>1, <2>1, <2>2, <2>3 DEF OpeningPhase
<1> QED BY <1>3, <1>4 DEF Stirs

\* A step on the lines.
BusStep == (Line /\ ~skipped') \/ HoldClock \/ ReleaseClock

LEMMA AddressKeeps ==
    ASSUME SensorInv, SensorInv', BusStep, ~skipped', Len(ops) \in Nat, done \in Nat, xfer \in Xfer,
           xfer.msgs \in Transfers, xfer.i \in 1 .. Len(xfer.msgs), AddressPhase
    PROVE  /\ AddressPhase' /\ Framed /\ done' \in Nat /\ ~skipped
           /\ xfer' \in Xfer /\ xfer'.msgs = xfer.msgs /\ xfer'.i = xfer.i /\ xfer'.n = xfer.n /\ xfer'.read = xfer.read
           /\ ~AsData => dev'.got = dev.got
<1>1. Message.rd \in BOOLEAN
  BY MessageFacts DEF Message
<1>2. PICK byte \in Byte : /\ byte = AddressByte(Message)
                           /\ byte \div 2 = Address /\ (byte % 2 = 1 <=> Message.rd) /\ BitOf(byte, 7) = 1
  BY <1>1, AddressFacts
<1>3. /\ xfer.n = 0 /\ ops \in {p \o i2c_writeb(byte) : p \in Openings}
      /\ OpeningPhase \/ Writing(byte) \/ AddressEnd
  BY <1>2 DEF AddressPhase, Writing
<1>4. (HoldClock \/ ReleaseClock) => Stirs /\ ~skipped
  BY StirsIs DEF Stirs
<1>5. Framed
  BY <1>4, LineFrame DEF BusStep, Stirs
<1>6. ASSUME xfer'.msgs = xfer.msgs, xfer'.i = xfer.i, xfer'.n = xfer.n,
             OpeningPhase' \/ Writing(byte)' \/ AddressEnd'
      PROVE  AddressPhase'
  <2>1. AddressByte(Message)' = byte
    BY <1>2, <1>6 DEF AddressByte, Message
  <2>2. ops' \in {p \o i2c_writeb(byte) : p \in Openings}
    BY <1>3, <1>5 DEF Framed
  <2>3. xfer'.n = 0
    BY <1>3, <1>6
  <2> QED BY <1>6, <2>1, <2>2, <2>3, Zenon DEF AddressPhase, Openings, Writing
<1>7. CASE OpeningPhase
  <2>1. CASE Line
    <3>1. /\ ~skipped /\ Framed /\ done' \in Nat /\ xfer' = xfer /\ dev'.got = dev.got
          /\ OpeningPhase' \/ (left' = 29 /\ WritePins(byte)' /\ (Following(byte)' \/ Missing'))
      BY <1>3, <1>7, <2>1, OpeningLine
    <3>2. left' = 29 => left' \in 1 .. 29
      OBVIOUS
    <3>3. OpeningPhase' \/ Writing(byte)'
      BY <3>1, <3>2 DEF Writing
    <3> QED BY <1>6, <3>1, <3>3
  <2>2. CASE HoldClock \/ ReleaseClock
    <3>1. Stirs /\ ~skipped
      BY <1>4, <2>2
    <3>2. OpeningPhase' /\ dev'.got = dev.got
      BY <1>7, <3>1, OpeningStirs
    <3>3. done' = done /\ xfer' = xfer
      BY <3>1 DEF Stirs
    <3> QED BY <1>5, <1>6, <3>1, <3>2, <3>3
  <2> QED BY <2>1, <2>2 DEF BusStep
<1>8. CASE Writing(byte)
  <2>1. left \in 1 .. 29 /\ WritePins(byte) /\ (Following(byte) \/ Missing)
    BY <1>8 DEF Writing
  <2>2. WriteGoes(byte) /\ ~skipped
    <3>1. CASE Line
      <4>1. ops[done + 1] = i2c_writeb(byte)[30 - left]
        BY <1>3, <2>1, OpeningOps
      <4> QED BY <2>1, <3>1, <4>1, WriteLine
    <3>2. CASE HoldClock \/ ReleaseClock
      BY <1>4, <2>1, <3>2, WriteSensor
    <3> QED BY <3>1, <3>2 DEF BusStep
  <2>3. /\ xfer' \in Xfer /\ xfer'.msgs = xfer.msgs /\ xfer'.i = xfer.i /\ xfer'.n = xfer.n /\ xfer'.read = xfer.read
        /\ done' \in Nat
    BY <2>2, XferWrites DEF WriteGoes
  <2>4. /\ Following(byte)' \/ Missing' \/ AddressEnd'
        /\ AddressEnd' \/ (left' \in 1 .. 29 /\ WritePins(byte)')
        /\ ~AsData => dev'.got = dev.got
    BY <1>2, <2>1, <2>2, AddressFollowed, AddressMissed
  <2>5. Writing(byte)' \/ AddressEnd'
    BY <2>4 DEF Writing
  <2> QED BY <1>5, <1>6, <2>2, <2>3, <2>4, <2>5
<1>9. CASE AddressEnd
  <2>1. left = 0 /\ scl = 0
    BY <1>9 DEF AddressEnd
  <2>2. ~Line
    BY <2>1, LineFrame DEF left
  <2>3. Stirs /\ ~skipped
    BY <1>4, <2>2 DEF BusStep
  <2>4. Calm /\ done' = done /\ xfer' = xfer /\ scl' = scl /\ busy' = busy
    BY <2>1, <2>3 DEF Stirs
  <2>5. left' = 0 /\ dev'.st = dev.st /\ dev'.bit = dev.bit /\ dev'.sr = dev.sr /\ dev'.sent = dev.sent /\ dev'.got = dev.got
    BY <1>5, <2>1, <2>4, AlikeFields, LeftGoes DEF Calm, Framed
  <2>6. (AsData' <=> AsData) /\ (First("yes")' <=> First("yes")) /\ (First("failed")' <=> First("failed"))
    BY <1>5, Remembered
  <2>7. Message' = Message
    BY <2>4 DEF Message
  <2>8. AddressEnd'
    BY <1>9, <2>4, <2>5, <2>6, <2>7 DEF AddressEnd, Deaf, Stuck
  <2> QED BY <1>5, <1>6, <2>3, <2>4, <2>5, <2>8
<1> QED BY <1>3, <1>7, <1>8, <1>9

-----------------------------------------------------------------------------
(* A byte of a message is written.                                          *)

LEMMA SendFollowed ==
    ASSUME SensorInv, SensorInv', NEW byte \in Byte, xfer \in Xfer, left \in 1 .. 29, WriteGoes(byte),
           Together(dev, Clocks(left, SCL), byte), dev.st = "receive", left = 1 => xfer.ret = "ack"
    PROVE  /\ \/ /\ left' \in 1 .. 29 /\ WritePins(byte)'
                 /\ Together(dev', Clocks(left, SCL)', byte) /\ dev'.st = "receive"
                 /\ left' = 1 => xfer'.ret = "ack"
              \/ /\ left' = 0 /\ scl' = 0 /\ xfer'.ret = "ack"
                 /\ dev'.st = "receive" /\ dev'.bit = 0 /\ dev'.sr = 0
           /\ dev'.got = IF left > 4 /\ left' <= 4 THEN Append(dev.got, byte) ELSE dev.got
<1> DEFINE k == Clocks(left, SCL)
<1>1. /\ dev \in Dev /\ DevAt(dev, SCL) /\ dev.sda \in {0, 1}
      /\ dev' \in Dev /\ DevAt(dev', SCL') /\ Framed
  BY SensorFacts, SensorPrimed DEF WriteGoes
<1>2. dev.bit = k
  BY DEF Together
<1>3. CASE QuietStep /\ WritePins(byte)'
  <2>1. /\ AlikeR(dev, dev') /\ Clocks(left, SCL)' = k /\ xfer' = xfer /\ (left' = 1 => left = 1) /\ left' \in 1 .. 29
        /\ left' <= 4 <=> left <= 4
    BY <1>3 DEF QuietStep, Calm
  <2>2. dev'.st = dev.st /\ dev'.bit = dev.bit /\ dev'.sr = dev.sr /\ dev'.got = dev.got
    BY <2>1 DEF AlikeR
  <2>3. Together(dev', k, byte)
    BY <2>2 DEF Together
  <2> QED BY <1>3, <2>1, <2>2, <2>3
<1>4. CASE AckStep /\ WritePins(byte)'
  <2>1. AlikeR(dev, dev') /\ left = 2 /\ left' = 1 /\ SCL = 1 /\ SCL' = 1
    BY <1>4 DEF AckStep, Calm
  <2>2. dev'.st = dev.st /\ dev'.bit = dev.bit /\ dev'.sr = dev.sr /\ dev'.got = dev.got
    BY <2>1 DEF AlikeR
  <2>3. k = 9 /\ Clocks(left, SCL)' = 9
    BY <2>1, ClocksAre
  <2>4. dev.sda = 0
    BY <1>1, <1>2, <2>1, <2>3 DEF DevAt
  <2>5. xfer'.ret = "ack"
    BY <1>4, <2>4, SensorFacts, XferWrites
  <2>6. Together(dev', 9, byte)
    BY <2>2, <2>3 DEF Together
  <2>7. left' \in 1 .. 29 /\ ~(left > 4)
    BY <2>1
  <2> QED BY <1>4, <2>1, <2>2, <2>3, <2>5, <2>6, <2>7
<1>5. CASE RiseStep(byte) /\ WritePins(byte)'
  <2>1. /\ SCL = 0 /\ RiseR(dev, SDA, dev') /\ Clocks(left, SCL)' = k + 1 /\ k \in 0 .. 8 /\ xfer' = xfer
        /\ left' \in 2 .. 29 /\ sda = (IF k < 8 THEN BitOf(byte, 7 - k) ELSE 1)
        /\ left' <= 4 <=> left <= 4
    BY <1>5 DEF RiseStep, Rise
  <2>2. SDA = (IF dev.sda = 0 THEN 0 ELSE sda) /\ DevAt(dev, 0)
    BY <1>1, <2>1 DEF SDA
  <2>3. Together(dev, k, byte)
    OBVIOUS
  <2> HIDE DEF k
  <2>4. Together(dev', k + 1, byte) /\ dev'.st = dev.st /\ dev'.got = dev.got
    BY <1>1, <2>1, <2>2, <2>3, TogetherRise
  <2> QED BY <1>5, <2>1, <2>4
<1>6. CASE FallStep /\ WritePins(byte)'
  <2>1. /\ FallWrites /\ Clocks(left, SCL)' = k /\ k \in 1 .. 8 /\ xfer' = xfer /\ left' \in 2 .. 29
        /\ IF k = 8 THEN left = 5 /\ left' = 4 ELSE left > 5 /\ left' > 4
    BY <1>6 DEF FallStep
  <2>2. PICK a \in BOOLEAN : SCL = 1 /\ FallR(dev, a, dev')
    BY <2>1 DEF FallWrites, Fall
  <2>3. DevAt(dev, 1) /\ Together(dev, k, byte)
    BY <1>1, <2>2
  <2> HIDE DEF k
  <2>4. /\ Together(dev', k, byte) /\ dev'.st = dev.st
        /\ dev'.got = IF k = 8 THEN Append(dev.got, byte) ELSE dev.got
    BY <1>1, <2>1, <2>2, <2>3, TogetherFall
  <2>5. (left > 4 /\ left' <= 4) <=> k = 8
    BY <2>1
  <2> QED BY <1>6, <2>1, <2>4, <2>5
<1>7. CASE LastStep
  <2>1. FallWrites /\ left = 1 /\ left' = 0 /\ scl' = 0 /\ xfer' = xfer
    BY <1>7 DEF LastStep
  <2>2. PICK a \in BOOLEAN : SCL = 1 /\ FallR(dev, a, dev')
    BY <2>1 DEF FallWrites, Fall
  <2>3. k = 9 /\ DevAt(dev, 1)
    BY <1>1, <2>1, <2>2, ClocksAre
  <2>4. Together(dev, 9, byte)
    BY <2>3
  <2>5. dev'.bit = 0 /\ dev'.got = dev.got /\ dev'.st = "receive" /\ dev'.sr = 0
    BY <1>1, <2>2, <2>3, <2>4, TogetherLast
  <2> QED BY <2>1, <2>5
<1> QED BY <1>3, <1>4, <1>5, <1>6, <1>7 DEF WriteGoes

LEMMA SendKeeps ==
    ASSUME SensorInv, SensorInv', BusStep, ~skipped', Len(ops) \in Nat, done \in Nat, xfer \in Xfer,
           xfer.msgs \in Transfers, xfer.i \in 1 .. Len(xfer.msgs), SendPhase
    PROVE  /\ SendPhase' /\ Framed /\ done' \in Nat /\ ~skipped
           /\ xfer' \in Xfer /\ xfer'.msgs = xfer.msgs /\ xfer'.i = xfer.i /\ xfer'.n = xfer.n /\ xfer'.read = xfer.read
           /\ dev'.got = IF left > 4 /\ left' <= 4 THEN Append(dev.got, Message.buf[xfer.n + 1]) ELSE dev.got
<1>1. xfer.n \in Nat /\ xfer.n < Len(Message.buf) /\ ~Message.rd
  BY DEF SendPhase, Xfer
<1>2. PICK byte \in Byte : byte = Message.buf[xfer.n + 1]
  <2>1. Len(Message.buf) \in Nat /\ \A j \in 1 .. Len(Message.buf) : Message.buf[j] \in Byte
    BY MessageFacts DEF Message
  <2>2. xfer.n + 1 \in 1 .. Len(Message.buf)
    BY <1>1, <2>1
  <2> QED BY <2>1, <2>2
<1>3. /\ ops = i2c_writeb(byte)
      /\ \/ /\ left \in 1 .. 29 /\ WritePins(byte)
            /\ Together(dev, Clocks(left, SCL), byte) /\ dev.st = "receive"
            /\ left = 1 => xfer.ret = "ack"
         \/ /\ left = 0 /\ scl = 0 /\ xfer.ret = "ack"
            /\ dev.st = "receive" /\ dev.bit = 0 /\ dev.sr = 0
  BY <1>2 DEF SendPhase
<1>4. (HoldClock \/ ReleaseClock) => Stirs /\ ~skipped
  BY StirsIs DEF Stirs
<1>5. Framed
  BY <1>4, LineFrame DEF BusStep, Stirs
<1>6. ASSUME xfer'.msgs = xfer.msgs, xfer'.i = xfer.i, xfer'.n = xfer.n,
             \/ /\ left' \in 1 .. 29 /\ WritePins(byte)'
                /\ Together(dev', Clocks(left, SCL)', byte) /\ dev'.st = "receive"
                /\ left' = 1 => xfer'.ret = "ack"
             \/ /\ left' = 0 /\ scl' = 0 /\ xfer'.ret = "ack"
                /\ dev'.st = "receive" /\ dev'.bit = 0 /\ dev'.sr = 0
      PROVE  SendPhase'
  <2>1. Message' = Message /\ (Message.buf[xfer.n + 1])' = byte
    BY <1>2, <1>6 DEF Message
  <2>2. ops' = i2c_writeb(byte)
    BY <1>3, <1>5 DEF Framed
  <2> QED BY <1>1, <1>6, <2>1, <2>2 DEF SendPhase
<1>7. CASE /\ left \in 1 .. 29 /\ WritePins(byte)
           /\ Together(dev, Clocks(left, SCL), byte) /\ dev.st = "receive"
           /\ left = 1 => xfer.ret = "ack"
  <2>1. WriteGoes(byte) /\ ~skipped
    <3>1. CASE Line
      <4>1. ops[done + 1] = i2c_writeb(byte)[30 - left]
        <5>1. Len(ops) = 29
          BY <1>3, WriteTable
        <5>2. done + 1 = 30 - left
          BY <5>1 DEF left
        <5> QED BY <1>3, <5>2
      <4> QED BY <1>7, <3>1, <4>1, WriteLine
    <3>2. CASE HoldClock \/ ReleaseClock
      BY <1>4, <1>7, <3>2, WriteSensor
    <3> QED BY <3>1, <3>2 DEF BusStep
  <2>2. /\ xfer' \in Xfer /\ xfer'.msgs = xfer.msgs /\ xfer'.i = xfer.i /\ xfer'.n = xfer.n /\ xfer'.read = xfer.read
        /\ done' \in Nat
    BY <2>1, XferWrites DEF WriteGoes
  <2>3. /\ \/ /\ left' \in 1 .. 29 /\ WritePins(byte)'
              /\ Together(dev', Clocks(left, SCL)', byte) /\ dev'.st = "receive"
              /\ left' = 1 => xfer'.ret = "ack"
           \/ /\ left' = 0 /\ scl' = 0 /\ xfer'.ret = "ack"
              /\ dev'.st = "receive" /\ dev'.bit = 0 /\ dev'.sr = 0
        /\ dev'.got = IF left > 4 /\ left' <= 4 THEN Append(dev.got, byte) ELSE dev.got
    BY <1>7, <2>1, SendFollowed
  <2>4. SendPhase'
    BY <1>6, <2>2, <2>3
  <2> QED BY <1>2, <1>5, <2>1, <2>2, <2>3, <2>4
<1>8. CASE /\ left = 0 /\ scl = 0 /\ xfer.ret = "ack"
           /\ dev.st = "receive" /\ dev.bit = 0 /\ dev.sr = 0
  <2>1. ~Line
    BY <1>8, LineFrame DEF left
  <2>2. Stirs /\ ~skipped
    BY <1>4, <2>1 DEF BusStep
  <2>3. Calm /\ done' = done /\ xfer' = xfer /\ scl' = scl
    BY <1>8, <2>2 DEF Stirs
  <2>4. left' = 0 /\ dev'.st = dev.st /\ dev'.bit = dev.bit /\ dev'.sr = dev.sr /\ dev'.got = dev.got
    BY <1>5, <1>8, <2>3, AlikeFields, LeftGoes DEF Calm, Framed
  <2>5. SendPhase'
    BY <1>6, <1>8, <2>3, <2>4
  <2>6. ~(left > 4)
    BY <1>8
  <2> QED BY <1>5, <2>2, <2>3, <2>4, <2>5, <2>6
<1> QED BY <1>3, <1>7, <1>8

-----------------------------------------------------------------------------
(* A byte is read.                                                          *)

LEMMA Shifted ==
    ASSUME NEW byte \in Byte, NEW k \in 0 .. 8
    PROVE  byte \div pow2[9 - k] \in Byte
<1>1. byte \in Nat /\ byte < 256
  BY DEF Byte
<1>2. pow2[9 - k] \in {1, 2, 4, 8, 16, 32, 64, 128, 256}
  BY DEF pow2
<1> DEFINE p == pow2[9 - k]
<1>3. p = 1 \/ p = 2 \/ p = 4 \/ p = 8 \/ p = 16 \/ p = 32 \/ p = 64 \/ p = 128 \/ p = 256
  BY <1>2
<1> HIDE DEF p
<1>4. byte \div p \in Nat /\ byte \div p < 256
  BY <1>1, <1>3
<1> QED BY <1>4 DEF p, Byte

LEMMA ReadCalm ==
    ASSUME Framed, AlikeR(dev, dev'), NEW k, NEW n, Reading(k, n)
    PROVE  Reading(k, n)' /\ dev'.st = dev.st /\ Sending(dev') = Sending(dev) /\ dev'.got = dev.got /\ dev'.ack = dev.ack
BY AlikeFields, Remembered DEF Reading

LEMMA ReadRises ==
    ASSUME Framed, Rise, NEW k \in 0 .. 8, NEW n, Reading(k, n)
    PROVE  /\ Reading(k + 1, n)' /\ dev'.st = dev.st /\ Sending(dev') = Sending(dev) /\ dev'.got = dev.got
           /\ dev'.ack = IF k = 8 THEN 1 - SDA ELSE dev.ack
<1>1. RiseR(dev, SDA, dev') /\ dev.bit = k /\ dev.st # "idle"
  BY DEF Rise, Reading
<1>2. /\ dev'.st = dev.st /\ dev'.bit = k + 1 /\ dev'.sent = dev.sent /\ dev'.regs = dev.regs /\ dev'.got = dev.got
      /\ dev'.ack = IF k = 8 THEN 1 - SDA ELSE dev.ack
  BY <1>1 DEF RiseR
<1>3. Sending(dev') = Sending(dev)
  BY <1>2, Zenon DEF Sending
<1> QED BY <1>2, <1>3, Remembered DEF Reading

LEMMA ReadFalls ==
    ASSUME Framed, FallWrites, NEW k \in 1 .. 8, NEW n, Reading(k, n)
    PROVE  /\ Reading(k, n)' /\ dev'.st = dev.st /\ (dev.st = "send" => Sending(dev') = Sending(dev))
           /\ ~AsData => dev'.got = dev.got
<1>1. PICK a \in BOOLEAN : FallR(dev, a, dev')
  BY DEF FallWrites, Fall
<1>2. dev.bit = k /\ ((dev.st = "send" /\ dev.sent = n) \/ (AsData /\ dev.st = "receive"))
  BY DEF Reading
<1>3. CASE dev.st = "send" /\ dev.sent = n
  <2>1. dev'.st = dev.st /\ dev'.bit = k /\ dev'.sent = n /\ dev'.regs = dev.regs /\ dev'.got = dev.got
    BY <1>1, <1>2, <1>3 DEF FallR
  <2>2. Sending(dev') = Sending(dev)
    BY <1>3, <2>1, Zenon DEF Sending
  <2> QED BY <1>3, <2>1, <2>2, Remembered DEF Reading
<1>4. CASE AsData /\ dev.st = "receive"
  <2>1. dev'.st = dev.st /\ dev'.bit = k
    <3>1. CASE k = 8
      BY <1>1, <1>2, <1>4, <3>1 DEF FallR
    <3>2. CASE k < 8
      <4>1. AlikeR(dev, dev')
        BY <1>1, <1>2, <1>4, <3>2 DEF FallR
      <4> QED BY <1>2, <4>1, AlikeFields
    <3> QED BY <3>1, <3>2
  <2> QED BY <1>4, <2>1, Remembered DEF Reading
<1> QED BY <1>2, <1>3, <1>4

LEMMA LineRegs == ASSUME SensorInv, Line, ~skipped' PROVE dev'.regs = dev.regs
<1>1. CASE ops[done + 1] = "SDA_L"
  <2>1. Calm \/ Start
    <3>1. SCL \in {0, 1} /\ dev.sda \in {0, 1} /\ sda \in {0, 1} /\ 0 \in {0, 1}
      BY SensorFacts
    <3>2. ops[done + 1] = IF 0 = 1 THEN "SDA_H" ELSE "SDA_L"
      BY <1>1
    <3> QED BY <3>1, <3>2, DoesSda
  <2> QED BY <2>1 DEF Calm, AlikeR, Start, StartR
<1>2. CASE ops[done + 1] = "SDA_H"
  <2>1. Calm \/ Stop
    <3>1. SCL \in {0, 1} /\ dev.sda \in {0, 1} /\ sda \in {0, 1} /\ 1 \in {0, 1}
      BY SensorFacts
    <3>2. ops[done + 1] = IF 1 = 1 THEN "SDA_H" ELSE "SDA_L"
      BY <1>2
    <3> QED BY <3>1, <3>2, DoesSda
  <2> QED BY <2>1 DEF Calm, AlikeR, Stop, IdleR
<1>3. CASE ops[done + 1] = "SCL_L"
  <2>1. Calm \/ Fall(TRUE) \/ Fall(FALSE)
    BY <1>3, DoesLow, SensorFacts
  <2> QED BY <2>1 DEF Calm, AlikeR, Fall, FallR
<1>4. CASE ops[done + 1] \in {"SCL", "SCL_H", "TRY_SCL_H"}
  <2>1. Calm \/ Rise
    BY <1>4, DoesWait, SensorFacts DEF Upward
  <2> QED BY <2>1 DEF Calm, AlikeR, Rise, RiseR
<1>5. CASE ops[done + 1] \in {"GET_ACK", "GET_SDA"}
  BY <1>5, DoesGet
<1> QED BY <1>1, <1>2, <1>3, <1>4, <1>5, LineOps

LEMMA StirsRegs == ASSUME Stirs PROVE dev'.regs = dev.regs
BY DEF Stirs, Calm, AlikeR, Rise, RiseR
LEMMA TakenKeeps ==
    ASSUME NEW k, Taken(k), dev'.st = dev.st, dev.st = "send" => Sending(dev') = Sending(dev), xfer'.data = xfer.data
    PROVE  Taken(k)'
BY DEF Taken

LEMMA RecvLine ==
    ASSUME SensorInv, Line, ~skipped', done \in Nat, xfer \in Xfer, ops = i2c_readb, NEW n, RecvBits(n)
    PROVE  /\ RecvBits(n)' /\ Framed /\ done' \in Nat /\ ~skipped
           /\ xfer' \in Xfer /\ xfer'.msgs = xfer.msgs /\ xfer'.i = xfer.i /\ xfer'.n = xfer.n
           /\ xfer'.read = xfer.read /\ xfer'.ret = xfer.ret
           /\ ~AsData => dev'.got = dev.got
<1>1. Framed /\ Len(ops) = 25 /\ done < Len(ops)
  BY ReadTable, LineFrame
<1>2. /\ SCL \in {0, 1} /\ SDA \in {0, 1} /\ (scl = 0 => SCL = 0) /\ dev \in Dev /\ DevAt(dev, SCL)
      /\ dev.sda \in {0, 1} /\ (dev.sda = 1 => SDA = sda) /\ (dev.sda = 0 => SDA = 0)
  BY SensorFacts
<1>3. (done' = done + 1 => left' = left - 1 /\ done' \in Nat) /\ (done' = done => left' = left /\ done' \in Nat)
  BY <1>1, LeftGoes DEF Framed
<1>4. left \in 1 .. 25 /\ done + 1 = 26 - left
  BY <1>1 DEF left
<1>5. CASE left = 25 /\ scl = 0 /\ Reading(0, n) /\ Taken(0)
  <2>1. ops[done + 1] = "SDA_H"
    <3>1. done + 1 = 1
      BY <1>4, <1>5
    <3> QED BY <3>1, ReadTable
  <2>2. Onward /\ skipped' = skipped /\ sda' = 1 /\ Calm
    BY <1>2, <1>5, <2>1, DoesSdaH
  <2>3. Reading(0, n)' /\ dev'.st = dev.st /\ Sending(dev') = Sending(dev) /\ dev'.got = dev.got /\ SCL' = 0
    BY <1>1, <1>2, <1>5, <2>2, ReadCalm DEF Calm
  <2>4. Taken(0)'
    BY <1>5, <2>2, <2>3, TakenKeeps DEF Onward
  <2>5. left' = 24 - 3 * 0 /\ 0 \in 0 .. 7 /\ (0 + SCL') = 0
    BY <1>3, <1>5, <2>2, <2>3 DEF Onward
  <2>6. RecvBits(n)'
    BY <2>2, <2>3, <2>4, <2>5 DEF RecvBits
  <2> QED BY <1>1, <1>3, <2>2, <2>3, <2>6 DEF Onward
<1>6. ASSUME NEW i \in 0 .. 7, left = 24 - 3 * i /\ Reading(i + SCL, n) /\ sda = 1 /\ Taken(i)
      PROVE  RecvBits(n)' /\ dev'.got = dev.got /\ done' \in Nat /\ xfer' = xfer /\ ~skipped
  <2>1. ops[done + 1] = "TRY_SCL_H"
    <3>1. done + 1 = 3 * i + 2
      BY <1>4, <1>6
    <3> QED BY <3>1, ReadTable
  <2>2. ~skipped /\ sda' = 1 /\ Upward
    BY <1>6, <2>1, DoesWait
  <2>3. CASE Waiting /\ Calm
    <3>1. SCL' = SCL /\ done' = done /\ xfer' = xfer /\ left' = left /\ done' \in Nat
      BY <1>3, <2>3 DEF Calm, Waiting
    <3>2. Reading(i + SCL, n)' /\ dev'.st = dev.st /\ Sending(dev') = Sending(dev) /\ dev'.got = dev.got
      <4> DEFINE k == i + SCL
      <4>1. Reading(k, n) /\ AlikeR(dev, dev') /\ k' = k
        BY <1>6, <2>3, <3>1 DEF Calm
      <4> HIDE DEF k
      <4>2. dev'.bit = k /\ dev'.st = dev.st /\ Sending(dev') = Sending(dev) /\ dev'.got = dev.got /\ dev'.sent = dev.sent
        BY <4>1, AlikeFields DEF Reading
      <4>3. Reading(i + SCL, n)'
        BY <1>1, <1>6, <3>1, <4>2, Remembered DEF Reading, k
      <4> QED BY <4>2, <4>3
    <3>3. Taken(i)'
      BY <1>6, <3>1, <3>2, TakenKeeps
    <3> QED BY <1>6, <2>2, <3>1, <3>2, <3>3 DEF RecvBits
  <2>4. CASE Onward /\ SCL' = 1 /\ (SCL = 1 => Calm) /\ (SCL = 0 => Rise)
    <3>1. done' = done + 1 /\ xfer' = xfer /\ left' = 23 - 3 * i /\ done' \in Nat
      BY <1>3, <1>6, <2>4 DEF Onward
    <3>2. Reading(i + 1, n)' /\ dev'.st = dev.st /\ Sending(dev') = Sending(dev) /\ dev'.got = dev.got
      <4>1. CASE SCL = 1
        BY <1>1, <1>6, <2>4, <4>1, ReadCalm DEF Calm
      <4>2. CASE SCL = 0
        <5>1. i + SCL = i /\ i \in 0 .. 8
          BY <4>2
        <5>2. Reading(i, n) /\ Rise
          BY <1>6, <2>4, <4>2, <5>1
        <5> QED BY <1>1, <5>1, <5>2, ReadRises
      <4> QED BY <1>2, <4>1, <4>2
    <3>3. Taken(i)'
      BY <1>6, <3>1, <3>2, TakenKeeps
    <3>4. RecvBits(n)'
      BY <2>2, <2>4, <3>1, <3>2, <3>3 DEF RecvBits
    <3> QED BY <2>2, <3>1, <3>2, <3>4
  <2> QED BY <2>2, <2>3, <2>4 DEF Upward
<1>7. ASSUME NEW i \in 0 .. 7, left = 23 - 3 * i /\ Reading(i + 1, n) /\ SCL = 1 /\ sda = 1 /\ Taken(i)
      PROVE  /\ RecvBits(n)' /\ dev'.got = dev.got /\ done' \in Nat /\ ~skipped
             /\ xfer' \in Xfer /\ xfer'.msgs = xfer.msgs /\ xfer'.i = xfer.i /\ xfer'.n = xfer.n
             /\ xfer'.read = xfer.read /\ xfer'.ret = xfer.ret
  <2>1. ops[done + 1] = "GET_SDA"
    <3>1. done + 1 = 3 * i + 3
      BY <1>4, <1>7
    <3> QED BY <3>1, ReadTable
  <2> DEFINE v == (2 * xfer.data + SDA) % 256
  <2>2. /\ Calm /\ done' = done + 1 /\ skipped' = skipped /\ sda' = sda /\ dev' = dev
        /\ xfer' = [xfer EXCEPT !.data = v]
    BY <2>1, DoesGet
  <2>3. v \in Nat
    <3>1. xfer.data \in Nat
      BY DEF Xfer
    <3> QED BY <1>2, <3>1
  <2>4. /\ xfer' \in Xfer /\ xfer'.msgs = xfer.msgs /\ xfer'.i = xfer.i /\ xfer'.n = xfer.n
        /\ xfer'.read = xfer.read /\ xfer'.ret = xfer.ret /\ xfer'.data = v
    <3> HIDE DEF v
    <3> QED BY <2>2, <2>3, XferData, Zenon
  <2>5. Reading(i + 1, n)' /\ SCL' = 1
    BY <1>1, <1>7, <2>2, ReadCalm DEF Calm
  <2>6. Taken(i + 1)'
    <3>1. SUFFICES ASSUME dev.st = "send" PROVE v = Sending(dev) \div pow2[9 - (i + 1)]
      BY <2>2, <2>4 DEF Taken
    <3>2. SDA = BitOf(Sending(dev), 7 - i)
      <4>1. dev.bit = i + 1
        BY <1>7 DEF Reading
      <4>2. dev.sda = BitOf(Sending(dev), 7 + 1 - dev.bit)
        BY <1>2, <1>7, <3>1, <4>1 DEF DevAt
      <4>3. 7 + 1 - dev.bit = 7 - i
        BY <4>1
      <4>4. SDA = dev.sda
        BY <1>2, <1>7
      <4> QED BY <4>2, <4>3, <4>4
    <3>3. PICK byte \in Byte : byte = Sending(dev)
      <4>1. 0 \in 0 .. 7
        OBVIOUS
      <4> QED BY <1>2, <4>1, SendingBit
    <3>4. xfer.data = byte \div pow2[9 - i]
      BY <1>7, <3>1, <3>3 DEF Taken
    <3>5. 2 * (byte \div pow2[9 - i]) + BitOf(byte, 7 - i) = byte \div pow2[9 - (i + 1)]
      BY Bits
    <3>6. byte \div pow2[9 - (i + 1)] \in Byte
      <4>1. i + 1 \in 0 .. 8
        OBVIOUS
      <4> QED BY <4>1, Shifted
    <3> DEFINE w == byte \div pow2[9 - (i + 1)]
    <3>7. 2 * xfer.data + SDA = w
      BY <3>2, <3>3, <3>4, <3>5
    <3> HIDE DEF w
    <3>8. w % 256 = w
      BY <3>6 DEF Byte, w
    <3>9. v = w
      BY <3>7, <3>8
    <3> QED BY <3>3, <3>9 DEF w
  <2>7. left' = 22 - 3 * i /\ done' \in Nat
    BY <1>3, <1>7, <2>2
  <2>8. RecvBits(n)'
    BY <1>7, <2>2, <2>5, <2>6, <2>7 DEF RecvBits
  <2> QED BY <2>2, <2>4, <2>7, <2>8
<1>8. ASSUME NEW i \in 0 .. 7, left = 22 - 3 * i /\ Reading(i + 1, n) /\ SCL = 1 /\ sda = 1 /\ Taken(i + 1)
      PROVE  RecvBits(n)' /\ (~AsData => dev'.got = dev.got) /\ done' \in Nat /\ xfer' = xfer /\ ~skipped
  <2>1. ops[done + 1] = "SCL_L"
    <3>1. done + 1 = 3 * i + 4
      BY <1>4, <1>8
    <3> QED BY <3>1, ReadTable
  <2>2. Onward /\ skipped' = skipped /\ scl' = 0 /\ sda' = 1 /\ FallWrites /\ SCL' = 0
    BY <1>8, <2>1, DoesLow DEF FallWrites, Fall
  <2>3. i + 1 \in 1 .. 8
    OBVIOUS
  <2>4. /\ Reading(i + 1, n)' /\ dev'.st = dev.st /\ (dev.st = "send" => Sending(dev') = Sending(dev))
        /\ ~AsData => dev'.got = dev.got
    BY <1>1, <1>8, <2>2, <2>3, ReadFalls
  <2>5. Taken(i + 1)' /\ done' \in Nat /\ xfer' = xfer /\ left' = 21 - 3 * i
    BY <1>3, <1>8, <2>2, <2>4, TakenKeeps DEF Onward
  <2>6. RecvBits(n)'
    <3>1. CASE i = 7
      <4>1. left' = 0 /\ i + 1 = 8
        BY <2>5, <3>1
      <4> QED BY <2>2, <2>4, <2>5, <4>1 DEF RecvBits
    <3>2. CASE i < 7
      <4>1. PICK j \in 0 .. 7 : j = i + 1
        BY <3>2
      <4>2. left' = 24 - 3 * j /\ (j + SCL') = j
        BY <2>2, <2>5, <4>1
      <4> QED BY <2>2, <2>4, <2>5, <4>1, <4>2 DEF RecvBits
    <3> QED BY <3>1, <3>2
  <2> QED BY <2>2, <2>4, <2>5, <2>6
<1>9. left # 0
  BY <1>4
<1> QED BY <1>1, <1>5, <1>6, <1>7, <1>8, <1>9 DEF RecvBits

LEMMA RecvStirs ==
    ASSUME SensorInv, Stirs, Len(ops) \in Nat, done \in Nat, NEW n, RecvBits(n)
    PROVE  RecvBits(n)' /\ dev'.got = dev.got
<1>1. Framed /\ left' = left /\ scl' = scl /\ sda' = sda /\ xfer' = xfer
  BY LeftGoes DEF Stirs, Framed
<1>2. AsData' <=> AsData
  BY <1>1, Remembered
<1>3. CASE Calm
  <2>1. /\ dev'.st = dev.st /\ dev'.bit = dev.bit /\ dev'.sent = dev.sent /\ Sending(dev') = Sending(dev)
        /\ dev'.got = dev.got /\ SCL' = SCL
    BY <1>3, AlikeFields DEF Calm
  <2>2. ASSUME NEW k PROVE (Reading(k, n)' <=> Reading(k, n)) /\ (Taken(k)' <=> Taken(k))
    BY <1>1, <1>2, <2>1 DEF Reading, Taken
  <2>3. ASSUME NEW i \in 0 .. 7 PROVE Reading(i + SCL, n)' <=> Reading(i + SCL, n)
    BY <1>2, <2>1 DEF Reading
  <2> QED BY <1>1, <2>1, <2>2, <2>3 DEF RecvBits
<1>4. CASE Rise /\ scl = 1
  <2>1. SCL = 0 /\ SCL' = 1
    BY <1>4 DEF Rise
  <2>2. PICK i \in 0 .. 7 : left = 24 - 3 * i /\ Reading(i + SCL, n) /\ sda = 1 /\ Taken(i)
    BY <1>4, <2>1 DEF RecvBits
  <2>3. i + SCL = i /\ (i + SCL') = i + 1 /\ i \in 0 .. 8
    BY <2>1
  <2>4. Reading(i + 1, n)' /\ dev'.st = dev.st /\ Sending(dev') = Sending(dev) /\ dev'.got = dev.got
    BY <1>1, <1>4, <2>2, <2>3, ReadRises
  <2>5. Taken(i)'
    BY <1>1, <2>2, <2>4, TakenKeeps
  <2>6. Reading(i + SCL, n)'
    BY <2>3, <2>4 DEF Reading
  <2> QED BY <1>1, <2>2, <2>4, <2>5, <2>6 DEF RecvBits
<1> QED BY <1>3, <1>4 DEF Stirs

LEMMA RecvKeeps ==
    ASSUME SensorInv, SensorInv', BusStep, ~skipped', Len(ops) \in Nat, done \in Nat, xfer \in Xfer, RecvPhase
    PROVE  /\ RecvPhase' /\ Framed /\ done' \in Nat /\ ~skipped
           /\ xfer' \in Xfer /\ xfer'.msgs = xfer.msgs /\ xfer'.i = xfer.i /\ xfer'.n = xfer.n /\ xfer'.read = xfer.read
           /\ ~AsData => dev'.got = dev.got
<1>1. PICK n : n = xfer.n
  OBVIOUS
<1>2. Message.rd /\ xfer.n < Len(Message.buf) /\ xfer.ret = "none" /\ ops = i2c_readb /\ RecvBits(n)
  BY <1>1 DEF RecvPhase
<1>3. /\ RecvBits(n)' /\ Framed /\ done' \in Nat /\ ~skipped
      /\ xfer' \in Xfer /\ xfer'.msgs = xfer.msgs /\ xfer'.i = xfer.i /\ xfer'.n = xfer.n
      /\ xfer'.read = xfer.read /\ xfer'.ret = xfer.ret
      /\ ~AsData => dev'.got = dev.got
  <2>1. CASE Line
    BY <1>2, <2>1, RecvLine
  <2>2. CASE HoldClock \/ ReleaseClock
    <3>1. Stirs
      BY <2>2, StirsIs
    <3>2. RecvBits(n)' /\ dev'.got = dev.got
      BY <1>2, <3>1, RecvStirs
    <3> QED BY <3>1, <3>2 DEF Stirs
  <2> QED BY <2>1, <2>2 DEF BusStep
<1>4. Message' = Message /\ ops' = ops /\ xfer'.n = n
  BY <1>1, <1>3 DEF Message, Framed
<1>5. RecvPhase'
  BY <1>1, <1>2, <1>3, <1>4 DEF RecvPhase
<1> QED BY <1>3, <1>5

-----------------------------------------------------------------------------
(* The acknowledge is given.                                                *)

LEMMA AckTable ==
    ASSUME NEW more \in BOOLEAN, ops = i2c_send_ack_or_nack(more), done \in Nat
    PROVE  /\ Len(ops) \in {2, 3}
           /\ left = 3 => more /\ ops[done + 1] = "SDA_L"
           /\ left = 2 => ops[done + 1] = "TRY_SCL_H"
           /\ left = 1 => ops[done + 1] = "SCL_L"
<1>1. CASE more
  <2>1. ops = <<"SDA_L">> \o <<"TRY_SCL_H", "SCL_L">>
    BY <1>1 DEF i2c_send_ack_or_nack
  <2>2. Len(ops) = 3 /\ ops[1] = "SDA_L" /\ ops[2] = "TRY_SCL_H" /\ ops[3] = "SCL_L"
    BY <2>1
  <2>3. (left = 3 => done + 1 = 1) /\ (left = 2 => done + 1 = 2) /\ (left = 1 => done + 1 = 3)
    BY <2>2 DEF left
  <2> QED BY <1>1, <2>2, <2>3
<1>2. CASE ~more
  <2>1. ops = <<>> \o <<"TRY_SCL_H", "SCL_L">>
    BY <1>2 DEF i2c_send_ack_or_nack
  <2>2. Len(ops) = 2 /\ ops[1] = "TRY_SCL_H" /\ ops[2] = "SCL_L"
    BY <2>1
  <2>3. left # 3 /\ (left = 2 => done + 1 = 1) /\ (left = 1 => done + 1 = 2)
    BY <2>2 DEF left
  <2> QED BY <1>2, <2>2, <2>3
<1> QED BY <1>1, <1>2

LEMMA AckRises ==
    ASSUME SensorInv, Framed, Rise, NEW more \in BOOLEAN, NEW m, Reading(8, m), sda = IF more THEN 0 ELSE 1
    PROVE  /\ Reading(9, m)' /\ dev'.st = dev.st /\ dev'.got = dev.got
           /\ dev.st = "send" => dev'.ack = IF more THEN 1 ELSE 0
<1>1. 8 \in 0 .. 8 /\ 8 + 1 = 9
  OBVIOUS
<1>2. Reading(9, m)' /\ dev'.st = dev.st /\ dev'.got = dev.got /\ dev'.ack = 1 - SDA
  BY <1>1, ReadRises
<1>3. dev.st = "send" => SDA = sda
  <2>1. DevAt(dev, 0) /\ dev.bit = 8 /\ (dev.sda = 1 => SDA = sda)
    BY SensorFacts DEF Rise, Reading
  <2> QED BY <2>1 DEF DevAt
<1> QED BY <1>2, <1>3

LEMMA AckBitsLine ==
    ASSUME SensorInv, Line, ~skipped', done \in Nat, NEW more \in BOOLEAN, ops = i2c_send_ack_or_nack(more),
           NEW n \in Nat, AckBits(more, n)
    PROVE  /\ AckBits(more, n)' /\ Framed /\ done' \in Nat /\ ~skipped /\ xfer' = xfer
           /\ ~AsData => dev'.got = dev.got
<1>1. /\ Len(ops) \in {2, 3}
      /\ left = 3 => more /\ ops[done + 1] = "SDA_L"
      /\ left = 2 => ops[done + 1] = "TRY_SCL_H"
      /\ left = 1 => ops[done + 1] = "SCL_L"
  BY AckTable
<1>2. Framed /\ left > 0
  BY <1>1, LineFrame DEF left
<1>3. (done' = done + 1 => left' = left - 1 /\ done' \in Nat) /\ (done' = done => left' = left /\ done' \in Nat)
  BY <1>1, <1>2, LeftGoes DEF Framed
<1>4. SCL \in {0, 1} /\ (scl = 0 => SCL = 0) /\ (AsData' <=> AsData)
  BY <1>2, SensorFacts, Remembered
<1> DEFINE m == n - 1
<1> HIDE DEF m
<1>5. CASE left = 3 /\ scl = 0 /\ Reading(8, m)
  <2>1. Onward /\ skipped' = skipped /\ sda' = 0 /\ Calm /\ more
    BY <1>1, <1>4, <1>5, DoesSdaL
  <2>2. Reading(8, m)' /\ dev'.got = dev.got /\ SCL' = 0
    BY <1>2, <1>4, <1>5, <2>1, ReadCalm DEF Calm
  <2>3. left' = 2 /\ 8 + SCL' = 8 /\ done' \in Nat /\ xfer' = xfer
    BY <1>3, <1>5, <2>1, <2>2 DEF Onward
  <2>4. Reading(8 + SCL, m)'
    BY <2>2, <2>3 DEF Reading
  <2>5. AckBits(more, n)'
    BY <2>1, <2>2, <2>3, <2>4 DEF AckBits, m
  <2> QED BY <1>2, <2>1, <2>2, <2>3, <2>5
<1>6. CASE /\ left = 2 /\ Reading(8 + SCL, m) /\ sda = (IF more THEN 0 ELSE 1)
           /\ SCL = 1 /\ dev.st = "send" => dev.ack = IF more THEN 1 ELSE 0
  <2>1. ~skipped /\ sda' = sda /\ Upward
    BY <1>1, <1>6, DoesWait
  <2>2. CASE Waiting /\ Calm
    <3>1. SCL' = SCL /\ xfer' = xfer /\ left' = 2 /\ done' \in Nat
      BY <1>3, <1>6, <2>2 DEF Calm, Waiting
    <3>2. dev'.bit = dev.bit /\ dev'.st = dev.st /\ dev'.got = dev.got /\ dev'.sent = dev.sent /\ dev'.ack = dev.ack
      BY <2>2, AlikeFields DEF Calm
    <3>3. Reading(8 + SCL, m)'
      BY <1>4, <1>6, <3>1, <3>2 DEF Reading
    <3>4. AckBits(more, n)'
      BY <1>6, <2>1, <3>1, <3>2, <3>3 DEF AckBits, m
    <3> QED BY <1>2, <2>1, <3>1, <3>2, <3>4
  <2>3. CASE Onward /\ SCL' = 1 /\ (SCL = 1 => Calm) /\ (SCL = 0 => Rise)
    <3>1. xfer' = xfer /\ left' = 1 /\ done' \in Nat
      BY <1>3, <1>6, <2>3 DEF Onward
    <3>2. /\ Reading(9, m)' /\ dev'.st = dev.st /\ dev'.got = dev.got
          /\ dev.st = "send" => dev'.ack = IF more THEN 1 ELSE 0
      <4>1. CASE SCL = 1
        <5>1. 8 + SCL = 9
          BY <4>1
        <5> QED BY <1>2, <1>6, <2>3, <4>1, <5>1, ReadCalm DEF Calm
      <4>2. CASE SCL = 0
        <5>1. 8 + SCL = 8
          BY <4>2
        <5> QED BY <1>2, <1>6, <2>3, <4>2, <5>1, AckRises
      <4> QED BY <1>4, <4>1, <4>2
    <3>3. AckBits(more, n)'
      BY <2>3, <3>1, <3>2 DEF AckBits, m
    <3> QED BY <1>2, <2>1, <3>1, <3>2, <3>3
  <2> QED BY <2>1, <2>2, <2>3 DEF Upward
<1>7. CASE /\ left = 1 /\ SCL = 1 /\ Reading(9, m)
           /\ dev.st = "send" => dev.ack = IF more THEN 1 ELSE 0
  <2>1. Onward /\ skipped' = skipped /\ scl' = 0 /\ FallWrites
    BY <1>1, <1>7, DoesLow DEF FallWrites
  <2>2. PICK a \in BOOLEAN : FallR(dev, a, dev')
    BY <2>1 DEF FallWrites, Fall
  <2>3. left' = 0 /\ done' \in Nat /\ xfer' = xfer /\ dev.bit = 9
    BY <1>3, <1>7, <2>1 DEF Onward, Reading
  <2>4. CASE AsData /\ dev.st = "receive"
    <3>1. dev'.st = "receive" /\ dev'.bit = 0 /\ dev'.got = dev.got
      BY <2>2, <2>3, <2>4 DEF FallR
    <3>2. AckBits(more, n)'
      BY <1>4, <2>1, <2>3, <2>4, <3>1 DEF AckBits, Reading
    <3> QED BY <1>2, <2>1, <2>3, <3>1, <3>2
  <2>5. CASE dev.st = "send" /\ dev.sent = m /\ more
    <3>1. dev'.st = "send" /\ dev'.bit = 0 /\ dev'.sent = m + 1 /\ dev'.got = dev.got
      BY <1>7, <2>2, <2>3, <2>5 DEF FallR
    <3>2. m + 1 = n
      BY DEF m
    <3>3. AckBits(more, n)'
      BY <2>1, <2>3, <2>5, <3>1, <3>2 DEF AckBits, Reading
    <3> QED BY <1>2, <2>1, <2>3, <3>1, <3>3
  <2>6. CASE dev.st = "send" /\ ~more
    <3>1. dev'.st = "idle" /\ dev'.got = dev.got
      BY <1>7, <2>2, <2>3, <2>6 DEF FallR, IdleR
    <3>2. AckBits(more, n)'
      BY <2>1, <2>3, <2>6, <3>1 DEF AckBits
    <3> QED BY <1>2, <2>1, <2>3, <3>1, <3>2
  <2> QED BY <1>7, <2>4, <2>5, <2>6 DEF Reading
<1> QED BY <1>2, <1>5, <1>6, <1>7 DEF AckBits, m

LEMMA AckBitsStirs ==
    ASSUME SensorInv, Stirs, Len(ops) \in Nat, done \in Nat, NEW more \in BOOLEAN, NEW n \in Nat, AckBits(more, n)
    PROVE  AckBits(more, n)' /\ dev'.got = dev.got
<1>1. Framed /\ left' = left /\ scl' = scl /\ sda' = sda
  BY LeftGoes DEF Stirs, Framed
<1>2. AsData' <=> AsData
  BY <1>1, Remembered
<1>3. CASE Calm
  <2>1. /\ dev'.st = dev.st /\ dev'.bit = dev.bit /\ dev'.sent = dev.sent /\ dev'.ack = dev.ack
        /\ dev'.got = dev.got /\ SCL' = SCL
    BY <1>3, AlikeFields DEF Calm
  <2>2. ASSUME NEW k, NEW m PROVE Reading(k, m)' <=> Reading(k, m)
    BY <1>1, <1>2, <2>1 DEF Reading
  <2>3. Reading(8 + SCL, n - 1)' <=> Reading(8 + SCL, n - 1)
    BY <1>2, <2>1 DEF Reading
  <2> QED BY <1>1, <1>2, <2>1, <2>2, <2>3 DEF AckBits
<1>4. CASE Rise /\ scl = 1
  <2> DEFINE m == n - 1
  <2> HIDE DEF m
  <2>1. SCL = 0 /\ SCL' = 1 /\ 8 + SCL = 8 /\ 8 + SCL' = 9
    BY <1>4 DEF Rise
  <2>2. left = 2 /\ Reading(8, m) /\ sda = IF more THEN 0 ELSE 1
    BY <1>4, <2>1 DEF AckBits, m
  <2>3. /\ Reading(9, m)' /\ dev'.st = dev.st /\ dev'.got = dev.got
        /\ dev.st = "send" => dev'.ack = IF more THEN 1 ELSE 0
    BY <1>1, <1>4, <2>2, AckRises
  <2>4. Reading(8 + SCL, m)'
    BY <2>1, <2>3 DEF Reading
  <2> QED BY <1>1, <2>2, <2>3, <2>4 DEF AckBits, m
<1> QED BY <1>3, <1>4 DEF Stirs

LEMMA RecvAckKeeps ==
    ASSUME SensorInv, SensorInv', BusStep, ~skipped', Len(ops) \in Nat, done \in Nat, xfer \in Xfer, RecvAckPhase
    PROVE  /\ RecvAckPhase' /\ Framed /\ done' \in Nat /\ ~skipped /\ xfer' = xfer
           /\ ~AsData => dev'.got = dev.got
<1>1. PICK more \in BOOLEAN : more <=> xfer.n < Len(Message.buf)
  <2>1. CASE xfer.n < Len(Message.buf)
    BY <2>1, Zenon
  <2>2. CASE ~(xfer.n < Len(Message.buf))
    BY <2>2, Zenon
  <2> QED BY <2>1, <2>2
<1>2. PICK n \in Nat : n = xfer.n
  BY DEF Xfer
<1>3. /\ Message.rd /\ xfer.n \in 1 .. Len(Message.buf) /\ xfer.ret = "none"
      /\ ops = i2c_send_ack_or_nack(more) /\ AckBits(more, n)
  BY <1>1, <1>2 DEF RecvAckPhase, i2c_send_ack_or_nack, AckBits
<1>4. /\ AckBits(more, n)' /\ Framed /\ done' \in Nat /\ ~skipped /\ xfer' = xfer
      /\ ~AsData => dev'.got = dev.got
  <2>1. CASE Line
    BY <1>3, <2>1, AckBitsLine
  <2>2. CASE HoldClock \/ ReleaseClock
    <3>1. Stirs
      BY <2>2, StirsIs
    <3>2. AckBits(more, n)' /\ dev'.got = dev.got
      BY <1>3, <3>1, AckBitsStirs
    <3> QED BY <3>1, <3>2 DEF Stirs
  <2> QED BY <2>1, <2>2 DEF BusStep
<1>5. Message' = Message /\ ops' = ops /\ (more <=> xfer'.n < Len(Message'.buf))
  BY <1>1, <1>4 DEF Message, Framed
<1>6. RecvAckPhase'
  BY <1>2, <1>3, <1>4, <1>5 DEF RecvAckPhase, i2c_send_ack_or_nack, AckBits
<1> QED BY <1>4, <1>6

-----------------------------------------------------------------------------
(* A stop condition, and the bus at rest.                                   *)

LEMMA StopLine ==
    ASSUME SensorInv, Line, ~skipped', done \in Nat, StopPhase
    PROVE  StopPhase' /\ Framed /\ done' \in Nat /\ ~skipped /\ xfer' = xfer /\ dev'.got = dev.got
<1>1. ops = i2c_stop /\ result \in {"num", "error"} /\ Failed
  BY DEF StopPhase
<1>2. Len(ops) = 3 /\ ops[1] = "SDA_L" /\ ops[2] = "SCL_H" /\ ops[3] = "SDA_H"
  BY <1>1 DEF i2c_stop
<1>3. Framed /\ left > 0
  BY <1>2, LineFrame DEF left
<1>4. (left = 3 => done + 1 = 1) /\ (left = 2 => done + 1 = 2) /\ (left = 1 => done + 1 = 3)
  BY <1>2 DEF left
<1>5. /\ left = 3 => ops[done + 1] = "SDA_L"
      /\ left = 2 => ops[done + 1] = "SCL_H"
      /\ left = 1 => ops[done + 1] = "SDA_H"
  BY <1>2, <1>4
<1>6. (done' = done + 1 => left' = left - 1 /\ done' \in Nat) /\ (done' = done => left' = left /\ done' \in Nat)
  BY <1>2, <1>3, LeftGoes DEF Framed
<1>7. SCL \in {0, 1} /\ (scl = 0 => SCL = 0) /\ dev.sda \in {0, 1} /\ DevAt(dev, SCL)
  BY SensorFacts
<1>8. busy' = busy => ops' = i2c_stop /\ result' \in {"num", "error"} /\ Failed'
  BY <1>1, <1>3 DEF Framed, Failed
<1>9. CASE left = 3 /\ scl = 0 /\ (dev.sda = 1 \/ Stuck(0))
  <2>1. Onward /\ skipped' = skipped /\ sda' = 0 /\ busy' = busy /\ Calm /\ SCL' = 0
    BY <1>5, <1>7, <1>9, DoesSdaL DEF Calm
  <2>2. dev'.st = dev.st /\ dev'.bit = dev.bit /\ dev'.sda = dev.sda /\ dev'.got = dev.got
    BY <2>1, AlikeFields DEF Calm
  <2>3. Stuck(0)' <=> Stuck(0)
    BY <1>3, <2>2, Remembered DEF Stuck
  <2>4. left' = 2 /\ done' \in Nat /\ xfer' = xfer
    BY <1>6, <1>9, <2>1 DEF Onward
  <2>5. Stuck(0)' => Stuck(SCL)'
    BY <2>1 DEF Stuck
  <2>6. StopPhase'
    BY <1>8, <1>9, <2>1, <2>2, <2>3, <2>4, <2>5 DEF StopPhase
  <2> QED BY <1>3, <2>1, <2>2, <2>4, <2>6
<1>10. CASE left = 2 /\ sda = 0 /\ (dev.sda = 1 \/ Stuck(SCL))
  <2>1. ~skipped /\ sda' = sda /\ busy' = busy /\ Upward
    BY <1>5, <1>10, DoesWait
  <2>2. CASE Waiting /\ Calm
    <3>1. SCL' = SCL /\ xfer' = xfer /\ left' = 2 /\ done' \in Nat
      BY <1>6, <1>10, <2>2 DEF Calm, Waiting
    <3>2. dev'.bit = dev.bit /\ dev'.st = dev.st /\ dev'.got = dev.got /\ dev'.sda = dev.sda
      BY <2>2, AlikeFields DEF Calm
    <3>3. Stuck(SCL)' <=> Stuck(SCL)
      BY <1>3, <3>1, <3>2, Remembered DEF Stuck
    <3>4. StopPhase'
      BY <1>8, <1>10, <2>1, <3>1, <3>2, <3>3 DEF StopPhase
    <3> QED BY <1>3, <2>1, <3>1, <3>2, <3>4
  <2>3. CASE Onward /\ SCL' = 1 /\ (SCL = 1 => Calm) /\ (SCL = 0 => Rise)
    <3>1. xfer' = xfer /\ left' = 1 /\ done' \in Nat
      BY <1>6, <1>10, <2>3 DEF Onward
    <3>2. dev'.sda = dev.sda /\ dev'.got = dev.got /\ (Stuck(SCL) => Stuck(1)')
      <4>1. CASE SCL = 1
        <5>1. dev'.bit = dev.bit /\ dev'.st = dev.st /\ dev'.got = dev.got /\ dev'.sda = dev.sda
          BY <2>3, <4>1, AlikeFields DEF Calm
        <5> QED BY <1>3, <4>1, <5>1, Remembered DEF Stuck
      <4>2. CASE SCL = 0
        <5>1. Stuck(SCL) => Stuck(0)
          BY <4>2 DEF Stuck
        <5> QED BY <1>3, <2>3, <4>2, <5>1, StuckRises DEF Rise, RiseR
      <4> QED BY <1>7, <4>1, <4>2
    <3>3. StopPhase'
      BY <1>8, <1>10, <2>1, <2>3, <3>1, <3>2 DEF StopPhase
    <3> QED BY <1>3, <2>1, <3>1, <3>2, <3>3
  <2> QED BY <2>1, <2>2, <2>3 DEF Upward
<1>11. CASE left = 1 /\ SCL = 1 /\ sda = 0 /\ (dev.sda = 1 \/ Stuck(1))
  <2>1. Onward /\ skipped' = skipped /\ sda' = 1 /\ busy' = busy
    BY <1>5, <1>11, DoesSdaH
  <2>2. left' = 0 /\ done' \in Nat /\ xfer' = xfer
    BY <1>6, <1>11, <2>1 DEF Onward
  <2>3. SCL' = 1 /\ dev'.got = dev.got /\ (dev'.st = "idle" \/ Stuck(1)')
    <3>1. CASE dev.sda = 1
      BY <1>5, <1>11, <3>1, DoesSdaH DEF Stop, IdleR
    <3>2. CASE Stuck(1)
      <4>1. dev.sda = 0
        BY <1>7, <1>11, <3>2 DEF Stuck, DevAt
      <4>2. Calm
        BY <1>5, <1>11, <4>1, DoesSdaH
      <4>3. dev'.bit = dev.bit /\ dev'.st = dev.st /\ dev'.got = dev.got /\ SCL' = 1
        BY <1>11, <4>2, AlikeFields DEF Calm
      <4> QED BY <1>3, <3>2, <4>3, Remembered DEF Stuck
    <3> QED BY <1>11, <3>1, <3>2
  <2>4. StopPhase'
    BY <1>8, <2>1, <2>2, <2>3 DEF StopPhase
  <2> QED BY <1>3, <2>1, <2>2, <2>3, <2>4
<1> QED BY <1>3, <1>9, <1>10, <1>11 DEF StopPhase

LEMMA StopStirs ==
    ASSUME SensorInv, Stirs, Len(ops) \in Nat, done \in Nat, StopPhase
    PROVE  StopPhase' /\ dev'.got = dev.got
<1>1. Framed /\ left' = left /\ scl' = scl /\ sda' = sda /\ busy' = busy
  BY LeftGoes DEF Stirs, Framed
<1>2. ops = i2c_stop /\ result \in {"num", "error"} /\ Failed
  BY DEF StopPhase
<1>3. ops' = i2c_stop /\ result' \in {"num", "error"} /\ Failed'
  BY <1>1, <1>2 DEF Framed, Failed
<1>4. CASE Calm
  <2>1. dev'.st = dev.st /\ dev'.bit = dev.bit /\ dev'.sda = dev.sda /\ dev'.got = dev.got /\ SCL' = SCL
    BY <1>4, AlikeFields DEF Calm
  <2>2. (Stuck(0)' <=> Stuck(0)) /\ (Stuck(1)' <=> Stuck(1)) /\ (Stuck(SCL)' <=> Stuck(SCL))
    BY <1>1, <2>1, Remembered DEF Stuck
  <2> QED BY <1>1, <1>3, <2>1, <2>2 DEF StopPhase
<1>5. CASE Rise /\ scl = 1
  <2>1. SCL = 0 /\ SCL' = 1 /\ dev'.sda = dev.sda /\ dev'.got = dev.got
    BY <1>5 DEF Rise, RiseR
  <2>2. left = 2 /\ sda = 0 /\ (dev.sda = 1 \/ Stuck(SCL))
    BY <1>5, <2>1 DEF StopPhase
  <2>3. Stuck(SCL) => Stuck(SCL)'
    <3>1. Stuck(0) => Stuck(1)'
      BY <1>1, <1>5, StuckRises
    <3>2. (Stuck(SCL) <=> Stuck(0)) /\ (Stuck(SCL)' <=> Stuck(1)')
      BY <2>1 DEF Stuck
    <3> QED BY <3>1, <3>2
  <2> QED BY <1>1, <1>3, <2>1, <2>2, <2>3 DEF StopPhase
<1> QED BY <1>4, <1>5 DEF Stirs

LEMMA StopKeeps ==
    ASSUME SensorInv, BusStep, ~skipped', Len(ops) \in Nat, done \in Nat, StopPhase
    PROVE  StopPhase' /\ Framed /\ done' \in Nat /\ ~skipped /\ xfer' = xfer /\ dev'.got = dev.got
<1>1. CASE Line
  BY <1>1, StopLine
<1>2. CASE HoldClock \/ ReleaseClock
  <2>1. Stirs
    BY <1>2, StirsIs
  <2> QED BY <2>1, StopStirs DEF Stirs
<1> QED BY <1>1, <1>2 DEF BusStep

LEMMA RestKeeps ==
    ASSUME SensorInv, BusStep, ~skipped', Len(ops) \in Nat, done \in Nat, left = 0
    PROVE  /\ Framed /\ done' \in Nat /\ ~skipped /\ xfer' = xfer /\ left' = 0 /\ Stirs
           /\ IdlePhase => IdlePhase' /\ dev'.got = dev.got
<1>1. ~Line
  BY LineFrame DEF left
<1>2. Stirs /\ ~skipped /\ Framed /\ done' \in Nat /\ xfer' = xfer /\ left' = 0
  BY <1>1, StirsIs, LeftGoes DEF BusStep, Stirs, Framed
<1>3. ASSUME IdlePhase PROVE IdlePhase' /\ dev'.got = dev.got
  <2>1. scl = 0 \/ SCL = 1
    <3>1. since = 0 \/ since > 0
      BY <1>3 DEF IdlePhase
    <3> QED BY <1>3, <3>1 DEF IdlePhase, Free
  <2>2. Calm /\ scl' = scl /\ sda' = sda /\ busy' = busy
    BY <1>2, <2>1 DEF Stirs, Rise
  <2>3. dev'.st = dev.st /\ dev'.bit = dev.bit /\ dev'.ack = dev.ack /\ dev'.got = dev.got /\ SCL' = SCL
    BY <2>2, AlikeFields DEF Calm
  <2>4. unlocked' = unlocked /\ since' = since /\ result' = result /\ (First("failed")' <=> First("failed"))
    BY <1>2, Remembered DEF Framed
  <2>5. (Stuck(1)' <=> Stuck(1)) /\ (Free' <=> Free) /\ (Failed' <=> Failed) /\ (Late(dev, 0, 0)' <=> Late(dev, 0, 0))
    BY <2>2, <2>3, <2>4 DEF Stuck, Free, Failed, Late
  <2> QED BY <1>2, <1>3, <2>2, <2>3, <2>4, <2>5 DEF IdlePhase
<1> QED BY <1>2, <1>3

-----------------------------------------------------------------------------
(* The bus is set up and unlocked.                                          *)

\* stm32_set_scl does not wait for the clock.
LEMMA DoesScl ==
    ASSUME SensorInv, Line, ~skipped', done \in Nat, ops[done + 1] = "SCL"
    PROVE  ~skipped /\ sda' = sda /\ Onward /\ SCL' = 1 /\ (SCL = 1 => Calm) /\ (SCL = 0 => Rise)
<1>1. done' = done + 1
  BY DEF Line
<1>2. ~Waiting
  BY <1>1 DEF Waiting
<1> QED BY <1>2, DoesWait DEF Upward

LEMMA UnlockKeeps ==
    ASSUME SensorInv, SensorInv', BusStep, ~skipped', Len(ops) \in Nat, done \in Nat, UnlockPhase
    PROVE  UnlockPhase' /\ Framed /\ done' \in Nat /\ ~skipped /\ xfer' = xfer
<1>1. ops = stm32_i2c_gpio_init /\ since = 0
  BY DEF UnlockPhase
<1>2. Len(ops) = 4 /\ ops[1] = "SCL_L" /\ ops[2] = "SDA_L" /\ ops[3] = "SCL" /\ ops[4] = "SDA_H"
  BY <1>1 DEF stm32_i2c_gpio_init
<1>3. Framed
  BY LineFrame, StirsIs DEF BusStep, Stirs
<1>4. ops' = stm32_i2c_gpio_init /\ since' = 0
  BY <1>1, <1>3 DEF Framed
<1>5. /\ SCL \in {0, 1} /\ (scl = 0 => SCL = 0) /\ dev.sda \in {0, 1}
      /\ SCL' \in {0, 1} /\ (scl' = 0 => SCL' = 0)
  BY SensorFacts, SensorPrimed
<1>6. CASE Line
  <2>1. /\ left > 0
        /\ (left = 4 => done + 1 = 1) /\ (left = 3 => done + 1 = 2) /\ (left = 2 => done + 1 = 3) /\ (left = 1 => done + 1 = 4)
    BY <1>2, <1>6, LineFrame DEF left
  <2>2. done' = done + 1 => left' = left - 1 /\ done' \in Nat
    BY <1>3, LeftGoes DEF Framed
  <2>3. CASE left = 4
    <3>1. ops[done + 1] = "SCL_L"
      BY <1>2, <2>1, <2>3
    <3>2. Onward /\ skipped' = skipped /\ scl' = 0
      BY <1>6, <3>1, DoesLow
    <3>3. left' = 3 /\ done' \in Nat
      BY <2>2, <2>3, <3>2 DEF Onward
    <3>4. UnlockPhase'
      BY <1>4, <3>2, <3>3 DEF UnlockPhase
    <3> QED BY <1>3, <3>2, <3>3, <3>4 DEF Onward
  <2>4. CASE left = 3 /\ scl = 0
    <3>1. ops[done + 1] = "SDA_L"
      BY <1>2, <2>1, <2>4
    <3>2. Onward /\ skipped' = skipped /\ scl' = 0 /\ sda' = 0
      BY <1>6, <2>4, <3>1, DoesSdaL
    <3>3. left' = 2 /\ done' \in Nat
      BY <2>2, <2>4, <3>2 DEF Onward
    <3>4. UnlockPhase'
      BY <1>4, <3>2, <3>3 DEF UnlockPhase
    <3> QED BY <1>3, <3>2, <3>3, <3>4 DEF Onward
  <2>5. CASE left = 2 /\ scl = 0 /\ sda = 0
    <3>1. ops[done + 1] = "SCL"
      BY <1>2, <2>1, <2>5
    <3>2. Onward /\ ~skipped /\ SCL' = 1 /\ sda' = 0
      BY <1>6, <2>5, <3>1, DoesScl
    <3>3. left' = 1 /\ done' \in Nat
      BY <2>2, <2>5, <3>2 DEF Onward
    <3>4. UnlockPhase'
      BY <1>4, <3>2, <3>3 DEF UnlockPhase
    <3> QED BY <1>3, <3>2, <3>3, <3>4 DEF Onward
  <2>6. CASE left = 1 /\ SCL = 1 /\ sda = 0
    <3>1. ops[done + 1] = "SDA_H"
      BY <1>2, <2>1, <2>6
    <3>2. Onward /\ skipped' = skipped /\ sda' = 1
      BY <1>6, <3>1, DoesSdaH
    <3>3. left' = 0 /\ done' \in Nat
      BY <2>2, <2>6, <3>2 DEF Onward
    <3>4. SCL' = 1 /\ (dev'.st = "idle" \/ dev'.sda = 0)
      <4>1. CASE dev.sda = 1
        BY <1>6, <2>6, <3>1, <4>1, DoesSdaH DEF Stop, IdleR
      <4>2. CASE dev.sda = 0
        <5>1. Calm
          BY <1>6, <3>1, <4>2, DoesSdaH
        <5> QED BY <2>6, <4>2, <5>1, AlikeFields DEF Calm
      <4> QED BY <1>5, <4>1, <4>2
    <3>5. UnlockPhase'
      BY <1>4, <3>2, <3>3, <3>4 DEF UnlockPhase
    <3> QED BY <1>3, <3>2, <3>3, <3>5 DEF Onward
  <2> QED BY <2>1, <2>3, <2>4, <2>5, <2>6 DEF UnlockPhase
<1>7. CASE HoldClock \/ ReleaseClock
  <2>1. Stirs
    BY <1>7, StirsIs
  <2>2. left' = left /\ done' \in Nat /\ scl' = scl /\ sda' = sda /\ ~skipped /\ xfer' = xfer
    BY <1>3, <2>1, LeftGoes DEF Framed, Stirs
  <2>3. SCL = 1 => SCL' = 1 /\ dev'.st = dev.st /\ dev'.sda = dev.sda
    BY <2>1, AlikeFields DEF Stirs, Rise, Calm
  <2>4. UnlockPhase'
    BY <1>4, <2>2, <2>3 DEF UnlockPhase
  <2> QED BY <1>3, <2>2, <2>4
<1> QED BY <1>6, <1>7 DEF BusStep

LEMMA PulseRises ==
    ASSUME SensorInv, Rise, sda = 1, NEW p \in 1 .. 8, Pulsed(p, 0)
    PROVE  Pulsed(p, 1)'
<1>1. RiseR(dev, SDA, dev') /\ DevAt(dev, 0) /\ dev \in Dev /\ (dev.sda = 1 => SDA = 1)
  BY SensorFacts DEF Rise
<1>2. CASE dev.st = "idle"
  BY <1>1, <1>2 DEF RiseR, Pulsed
<1>3. CASE dev.st = "receive" /\ dev.bit = p - 1 + 0
  BY <1>1, <1>3 DEF RiseR, Pulsed
<1>4. CASE dev.st = "send" /\ dev.bit >= p - 1 + 0
  <2>1. dev'.st = "send" /\ dev'.bit = dev.bit + 1 /\ (dev.bit = 8 => dev'.ack = 1 - SDA)
    BY <1>1, <1>4 DEF RiseR
  <2>2. dev.bit \in 0 .. 8 /\ (dev.bit = 8 => SDA = 1)
    BY <1>1, <1>4 DEF DevAt
  <2> QED BY <1>4, <2>1, <2>2 DEF Pulsed
<1> QED BY <1>2, <1>3, <1>4 DEF Pulsed

LEMMA PulseFalls ==
    ASSUME SensorInv, FallWrites, NEW p \in 0 .. 8, Pulsed(p, 1)
    PROVE  Pulsed(p + 1, 0)'
<1>1. PICK a \in BOOLEAN : FallR(dev, a, dev') /\ DevAt(dev, 1) /\ dev \in Dev
  BY SensorFacts DEF FallWrites, Fall
<1>2. CASE dev.st = "idle"
  BY <1>1, <1>2 DEF FallR, IdleR, Pulsed
<1>3. CASE p = 0 /\ dev.st \in {"address", "receive"} /\ dev.bit = 9
  <2>1. dev.sr % 2 \in {0, 1}
    BY <1>1 DEF Dev
  <2>2. dev'.bit = 0 /\ dev'.st \in {"receive", "send"}
    BY <1>1, <1>3, <2>1 DEF FallR
  <2> QED BY <1>3, <2>2 DEF Pulsed
<1>4. CASE p > 0 /\ dev.st = "receive" /\ dev.bit = p - 1 + 1
  <2>1. dev'.st = "receive" /\ dev'.bit = dev.bit
    BY <1>1, <1>4 DEF FallR, AlikeR
  <2> QED BY <1>4, <2>1 DEF Pulsed
<1>5. CASE dev.st = "send" /\ dev.bit >= p - 1 + 1 /\ (dev.bit = 9 => dev.ack = 0)
  <2>1. dev.bit \in 1 .. 9
    BY <1>1, <1>5 DEF DevAt
  <2>2. CASE dev.bit = 9
    BY <1>1, <1>5, <2>2 DEF FallR, IdleR, Pulsed
  <2>3. CASE dev.bit < 9
    <3>1. dev'.st = "send" /\ dev'.bit = dev.bit
      BY <1>1, <1>5, <2>1, <2>3 DEF FallR
    <3> QED BY <1>5, <2>1, <2>3, <3>1 DEF Pulsed
  <2> QED BY <2>1, <2>2, <2>3
<1> QED BY <1>2, <1>3, <1>4, <1>5 DEF Pulsed

LEMMA PulseAlike ==
    ASSUME Calm, NEW p, NEW c, Pulsed(p, c)
    PROVE  Pulsed(p, c)'
BY AlikeFields DEF Calm, Pulsed

LEMMA PulseKeeps ==
    ASSUME SensorInv, SensorInv', BusStep, ~skipped', Len(ops) \in Nat, done \in Nat, PulsePhase
    PROVE  PulsePhase' /\ Framed /\ done' \in Nat /\ ~skipped /\ xfer' = xfer
<1>1. Framed /\ since = 0 /\ since' = 0 /\ sda = 1 /\ unlocked' = unlocked /\ ops' = ops
  BY LineFrame, StirsIs DEF BusStep, Stirs, PulsePhase, Framed
<1>2. /\ SCL \in {0, 1} /\ (scl = 0 => SCL = 0) /\ SCL' \in {0, 1} /\ (scl' = 0 => SCL' = 0)
  BY SensorFacts, SensorPrimed
<1>3. CASE unlocked = "no" /\ left = 0 /\ Free
  <2>1. /\ Framed /\ done' \in Nat /\ ~skipped /\ xfer' = xfer /\ left' = 0 /\ Stirs
    BY <1>3, RestKeeps
  <2>2. Calm /\ sda' = sda
    BY <1>3, <2>1 DEF Stirs, Rise, Free
  <2>3. Free'
    BY <1>3, <2>2, AlikeFields DEF Calm, Free
  <2> QED BY <1>1, <1>3, <2>1, <2>2, <2>3 DEF PulsePhase, Free
<1>4. CASE /\ unlocked = "yes" /\ ops = Cycle(18, UnlockPulse)
           /\ \/ left = 18 /\ SCL = 1 /\ Pulsed(0, 1)
              \/ \E p \in 1 .. 9 : left = 18 - 2 * p /\ scl = 0 /\ Pulsed(p, 0)
              \/ \E p \in 0 .. 8 : left = 17 - 2 * p /\ SCL = 1 /\ Pulsed(p, 1)
  <2>1. Len(ops) = 18 /\ \A p \in 0 .. 8 : ops[2 * p + 1] = "SCL" /\ ops[2 * p + 2] = "SCL_L"
    BY <1>4, PulseTable
  <2>2. done + 1 = 19 - left
    BY <2>1 DEF left
  <2>3. (done' = done + 1 => left' = left - 1 /\ done' \in Nat) /\ (done' = done => left' = left /\ done' \in Nat)
    BY <1>1, LeftGoes
  <2>4. CASE Line
    <3>1. left > 0
      BY <2>4, LineFrame DEF left
    <3>2. CASE left = 18 /\ SCL = 1 /\ Pulsed(0, 1)
      <4>1. ops[done + 1] = "SCL"
        <5>1. done + 1 = 2 * 0 + 1 /\ 0 \in 0 .. 8
          BY <2>2, <3>2
        <5> QED BY <2>1, <5>1
      <4>2. Onward /\ ~skipped /\ SCL' = 1 /\ sda' = 1 /\ Calm
        BY <1>1, <2>4, <3>2, <4>1, DoesScl
      <4>3. left' = 17 - 2 * 0 /\ 0 \in 0 .. 8 /\ done' \in Nat /\ xfer' = xfer
        BY <2>3, <3>2, <4>2 DEF Onward
      <4>4. Pulsed(0, 1)'
        BY <3>2, <4>2, PulseAlike
      <4>5. PulsePhase'
        BY <1>1, <1>4, <4>2, <4>3, <4>4 DEF PulsePhase
      <4> QED BY <1>1, <4>2, <4>3, <4>5
    <3>3. ASSUME NEW p \in 1 .. 9, left = 18 - 2 * p /\ scl = 0 /\ Pulsed(p, 0)
          PROVE  PulsePhase' /\ done' \in Nat /\ ~skipped /\ xfer' = xfer
      <4>1. p \in 0 .. 8 /\ p \in 1 .. 8
        BY <3>1, <3>3
      <4>2. ops[done + 1] = "SCL"
        <5>1. done + 1 = 2 * p + 1
          BY <2>2, <3>3
        <5> QED BY <2>1, <4>1, <5>1
      <4>3. Onward /\ ~skipped /\ SCL' = 1 /\ sda' = 1 /\ Rise
        BY <1>1, <1>2, <2>4, <3>3, <4>2, DoesScl
      <4>4. left' = 17 - 2 * p /\ done' \in Nat /\ xfer' = xfer
        BY <2>3, <3>3, <4>3 DEF Onward
      <4>5. Pulsed(p, 1)'
        BY <1>1, <3>3, <4>1, <4>3, PulseRises
      <4>6. PulsePhase'
        BY <1>1, <1>4, <4>1, <4>3, <4>4, <4>5 DEF PulsePhase
      <4> QED BY <4>3, <4>4, <4>6
    <3>4. ASSUME NEW p \in 0 .. 8, left = 17 - 2 * p /\ SCL = 1 /\ Pulsed(p, 1)
          PROVE  PulsePhase' /\ done' \in Nat /\ ~skipped /\ xfer' = xfer
      <4>1. ops[done + 1] = "SCL_L"
        <5>1. done + 1 = 2 * p + 2
          BY <2>2, <3>4
        <5> QED BY <2>1, <5>1
      <4>2. Onward /\ skipped' = skipped /\ scl' = 0 /\ sda' = 1 /\ FallWrites
        BY <1>1, <2>4, <3>4, <4>1, DoesLow DEF FallWrites
      <4>3. PICK q \in 1 .. 9 : q = p + 1
        OBVIOUS
      <4>4. left' = 18 - 2 * q /\ done' \in Nat /\ xfer' = xfer
        BY <2>3, <3>4, <4>2, <4>3 DEF Onward
      <4>5. Pulsed(q, 0)'
        BY <3>4, <4>2, <4>3, PulseFalls
      <4>6. PulsePhase'
        BY <1>1, <1>4, <4>2, <4>4, <4>5 DEF PulsePhase
      <4> QED BY <4>2, <4>4, <4>6
    <3> QED BY <1>1, <1>4, <3>2, <3>3, <3>4
  <2>5. CASE HoldClock \/ ReleaseClock
    <3>1. Stirs
      BY <2>5, StirsIs
    <3>2. Calm /\ scl' = scl /\ sda' = sda /\ left' = left /\ done' \in Nat /\ xfer' = xfer /\ ~skipped
      BY <1>4, <2>3, <3>1 DEF Stirs, Rise
    <3>3. SCL' = SCL /\ \A p, c : Pulsed(p, c) => Pulsed(p, c)'
      BY <3>2, PulseAlike DEF Calm
    <3>4. PulsePhase'
      BY <1>1, <1>4, <3>2, <3>3 DEF PulsePhase
    <3> QED BY <1>1, <3>2, <3>4
  <2> QED BY <2>4, <2>5 DEF BusStep
<1> QED BY <1>3, <1>4 DEF PulsePhase

-----------------------------------------------------------------------------
(* What a transfer writes and reads.                                        *)

LEMMA JoinedSteps ==
    ASSUME NEW A, NEW parts \in Seq(Seq(A))
    PROVE  /\ \A k \in 0 .. Len(parts) : Joined(parts)[k] \in Seq(A)
           /\ Joined(parts)[0] = <<>>
           /\ \A k \in 1 .. Len(parts) : Joined(parts)[k] = Joined(parts)[k - 1] \o parts[k]
<1> DEFINE n == Len(parts)
           step == [i \in 1 .. n |-> [s \in Seq(A) |-> s \o parts[i]]]
           Body(g) == [k \in 0 .. n |-> IF k = 0 THEN <<>> ELSE g[k - 1] \o parts[k]]
           f == CHOOSE g : g = Body(g)
<1>1. n \in Nat /\ \A i \in 1 .. n : parts[i] \in Seq(A)
  OBVIOUS
<1>2. \A i \in 1 .. n, s \in Seq(A) : s \o parts[i] \in Seq(A)
  BY <1>1, ConcatProperties
<1>3. \E g : g = Body(g)
  <2>1. step \in [1 .. n -> [Seq(A) -> Seq(A)]]
    BY <1>2, Zenon
  <2>2. <<>> \in Seq(A)
    OBVIOUS
  <2> DEFINE Q == Seq(A)
             empty == <<>>
  <2> HIDE DEF n, step
  <2>3. PICK g \in [0 .. n -> Seq(A)] : g[0] = <<>> /\ \A i \in 1 .. n : g[i] = step[i][g[i - 1]]
    <3>1. n \in Nat /\ empty \in Q /\ step \in Steps(n, Q)
      BY <2>1, <2>2, <1>1 DEF Steps
    <3> HIDE DEF Q, empty
    <3>2. \E g \in [0 .. n -> Q] : Goes(g, n, empty, step)
      BY <3>1, Recursion, Zenon
    <3> QED BY <3>2, Zenon DEF Q, empty, Goes
  <2>4. ASSUME NEW i \in 1 .. n PROVE g[i] = g[i - 1] \o parts[i]
    <3>1. i - 1 \in 0 .. n
      BY <1>1
    <3>2. g[i - 1] \in Seq(A)
      BY <3>1
    <3>3. step[i][g[i - 1]] = g[i - 1] \o parts[i]
      BY <3>2, Zenon DEF step
    <3> QED BY <2>3, <3>3
  <2>5. ASSUME NEW i \in 0 .. n PROVE g[i] = IF i = 0 THEN <<>> ELSE g[i - 1] \o parts[i]
    <3>1. i = 0 \/ i \in 1 .. n
      BY <1>1
    <3> QED BY <3>1, <2>3, <2>4, Zenon
  <2>6. g = Body(g)
    BY <2>5, Zenon
  <2> QED BY <2>6
<1>4. f = Body(f)
  <2> HIDE DEF Body
  <2> QED BY <1>3, Zenon
<1> HIDE DEF n, f
<1>5. f[0] = <<>> /\ \A i \in 1 .. n : f[i] = f[i - 1] \o parts[i]
  <2>1. 0 \in 0 .. n /\ \A i \in 1 .. n : i \in 0 .. n /\ i # 0
    BY <1>1
  <2>2. ASSUME NEW i \in 0 .. n PROVE f[i] = IF i = 0 THEN <<>> ELSE f[i - 1] \o parts[i]
    BY <1>4, Zenon
  <2>3. ASSUME NEW i \in 1 .. n PROVE f[i] = f[i - 1] \o parts[i]
    BY <2>1, <2>2, Zenon
  <2> QED BY <2>1, <2>2, <2>3, Zenon
<1>6. \A i \in 0 .. n : f[i] \in Seq(A)
  <2> DEFINE T == {i \in 0 .. n : f[i] \in Seq(A)}
  <2>1. 0 \in T
    <3>1. f[0] \in Seq(A) /\ 0 \in 0 .. n
      BY <1>1, <1>5
    <3> QED BY <3>1
  <2>2. ASSUME NEW i \in 1 .. n, i - 1 \in T PROVE i \in T
    <3>1. f[i - 1] \in Seq(A)
      BY <2>2
    <3>2. f[i] \in Seq(A)
      BY <1>2, <1>5, <3>1, Zenon
    <3>3. i \in 0 .. n
      BY <1>1
    <3> QED BY <3>2, <3>3
  <2>3. T \in SUBSET (0 .. n)
    OBVIOUS
  <2> HIDE DEF T
  <2>4. T = 0 .. n
    BY <2>1, <2>2, <2>3, <1>1, Induction
  <2> QED BY <2>4 DEF T
<1>7. Joined(parts) = f
  BY DEF Joined, f, n
<1> QED BY <1>5, <1>6, <1>7, Zenon DEF n

LEMMA FirstBytesAre ==
    ASSUME NEW regs \in Registers, NEW n \in Nat
    PROVE  /\ FirstBytes(regs, n) \in Seq(Byte) /\ Len(FirstBytes(regs, n)) = n
           /\ \A j \in 1 .. n : FirstBytes(regs, n)[j] = regs[((j - 1) % Len(regs)) + 1]
           /\ \A j \in Nat : regs[(j % Len(regs)) + 1] \in Byte
<1>1. regs \in Seq(Byte) /\ regs # <<>>
  BY BusAssumption
<1>2. Len(regs) \in Nat \ {0} /\ \A j \in 1 .. Len(regs) : regs[j] \in Byte
  BY <1>1
<1> DEFINE l == Len(regs)
<1> HIDE DEF l
<1>3. ASSUME NEW j \in Nat PROVE (j % l) + 1 \in 1 .. l
  BY <1>2 DEF l
<1>4. ASSUME NEW j \in Nat PROVE regs[(j % Len(regs)) + 1] \in Byte
  BY <1>2, <1>3 DEF l
<1>5. ASSUME NEW j \in 1 .. n PROVE j - 1 \in Nat
  OBVIOUS
<1>6. FirstBytes(regs, n) \in [1 .. n -> Byte]
  BY <1>4, <1>5, Zenon DEF FirstBytes
<1>7. FirstBytes(regs, n) \in Seq(Byte) /\ Len(FirstBytes(regs, n)) = n
  BY <1>6, SeqFrom
<1>8. ASSUME NEW j \in 1 .. n PROVE FirstBytes(regs, n)[j] = regs[((j - 1) % Len(regs)) + 1]
  BY Zenon DEF FirstBytes
<1> QED BY <1>4, <1>7, <1>8

LEMMA FirstBytesGo ==
    ASSUME NEW regs \in Registers, NEW n \in Nat
    PROVE  /\ FirstBytes(regs, 0) = <<>>
           /\ Append(FirstBytes(regs, n), regs[(n % Len(regs)) + 1]) = FirstBytes(regs, n + 1)
<1> DEFINE a == FirstBytes(regs, n)
           b == FirstBytes(regs, n + 1)
           e == regs[(n % Len(regs)) + 1]
<1>1. /\ a \in Seq(Byte) /\ Len(a) = n /\ e \in Byte
      /\ \A j \in 1 .. n : a[j] = regs[((j - 1) % Len(regs)) + 1]
  BY FirstBytesAre
<1>2. /\ b \in Seq(Byte) /\ Len(b) = n + 1
      /\ \A j \in 1 .. n + 1 : b[j] = regs[((j - 1) % Len(regs)) + 1]
  <2>1. n + 1 \in Nat
    OBVIOUS
  <2> QED BY <2>1, FirstBytesAre
<1>3. b[n + 1] = e
  <2>1. n + 1 \in 1 .. n + 1 /\ n + 1 - 1 = n
    OBVIOUS
  <2> QED BY <1>2, <2>1
<1>4. \A j \in 1 .. n : a[j] = b[j]
  <2>1. \A j \in 1 .. n : j \in 1 .. n + 1
    OBVIOUS
  <2> QED BY <1>1, <1>2, <2>1
<1> HIDE DEF a, b, e
<1>5. Append(a, e) \in Seq(Byte) /\ Len(Append(a, e)) = n + 1 /\ \A j \in 1 .. n + 1 : Append(a, e)[j] = b[j]
  BY <1>1, <1>3, <1>4
<1>6. Append(a, e) = b
  BY <1>2, <1>5, SeqEqual
<1>7. FirstBytes(regs, 0) = <<>>
  <2>1. 0 \in Nat
    OBVIOUS
  <2>2. FirstBytes(regs, 0) \in Seq(Byte) /\ Len(FirstBytes(regs, 0)) = 0
    BY <2>1, FirstBytesAre
  <2> QED BY <2>2, EmptySeq
<1> QED BY <1>6, <1>7 DEF a, b, e

LEMMA WrittenSteps ==
    ASSUME NEW msgs \in Transfers, NEW i \in 1 .. Len(msgs)
    PROVE  LET w == Written(msgs)
           IN  /\ w[0] = <<>> /\ w[i - 1] \in Seq(Byte)
               /\ w[i] = w[i - 1] \o (IF msgs[i].rd THEN <<>> ELSE msgs[i].buf)
<1> DEFINE n == Len(msgs)
           parts == [k \in 1 .. n |-> IF msgs[k].rd THEN <<>> ELSE msgs[k].buf]
<1>1. n \in Nat
  BY MessageFacts
<1>2. ASSUME NEW k \in 1 .. n PROVE (IF msgs[k].rd THEN <<>> ELSE msgs[k].buf) \in Seq(Byte)
  <2>1. msgs[k].buf \in Seq(Byte) /\ <<>> \in Seq(Byte)
    BY MessageFacts
  <2> QED BY <2>1
<1>3. parts \in [1 .. n -> Seq(Byte)]
  BY <1>2, Zenon
<1>4. parts \in Seq(Seq(Byte)) /\ Len(parts) = n
  <2> HIDE DEF parts, n
  <2> QED BY <1>1, <1>3, SeqFrom
<1>5. parts[i] = IF msgs[i].rd THEN <<>> ELSE msgs[i].buf
  BY Zenon
<1>6. Written(msgs) = Joined(parts)
  BY DEF Written
<1> HIDE DEF parts
<1> DEFINE A == Byte
<1> HIDE DEF A
<1>7. parts \in Seq(Seq(A)) /\ i \in 1 .. Len(parts) /\ i - 1 \in 0 .. Len(parts)
  BY <1>1, <1>4 DEF A
<1>8. Joined(parts)[i - 1] \in Seq(A) /\ Joined(parts)[0] = <<>> /\ Joined(parts)[i] = Joined(parts)[i - 1] \o parts[i]
  BY <1>7, JoinedSteps
<1> QED BY <1>5, <1>6, <1>8 DEF A

LEMMA ReadSteps ==
    ASSUME NEW msgs \in Transfers, NEW i \in 1 .. Len(msgs), NEW regs \in Registers
    PROVE  LET r == Read(regs, msgs)
           IN  /\ r[0] = <<>> /\ r[i - 1] \in Seq(Byte)
               /\ r[i] = r[i - 1] \o (IF msgs[i].rd THEN FirstBytes(regs, Len(msgs[i].buf)) ELSE <<>>)
<1> DEFINE n == Len(msgs)
           parts == [k \in 1 .. n |-> IF msgs[k].rd THEN FirstBytes(regs, Len(msgs[k].buf)) ELSE <<>>]
<1>1. n \in Nat
  BY MessageFacts
<1>2. ASSUME NEW k \in 1 .. n PROVE (IF msgs[k].rd THEN FirstBytes(regs, Len(msgs[k].buf)) ELSE <<>>) \in Seq(Byte)
  <2>1. Len(msgs[k].buf) \in Nat /\ <<>> \in Seq(Byte)
    BY MessageFacts
  <2>2. FirstBytes(regs, Len(msgs[k].buf)) \in Seq(Byte)
    BY <2>1, FirstBytesAre
  <2> QED BY <2>1, <2>2
<1>3. parts \in [1 .. n -> Seq(Byte)]
  BY <1>2, Zenon
<1>4. parts \in Seq(Seq(Byte)) /\ Len(parts) = n
  <2> HIDE DEF parts, n
  <2> QED BY <1>1, <1>3, SeqFrom
<1>5. parts[i] = IF msgs[i].rd THEN FirstBytes(regs, Len(msgs[i].buf)) ELSE <<>>
  BY Zenon
<1>6. Read(regs, msgs) = Joined(parts)
  BY DEF Read
<1> HIDE DEF parts
<1> DEFINE A == Byte
<1> HIDE DEF A
<1>7. parts \in Seq(Seq(A)) /\ i \in 1 .. Len(parts) /\ i - 1 \in 0 .. Len(parts)
  BY <1>1, <1>4 DEF A
<1>8. Joined(parts)[i - 1] \in Seq(A) /\ Joined(parts)[0] = <<>> /\ Joined(parts)[i] = Joined(parts)[i - 1] \o parts[i]
  BY <1>7, JoinedSteps
<1> QED BY <1>5, <1>6, <1>8 DEF A

LEMMA NextByte ==
    ASSUME NEW w \in Seq(Byte), NEW t \in Seq(Byte), NEW e \in Byte
    PROVE  Append(w \o t, e) = w \o Append(t, e)
<1>1. <<e>> \in Seq(Byte) /\ w \o t \in Seq(Byte)
  BY ConcatProperties
<1>2. Append(w \o t, e) = (w \o t) \o <<e>> /\ Append(t, e) = t \o <<e>>
  BY <1>1, AppendIsConcat
<1> QED BY <1>1, <1>2, ConcatAssociative

LEMMA NextOfBuf ==
    ASSUME NEW b \in Seq(Byte), NEW n \in Nat, n < Len(b)
    PROVE  /\ SubSeq(b, 1, n) \in Seq(Byte) /\ SubSeq(b, 1, 0) = <<>>
           /\ Append(SubSeq(b, 1, n), b[n + 1]) = SubSeq(b, 1, n + 1)
<1>1. Len(b) \in Nat /\ \A i \in 1 .. Len(b) : b[i] \in Byte
  BY ElementOfSeq, LenProperties
<1>2. SubSeq(b, 1, n) \in Seq(Byte)
  <2>1. 1 \in Int /\ n \in Int /\ \A i \in 1 .. n : b[i] \in Byte
    BY <1>1
  <2> QED BY <2>1, SubSeqProperties
<1>3. SubSeq(b, 1, 0) = <<>>
  <2>1. 1 \in Int /\ 0 \in Int /\ 0 < 1
    OBVIOUS
  <2> QED BY <2>1, SubSeqEmpty
<1>4. SubSeq(b, 1, n + 1) = SubSeq(b, 1, n) \o <<b[n + 1]>>
  <2> DEFINE m == n + 1
  <2>1. 1 \in 1 .. Len(b) /\ m \in 1 .. Len(b) /\ m - 1 = n
    BY <1>1
  <2> HIDE DEF m
  <2>2. SubSeq(b, 1, m) = SubSeq(b, 1, m - 1) \o <<b[m]>>
    BY <2>1, SubSeqRecursiveSecond
  <2> QED BY <2>1, <2>2 DEF m
<1>5. n + 1 \in 1 .. Len(b)
  BY <1>1
<1> QED BY <1>1, <1>2, <1>3, <1>4, <1>5, AppendIsConcat

-----------------------------------------------------------------------------
(* A step on the lines, wherever the thread is.                             *)

LEMMA LeftFalls ==
    ASSUME BusStep, ~skipped', Len(ops) \in Nat, done \in Nat
    PROVE  left' = left \/ left' = left - 1
<1>1. CASE Line
  <2>1. ops' = ops
    BY <1>1, LineFrame DEF Framed
  <2>2. done' = done \/ done' = done + 1
    BY <1>1 DEF Line
  <2> QED BY <2>1, <2>2, LeftGoes
<1>2. CASE HoldClock \/ ReleaseClock
  BY <1>2 DEF HoldClock, ReleaseClock, left
<1> QED BY <1>1, <1>2 DEF BusStep

LEMMA StepRegs == ASSUME SensorInv, BusStep, ~skipped' PROVE dev'.regs = dev.regs
BY LineRegs, StirsIs, StirsRegs DEF BusStep

LEMMA SoundAlike ==
    ASSUME NEW n, NEW m, Sound(n, m), xfer'.msgs = xfer.msgs, xfer'.i = xfer.i, xfer'.read = xfer.read,
           dev'.regs = dev.regs, dev'.got = dev.got
    PROVE  Sound(n, m)'
BY Zenon DEF Sound, SoundFor

\* What was sound stays so in a step that does nothing to it.
LEMMA TruthAlike ==
    ASSUME TruthInv, Framed, xfer'.msgs = xfer.msgs, xfer'.i = xfer.i, xfer'.n = xfer.n, xfer'.read = xfer.read,
           dev'.regs = dev.regs, ~AsData => dev'.got = dev.got, pc # "send", since \in 0 .. 3
    PROVE  TruthInv'
<1>1. SUFFICES ASSUME unlocked = "failed" => since = 3 PROVE TruthInv'
  BY DEF TruthInv, Framed
<1>2. dev'.got = dev.got
  BY <1>1 DEF AsData
<1>3. pc' = pc /\ result' = result /\ (unlocked' = "failed" => since' = 3)
  BY <1>1 DEF Framed
<1>4. pc = "address" => Sound(0, 0)'
  BY <1>1, <1>2, SoundAlike DEF TruthInv
<1>5. pc \in {"recv", "recvack"} => Sound(0, xfer.n)'
  <2>1. PICK n : n = xfer.n
    OBVIOUS
  <2>2. pc \in {"recv", "recvack"} => Sound(0, n)
    BY <1>1, <2>1 DEF TruthInv
  <2>3. pc \in {"recv", "recvack"} => Sound(0, n)'
    BY <1>2, <2>2, SoundAlike
  <2>4. n = xfer'.n
    BY <2>1
  <2> QED BY <2>3, <2>4 DEF Sound
<1>6. pc \in {"stop", "idle"} /\ result = "num" =>
        /\ dev'.got = Written(xfer'.msgs)[Len(xfer'.msgs)]
        /\ xfer'.read = Read(dev'.regs, xfer'.msgs)[Len(xfer'.msgs)]
  BY <1>1, <1>2, Zenon DEF TruthInv
<1> QED BY <1>3, <1>4, <1>5, <1>6 DEF TruthInv

LEMMA SoundSend ==
    ASSUME SensorInv, SensorInv', BusStep, ~skipped', BusInv, TruthInv, pc = "send"
    PROVE  TruthInv'
<1>1. /\ Len(ops) \in Nat /\ done \in Nat /\ xfer \in Xfer /\ SendPhase /\ since \in 1 .. 3
      /\ xfer.msgs \in Transfers /\ xfer.i \in 1 .. Len(xfer.msgs)
  BY DEF BusInv, Transferring
<1>2. /\ Framed /\ xfer'.msgs = xfer.msgs /\ xfer'.i = xfer.i /\ xfer'.n = xfer.n /\ xfer'.read = xfer.read
      /\ dev'.got = IF left > 4 /\ left' <= 4 THEN Append(dev.got, Message.buf[xfer.n + 1]) ELSE dev.got
  BY <1>1, SendKeeps
<1>3. dev'.regs = dev.regs
  BY StepRegs
<1>4. pc' = "send" /\ unlocked' = unlocked /\ since' = since
  BY <1>2 DEF Framed
<1>5. SUFFICES ASSUME unlocked = "failed" => since = 3
               PROVE  Sound(IF left <= 4 THEN xfer.n + 1 ELSE xfer.n, 0)'
  BY <1>4 DEF TruthInv
<1>6. PICK n \in Nat : n = xfer.n /\ n < Len(Message.buf) /\ ~Message.rd
  BY <1>1 DEF SendPhase, Xfer
<1>7. PICK b \in Seq(Byte) : b = Message.buf /\ n < Len(b) /\ b[n + 1] \in Byte
  <2>1. Message.buf \in Seq(Byte) /\ Len(Message.buf) \in Nat /\ \A j \in 1 .. Len(Message.buf) : Message.buf[j] \in Byte
    BY <1>1, MessageFacts DEF Message
  <2>2. n + 1 \in 1 .. Len(Message.buf)
    BY <1>6, <2>1
  <2> QED BY <1>6, <2>1, <2>2
<1>8. Message' = Message
  BY <1>2, Zenon DEF Message
<1>9. left \in Int /\ (left' = left \/ left' = left - 1)
  BY <1>1, LeftFalls DEF left
<1>10. CASE left > 4 /\ left' <= 4
  <2>1. Sound(n, 0)
    <3>1. ~(left <= 4)
      BY <1>9, <1>10
    <3> QED BY <1>5, <1>6, <3>1 DEF TruthInv
  <2> DEFINE w == Written(xfer.msgs)[xfer.i - 1]
  <2>2. w \in Seq(Byte)
    BY <1>1, WrittenSteps
  <2>3. dev.got = w \o SubSeq(b, 1, n)
    BY <1>6, <1>7, <2>1 DEF Sound, SoundFor, Message
  <2>4. dev'.got = Append(w \o SubSeq(b, 1, n), b[n + 1])
    BY <1>2, <1>6, <1>7, <1>10, <2>3
  <2> HIDE DEF w
  <2>5. SubSeq(b, 1, n) \in Seq(Byte) /\ Append(SubSeq(b, 1, n), b[n + 1]) = SubSeq(b, 1, n + 1)
    BY <1>7, NextOfBuf
  <2>6. dev'.got = w \o SubSeq(b, 1, n + 1)
    <3>1. PICK v \in Seq(Byte), t \in Seq(Byte), e \in Byte : v = w /\ t = SubSeq(b, 1, n) /\ e = b[n + 1]
      BY <1>7, <2>2, <2>5
    <3>2. Append(v \o t, e) = v \o Append(t, e)
      BY NextByte
    <3> QED BY <2>4, <2>5, <3>1, <3>2, Zenon
  <2>7. w = Written(xfer'.msgs)[xfer'.i - 1]
    BY <1>2, Zenon DEF w
  <2>8. xfer'.n + 1 = n + 1
    BY <1>2, <1>6
  <2>9. dev'.got = Written(xfer'.msgs)[xfer'.i - 1] \o SubSeq(Message'.buf, 1, xfer'.n + 1)
    BY <1>7, <1>8, <2>6, <2>7, <2>8, Zenon
  <2>10. xfer'.read = Read(dev'.regs, xfer'.msgs)[xfer'.i - 1] \o <<>>
    <3>1. xfer.read = Read(dev.regs, xfer.msgs)[xfer.i - 1] \o <<>>
      BY <1>6, <2>1 DEF Sound, SoundFor, Message
    <3> QED BY <1>2, <1>3, <3>1, Zenon
  <2>11. ~Message'.rd
    BY <1>6, <1>8
  <2>12. Sound(xfer.n + 1, 0)'
    BY <2>9, <2>10, <2>11, Zenon DEF Sound, SoundFor, Message
  <2> QED BY <1>10, <2>12, Zenon
<1>11. CASE ~(left > 4 /\ left' <= 4)
  <2>1. (left' <= 4) <=> (left <= 4)
    BY <1>9, <1>11
  <2>2. PICK k : k = IF left <= 4 THEN xfer.n + 1 ELSE xfer.n
    OBVIOUS
  <2>3. k = IF left' <= 4 THEN xfer'.n + 1 ELSE xfer'.n
    BY <1>2, <2>1, <2>2
  <2>4. Sound(k, 0)
    BY <1>5, <2>2 DEF TruthInv
  <2>5. Sound(k, 0)'
    BY <1>2, <1>3, <1>11, <2>4, SoundAlike
  <2> QED BY <2>3, <2>5, Zenon DEF Sound
<1> QED BY <1>10, <1>11

LEMMA BusKeeps ==
    ASSUME SensorInv, SensorInv', BusStep, ~skipped', BusInv, TruthInv
    PROVE  BusInv' /\ TruthInv'
<1>1. /\ Len(ops) \in Nat /\ done \in Nat /\ xfer \in Xfer /\ unlocked \in {"no", "yes", "failed"}
      /\ pc \in Transferring \cup {"boot", "unlock", "unlocked", "idle"}
  BY DEF BusInv
<1>2. dev'.regs = dev.regs
  BY StepRegs
<1>3. ASSUME Framed, done' \in Nat, xfer' \in Xfer, xfer'.msgs = xfer.msgs, xfer'.i = xfer.i,
             pc = "boot" => left' = 0,
             pc = "unlock" => UnlockPhase',
             pc = "unlocked" => PulsePhase',
             pc = "idle" => IdlePhase',
             pc = "address" => AddressPhase',
             pc = "send" => SendPhase',
             pc = "recv" => RecvPhase',
             pc = "recvack" => RecvAckPhase',
             pc = "stop" => StopPhase'
      PROVE  BusInv'
  <2>1. pc' = pc /\ since' = since /\ unlocked' = unlocked /\ Len(ops') \in Nat
    BY <1>1, <1>3 DEF Framed
  <2>2. pc \in Transferring =>
          since' \in 1 .. 3 /\ xfer'.msgs \in Transfers /\ xfer'.i \in 1 .. Len(xfer'.msgs)
    BY <1>3, <2>1 DEF BusInv
  <2>3. (pc = "boot" => since' = 0) /\ (since' = 0 => result' = "none")
    BY <1>3, <2>1 DEF BusInv, Framed
  <2> QED BY <1>1, <1>3, <2>1, <2>2, <2>3, ZenonT(60) DEF BusInv
<1>4. CASE pc = "boot"
  <2>1. left = 0 /\ since = 0
    BY <1>4 DEF BusInv
  <2>2. Framed /\ done' \in Nat /\ xfer' = xfer /\ left' = 0
    BY <1>1, <2>1, RestKeeps
  <2>3. BusInv'
    BY <1>1, <1>3, <1>4, <2>2
  <2>4. TruthInv'
    BY <1>4, <2>2 DEF TruthInv, Framed
  <2> QED BY <2>3, <2>4
<1>5. CASE pc = "unlock"
  <2>1. UnlockPhase
    BY <1>5 DEF BusInv
  <2>2. UnlockPhase' /\ Framed /\ done' \in Nat /\ xfer' = xfer
    BY <1>1, <2>1, UnlockKeeps
  <2>3. BusInv'
    BY <1>1, <1>3, <1>5, <2>2
  <2>4. TruthInv'
    BY <1>5, <2>2 DEF TruthInv, Framed
  <2> QED BY <2>3, <2>4
<1>6. CASE pc = "unlocked"
  <2>1. PulsePhase
    BY <1>6 DEF BusInv
  <2>2. PulsePhase' /\ Framed /\ done' \in Nat /\ xfer' = xfer
    BY <1>1, <2>1, PulseKeeps
  <2>3. BusInv'
    BY <1>1, <1>3, <1>6, <2>2
  <2>4. TruthInv'
    BY <1>6, <2>2 DEF TruthInv, Framed
  <2> QED BY <2>3, <2>4
<1>7. CASE pc = "idle"
  <2>1. IdlePhase /\ left = 0 /\ since \in 0 .. 3
    BY <1>7 DEF BusInv, IdlePhase
  <2>2. IdlePhase' /\ Framed /\ done' \in Nat /\ xfer' = xfer /\ dev'.got = dev.got
    BY <1>1, <2>1, RestKeeps
  <2>3. BusInv'
    BY <1>1, <1>3, <1>7, <2>2
  <2>4. TruthInv'
    BY <1>2, <1>7, <2>1, <2>2, TruthAlike
  <2> QED BY <2>3, <2>4
<1>8. CASE pc \in Transferring
  <2>1. since \in 1 .. 3 /\ since \in 0 .. 3 /\ xfer.msgs \in Transfers /\ xfer.i \in 1 .. Len(xfer.msgs)
    BY <1>8 DEF BusInv
  <2>2. CASE pc = "address"
    <3>1. AddressPhase
      BY <2>2 DEF BusInv
    <3>2. /\ AddressPhase' /\ Framed /\ done' \in Nat /\ xfer' \in Xfer
          /\ xfer'.msgs = xfer.msgs /\ xfer'.i = xfer.i /\ xfer'.n = xfer.n /\ xfer'.read = xfer.read
          /\ ~AsData => dev'.got = dev.got
      BY <1>1, <2>1, <3>1, AddressKeeps
    <3>3. BusInv'
      BY <1>3, <2>2, <3>2
    <3>4. TruthInv'
      BY <1>2, <2>1, <2>2, <3>2, TruthAlike
    <3> QED BY <3>3, <3>4
  <2>3. CASE pc = "send"
    <3>1. SendPhase
      BY <2>3 DEF BusInv
    <3>2. SendPhase' /\ Framed /\ done' \in Nat /\ xfer' \in Xfer /\ xfer'.msgs = xfer.msgs /\ xfer'.i = xfer.i
      BY <1>1, <2>1, <3>1, SendKeeps
    <3>3. BusInv'
      BY <1>3, <2>3, <3>2
    <3> QED BY <2>3, <3>3, SoundSend
  <2>4. CASE pc = "recv"
    <3>1. RecvPhase
      BY <2>4 DEF BusInv
    <3>2. /\ RecvPhase' /\ Framed /\ done' \in Nat /\ xfer' \in Xfer
          /\ xfer'.msgs = xfer.msgs /\ xfer'.i = xfer.i /\ xfer'.n = xfer.n /\ xfer'.read = xfer.read
          /\ ~AsData => dev'.got = dev.got
      BY <1>1, <3>1, RecvKeeps
    <3>3. BusInv'
      BY <1>3, <2>4, <3>2
    <3>4. TruthInv'
      BY <1>2, <2>1, <2>4, <3>2, TruthAlike
    <3> QED BY <3>3, <3>4
  <2>5. CASE pc = "recvack"
    <3>1. RecvAckPhase
      BY <2>5 DEF BusInv
    <3>2. /\ RecvAckPhase' /\ Framed /\ done' \in Nat /\ xfer' = xfer
          /\ ~AsData => dev'.got = dev.got
      BY <1>1, <3>1, RecvAckKeeps
    <3>3. BusInv'
      BY <1>1, <1>3, <2>5, <3>2
    <3>4. TruthInv'
      BY <1>2, <2>1, <2>5, <3>2, TruthAlike
    <3> QED BY <3>3, <3>4
  <2>6. CASE pc = "stop"
    <3>1. StopPhase
      BY <2>6 DEF BusInv
    <3>2. StopPhase' /\ Framed /\ done' \in Nat /\ xfer' = xfer /\ dev'.got = dev.got
      BY <1>1, <3>1, StopKeeps
    <3>3. BusInv'
      BY <1>1, <1>3, <2>6, <3>2
    <3>4. TruthInv'
      BY <1>2, <2>1, <2>6, <3>2, TruthAlike
    <3> QED BY <3>3, <3>4
  <2> QED BY <1>8, <2>2, <2>3, <2>4, <2>5, <2>6 DEF Transferring
<1> QED BY <1>1, <1>4, <1>5, <1>6, <1>7, <1>8

-----------------------------------------------------------------------------
(* The thread between two functions.                                        *)

LEMMA StillSensor ==
    ASSUME SensorInv, UNCHANGED <<scl, sda, dev>>
    PROVE  SensorInv' /\ SCL' = SCL /\ SDA' = SDA
BY DEF SensorInv, SCL, SDA

\* A function called has all of it left.
LEMMA Called ==
    ASSUME NEW f, NEW k \in Nat, Call(f), Len(f) = k
    PROVE  ops' = f /\ Len(ops') = k /\ Len(ops') \in Nat /\ done' = 0 /\ done' \in Nat /\ left' = k
BY DEF Call, left

\* One that has returned has nothing left.
LEMMA Returned ==
    ASSUME NEW place, At(place), Len(ops) \in Nat
    PROVE  pc = place /\ left = 0
BY DEF At, left

LEMMA InitKeeps ==
    ASSUME SensorInv, BusInv, rt_hw_i2c_init
    PROVE  SensorInv' /\ BusInv' /\ TruthInv' /\ skipped' = skipped
<1>1. /\ pc = "boot" /\ since = 0 /\ xfer \in Xfer /\ unlocked \in {"no", "yes", "failed"} /\ result = "none"
  BY DEF BusInv, rt_hw_i2c_init, At
<1>2. /\ Call(stm32_i2c_gpio_init) /\ pc' = "unlock" /\ xfer' = xfer /\ result' = result /\ since' = since /\ unlocked' = unlocked
      /\ UNCHANGED <<scl, sda, dev>> /\ skipped' = skipped
  BY DEF rt_hw_i2c_init, Unhindered
<1>3. SensorInv'
  BY <1>2, StillSensor
<1>4. Len(stm32_i2c_gpio_init) = 4 /\ 4 \in Nat
  BY DEF stm32_i2c_gpio_init
<1>5. ops' = stm32_i2c_gpio_init /\ Len(ops') \in Nat /\ done' \in Nat /\ left' = 4
  BY <1>2, <1>4, Called
<1>6. UnlockPhase'
  BY <1>1, <1>2, <1>5 DEF UnlockPhase
<1>7. BusInv'
  BY <1>1, <1>2, <1>5, <1>6 DEF BusInv, Transferring
<1>8. TruthInv'
  BY <1>2 DEF TruthInv
<1> QED BY <1>2, <1>3, <1>7, <1>8

LEMMA BusUnlockKeeps ==
    ASSUME SensorInv, BusInv, stm32_i2c_bus_unlock
    PROVE  SensorInv' /\ BusInv' /\ TruthInv' /\ skipped' = skipped
<1>1. pc = "unlock" /\ left = 0 /\ xfer \in Xfer /\ Len(ops) \in Nat /\ done \in Nat
  BY Returned DEF BusInv, stm32_i2c_bus_unlock
<1>2. SCL = 1 /\ sda = 1 /\ since = 0 /\ (dev.st = "idle" \/ dev.sda = 0) /\ result = "none"
  BY <1>1 DEF BusInv, UnlockPhase
<1>3. /\ pc' = "unlocked" /\ xfer' = xfer /\ result' = result /\ since' = since
      /\ UNCHANGED <<scl, sda, dev>> /\ skipped' = skipped
  BY DEF stm32_i2c_bus_unlock, Unhindered
<1>4. SensorInv' /\ SCL' = 1 /\ sda' = 1
  BY <1>2, <1>3, StillSensor
<1>5. dev.sda \in {0, 1} /\ DevAt(dev, 1) /\ (dev.sda = 1 => SDA = 1)
  BY <1>2, SensorFacts
<1>6. CASE SDA = 0
  <2>1. Call(Cycle(18, UnlockPulse)) /\ unlocked' = "yes"
    <3>1. 2 * Pulses = 18
      BY DEF Pulses
    <3> QED BY <1>6, <3>1 DEF stm32_i2c_bus_unlock
  <2>2. ops' = Cycle(18, UnlockPulse) /\ Len(ops') \in Nat /\ done' \in Nat /\ left' = 18
    <3>1. Len(Cycle(18, UnlockPulse)) = 18 /\ 18 \in Nat
      BY PulseTable
    <3> QED BY <2>1, <3>1, Called
  <2>3. dev.sda = 0
    BY <1>5, <1>6
  <2>4. Pulsed(0, 1)
    <3>1. dev.st \in States /\ dev.bit \in Nat
      BY SensorFacts DEF Dev
    <3> QED BY <1>5, <2>3, <3>1 DEF DevAt, Pulsed, States
  <2>5. Pulsed(0, 1)'
    BY <1>3, <2>4 DEF Pulsed
  <2>6. PulsePhase'
    BY <1>2, <1>3, <1>4, <2>1, <2>2, <2>5 DEF PulsePhase
  <2>7. BusInv'
    BY <1>1, <1>2, <1>3, <2>1, <2>2, <2>6 DEF BusInv, Transferring
  <2> QED BY <1>3, <1>4, <2>7 DEF TruthInv
<1>7. CASE SDA # 0
  <2>1. ops' = ops /\ done' = done /\ unlocked' = "no"
    BY <1>7 DEF stm32_i2c_bus_unlock
  <2>2. dev.st = "idle"
    BY <1>2, <1>7, SensorFacts
  <2>3. left' = 0 /\ Free'
    BY <1>1, <1>3, <1>4, <2>1, <2>2 DEF left, Free
  <2>4. PulsePhase'
    BY <1>2, <1>3, <1>4, <2>1, <2>3 DEF PulsePhase
  <2>5. BusInv'
    BY <1>1, <1>2, <1>3, <2>1, <2>4 DEF BusInv, Transferring
  <2> QED BY <1>3, <1>4, <2>5 DEF TruthInv
<1> QED BY <1>6, <1>7

LEMMA UnlockReturnsKeeps ==
    ASSUME SensorInv, BusInv, UnlockReturns
    PROVE  SensorInv' /\ BusInv' /\ TruthInv' /\ skipped' = skipped
<1>1. pc = "unlocked" /\ left = 0 /\ xfer \in Xfer /\ Len(ops) \in Nat /\ done \in Nat /\ PulsePhase
  BY Returned DEF BusInv, UnlockReturns
<1>2. since = 0 /\ sda = 1 /\ result = "none"
  BY <1>1 DEF BusInv, PulsePhase
<1>3. /\ pc' = "idle" /\ xfer' = xfer /\ result' = result /\ since' = since /\ ops' = ops /\ done' = done
      /\ UNCHANGED <<scl, sda, dev>> /\ skipped' = skipped
      /\ unlocked' = IF SDA = 0 THEN "failed" ELSE unlocked
  BY DEF UnlockReturns, Unhindered
<1>4. SensorInv' /\ SCL' = SCL /\ left' = 0 /\ since' = 0 /\ sda' = 1
  BY <1>1, <1>2, <1>3, StillSensor DEF left
<1>5. dev.sda \in {0, 1} /\ DevAt(dev, SCL) /\ (dev.sda = 1 => SDA = 1) /\ (dev.sda = 0 => SDA = 0) /\ (scl = 0 => SCL = 0)
  BY <1>2, SensorFacts
<1>6. CASE unlocked = "no" /\ left = 0 /\ Free
  <2>1. SDA = 1
    BY <1>2, <1>6, SensorFacts DEF Free
  <2>2. unlocked' = "no" /\ Free'
    BY <1>3, <1>4, <1>6, <2>1 DEF Free
  <2>3. IdlePhase'
    BY <1>4, <2>2 DEF IdlePhase
  <2>4. BusInv'
    BY <1>1, <1>2, <1>3, <2>2, <2>3 DEF BusInv, Transferring
  <2> QED BY <1>2, <1>3, <1>4, <2>4 DEF TruthInv
<1>7. CASE unlocked = "yes" /\ scl = 0 /\ Pulsed(9, 0)
  <2>1. dev.st = "idle" \/ (dev.st \in {"receive", "send"} /\ dev.bit = 8)
    <3>1. dev.bit \in Nat /\ DevAt(dev, 0)
      BY <1>5, <1>7, SensorFacts DEF Dev
    <3> QED BY <1>7, <3>1 DEF Pulsed, DevAt
  <2>2. dev.st = "receive" <=> dev.sda = 0
    BY <1>5, <1>7, <2>1 DEF DevAt
  <2>3. CASE dev.st = "receive"
    <3>1. unlocked' = "failed" /\ scl' = 0 /\ dev'.st = "receive" /\ dev'.bit = 8
      BY <1>3, <1>5, <1>7, <2>1, <2>2, <2>3
    <3>2. IdlePhase'
      BY <1>4, <3>1 DEF IdlePhase
    <3>3. BusInv'
      BY <1>1, <1>2, <1>3, <3>1, <3>2 DEF BusInv, Transferring
    <3> QED BY <1>2, <1>3, <1>4, <3>3 DEF TruthInv
  <2>4. CASE dev.st # "receive"
    <3>1. unlocked' = "yes" /\ scl' = 0 /\ (dev'.st = "idle" \/ Late(dev', 0, 0))
      BY <1>3, <1>5, <1>7, <2>1, <2>2, <2>4 DEF Late
    <3>2. IdlePhase'
      BY <1>4, <3>1 DEF IdlePhase
    <3>3. BusInv'
      BY <1>1, <1>2, <1>3, <3>1, <3>2 DEF BusInv, Transferring
    <3> QED BY <1>2, <1>3, <1>4, <3>3 DEF TruthInv
  <2> QED BY <2>3, <2>4
<1>8. ASSUME NEW p \in 1 .. 9, left = 18 - 2 * p PROVE p = 9
  BY <1>1, <1>8
<1>9. ASSUME NEW p \in 0 .. 8 PROVE left # 17 - 2 * p
  BY <1>1
<1> QED BY <1>1, <1>6, <1>7, <1>8, <1>9 DEF PulsePhase

LEMMA ReturnKeeps ==
    ASSUME SensorInv, BusInv, TruthInv, Return
    PROVE  SensorInv' /\ BusInv' /\ TruthInv' /\ skipped' = skipped
<1>1. /\ pc = "stop" /\ left = 0 /\ xfer \in Xfer /\ Len(ops) \in Nat /\ done \in Nat /\ since \in 1 .. 3
      /\ unlocked \in {"no", "yes", "failed"}
  BY Returned DEF BusInv, Return, Transferring
<1>2. /\ result \in {"num", "error"} /\ Failed /\ SCL = 1 /\ sda = 1 /\ (dev.st = "idle" \/ Stuck(1))
  BY <1>1 DEF BusInv, StopPhase
<1>3. /\ pc' = "idle" /\ xfer' = xfer /\ result' = result /\ since' = since /\ ops' = ops /\ done' = done
      /\ dev' = dev /\ sda' = sda /\ scl' = scl /\ skipped' = skipped /\ busy' = busy /\ unlocked' = unlocked
  BY DEF Return, Unhindered
<1>4. SensorInv' /\ SCL' = 1 /\ left' = 0
  BY <1>1, <1>2, <1>3, StillSensor DEF left
<1>5. (Failed' <=> Failed) /\ (Stuck(1)' <=> Stuck(1))
  BY <1>3 DEF Failed, Stuck, First
<1>6. IdlePhase'
  BY <1>1, <1>2, <1>3, <1>4, <1>5 DEF IdlePhase
<1>7. BusInv'
  BY <1>1, <1>3, <1>6 DEF BusInv, Transferring
<1>8. TruthInv'
  BY <1>1, <1>3 DEF TruthInv
<1> QED BY <1>3, <1>4, <1>7, <1>8

LEMMA BootKeeps ==
    ASSUME SensorInv, Reset
    PROVE  SensorInv' /\ BusInv' /\ TruthInv' /\ skipped' = skipped
<1>1. /\ pc' = "boot" /\ ops' = <<>> /\ done' = 0 /\ xfer' = NoXfer /\ result' = "none" /\ since' = 0 /\ unlocked' = "no"
      /\ skipped' = skipped
  BY DEF Reset, Call
<1>2. NoXfer \in Xfer
  BY DEF NoXfer, Xfer
<1>3. left' = 0 /\ Len(ops') \in Nat /\ done' \in Nat
  BY <1>1 DEF left
<1>4. BusInv'
  BY <1>1, <1>2, <1>3 DEF BusInv, Transferring
<1>5. TruthInv'
  BY <1>1 DEF TruthInv
<1> QED BY <1>1, <1>4, <1>5, ResetKeeps

-----------------------------------------------------------------------------
(* A transfer begins.                                                       *)

LEMMA OpeningLen ==
    ASSUME NEW byte
    PROVE  /\ Len(i2c_start \o i2c_writeb(byte)) = 31
           /\ Len(i2c_restart \o i2c_writeb(byte)) = 33
           /\ Len(i2c_stop \o i2c_start \o i2c_writeb(byte)) = 34
<1> DEFINE w == i2c_writeb(byte)
           h == i2c_stop \o i2c_start
<1>1. w \in Seq(Strings) /\ Len(w) = 29
  BY WriteTable
<1> HIDE DEF w
<1>2. /\ i2c_start \in Seq(Strings) /\ Len(i2c_start) = 2
      /\ i2c_restart \in Seq(Strings) /\ Len(i2c_restart) = 4
      /\ i2c_stop \in Seq(Strings) /\ Len(i2c_stop) = 3
  BY DEF i2c_start, i2c_restart, i2c_stop, Strings
<1>3. h \in Seq(Strings) /\ Len(h) = 5
  <2>1. h \in Seq(Strings) /\ Len(h) = Len(i2c_stop) + Len(i2c_start)
    BY <1>2, ConcatProperties
  <2> QED BY <1>2, <2>1
<1> HIDE DEF h
<1>4. /\ Len(i2c_start \o w) = Len(i2c_start) + Len(w)
      /\ Len(i2c_restart \o w) = Len(i2c_restart) + Len(w)
      /\ Len(h \o w) = Len(h) + Len(w)
  BY <1>1, <1>2, <1>3, ConcatProperties, ZenonT(60)
<1>5. Len(i2c_start \o w) = 31 /\ Len(i2c_restart \o w) = 33 /\ Len(h \o w) = 34
  BY <1>1, <1>2, <1>3, <1>4
<1> QED BY <1>5 DEF w, h

LEMMA Opened ==
    ASSUME NEW p \in Openings, Call(p \o i2c_writeb(AddressByte(Message'))), xfer'.n = 0, OpeningPhase'
    PROVE  AddressPhase'
<1>1. ops' = p \o i2c_writeb(AddressByte(Message'))
  BY DEF Call
<1>2. ops' \in {q \o i2c_writeb(AddressByte(Message')) : q \in Openings}
  BY <1>1
<1> QED BY <1>2, Zenon DEF AddressPhase, Openings, AddressByte, i2c_start, i2c_restart, i2c_stop

LEMMA NoXferIs ==
    ASSUME NEW msgs \in Transfers
    PROVE  LET y == [NoXfer EXCEPT !.msgs = msgs, !.i = 1]
           IN  /\ y \in Xfer /\ y.msgs = msgs /\ y.i = 1 /\ y.n = 0 /\ y.read = <<>>
<1>1. PICK x \in Xfer : x = NoXfer
  <2>1. NoXfer \in Xfer
    BY DEF NoXfer, Xfer
  <2> QED BY <2>1
<1>2. x.n = 0 /\ x.read = <<>>
  BY <1>1 DEF NoXfer
<1>3. 1 \in Nat /\ msgs \in Transfers \cup {<<>>}
  OBVIOUS
<1>4. LET y == [x EXCEPT !.msgs = msgs, !.i = 1]
      IN  /\ y \in Xfer /\ y.msgs = msgs /\ y.i = 1 /\ y.n = x.n /\ y.read = x.read
  BY <1>3, ZenonT(60) DEF Xfer
<1> QED BY <1>1, <1>2, <1>4, Zenon

LEMMA SoundBegins ==
    ASSUME NEW x, NEW d, x.msgs \in Transfers, x.i = 1, d.regs \in Registers, d.got = <<>>, x.read = <<>>
    PROVE  SoundFor(x, d, 0, 0)
<1> DEFINE msgs == x.msgs
           regs == d.regs
           b == x.msgs[x.i].buf
<1>1. 1 \in 1 .. Len(msgs)
  <2>1. msgs \in Seq(Messages) /\ msgs # <<>>
    BY BusAssumption
  <2>2. Len(msgs) \in Nat \ {0}
    BY <2>1, EmptySeq
  <2> QED BY <2>2
<1>2. msgs \in Transfers /\ regs \in Registers
  OBVIOUS
<1> HIDE DEF msgs, regs, b
<1>3. Written(msgs)[0] = <<>> /\ Read(regs, msgs)[0] = <<>>
  BY <1>1, <1>2, WrittenSteps, ReadSteps
<1>4. x.i - 1 = 0
  OBVIOUS
<1>5. SubSeq(b, 1, 0) = <<>>
  <2>1. 1 \in Int /\ 0 \in Int /\ 0 < 1
    OBVIOUS
  <2> QED BY <2>1, SubSeqEmpty
<1>6. FirstBytes(regs, 0) = <<>>
  <2>1. 0 \in Nat
    OBVIOUS
  <2> QED BY <1>2, <2>1, FirstBytesGo
<1>7. <<>> \o <<>> = <<>>
  OBVIOUS
<1> QED BY <1>3, <1>4, <1>5, <1>6, <1>7, Zenon DEF SoundFor, msgs, regs, b

LEMMA TransferSensor ==
    ASSUME SensorInv, scl' = scl, sda' = sda, dev' = [dev EXCEPT !.got = <<>>]
    PROVE  /\ SensorInv' /\ SCL' = SCL
           /\ dev' \in Dev /\ dev'.hold = dev.hold /\ dev'.got = <<>> /\ dev'.st = dev.st /\ dev'.bit = dev.bit
           /\ dev'.sr = dev.sr /\ dev'.sda = dev.sda /\ dev'.ack = dev.ack /\ dev'.regs = dev.regs /\ dev'.sent = dev.sent
<1>1. dev \in Dev /\ scl \in {0, 1} /\ sda \in {0, 1} /\ DevAt(dev, SCL)
  BY SensorFacts
<1>2. /\ dev' \in Dev /\ dev'.hold = dev.hold /\ dev'.got = <<>> /\ dev'.st = dev.st /\ dev'.bit = dev.bit /\ dev'.sr = dev.sr
      /\ dev'.sda = dev.sda /\ dev'.ack = dev.ack /\ dev'.regs = dev.regs /\ dev'.sent = dev.sent
  BY <1>1, GotIs
<1>3. SCL' = SCL
  BY <1>2 DEF SCL
<1>4. Sending(dev') = Sending(dev)
  BY <1>2, Zenon DEF Sending
<1>5. DevAt(dev', SCL)
  BY <1>1, <1>2, <1>4, Zenon DEF DevAt
<1> QED BY <1>1, <1>2, <1>3, <1>5 DEF SensorInv

LEMMA TransferKeeps ==
    ASSUME SensorInv, BusInv, NEW msgs \in Transfers, rt_i2c_transfer(msgs)
    PROVE  SensorInv' /\ BusInv' /\ TruthInv' /\ skipped' = skipped
<1>1. pc = "idle" /\ left = 0 /\ IdlePhase /\ unlocked \in {"no", "yes", "failed"}
  BY Returned DEF BusInv, rt_i2c_transfer
<1>2. /\ pc' = "address" /\ scl' = scl /\ sda' = sda /\ skipped' = skipped /\ unlocked' = unlocked
      /\ dev' = [dev EXCEPT !.got = <<>>] /\ xfer' = [NoXfer EXCEPT !.msgs = msgs, !.i = 1]
      /\ since' = IF since < 3 THEN since + 1 ELSE 3
      /\ Call(i2c_start \o i2c_writeb(AddressByte(msgs[1])))
  BY DEF rt_i2c_transfer
<1>3. dev.st = "idle" => dev.sda = 1
  BY SensorFacts
<1>4. /\ dev' \in Dev /\ dev'.hold = dev.hold /\ dev'.got = <<>> /\ dev'.st = dev.st /\ dev'.bit = dev.bit /\ dev'.sr = dev.sr
      /\ dev'.sda = dev.sda /\ dev'.ack = dev.ack /\ dev'.regs = dev.regs /\ dev'.sent = dev.sent
  BY <1>2, TransferSensor
<1>5. SensorInv' /\ SCL' = SCL
  BY <1>2, TransferSensor
<1>6. /\ xfer' \in Xfer /\ xfer'.msgs = msgs /\ xfer'.i = 1 /\ xfer'.n = 0 /\ xfer'.read = <<>>
  BY <1>2, NoXferIs
<1>7. Message' = msgs[1]
  BY <1>6 DEF Message
<1>8. 1 \in 1 .. Len(msgs)
  <2>1. msgs \in Seq(Messages) /\ msgs # <<>>
    BY BusAssumption
  <2>2. Len(msgs) \in Nat \ {0}
    BY <2>1, EmptySeq
  <2> QED BY <2>2
<1>9. since \in 0 .. 3 /\ since' \in 1 .. 3 /\ (since = 0 => since' = 1) /\ (since = 1 => since' = 2)
  BY <1>1, <1>2 DEF IdlePhase
<1>10. Len(ops') \in Nat /\ done' \in Nat /\ left' = 31
  <2>1. 31 \in Nat
    OBVIOUS
  <2>2. PICK f : f = i2c_start \o i2c_writeb(AddressByte(msgs[1]))
    OBVIOUS
  <2>3. Len(f) = 31 /\ Call(f)
    BY <1>2, <2>2, OpeningLen
  <2> QED BY <2>1, <2>3, Called
<1>11. OpeningPhase'
  <2>1. sda' = 1
    BY <1>1, <1>2 DEF IdlePhase
  <2>2. CASE since = 0 /\ unlocked = "no" /\ Free
    BY <1>3, <1>4, <1>5, <1>10, <2>1, <2>2 DEF OpeningPhase, Free
  <2>3. CASE since = 0 /\ unlocked = "yes" /\ scl = 0 /\ (dev.st = "idle" \/ Late(dev, 0, 0))
    <3>1. Unheard' /\ scl' = 0
      BY <1>2, <1>4, <1>9, <2>3 DEF Unheard, First, Late
    <3> QED BY <1>10, <2>1, <3>1 DEF OpeningPhase
  <2>4. CASE since = 0 /\ unlocked = "failed" /\ scl = 0 /\ dev.st = "receive" /\ dev.bit = 8
    <3>1. Stuck(0)' /\ scl' = 0
      BY <1>2, <1>4, <1>9, <2>4 DEF Stuck, First
    <3> QED BY <1>10, <2>1, <3>1 DEF OpeningPhase
  <2>5. CASE since > 0 /\ SCL = 1 /\ dev.st = "idle"
    BY <1>3, <1>4, <1>5, <1>10, <2>1, <2>5 DEF OpeningPhase
  <2>6. CASE since > 0 /\ SCL = 1 /\ Stuck(1)
    <3>1. AsData' /\ dev'.st = "receive" /\ dev'.bit = 9
      BY <1>2, <1>4, <1>9, <2>6 DEF Stuck, First, AsData
    <3> QED BY <1>5, <1>10, <2>1, <2>6, <3>1 DEF OpeningPhase
  <2>7. since = 0 \/ since > 0
    BY <1>9
  <2> QED BY <1>1, <2>2, <2>3, <2>4, <2>5, <2>6, <2>7 DEF IdlePhase
<1>12. AddressPhase'
  <2>1. Call(i2c_start \o i2c_writeb(AddressByte(Message'))) /\ i2c_start \in Openings
    BY <1>2, <1>7 DEF Openings
  <2>2. PICK p \in Openings : p = i2c_start
    BY <2>1
  <2> QED BY <1>6, <1>11, <2>1, <2>2, Opened
<1>13. BusInv'
  BY <1>1, <1>2, <1>6, <1>8, <1>9, <1>10, <1>12 DEF BusInv, Transferring
<1>14. Sound(0, 0)'
  <2>1. xfer'.msgs \in Transfers /\ dev'.regs \in Registers
    BY <1>4, <1>6 DEF Dev
  <2>2. SoundFor(xfer', dev', 0, 0)
    BY <1>4, <1>6, <2>1, SoundBegins
  <2> QED BY <2>2 DEF Sound
<1>15. TruthInv'
  BY <1>2, <1>14 DEF TruthInv
<1> QED BY <1>2, <1>5, <1>13, <1>15

-----------------------------------------------------------------------------
(* A transfer goes on.                                                      *)

LEMMA XferNext ==
    ASSUME NEW x \in Xfer
    PROVE  LET y == [x EXCEPT !.data = 0, !.ret = "none"]
           IN  /\ y \in Xfer /\ y.data = 0 /\ y.ret = "none" /\ y.msgs = x.msgs /\ y.i = x.i /\ y.n = x.n /\ y.read = x.read
<1>1. 0 \in Nat /\ "none" \in {"none", "ack", "nack", "timeout"}
  OBVIOUS
<1> QED BY <1>1, ZenonT(60) DEF Xfer

LEMMA XferMessage ==
    ASSUME NEW x \in Xfer
    PROVE  LET y == [x EXCEPT !.i = @ + 1, !.n = 0, !.try = 0]
           IN  /\ y \in Xfer /\ y.i = x.i + 1 /\ y.n = 0 /\ y.msgs = x.msgs /\ y.read = x.read
<1> DEFINE j == x.i + 1
<1>1. 0 \in Nat /\ j \in Nat
  BY DEF Xfer
<1> HIDE DEF j
<1>2. LET y == [x EXCEPT !.i = j, !.n = 0, !.try = 0]
      IN  /\ y \in Xfer /\ y.i = j /\ y.n = 0 /\ y.msgs = x.msgs /\ y.read = x.read
  BY <1>1, ZenonT(60) DEF Xfer
<1> QED BY <1>2, Zenon DEF j

LEMMA XferByte ==
    ASSUME NEW x \in Xfer
    PROVE  LET y == [x EXCEPT !.n = @ + 1]
           IN  /\ y \in Xfer /\ y.n = x.n + 1 /\ y.msgs = x.msgs /\ y.i = x.i /\ y.read = x.read
<1> DEFINE j == x.n + 1
<1>1. j \in Nat
  BY DEF Xfer
<1> HIDE DEF j
<1>2. LET y == [x EXCEPT !.n = j]
      IN  /\ y \in Xfer /\ y.n = j /\ y.msgs = x.msgs /\ y.i = x.i /\ y.read = x.read
  BY <1>1, ZenonT(60) DEF Xfer
<1> QED BY <1>2, Zenon DEF j

LEMMA XferStored ==
    ASSUME NEW x \in Xfer
    PROVE  LET y == [x EXCEPT !.n = @ + 1, !.read = Append(@, x.data)]
           IN  /\ y \in Xfer /\ y.n = x.n + 1 /\ y.msgs = x.msgs /\ y.i = x.i /\ y.read = Append(x.read, x.data)
               /\ y.ret = x.ret
<1> DEFINE j == x.n + 1
           r == Append(x.read, x.data)
<1>1. j \in Nat /\ r \in Seq(Nat)
  <2>1. x.n \in Nat /\ x.read \in Seq(Nat) /\ x.data \in Nat
    BY DEF Xfer
  <2> QED BY <2>1, AppendProperties
<1> HIDE DEF j, r
<1>2. LET y == [x EXCEPT !.n = j, !.read = r]
      IN  y \in Xfer /\ y.n = j /\ y.msgs = x.msgs /\ y.i = x.i /\ y.read = r /\ y.ret = x.ret
  BY <1>1, ZenonT(60) DEF Xfer
<1> QED BY <1>2, Zenon DEF j, r

LEMMA XferCounted ==
    ASSUME NEW x \in Xfer
    PROVE  /\ Counted(x) \in Xfer /\ Counted(x).msgs = x.msgs /\ Counted(x).i = x.i /\ Counted(x).n = x.n
           /\ Counted(x).read = x.read
<1> DEFINE j == x.try + 1
<1>1. j \in Nat
  BY DEF Xfer
<1> HIDE DEF j
<1>2. LET y == [x EXCEPT !.try = j]
      IN  y \in Xfer /\ y.msgs = x.msgs /\ y.i = x.i /\ y.n = x.n /\ y.read = x.read
  BY <1>1, ZenonT(60) DEF Xfer
<1> QED BY <1>2, Zenon DEF j, Counted

\* A message done: what it was to do is done.
LEMMA SoundDone ==
    ASSUME NEW x, NEW d, x.msgs \in Transfers, x.i \in 1 .. Len(x.msgs), d.regs \in Registers,
           NEW k, k = Len(x.msgs[x.i].buf), SoundFor(x, d, k, k)
    PROVE  d.got = Written(x.msgs)[x.i] /\ x.read = Read(d.regs, x.msgs)[x.i]
<1> DEFINE msgs == x.msgs
           i == x.i
           regs == d.regs
           b == msgs[i].buf
<1>1. msgs \in Transfers /\ i \in 1 .. Len(msgs) /\ regs \in Registers
  OBVIOUS
<1>2. /\ d.got = Written(msgs)[i - 1] \o (IF msgs[i].rd THEN <<>> ELSE SubSeq(b, 1, k))
      /\ x.read = Read(regs, msgs)[i - 1] \o (IF msgs[i].rd THEN FirstBytes(regs, k) ELSE <<>>)
      /\ k = Len(b)
  BY DEF SoundFor
<1>3. b \in Seq(Byte)
  BY <1>1, MessageFacts
<1> HIDE DEF b
<1>4. SubSeq(b, 1, k) = b
  BY <1>2, <1>3, SubSeqFull
<1> HIDE DEF msgs, i, regs
<1>5. /\ Written(msgs)[i] = Written(msgs)[i - 1] \o (IF msgs[i].rd THEN <<>> ELSE msgs[i].buf)
      /\ Read(regs, msgs)[i] = Read(regs, msgs)[i - 1] \o (IF msgs[i].rd THEN FirstBytes(regs, Len(msgs[i].buf)) ELSE <<>>)
  BY <1>1, WrittenSteps, ReadSteps
<1>6. d.got = Written(msgs)[i] /\ x.read = Read(regs, msgs)[i]
  BY <1>2, <1>4, <1>5, Zenon DEF b
<1> QED BY <1>6, Zenon DEF msgs, i, regs

\* The next message: nothing of it is done.
LEMMA SoundNext ==
    ASSUME NEW x, NEW y, NEW d, x.msgs \in Transfers, x.i \in 1 .. Len(x.msgs), d.regs \in Registers,
           x.i < Len(x.msgs), d.got = Written(x.msgs)[x.i], x.read = Read(d.regs, x.msgs)[x.i],
           y.msgs = x.msgs, y.i = x.i + 1, y.read = x.read
    PROVE  SoundFor(y, d, 0, 0)
<1> DEFINE msgs == x.msgs
           i == x.i
           j == y.i
           regs == d.regs
           w == Written(msgs)[j - 1]
           r == Read(regs, msgs)[j - 1]
           b == msgs[j].buf
<1>1. msgs \in Transfers /\ regs \in Registers /\ j \in 1 .. Len(msgs) /\ j - 1 = i
  <2>1. Len(msgs) \in Nat
    BY MessageFacts
  <2> QED BY <2>1
<1>2. d.got = w /\ x.read = r
  BY <1>1
<1> HIDE DEF msgs, i, j, regs, b
<1>3. w \in Seq(Byte) /\ r \in Seq(Byte)
  BY <1>1, WrittenSteps, ReadSteps
<1> HIDE DEF w, r
<1>4. w \o <<>> = w /\ r \o <<>> = r
  BY <1>3, ConcatEmptySeq
<1>5. SubSeq(b, 1, 0) = <<>>
  <2>1. 1 \in Int /\ 0 \in Int /\ 0 < 1
    OBVIOUS
  <2> QED BY <2>1, SubSeqEmpty
<1>6. FirstBytes(regs, 0) = <<>>
  <2>1. 0 \in Nat
    OBVIOUS
  <2> QED BY <1>1, <2>1, FirstBytesGo
<1> QED BY <1>2, <1>4, <1>5, <1>6, Zenon DEF SoundFor, msgs, j, regs, w, r, b

\* The sensor is ready for what comes after n bytes of a message.
Ready(x) ==
    /\ x \in Xfer /\ x.msgs \in Transfers /\ x.i \in 1 .. Len(x.msgs) /\ scl = 0
    /\ x.n <= Len(x.msgs[x.i].buf)
    /\ IF x.n < Len(x.msgs[x.i].buf)
       THEN IF x.msgs[x.i].rd THEN Reading(0, x.n) ELSE dev.st = "receive" /\ dev.bit = 0 /\ dev.sr = 0
       ELSE dev.sda = 1

\* What a step of the thread between two functions leaves alone.
Settled ==
    /\ since \in 1 .. 3 /\ unlocked \in {"no", "yes", "failed"}
    /\ scl' = scl /\ sda' = sda /\ dev' = dev /\ busy' = busy /\ since' = since /\ unlocked' = unlocked

LEMMA SettledIs ==
    ASSUME SensorInv, Settled
    PROVE  SensorInv' /\ SCL' = SCL /\ (AsData' <=> AsData) /\ (First("yes")' <=> First("yes")) /\ (First("failed")' <=> First("failed"))
BY StillSensor DEF Settled, AsData, First

LEMMA NextSends ==
    ASSUME SensorInv, Settled, NEW x, Ready(x), x.n < Len(x.msgs[x.i].buf), ~x.msgs[x.i].rd,
           Call(i2c_writeb(x.msgs[x.i].buf[x.n + 1])), pc' = "send", xfer' = [x EXCEPT !.data = 0, !.ret = "none"],
           (unlocked = "failed" => since = 3) => SoundFor(x, dev, x.n, x.n)
    PROVE  BusInv' /\ TruthInv'
<1>1. /\ xfer' \in Xfer /\ xfer'.msgs = x.msgs /\ xfer'.i = x.i /\ xfer'.n = x.n /\ xfer'.read = x.read
  BY XferNext DEF Ready
<1>2. Message' = x.msgs[x.i]
  BY <1>1, Zenon DEF Message
<1>3. SensorInv' /\ SCL' = 0 /\ scl' = 0 /\ dev' = dev /\ since' \in 1 .. 3 /\ unlocked' \in {"no", "yes", "failed"}
  BY SettledIs, SensorFacts DEF Ready, Settled
<1>4. PICK byte \in Byte : byte = x.msgs[x.i].buf[x.n + 1]
  <2>1. Len(x.msgs[x.i].buf) \in Nat /\ \A j \in 1 .. Len(x.msgs[x.i].buf) : x.msgs[x.i].buf[j] \in Byte
    BY MessageFacts DEF Ready
  <2>2. x.n + 1 \in 1 .. Len(x.msgs[x.i].buf)
    BY <2>1 DEF Ready, Xfer
  <2> QED BY <2>1, <2>2
<1>5. ops' = i2c_writeb(byte) /\ Len(ops') \in Nat /\ done' \in Nat /\ left' = 29
  <2>1. Len(i2c_writeb(byte)) = 29 /\ 29 \in Nat
    BY WriteTable
  <2> QED BY <1>4, <2>1, Called
<1>6. WritePins(byte)'
  <2>1. left' = 29 - 3 * 0 /\ 0 \in 0 .. 7
    BY <1>5
  <2> QED BY <1>3, <2>1 DEF WritePins
<1>7. Together(dev', 0, byte) /\ dev'.st = "receive"
  <2>1. byte \div pow2[9] = 0
    BY Bits
  <2>2. dev.st = "receive" /\ dev.bit = 0 /\ dev.sr = 0
    BY DEF Ready
  <2> QED BY <1>3, <2>1, <2>2 DEF Together
<1>8. Clocks(left, SCL)' = 0
  <2>1. Clocks(29, 0) = 0
    BY DEF Clocks
  <2> QED BY <1>3, <1>5, <2>1
<1>9. (Message.buf[xfer.n + 1])' = byte /\ ~Message'.rd /\ xfer'.n < Len(Message'.buf)
  BY <1>1, <1>2, <1>4
<1>10. SendPhase'
  <2>1. left' \in 1 .. 29 /\ left' # 1
    BY <1>5
  <2> QED BY <1>5, <1>6, <1>7, <1>8, <1>9, <2>1 DEF SendPhase
<1>11. BusInv'
  <2>1. xfer'.msgs \in Transfers /\ xfer'.i \in 1 .. Len(xfer'.msgs)
    BY <1>1 DEF Ready
  <2> QED BY <1>1, <1>3, <1>5, <1>10, <2>1 DEF BusInv, Transferring
<1>12. TruthInv'
  <2>1. SUFFICES ASSUME unlocked = "failed" => since = 3
                 PROVE  Sound(xfer.n, 0)'
    <3>1. ~(left' <= 4)
      BY <1>5
    <3> QED BY <3>1 DEF TruthInv, Settled
  <2>2. SoundFor(x, dev, x.n, x.n)
    BY <2>1
  <2> QED BY <1>1, <1>3, <2>2, Zenon DEF Sound, SoundFor
<1> QED BY <1>11, <1>12

LEMMA NextReceives ==
    ASSUME SensorInv, Settled, NEW x, Ready(x), x.n < Len(x.msgs[x.i].buf), x.msgs[x.i].rd,
           Call(i2c_readb), pc' = "recv", xfer' = [x EXCEPT !.data = 0, !.ret = "none"],
           (unlocked = "failed" => since = 3) => SoundFor(x, dev, x.n, x.n)
    PROVE  BusInv' /\ TruthInv'
<1>1. /\ xfer' \in Xfer /\ xfer'.msgs = x.msgs /\ xfer'.i = x.i /\ xfer'.n = x.n /\ xfer'.read = x.read
      /\ xfer'.data = 0 /\ xfer'.ret = "none"
  BY XferNext DEF Ready
<1>2. Message' = x.msgs[x.i]
  BY <1>1, Zenon DEF Message
<1>3. SensorInv' /\ scl' = 0 /\ dev' = dev /\ since' \in 1 .. 3 /\ unlocked' \in {"no", "yes", "failed"}
  BY SettledIs DEF Ready, Settled
<1>4. ops' = i2c_readb /\ Len(ops') \in Nat /\ done' \in Nat /\ left' = 25
  <2>1. 25 \in Nat
    OBVIOUS
  <2> QED BY <2>1, ReadTable, Called
<1>5. Reading(0, x.n)'
  <2>1. Reading(0, x.n)
    BY DEF Ready
  <2> QED BY <1>3, <2>1, SettledIs DEF Reading
<1>6. Taken(0)'
  <2>1. PICK byte \in Byte : byte = Sending(dev)
    <3>1. 0 \in 0 .. 7
      OBVIOUS
    <3> QED BY <3>1, SensorFacts, SendingBit
  <2>2. byte \div pow2[9] = 0
    <3>1. 0 \in 0 .. 7
      OBVIOUS
    <3> QED BY <3>1, Bits
  <2>3. Sending(dev') = byte
    BY <1>3, <2>1
  <2>4. 9 - 0 = 9
    OBVIOUS
  <2> QED BY <1>1, <2>2, <2>3, <2>4 DEF Taken
<1>7. RecvBits(x.n)'
  BY <1>3, <1>4, <1>5, <1>6 DEF RecvBits
<1>8. RecvPhase'
  <2>1. RecvBits(xfer.n)'
    BY <1>1, <1>7
  <2> QED BY <1>1, <1>2, <1>4, <2>1 DEF RecvPhase
<1>9. BusInv'
  <2>1. xfer'.msgs \in Transfers /\ xfer'.i \in 1 .. Len(xfer'.msgs)
    BY <1>1 DEF Ready
  <2> QED BY <1>1, <1>3, <1>4, <1>8, <2>1 DEF BusInv, Transferring
<1>10. TruthInv'
  <2>1. SUFFICES ASSUME unlocked = "failed" => since = 3
                 PROVE  Sound(0, xfer.n)'
    BY DEF TruthInv, Settled
  <2>2. SoundFor(x, dev, x.n, x.n)
    BY <2>1
  <2> QED BY <1>1, <1>3, <2>2, Zenon DEF Sound, SoundFor
<1> QED BY <1>9, <1>10

LEMMA NextMessage ==
    ASSUME SensorInv, Settled, NEW x, Ready(x), ~(x.n < Len(x.msgs[x.i].buf)), x.i < Len(x.msgs),
           Call(i2c_restart \o i2c_writeb(AddressByte(x.msgs[x.i + 1]))), pc' = "address",
           xfer' = [x EXCEPT !.i = @ + 1, !.n = 0, !.try = 0],
           (unlocked = "failed" => since = 3) => SoundFor(x, dev, x.n, x.n)
    PROVE  BusInv' /\ TruthInv'
<1>1. /\ xfer' \in Xfer /\ xfer'.msgs = x.msgs /\ xfer'.i = x.i + 1 /\ xfer'.n = 0 /\ xfer'.read = x.read
  BY XferMessage DEF Ready
<1>2. Message' = x.msgs[x.i + 1]
  BY <1>1, Zenon DEF Message
<1>3. SensorInv' /\ scl' = 0 /\ dev' = dev /\ since' \in 1 .. 3 /\ unlocked' \in {"no", "yes", "failed"} /\ dev'.sda = 1
  BY SettledIs DEF Ready, Settled
<1>4. Len(ops') = 33 /\ Len(ops') \in Nat /\ done' \in Nat /\ left' = 33
  <2>1. PICK f : f = i2c_restart \o i2c_writeb(AddressByte(x.msgs[x.i + 1]))
    OBVIOUS
  <2>2. Len(f) = 33 /\ Call(f) /\ 33 \in Nat
    BY <2>1, OpeningLen
  <2> QED BY <2>2, Called
<1>5. OpeningPhase'
  BY <1>3, <1>4 DEF OpeningPhase
<1>6. AddressPhase'
  <2>1. PICK p \in Openings : p = i2c_restart
    BY DEF Openings
  <2>2. Call(p \o i2c_writeb(AddressByte(Message')))
    BY <1>2, <2>1
  <2> QED BY <1>1, <1>5, <2>2, Opened
<1>7. x.i \in 1 .. Len(x.msgs) /\ x.msgs \in Transfers /\ Len(x.msgs) \in Nat
  BY MessageFacts DEF Ready
<1>8. BusInv'
  <2>1. xfer'.msgs \in Transfers /\ xfer'.i \in 1 .. Len(xfer'.msgs)
    BY <1>1, <1>7
  <2> QED BY <1>1, <1>3, <1>4, <1>6, <2>1 DEF BusInv, Transferring
<1>9. TruthInv'
  <2>1. SUFFICES ASSUME unlocked = "failed" => since = 3
                 PROVE  Sound(0, 0)'
    BY DEF TruthInv, Settled
  <2>2. dev.regs \in Registers
    BY SensorFacts DEF Dev
  <2>3. PICK k : k = Len(x.msgs[x.i].buf)
    OBVIOUS
  <2>4. k = x.n
    BY <1>7, <2>3, MessageFacts DEF Ready, Xfer
  <2>5. SoundFor(x, dev, k, k)
    BY <2>1, <2>4
  <2>6. dev.got = Written(x.msgs)[x.i] /\ x.read = Read(dev.regs, x.msgs)[x.i]
    BY <1>7, <2>2, <2>3, <2>5, SoundDone
  <2>7. SoundFor(xfer', dev, 0, 0)
    BY <1>1, <1>7, <2>2, <2>6, SoundNext
  <2> QED BY <1>3, <2>7 DEF Sound
<1> QED BY <1>8, <1>9

LEMMA NextStops ==
    ASSUME SensorInv, Settled, NEW x, Ready(x), ~(x.n < Len(x.msgs[x.i].buf)), ~(x.i < Len(x.msgs)),
           Out("num"), xfer' = x,
           (unlocked = "failed" => since = 3) => SoundFor(x, dev, x.n, x.n)
    PROVE  BusInv' /\ TruthInv'
<1>1. SensorInv' /\ scl' = 0 /\ dev' = dev /\ since' \in 1 .. 3 /\ unlocked' \in {"no", "yes", "failed"} /\ dev'.sda = 1
  BY SettledIs DEF Ready, Settled
<1>2. Call(i2c_stop) /\ pc' = "stop" /\ result' = "num"
  BY DEF Out
<1>3. ops' = i2c_stop /\ Len(ops') \in Nat /\ done' \in Nat /\ left' = 3
  <2>1. Len(i2c_stop) = 3 /\ 3 \in Nat
    BY DEF i2c_stop
  <2> QED BY <1>2, <2>1, Called
<1>4. StopPhase'
  BY <1>1, <1>2, <1>3 DEF StopPhase, Failed
<1>5. x.i \in 1 .. Len(x.msgs) /\ x.msgs \in Transfers /\ Len(x.msgs) \in Nat /\ x \in Xfer
  BY MessageFacts DEF Ready
<1>6. BusInv'
  BY <1>1, <1>2, <1>3, <1>4, <1>5 DEF BusInv, Transferring
<1>7. TruthInv'
  <2>1. SUFFICES ASSUME unlocked = "failed" => since = 3
                 PROVE  /\ dev.got = Written(x.msgs)[Len(x.msgs)]
                        /\ x.read = Read(dev.regs, x.msgs)[Len(x.msgs)]
    BY <1>1, <1>2 DEF TruthInv, Settled
  <2>2. dev.regs \in Registers
    BY SensorFacts DEF Dev
  <2>3. PICK k : k = Len(x.msgs[x.i].buf)
    OBVIOUS
  <2>4. k = x.n
    BY <1>5, <2>3, MessageFacts DEF Ready, Xfer
  <2>5. SoundFor(x, dev, k, k)
    BY <2>1, <2>4
  <2>6. dev.got = Written(x.msgs)[x.i] /\ x.read = Read(dev.regs, x.msgs)[x.i]
    BY <1>5, <2>2, <2>3, <2>5, SoundDone
  <2>7. x.i = Len(x.msgs)
    BY <1>5
  <2> QED BY <2>6, <2>7
<1> QED BY <1>6, <1>7

LEMMA GoOnKeeps ==
    ASSUME SensorInv, Settled, NEW x, Ready(x), GoOn(x),
           (unlocked = "failed" => since = 3) => SoundFor(x, dev, x.n, x.n)
    PROVE  BusInv' /\ TruthInv'
<1>1. CASE x.n < Len(x.msgs[x.i].buf) /\ x.msgs[x.i].rd
  <2>1. Call(i2c_readb) /\ pc' = "recv" /\ xfer' = [x EXCEPT !.data = 0, !.ret = "none"]
    BY <1>1 DEF GoOn
  <2> QED BY <1>1, <2>1, NextReceives
<1>2. CASE x.n < Len(x.msgs[x.i].buf) /\ ~x.msgs[x.i].rd
  <2>1. Call(i2c_writeb(x.msgs[x.i].buf[x.n + 1])) /\ pc' = "send" /\ xfer' = [x EXCEPT !.data = 0, !.ret = "none"]
    BY <1>2 DEF GoOn
  <2> QED BY <1>2, <2>1, NextSends
<1>3. CASE ~(x.n < Len(x.msgs[x.i].buf)) /\ x.i < Len(x.msgs)
  <2>1. /\ Call(i2c_restart \o i2c_writeb(AddressByte(x.msgs[x.i + 1]))) /\ pc' = "address"
        /\ xfer' = [x EXCEPT !.i = @ + 1, !.n = 0, !.try = 0]
    BY <1>3 DEF GoOn
  <2> QED BY <1>3, <2>1, NextMessage
<1>4. CASE ~(x.n < Len(x.msgs[x.i].buf)) /\ ~(x.i < Len(x.msgs))
  <2>1. Out("num") /\ xfer' = x
    BY <1>4 DEF GoOn
  <2> QED BY <1>4, <2>1, NextStops
<1> QED BY <1>1, <1>2, <1>3, <1>4

LEMMA AddressReturns ==
    ASSUME SensorInv, BusInv, TruthInv, i2c_send_address
    PROVE  SensorInv' /\ BusInv' /\ TruthInv' /\ skipped' = skipped
<1>1. /\ pc = "address" /\ left = 0 /\ AddressPhase /\ xfer \in Xfer /\ since \in 1 .. 3
      /\ xfer.msgs \in Transfers /\ xfer.i \in 1 .. Len(xfer.msgs) /\ unlocked \in {"no", "yes", "failed"}
  BY Returned DEF BusInv, i2c_send_address, Transferring
<1>2. skipped' = skipped /\ Settled
  BY <1>1 DEF i2c_send_address, Unhindered, Settled
<1>3. SensorInv' /\ (AsData' <=> AsData) /\ (First("yes")' <=> First("yes")) /\ (First("failed")' <=> First("failed"))
  BY <1>2, SettledIs
<1>4. xfer.n = 0 /\ AddressEnd
  BY <1>1 DEF AddressPhase, OpeningPhase
<1>5. DevAt(dev, 0) /\ dev.sda \in {0, 1} /\ (dev.st = "idle" => dev.sda = 1) /\ scl = 0
  BY <1>4, SensorFacts DEF AddressEnd
<1>6. Message.rd \in BOOLEAN /\ Len(Message.buf) \in Nat /\ (Message.rd => Len(Message.buf) > 0)
  BY <1>1, MessageFacts DEF Message
<1>7. (unlocked = "failed" => since = 3) => Sound(0, 0)
  BY <1>1 DEF TruthInv
<1>8. CASE xfer.ret = "ack" /\ GoOn(xfer)
  <2>1. PICK x : x = xfer
    OBVIOUS
  <2>2. /\ dev.bit = 0 /\ (dev.st = "receive" => dev.sr = 0) /\ (dev.st = "send" => dev.sent = 0)
        /\ dev.st = (IF Message.rd THEN "send" ELSE "receive") \/ (AsData /\ dev.st = "receive")
    BY <1>4, <1>8 DEF AddressEnd
  <2>3. Ready(x)
    <3>1. CASE Message.rd
      <4>1. Reading(0, 0)
        BY <2>2, <3>1 DEF Reading
      <4> QED BY <1>1, <1>4, <1>5, <1>6, <2>1, <3>1, <4>1 DEF Ready, Message
    <3>2. CASE ~Message.rd
      <4>1. dev.st = "receive" /\ dev.bit = 0 /\ dev.sr = 0
        BY <2>2, <3>2
      <4>2. dev.sda = 1
        BY <1>5, <4>1 DEF DevAt
      <4> QED BY <1>1, <1>4, <1>5, <1>6, <2>1, <3>2, <4>1, <4>2 DEF Ready, Message
    <3> QED BY <1>6, <3>1, <3>2
  <2>4. (unlocked = "failed" => since = 3) => SoundFor(x, dev, x.n, x.n)
    BY <1>4, <1>7, <2>1 DEF Sound
  <2>5. GoOn(x)
    BY <1>8, <2>1
  <2> QED BY <1>2, <1>3, <2>3, <2>4, <2>5, GoOnKeeps
<1>9. CASE xfer.ret # "ack"
  <2>1. Deaf \/ Stuck(0)
    BY <1>4, <1>9 DEF AddressEnd
  <2>2. dev.sda = 1 \/ Stuck(0)
    BY <1>5, <2>1 DEF Deaf
  <2>3. dev'.sda = 1 \/ Stuck(0)'
    BY <1>2, <1>3, <2>2 DEF Stuck, Settled
  <2>4. scl' = 0 /\ since' \in 1 .. 3 /\ unlocked' \in {"no", "yes", "failed"} /\ dev' = dev
    BY <1>2, <1>5 DEF Settled
  <2>5. CASE /\ xfer' = Counted(xfer) /\ pc' = pc
             /\ Call(i2c_stop \o i2c_start \o i2c_writeb(AddressByte(Message)))
    <3>1. xfer' \in Xfer /\ xfer'.msgs = xfer.msgs /\ xfer'.i = xfer.i /\ xfer'.n = xfer.n /\ xfer'.read = xfer.read
      BY <1>1, <2>5, XferCounted
    <3>2. Message' = Message
      BY <3>1, Zenon DEF Message
    <3>3. Len(ops') \in Nat /\ done' \in Nat /\ left' = 34
      <4>1. PICK f : f = i2c_stop \o i2c_start \o i2c_writeb(AddressByte(Message))
        OBVIOUS
      <4>2. Len(f) = 34 /\ Call(f) /\ 34 \in Nat
        BY <2>5, <4>1, OpeningLen
      <4> QED BY <4>2, Called
    <3>4. OpeningPhase'
      BY <2>3, <2>4, <3>3 DEF OpeningPhase
    <3>5. AddressPhase'
      <4>1. PICK p \in Openings : p = i2c_stop \o i2c_start
        BY DEF Openings
      <4>2. Call(p \o i2c_writeb(AddressByte(Message')))
        BY <2>5, <3>2, <4>1
      <4> QED BY <1>4, <3>1, <3>4, <4>2, Opened
    <3>6. BusInv'
      BY <1>1, <2>4, <2>5, <3>1, <3>3, <3>5 DEF BusInv, Transferring
    <3>7. (unlocked = "failed" => since = 3) => Sound(0, 0)'
      BY <1>7, <2>4, <3>1, SoundAlike
    <3>8. TruthInv'
      BY <1>1, <1>2, <2>5, <3>7 DEF TruthInv, Settled
    <3> QED BY <1>2, <1>3, <3>6, <3>8
  <2>6. CASE Out("error") /\ xfer' = xfer
    <3>1. Call(i2c_stop) /\ pc' = "stop" /\ result' = "error"
      BY <2>6 DEF Out
    <3>2. ops' = i2c_stop /\ Len(ops') \in Nat /\ done' \in Nat /\ left' = 3
      <4>1. Len(i2c_stop) = 3 /\ 3 \in Nat
        BY DEF i2c_stop
      <4> QED BY <3>1, <4>1, Called
    <3>3. Failed'
      BY <1>2, <2>1 DEF Failed, Deaf, Stuck, First, Settled
    <3>4. StopPhase'
      BY <2>3, <2>4, <3>1, <3>2, <3>3 DEF StopPhase
    <3>5. BusInv'
      BY <1>1, <2>4, <2>6, <3>1, <3>2, <3>4 DEF BusInv, Transferring
    <3>6. TruthInv'
      BY <3>1 DEF TruthInv
    <3> QED BY <1>2, <1>3, <3>5, <3>6
  <2> QED BY <1>9, <2>5, <2>6 DEF i2c_send_address
<1> QED BY <1>8, <1>9 DEF i2c_send_address

LEMMA SendReturns ==
    ASSUME SensorInv, BusInv, TruthInv, i2c_send_bytes
    PROVE  SensorInv' /\ BusInv' /\ TruthInv' /\ skipped' = skipped
<1>1. /\ pc = "send" /\ left = 0 /\ SendPhase /\ xfer \in Xfer /\ since \in 1 .. 3
      /\ xfer.msgs \in Transfers /\ xfer.i \in 1 .. Len(xfer.msgs) /\ unlocked \in {"no", "yes", "failed"}
  BY Returned DEF BusInv, i2c_send_bytes, Transferring
<1>2. skipped' = skipped /\ Settled
  BY <1>1 DEF i2c_send_bytes, Unhindered, Settled
<1>3. SensorInv'
  BY <1>2, SettledIs
<1>4. /\ ~Message.rd /\ xfer.n < Len(Message.buf) /\ scl = 0 /\ xfer.ret = "ack"
      /\ dev.st = "receive" /\ dev.bit = 0 /\ dev.sr = 0
  BY <1>1 DEF SendPhase
<1>5. Len(Message.buf) \in Nat /\ xfer.n \in Nat
  BY <1>1, MessageFacts DEF Message, Xfer
<1>6. PICK x : x = [xfer EXCEPT !.n = @ + 1]
  OBVIOUS
<1>7. x \in Xfer /\ x.n = xfer.n + 1 /\ x.msgs = xfer.msgs /\ x.i = xfer.i /\ x.read = xfer.read
  BY <1>1, <1>6, XferByte
<1>8. GoOn(x)
  BY <1>4, <1>6 DEF i2c_send_bytes, Acknowledged
<1>9. dev.sda = 1
  <2>1. DevAt(dev, 0) /\ dev.sda \in {0, 1}
    BY <1>4, SensorFacts
  <2> QED BY <1>4, <2>1 DEF DevAt
<1>10. Ready(x)
  <2>1. x.msgs[x.i] = Message
    BY <1>7, Zenon DEF Message
  <2>2. x.n <= Len(Message.buf)
    BY <1>4, <1>5, <1>7
  <2> QED BY <1>1, <1>4, <1>7, <1>9, <2>1, <2>2 DEF Ready
<1>11. (unlocked = "failed" => since = 3) => SoundFor(x, dev, x.n, x.n)
  <2>1. SUFFICES ASSUME unlocked = "failed" => since = 3 PROVE SoundFor(x, dev, x.n, x.n)
    OBVIOUS
  <2>2. Sound(xfer.n + 1, 0)
    <3>1. left <= 4
      BY <1>1
    <3> QED BY <1>1, <2>1, <3>1 DEF TruthInv
  <2>3. ~xfer.msgs[xfer.i].rd
    BY <1>4 DEF Message
  <2> QED BY <1>7, <2>2, <2>3, Zenon DEF Sound, SoundFor
<1> QED BY <1>2, <1>3, <1>8, <1>10, <1>11, GoOnKeeps

LEMMA AckReturns ==
    ASSUME SensorInv, BusInv, TruthInv, AfterAck
    PROVE  SensorInv' /\ BusInv' /\ TruthInv' /\ skipped' = skipped
<1>1. /\ pc = "recvack" /\ left = 0 /\ RecvAckPhase /\ xfer \in Xfer /\ since \in 1 .. 3
      /\ xfer.msgs \in Transfers /\ xfer.i \in 1 .. Len(xfer.msgs) /\ unlocked \in {"no", "yes", "failed"}
  BY Returned DEF BusInv, AfterAck, Transferring
<1>2. skipped' = skipped /\ Settled
  BY <1>1 DEF AfterAck, Unhindered, Settled
<1>3. SensorInv'
  BY <1>2, SettledIs
<1>4. /\ Message.rd /\ xfer.n \in 1 .. Len(Message.buf) /\ xfer.ret = "none" /\ scl = 0
      /\ IF xfer.n < Len(Message.buf) THEN Reading(0, xfer.n)
         ELSE dev.st = "idle" \/ (AsData /\ dev.st = "receive" /\ dev.bit = 0)
  BY <1>1 DEF RecvAckPhase, AckBits
<1>5. PICK x : x = xfer
  OBVIOUS
<1>6. GoOn(x)
  BY <1>4, <1>5 DEF AfterAck
<1>7. Ready(x)
  <2>1. Len(Message.buf) \in Nat
    BY <1>1, MessageFacts DEF Message
  <2>2. dev.st = "idle" \/ (dev.st = "receive" /\ dev.bit = 0) => dev.sda = 1
    <3>1. DevAt(dev, 0) /\ dev.sda \in {0, 1}
      BY <1>4, SensorFacts
    <3> QED BY <3>1 DEF DevAt
  <2> QED BY <1>1, <1>4, <1>5, <2>1, <2>2 DEF Ready, Message
<1>8. (unlocked = "failed" => since = 3) => SoundFor(x, dev, x.n, x.n)
  <2>1. SUFFICES ASSUME unlocked = "failed" => since = 3 PROVE SoundFor(x, dev, x.n, x.n)
    OBVIOUS
  <2>2. Sound(0, xfer.n)
    BY <1>1, <2>1 DEF TruthInv
  <2>3. xfer.msgs[xfer.i].rd
    BY <1>4 DEF Message
  <2> QED BY <1>5, <2>2, <2>3, Zenon DEF Sound, SoundFor
<1> QED BY <1>2, <1>3, <1>6, <1>7, <1>8, GoOnKeeps

LEMMA RecvReturns ==
    ASSUME SensorInv, BusInv, TruthInv, i2c_recv_bytes
    PROVE  SensorInv' /\ BusInv' /\ TruthInv' /\ skipped' = skipped
<1>1. /\ pc = "recv" /\ left = 0 /\ RecvPhase /\ xfer \in Xfer /\ since \in 1 .. 3
      /\ xfer.msgs \in Transfers /\ xfer.i \in 1 .. Len(xfer.msgs) /\ unlocked \in {"no", "yes", "failed"}
  BY Returned DEF BusInv, i2c_recv_bytes, Transferring
<1>2. skipped' = skipped /\ Settled
  BY <1>1 DEF i2c_recv_bytes, Unhindered, Settled
<1>3. SensorInv' /\ SCL' = SCL /\ (AsData' <=> AsData)
  BY <1>2, SettledIs
<1>4. PICK n \in Nat : n = xfer.n
  BY <1>1 DEF Xfer
<1>5. Message.rd /\ n < Len(Message.buf) /\ xfer.ret = "none" /\ RecvBits(n)
  BY <1>1, <1>4 DEF RecvPhase
<1>6. Reading(8, n) /\ scl = 0 /\ sda = 1 /\ Taken(8)
  <2>1. ASSUME NEW i \in 0 .. 7 PROVE left # 24 - 3 * i /\ left # 23 - 3 * i /\ (left # 22 - 3 * i)
    BY <1>1
  <2> QED BY <1>1, <1>5, <2>1 DEF RecvBits
<1>7. /\ xfer' = [xfer EXCEPT !.n = @ + 1, !.read = Append(@, xfer.data)]
      /\ Call(i2c_send_ack_or_nack(xfer.n + 1 < Len(Message.buf))) /\ pc' = "recvack"
  BY <1>5 DEF i2c_recv_bytes
<1>8. /\ xfer' \in Xfer /\ xfer'.n = n + 1 /\ xfer'.msgs = xfer.msgs /\ xfer'.i = xfer.i
      /\ xfer'.read = Append(xfer.read, xfer.data) /\ xfer'.ret = "none"
  BY <1>1, <1>4, <1>5, <1>7, XferStored
<1>9. Message' = Message
  BY <1>8, Zenon DEF Message
<1>10. Len(Message.buf) \in Nat
  BY <1>1, MessageFacts DEF Message
<1>11. SCL' = 0 /\ scl' = 0 /\ sda' = 1 /\ dev' = dev /\ since' \in 1 .. 3 /\ unlocked' \in {"no", "yes", "failed"}
  BY <1>2, <1>3, <1>6, SensorFacts DEF Settled
<1>12. Reading(8, n)'
  BY <1>3, <1>6, <1>11 DEF Reading
<1>13. n + 1 - 1 = n
  OBVIOUS
<1>14. ops' = i2c_send_ack_or_nack(n + 1 < Len(Message.buf)) /\ done' = 0
  BY <1>4, <1>7 DEF Call
<1>15. Len(ops') \in Nat /\ done' \in Nat /\ AckBits(n + 1 < Len(Message.buf), n + 1)'
  <2>1. CASE n + 1 < Len(Message.buf)
    <3>1. ops' = <<"SDA_L">> \o <<"TRY_SCL_H", "SCL_L">>
      BY <1>14, <2>1 DEF i2c_send_ack_or_nack
    <3>2. Len(ops') = 3 /\ left' = 3
      BY <1>14, <3>1 DEF left
    <3> QED BY <1>11, <1>12, <1>13, <1>14, <3>2 DEF AckBits
  <2>2. CASE ~(n + 1 < Len(Message.buf))
    <3>1. ops' = <<>> \o <<"TRY_SCL_H", "SCL_L">>
      BY <1>14, <2>2 DEF i2c_send_ack_or_nack
    <3>2. Len(ops') = 2 /\ left' = 2
      BY <1>14, <3>1 DEF left
    <3>3. Reading(8 + SCL, n)'
      <4>1. 8 + SCL' = 8
        BY <1>11
      <4> QED BY <1>12, <4>1 DEF Reading
    <3>4. ~(n + 1 < Len(Message'.buf))
      BY <1>9, <2>2
    <3> QED BY <1>11, <1>13, <1>14, <3>2, <3>3, <3>4 DEF AckBits
  <2> QED BY <2>1, <2>2
<1>16. RecvAckPhase'
  <2>1. xfer'.n \in 1 .. Len(Message'.buf) /\ Message'.rd
    BY <1>5, <1>8, <1>9, <1>10
  <2>2. ops' = i2c_send_ack_or_nack(xfer'.n < Len(Message'.buf))
    BY <1>8, <1>9, <1>14
  <2>3. AckBits(xfer.n < Len(Message.buf), xfer.n)'
    BY <1>8, <1>9, <1>15 DEF AckBits
  <2> QED BY <1>8, <2>1, <2>2, <2>3 DEF RecvAckPhase
<1>17. BusInv'
  BY <1>1, <1>7, <1>8, <1>11, <1>15, <1>16 DEF BusInv, Transferring
<1>18. TruthInv'
  <2>1. SUFFICES ASSUME unlocked = "failed" => since = 3
                 PROVE  Sound(0, n + 1)'
    <3>1. (unlocked' = "failed" => since' = 3) => (unlocked = "failed" => since = 3)
      BY <1>2 DEF Settled
    <3>2. Sound(0, n + 1)' => Sound(0, xfer.n)'
      BY <1>8 DEF Sound
    <3> QED BY <1>7, <2>1, <3>1, <3>2 DEF TruthInv
  <2>2. SoundFor(xfer, dev, 0, n) /\ xfer.msgs[xfer.i].rd
    BY <1>1, <1>4, <1>5, <2>1 DEF TruthInv, Sound, Message
  <2>3. dev.regs \in Registers /\ dev \in Dev
    BY SensorFacts DEF Dev
  <2>4. xfer.data = dev.regs[(n % Len(dev.regs)) + 1]
    <3>1. dev.st = "send" /\ dev.sent = n
      BY <1>6, <2>1 DEF Reading, AsData
    <3>2. PICK byte \in Byte : byte = Sending(dev)
      <4>1. 0 \in 0 .. 7
        OBVIOUS
      <4> QED BY <2>3, <4>1, SendingBit
    <3>3. byte \div pow2[1] = byte
      <4>1. 0 \in 0 .. 7
        OBVIOUS
      <4> QED BY <4>1, Bits
    <3>4. xfer.data = byte
      <4>1. 9 - 8 = 1
        OBVIOUS
      <4> QED BY <1>6, <3>1, <3>2, <3>3, <4>1 DEF Taken
    <3> QED BY <3>1, <3>2, <3>4, Zenon DEF Sending
  <2>5. PICK regs \in Registers, r \in Seq(Byte), f \in Seq(Byte), e \in Byte :
               /\ regs = dev.regs /\ r = Read(dev.regs, xfer.msgs)[xfer.i - 1] /\ f = FirstBytes(dev.regs, n)
               /\ e = dev.regs[(n % Len(dev.regs)) + 1]
    <3>1. Read(dev.regs, xfer.msgs)[xfer.i - 1] \in Seq(Byte)
      BY <1>1, <2>3, ReadSteps
    <3>2. FirstBytes(dev.regs, n) \in Seq(Byte) /\ dev.regs[(n % Len(dev.regs)) + 1] \in Byte
      BY <2>3, FirstBytesAre
    <3> QED BY <2>3, <3>1, <3>2
  <2>6. xfer.read = r \o f /\ xfer'.read = Append(r \o f, e)
    BY <1>8, <2>2, <2>4, <2>5, Zenon DEF SoundFor
  <2>7. Append(r \o f, e) = r \o Append(f, e)
    BY NextByte
  <2>8. Append(f, e) = FirstBytes(regs, n + 1)
    <3>1. Append(FirstBytes(regs, n), regs[(n % Len(regs)) + 1]) = FirstBytes(regs, n + 1)
      BY FirstBytesGo
    <3> QED BY <2>5, <3>1
  <2>9. xfer'.read = Read(dev'.regs, xfer'.msgs)[xfer'.i - 1] \o FirstBytes(dev'.regs, n + 1)
    BY <1>8, <1>11, <2>5, <2>6, <2>7, <2>8, Zenon
  <2> QED BY <1>8, <1>11, <2>2, <2>9, Zenon DEF Sound, SoundFor
<1> QED BY <1>2, <1>3, <1>17, <1>18

-----------------------------------------------------------------------------
(* The sensor stays where it can be, and what the thread has skipped stays  *)
(* skipped, whatever has happened before.                                   *)

Returns == i2c_send_address \/ i2c_send_bytes \/ i2c_recv_bytes \/ AfterAck \/ Return

LEMMA ThreadSensor ==
    ASSUME SensorInv, rt_hw_i2c_init \/ stm32_i2c_bus_unlock \/ UnlockReturns \/ Returns
    PROVE  SensorInv' /\ skipped' = skipped
<1>1. UNCHANGED <<scl, sda, dev>> /\ skipped' = skipped
  <2>1. Unhindered
    BY DEF rt_hw_i2c_init, stm32_i2c_bus_unlock, UnlockReturns, Returns, i2c_send_address, i2c_send_bytes,
           i2c_recv_bytes, AfterAck, Return
  <2> QED BY <2>1 DEF Unhindered
<1> QED BY <1>1, StillSensor

LEMMA SensorKeeps == ASSUME SensorInv, Next PROVE SensorInv'
<1>1. CASE Line
  BY <1>1, LineKeeps
<1>2. CASE rt_hw_i2c_init \/ stm32_i2c_bus_unlock \/ UnlockReturns \/ Returns
  BY <1>2, ThreadSensor
<1>3. CASE \E msgs \in Transfers : rt_i2c_transfer(msgs)
  <2>1. scl' = scl /\ sda' = sda /\ dev' = [dev EXCEPT !.got = <<>>]
    BY <1>3 DEF rt_i2c_transfer
  <2> QED BY <2>1, TransferSensor
<1>4. CASE HoldClock \/ ReleaseClock
  BY <1>4, StirsIs
<1>5. CASE Reset
  BY <1>5, ResetKeeps
<1> QED BY <1>1, <1>2, <1>3, <1>4, <1>5 DEF Next, Thread, Returns

LEMMA LineSkips == ASSUME SensorInv, Line, ~skipped' PROVE ~skipped
<1>1. CASE ops[done + 1] = "SDA_L"
  BY <1>1, DoesSdaL
<1>2. CASE ops[done + 1] = "SDA_H"
  BY <1>2, DoesSdaH
<1>3. CASE ops[done + 1] = "SCL_L"
  BY <1>3, DoesLow
<1>4. CASE ops[done + 1] \in {"SCL", "SCL_H", "TRY_SCL_H"}
  BY <1>4, DoesWait
<1>5. CASE ops[done + 1] \in {"GET_ACK", "GET_SDA"}
  BY <1>5, DoesGet
<1> QED BY <1>1, <1>2, <1>3, <1>4, <1>5, LineOps

LEMMA SkipsStay == ASSUME SensorInv, Next, ~skipped' PROVE ~skipped
<1>1. CASE Line
  BY <1>1, LineSkips
<1>2. CASE rt_hw_i2c_init \/ stm32_i2c_bus_unlock \/ UnlockReturns \/ Returns
  BY <1>2, ThreadSensor
<1>3. CASE \E msgs \in Transfers : rt_i2c_transfer(msgs)
  BY <1>3 DEF rt_i2c_transfer
<1>4. CASE HoldClock \/ ReleaseClock
  BY <1>4, StirsIs DEF Stirs
<1>5. CASE Reset
  BY <1>5 DEF Reset
<1> QED BY <1>1, <1>2, <1>3, <1>4, <1>5 DEF Next, Thread, Returns

-----------------------------------------------------------------------------
(* The invariant.                                                           *)

LEMMA InvInit == ASSUME Init PROVE Inv
<1>1. PICK r \in Registers :
        dev = [st |-> "idle", bit |-> 0, sr |-> 0, sda |-> 1, hold |-> FALSE, ack |-> 0,
               regs |-> r, sent |-> 0, got |-> <<>>]
  BY DEF Init
<1>2. /\ scl = 1 /\ sda = 1 /\ pc = "boot" /\ ops = <<>> /\ done = 0 /\ xfer = NoXfer /\ result = "none" /\ since = 0
      /\ unlocked = "no"
  BY DEF Init
<1>3. dev \in Dev /\ dev.st = "idle" /\ dev.sda = 1 /\ ~dev.hold
  BY <1>1 DEF Dev, States
<1>4. SensorInv
  BY <1>2, <1>3 DEF SensorInv, DevAt
<1>5. NoXfer \in Xfer
  BY DEF NoXfer, Xfer
<1>6. left = 0 /\ Len(ops) \in Nat /\ done \in Nat
  BY <1>2 DEF left
<1>7. BusInv
  BY <1>2, <1>5, <1>6 DEF BusInv, Transferring
<1>8. TruthInv
  BY <1>2 DEF TruthInv
<1> QED BY <1>4, <1>7, <1>8 DEF Inv

LEMMA InvNext == ASSUME Inv, Next PROVE Inv'
<1>1. SensorInv /\ SensorInv'
  BY SensorKeeps DEF Inv
<1> SUFFICES ASSUME ~skipped' PROVE BusInv' /\ TruthInv'
  BY <1>1 DEF Inv
<1>2. BusInv /\ TruthInv
  BY <1>1, SkipsStay DEF Inv
<1>3. CASE Line
  BY <1>1, <1>2, <1>3, BusKeeps DEF BusStep
<1>4. CASE HoldClock \/ ReleaseClock
  BY <1>1, <1>2, <1>4, BusKeeps DEF BusStep
<1>5. CASE rt_hw_i2c_init
  BY <1>1, <1>2, <1>5, InitKeeps
<1>6. CASE stm32_i2c_bus_unlock
  BY <1>1, <1>2, <1>6, BusUnlockKeeps
<1>7. CASE UnlockReturns
  BY <1>1, <1>2, <1>7, UnlockReturnsKeeps
<1>8. CASE i2c_send_address
  BY <1>1, <1>2, <1>8, AddressReturns
<1>9. CASE i2c_send_bytes
  BY <1>1, <1>2, <1>9, SendReturns
<1>10. CASE i2c_recv_bytes
  BY <1>1, <1>2, <1>10, RecvReturns
<1>11. CASE AfterAck
  BY <1>1, <1>2, <1>11, AckReturns
<1>12. CASE Return
  BY <1>1, <1>2, <1>12, ReturnKeeps
<1>13. CASE \E msgs \in Transfers : rt_i2c_transfer(msgs)
  BY <1>1, <1>2, <1>13, TransferKeeps
<1>14. CASE Reset
  BY <1>1, <1>14, BootKeeps
<1> QED BY <1>3, <1>4, <1>5, <1>6, <1>7, <1>8, <1>9, <1>10, <1>11, <1>12, <1>13, <1>14 DEF Next, Thread

LEMMA InvStays == ASSUME Inv, UNCHANGED vars PROVE Inv'
<1>1. /\ scl' = scl /\ sda' = sda /\ dev' = dev /\ pc' = pc /\ ops' = ops /\ done' = done /\ xfer' = xfer
      /\ result' = result /\ since' = since /\ unlocked' = unlocked /\ busy' = busy /\ skipped' = skipped
  BY DEF vars
<1>2. SCL' = SCL /\ SDA' = SDA /\ left' = left /\ Message' = Message
  BY <1>1 DEF SCL, SDA, left, Message
<1>3. SensorInv' <=> SensorInv
  BY <1>1, <1>2, Zenon DEF SensorInv
<1>4. TruthInv' <=> TruthInv
  BY <1>1, <1>2, Zenon DEF TruthInv, Sound
<1>5. /\ AsData' <=> AsData
      /\ Deaf' <=> Deaf
      /\ First("yes")' <=> First("yes")
      /\ First("failed")' <=> First("failed")
      /\ Stuck(0)' <=> Stuck(0)
      /\ Stuck(1)' <=> Stuck(1)
      /\ Stuck(SCL)' <=> Stuck(SCL)
      /\ Unheard' <=> Unheard
      /\ Failed' <=> Failed
      /\ Free' <=> Free
  BY <1>1, <1>2, Zenon DEF AsData, Deaf, First, Stuck, Unheard, Failed, Free
<1>6. UnlockPhase' <=> UnlockPhase
  BY <1>1, <1>2, Zenon DEF UnlockPhase
<1>7. PulsePhase' <=> PulsePhase
  BY <1>1, <1>2, <1>5, Zenon DEF PulsePhase, Pulsed
<1>8. IdlePhase' <=> IdlePhase
  BY <1>1, <1>2, <1>5, Zenon DEF IdlePhase
<1>9. AddressPhase' <=> AddressPhase
  <2>1. OpeningPhase' <=> OpeningPhase
    BY <1>1, <1>2, <1>5, ZenonT(60) DEF OpeningPhase
  <2>2. AddressEnd' <=> AddressEnd
    BY <1>1, <1>2, <1>5, Zenon DEF AddressEnd
  <2>3. Missing' <=> Missing
    BY <1>1, <1>2, <1>5, Zenon DEF Missing
  <2>4. ASSUME NEW byte PROVE (Following(byte)' <=> Following(byte)) /\ (WritePins(byte)' <=> WritePins(byte))
    BY <1>1, <1>2, <1>5, Zenon DEF Following, WritePins
  <2> QED BY <1>1, <1>2, <2>1, <2>2, <2>3, <2>4, Zenon DEF AddressPhase
<1>10. SendPhase' <=> SendPhase
  BY <1>1, <1>2, Zenon DEF SendPhase, WritePins
<1>11. RecvPhase' <=> RecvPhase
  BY <1>1, <1>2, <1>5, Zenon DEF RecvPhase, RecvBits, Reading, Taken
<1>12. RecvAckPhase' <=> RecvAckPhase
  BY <1>1, <1>2, <1>5, Zenon DEF RecvAckPhase, AckBits, Reading
<1>13. StopPhase' <=> StopPhase
  BY <1>1, <1>2, <1>5, Zenon DEF StopPhase
<1>14. BusInv' <=> BusInv
  BY <1>1, <1>2, <1>6, <1>7, <1>8, <1>9, <1>10, <1>11, <1>12, <1>13, ZenonT(60) DEF BusInv
<1> QED BY <1>1, <1>3, <1>4, <1>14, Zenon DEF Inv

\* The sensor's place in a byte agrees with the clock, whatever the thread and the faults do; and
\* unless the sensor ever held the clock for longer than the thread waited, the thread and the
\* sensor are at places of i2c-bit-ops.c that belong together, and what has been written and read
\* so far is what the messages say.
THEOREM BusInvariant == Spec => []Inv
<1>1. Init => Inv
  BY InvInit
<1>2. Inv /\ [Next]_vars => Inv'
  BY InvNext, InvStays
<1> QED BY <1>1, <1>2, PTL DEF Spec

\* i2c_bit_xfer says the truth: when it returns the number of messages, the sensor has received
\* the bytes that were to be written, no more and no less, and the bytes read are the sensor's; for
\* every transfer, every sensor and any number of resets, held clocks and unanswered addresses.
THEOREM TransfersTruthful == Spec => []Truthful
<1>1. Inv => Truthful
  BY DEF Inv, TruthInv, Truthful
<1> QED BY <1>1, BusInvariant, PTL

\* The stop condition of i2c_bit_xfer frees the bus, whether the transfer failed or not: the lines
\* are high and the sensor waits for a start.  After a reset that stm32_i2c_bus_unlock could not
\* mend, the second transfer does.
THEOREM BusFreed == Spec => []BusFree
<1>1. Inv => BusFree
  <2> SUFFICES ASSUME Inv, pc = "idle", since > 0, ~skipped, unlocked = "failed" => since > 1
               PROVE  SCL = 1 /\ SDA = 1 /\ dev.st = "idle"
    BY DEF BusFree
  <2>1. SensorInv /\ IdlePhase
    BY DEF Inv, BusInv
  <2>2. sda = 1 /\ SCL = 1 /\ (dev.st = "idle" \/ Stuck(1))
    BY <2>1 DEF IdlePhase
  <2>3. ~Stuck(1)
    BY DEF Stuck, First
  <2> QED BY <2>1, <2>2, <2>3, SensorFacts
<1> QED BY <1>1, BusInvariant, PTL

\* Wherever a reset struck i2c_bit_xfer, the second transfer after it succeeds if the sensor answers,
\* the first one already if the reset did not leave the data line low.
THEOREM BusWorksAgain == Spec => []WorksAgain
<1>1. Inv => WorksAgain
  <2> SUFFICES ASSUME Inv, pc = "idle", since > 0, ~skipped, ~busy, unlocked # "no" => since > 1
               PROVE  result = "num"
    BY DEF WorksAgain
  <2>1. IdlePhase
    BY DEF Inv, BusInv
  <2>2. result \in {"num", "error"} /\ Failed
    BY <2>1 DEF IdlePhase
  <2> QED BY <2>2 DEF Failed
<1> QED BY <1>1, BusInvariant, PTL
=============================================================================
