--------------------------- MODULE RegistersProofs ---------------------------
(***************************************************************************)
(* The temperature register and the master's view of the calibration, for  *)
(* every number of registers, set of requests and sensor value.            *)
(***************************************************************************)
EXTENDS Registers, TLAPS

\* The values of an int16_t.
Half == {x \in Int : -32768 <= x /\ x <= 32767}

-----------------------------------------------------------------------------
(* The arithmetic of tmp117_get_temp.                                       *)

\* What a register holds.
LEMMA WordIs == \A x : x \in Word <=> x \in Int /\ 0 <= x /\ x <= 65535
  <1> DEFINE hi == 65535
  <1>1. Word = 0 .. hi /\ hi \in Int
    BY DEF Word
  <1> HIDE DEF hi
  <1>2. \A x : x \in Word <=> x \in Int /\ 0 <= x /\ x <= hi
    BY <1>1
  <1> QED BY <1>2 DEF hi

\* The conversion to int16_t ends up in its range and undoes the conversion to a register.
LEMMA Int16Range == \A x \in Int : Int16(x) \in Half
  BY SMT DEF Int16, Half

LEMMA UInt16Word == \A x \in Int : UInt16(x) \in Word
  BY WordIs, SMT DEF UInt16

LEMMA Int16OfUInt16 == \A x \in Half : Int16(UInt16(x)) = x
  BY SMTT(30) DEF Int16, UInt16, Half

\* A product of small factors is small.
LEMMA SmallProduct ==
    ASSUME NEW e \in 0 .. 31, NEW k \in Half
    PROVE  -1015808 <= e * k /\ e * k <= 1015777
  <1>1. CASE k >= 0
    <2>1. e * k >= 0 /\ e * k <= 31 * k
      BY <1>1, SMT DEF Half
    <2> QED  BY <2>1, SMT DEF Half
  <1>2. CASE k < 0
    <2>1. e * k <= 0 /\ e * k >= 31 * k
      BY <1>2, SMT DEF Half
    <2> QED  BY <2>1, SMT DEF Half
  <1> QED  BY <1>1, <1>2, SMT DEF Half

\* Within the range of the sensor the product of tmp117_get_temp does not overflow.
LEMMA NoOverflow ==
    ASSUME NEW temp \in Word, InSensorRange(temp), NEW k \in Half
    PROVE  ProductFits(Hundredths(temp), k)
  <1> DEFINE m == 100000 + k
             q == INT32_MAX \div m
             t == Hundredths(temp)
  <1>1. t \in Int /\ -15000 <= t /\ t <= 15000
    <2>1. Int16(temp) \in Int
      BY Int16Range, WordIs, SMT DEF Half
    <2> QED  BY <2>1, SMT DEF Hundredths, InSensorRange
  <1>2. m \in Int /\ 67232 <= m /\ m <= 132767
    BY SMT DEF Half
  <1> HIDE DEF m, t
  <1>3. q \in Int /\ m * (q + 1) > INT32_MAX
    <2>1. q \in Int /\ INT32_MAX < m * q + m
      BY <1>2, SMT DEF INT32_MAX
    <2> HIDE DEF q
    <2> QED  BY <2>1, <1>2, SMT
  <1> HIDE DEF q
  <1>4. q >= 15000
    <2> SUFFICES ASSUME q + 1 <= 15000 PROVE FALSE
      BY <1>3, SMT
    <2>1. m * (q + 1) <= m * 15000
      BY <1>2, <1>3, SMT
    <2> QED  BY <2>1, <1>2, <1>3, SMT DEF INT32_MAX
  <1>5. Magnitude(t) <= q
    BY <1>1, <1>3, <1>4, SMT DEF Magnitude
  <1> QED  BY <1>5, SMT DEF ProductFits, q, m, t

\* The result of tmp117_get_temp is within 2 hundredths of the reference.
LEMMA WithinTwo ==
    ASSUME NEW temp \in Word, NEW k \in Half, NEW b \in Half
    PROVE  /\ Scaled(Hundredths(temp), k, b) \in Int
           /\ Reference(temp, k, b) \in Int
           /\ Magnitude(Scaled(Hundredths(temp), k, b) - Reference(temp, k, b)) <= 2
  <1> DEFINE r == Int16(temp)
             t == Hundredths(temp)
             e == 25 * r - 32 * t
             P == t * k
             R == r * k
             d == R \div 128000
  <1>1. r \in Int
    BY Int16Range, WordIs, SMT DEF Half
  <1>2. t \in Int /\ e \in 0 .. 31 /\ t = (25 * r) \div 32
    <2> HIDE DEF r
    <2>1. t = (r * 100) \div 128
      BY SMT DEF Hundredths, r
    <2> HIDE DEF t
    <2> QED  BY <1>1, <2>1, SMT
  <1>3. P \in Int /\ R \in Int /\ e * k = 25 * R - 32 * P
    <2> HIDE DEF r, t
    <2> QED  BY <1>1, <1>2, SMT DEF Half
  <1>4. -1015808 <= e * k /\ e * k <= 1015777
    <2> HIDE DEF e
    <2> QED  BY <1>2, SmallProduct, SMT
  <1>5. d \in Int /\ 128000 * d <= R /\ R < 128000 * d + 128000
    <2> HIDE DEF R
    <2> QED  BY <1>3, SMT
  <1>6. t * (100000 + k) = 100000 * t + P
    <2> HIDE DEF t
    <2> QED  BY <1>2, SMT DEF Half
  <1>7. Scaled(t, k, b) = Quotient(100000 * t + P, 100000) + b
    BY <1>6, SMT DEF Scaled
  <1>8. Reference(temp, k, b) = t + d + b
    BY <1>2, SMT DEF Reference
  <1> HIDE DEF r, t, e, P, R, d
  <1>9. -1015808 <= 25 * R - 32 * P /\ 25 * R - 32 * P <= 1015777
    BY <1>3, <1>4, SMT
  <1>10. /\ Quotient(100000 * t + P, 100000) \in Int
         /\ -2 <= Quotient(100000 * t + P, 100000) - t - d
         /\ Quotient(100000 * t + P, 100000) - t - d <= 2
    BY <1>2, <1>3, <1>5, <1>9, SMT DEF Quotient
  <1>11. Scaled(t, k, b) \in Int /\ Reference(temp, k, b) \in Int
    BY <1>7, <1>8, <1>10, <1>2, <1>5, SMT DEF Half
  <1>12. /\ -2 <= Scaled(t, k, b) - Reference(temp, k, b)
         /\ Scaled(t, k, b) - Reference(temp, k, b) <= 2
    BY <1>7, <1>8, <1>10, <1>2, <1>5, SMT DEF Half
  <1> QED  BY <1>11, <1>12, SMT DEF Magnitude, t

-----------------------------------------------------------------------------
(* What the register functions do to registers and flash.                   *)

Calibrations == [K : Word, B : Word]

TypeInv ==
    /\ pc \in {"start", "poll", "update"}
    /\ regs \in [0 .. NREGS - 1 -> Word]
    /\ flash \in Calibrations
    /\ pdu \in Requests \cup {NoPDU}
    /\ sample \in Raws \cup {NoSample}
    /\ known \in [K : Int, B : Int]
    /\ durable \in [K : Int, B : Int]

LEMMA WordInt == \A a \in Word : a \in Int /\ 0 <= a /\ a <= 65535
  BY WordIs, SMT

LEMMA Offset == \A a \in Int : \A n \in Nat : \A i \in a .. a + n - 1 : i - a + 1 \in 1 .. n
  BY SMT

\* The address arithmetic of 16 bits does not change the range check.
LEMMA RangeCheck ==
    ASSUME NEW a \in Word, NEW n \in Int
    PROVE  InRange(a, n) <=> a + n <= NREGS
  <1>1. ((((a + 1) % 65536) - 1) % 65536) = a
    <2>1. a \in Int /\ 0 <= a /\ a <= 65535
      BY WordIs, SMT
    <2>2. CASE a = 65535
      <3> DEFINE x == ((a + 1) % 65536) - 1
      <3>1. x \in Int /\ x + 1 = 0
        BY <2>2, SMT
      <3> HIDE DEF x
      <3>2. x % 65536 = 65535
        BY <3>1, SMT
      <3> QED  BY <2>2, <3>2, SMT DEF x
    <2>3. CASE a < 65535
      <3>1. (a + 1) % 65536 = a + 1 /\ a % 65536 = a
        BY <2>1, <2>3, SMT
      <3> QED  BY <2>1, <3>1, SMT
    <2> QED  BY <2>1, <2>2, <2>3, SMT
  <1> QED  BY <1>1, SMT DEF InRange

\* Ranges that pass the check are those that exist.
LEMMA RangeExists ==
    \A a \in Word : \A n \in Nat : n >= 1 => (InRange(a, n) <=> Existing(a, n))
  <1> SUFFICES ASSUME NEW a \in Word, NEW n \in Nat, n >= 1
               PROVE  InRange(a, n) <=> Existing(a, n)
    OBVIOUS
  <1>1. InRange(a, n) <=> a + n <= NREGS
    BY RangeCheck, SMT
  <1>2. NREGS \in Nat /\ a \in Int
    BY RegistersAssumption, WordInt
  <1>3. Existing(a, n) <=> a + n <= NREGS
    BY <1>2, SMT DEF Existing
  <1> QED  BY <1>1, <1>3

LEMMA ExistsFits == \A a \in Word : \A n \in Nat : Existing(a, n) => n >= 1 /\ a + n <= NREGS
  <1>1. NREGS \in Nat /\ \A a \in Word : a \in Int
    BY RegistersAssumption, WordInt
  <1> QED  BY <1>1, SMT DEF Existing

\* The registers after a write of n words.
LEMMA WriteEffect ==
    ASSUME TypeInv, NEW a \in Word, NEW n \in Nat, a + n <= NREGS, NEW v \in [1 .. n -> Word]
    PROVE  LET r == Write(a, n, v)
           IN  /\ r \in [0 .. NREGS - 1 -> Word]
               /\ \A i \in 0 .. NREGS - 1 :
                    r[i] = IF i \in a .. a + n - 1 THEN v[i - a + 1] ELSE regs[i]
               /\ Stored(a, n, r) \in Calibrations
  <1>1. DOMAIN regs = 0 .. NREGS - 1 /\ \A i \in 0 .. NREGS - 1 : regs[i] \in Word
    BY SMT DEF TypeInv
  <1>2. NREGS \in Nat /\ NREGS >= 9
    BY RegistersAssumption, SMT DEF MAX_IND
  <1>3. \A i \in 0 .. NREGS - 1 : i \in a .. a + n - 1 => v[i - a + 1] \in Word
    <2> SUFFICES ASSUME NEW i \in a .. a + n - 1 PROVE v[i - a + 1] \in Word
      OBVIOUS
    <2>1. a \in Int
      BY WordInt
    <2>2. i - a + 1 \in 1 .. n
      BY <2>1, Offset, Zenon
    <2> QED  BY <2>2
  <1>4. Write(a, n, v) \in [0 .. NREGS - 1 -> Word]
    BY <1>1, <1>3, SMT DEF Write
  <1>5. \A i \in 0 .. NREGS - 1 :
          Write(a, n, v)[i] = IF i \in a .. a + n - 1 THEN v[i - a + 1] ELSE regs[i]
    BY <1>1, SMT DEF Write
  <1>6. Stored(a, n, Write(a, n, v)) \in Calibrations
    <2>1. Write(a, n, v)[4] \in Word /\ Write(a, n, v)[5] \in Word
      BY <1>2, <1>4, SMT
    <2>2. flash \in Calibrations
      BY SMT DEF TypeInv
    <2> QED  BY <2>1, <2>2, SMT DEF Stored, Calibrations, CALC_K_IND, CALC_B_IND
  <1> QED  BY <1>4, <1>5, <1>6

\* What an outcome o of request q has to be.
Kept(o) == o.regs = regs /\ o.flash = flash

Typed(o) == o.regs \in [0 .. NREGS - 1 -> Word] /\ o.flash \in Calibrations

Carried(q, o) ==
    /\ o.eStatus = "NONE"
    /\ \A i \in 0 .. NREGS - 1 :
         o.regs[i] = IF i \in Targets(q) THEN q.vals[i - q.waddr + 1] ELSE regs[i]
    /\ o.flash = IF CALC_B_IND \in Targets(q)
                 THEN [K |-> o.regs[CALC_K_IND], B |-> o.regs[CALC_B_IND]] ELSE flash
    /\ Reads(q) => o.data = [j \in 1 .. q.count |-> o.regs[q.addr + j - 1]]

Declined(q, o) ==
    /\ o.eStatus # "NONE"
    /\ Kept(o) \/ (q.fn = 23 /\ Existing(q.waddr, Len(q.vals)) /\ ~Existing(q.addr, q.count))

Right(q, o) ==
    /\ Typed(o)
    /\ Acceptable(q) => Carried(q, o)
    /\ ~Acceptable(q) /\ (Complete(q) \/ q.fn # 23) => Declined(q, o)

LEMMA Fields ==
    ASSUME NEW q \in Requests
    PROVE  /\ q.fn \in Nat /\ q.len \in Nat /\ q.addr \in Word /\ q.count \in Word
           /\ q.waddr \in Word /\ q.wcount \in Word /\ q.bytes \in Nat /\ q.vals \in Seq(Word)
           /\ q.addr \in Nat /\ q.count \in Nat /\ q.waddr \in Nat /\ q.wcount \in Nat
           /\ q.fn = 6 => Len(q.vals) = 1
           /\ q.fn = 23 /\ q.len >= 10 => Len(q.vals) = (q.len - 10) \div 2
           /\ NREGS \in Nat
  <1>1. q \in PDU
    BY RegistersAssumption
  <1>2. /\ q.fn \in Nat /\ q.len \in Nat /\ q.addr \in Word /\ q.count \in Word
        /\ q.waddr \in Word /\ q.wcount \in Word /\ q.bytes \in Nat /\ q.vals \in Seq(Word)
    BY <1>1, SMT DEF PDU
  <1>3. \A a \in Word : a \in Nat
    BY WordIs, SMT
  <1> QED  BY <1>2, <1>3, RegistersAssumption

LEMMA SequenceFunction ==
    ASSUME NEW v \in Seq(Word) PROVE v \in [1 .. Len(v) -> Word]
  BY SMT

\* A refusal keeps everything.
LEMMA Refusals ==
    TypeInv => \A e : Kept(Refuse(e)) /\ Typed(Refuse(e)) /\ Refuse(e).eStatus = e
  BY SMT DEF TypeInv, Kept, Typed, Refuse, Outcome

\* Each function does what the reference says.
LEMMA WriteRight ==
    ASSUME TypeInv, NEW q \in Requests, q.fn = 6, NEW o \in eMBFuncWriteHoldingRegister(q)
    PROVE  Right(q, o)
  <1>1. q.waddr \in Word /\ q.vals \in Seq(Word) /\ Len(q.vals) = 1
    BY Fields
  <1>2. q.fn \in {3, 6, 23} /\ Writes(q) /\ ~Reads(q)
    BY SMT DEF Writes, Reads
  <1>3. Complete(q) <=> ExactLength(q.len)
    BY SMT DEF Complete, ExactLength
  <1>4. 1 \in Nat /\ 1 >= 1 /\ 1 <= 121
    BY SMT
  <1>5. InRange(q.waddr, 1) <=> Existing(q.waddr, Len(q.vals))
    BY <1>1, <1>4, RangeExists, Zenon
  <1>6. Acceptable(q) <=> ExactLength(q.len) /\ InRange(q.waddr, 1)
    BY <1>1, <1>2, <1>3, <1>4, <1>5, Zenon DEF Acceptable
  <1>7. CASE ~Acceptable(q)
    <2>1. o = Refuse("ILLEGAL_DATA_VALUE") \/ o = Refuse("ILLEGAL_DATA_ADDRESS")
      BY <1>6, <1>7, Zenon DEF eMBFuncWriteHoldingRegister
    <2> QED  BY <1>7, <2>1, Refusals, ZenonT(40) DEF Right, Declined
  <1>8. CASE Acceptable(q)
    <2> DEFINE r == Write(q.waddr, 1, q.vals)
    <2>1. o = Outcome("NONE", r, Stored(q.waddr, 1, r), q.vals)
      BY <1>6, <1>8, Zenon DEF eMBFuncWriteHoldingRegister
    <2>2. q.vals \in [1 .. 1 -> Word]
      BY <1>1, SequenceFunction
    <2>3. q.waddr + 1 <= NREGS
      BY <1>1, <1>4, <1>5, <1>6, <1>8, ExistsFits, Zenon
    <2>4. /\ r \in [0 .. NREGS - 1 -> Word]
          /\ \A i \in 0 .. NREGS - 1 :
               r[i] = IF i \in q.waddr .. q.waddr + 1 - 1 THEN q.vals[i - q.waddr + 1] ELSE regs[i]
          /\ Stored(q.waddr, 1, r) \in Calibrations
      BY <1>1, <1>4, <2>2, <2>3, WriteEffect
    <2>5. Targets(q) = q.waddr .. q.waddr + 1 - 1
      BY <1>1, <1>2, Zenon DEF Targets
    <2> HIDE DEF r
    <2>6. Carried(q, o)
      BY <1>2, <2>1, <2>4, <2>5, Zenon DEF Carried, Outcome, Stored
    <2>7. Typed(o)
      BY <2>1, <2>4, Zenon DEF Typed, Outcome
    <2> QED  BY <1>8, <2>6, <2>7, Zenon DEF Right
  <1> QED  BY <1>7, <1>8

LEMMA ReadRight ==
    ASSUME TypeInv, NEW q \in Requests, q.fn = 3, NEW o \in eMBFuncReadHoldingRegister(q)
    PROVE  Right(q, o)
  <1>1. q.addr \in Word /\ q.count \in Nat
    BY Fields
  <1>2. q.fn \in {3, 6, 23} /\ ~Writes(q) /\ Reads(q) /\ q.fn # 23
    BY SMT DEF Writes, Reads
  <1>3. Complete(q) <=> ExactLength(q.len)
    BY SMT DEF Complete, ExactLength
  <1>4. q.count \in 1 .. 125 <=> q.count >= 1 /\ q.count <= 125
    BY <1>1, SMT
  <1>5. Acceptable(q) <=> ExactLength(q.len) /\ q.count \in 1 .. 125 /\ InRange(q.addr, q.count)
    BY <1>1, <1>2, <1>3, <1>4, RangeExists, ExistsFits, Zenon DEF Acceptable
  <1>6. CASE ~Acceptable(q)
    <2>1. o = Refuse("ILLEGAL_DATA_VALUE") \/ o = Refuse("ILLEGAL_DATA_ADDRESS")
      BY <1>5, <1>6, Zenon DEF eMBFuncReadHoldingRegister
    <2> QED  BY <1>6, <2>1, Refusals, ZenonT(40) DEF Right, Declined
  <1>7. CASE Acceptable(q)
    <2>1. o = Outcome("NONE", regs, flash, Read(regs, q.addr, q.count))
      BY <1>5, <1>7, Zenon DEF eMBFuncReadHoldingRegister
    <2>2. Targets(q) = {}
      BY <1>2, Zenon DEF Targets
    <2>3. Carried(q, o)
      BY <2>1, <2>2, Zenon DEF Carried, Outcome, Read
    <2>4. Typed(o)
      BY <2>1, Zenon DEF Typed, Outcome, TypeInv
    <2> QED  BY <1>7, <2>3, <2>4, Zenon DEF Right
  <1> QED  BY <1>6, <1>7

\* The words of a complete read/write frame are all in it.
LEMMA CompleteFrame ==
    \A len, bytes, w \in Nat : len = 10 + bytes /\ bytes = 2 * w =>
        len >= 10 /\ (len - 10) \div 2 = w /\ \A j \in 1 .. w : 10 + 2 * j <= len
  BY SMT

LEMMA ReadWriteRight ==
    ASSUME TypeInv, NEW q \in Requests, q.fn = 23, NEW o \in eMBFuncReadWriteMultipleHoldingRegister(q)
    PROVE  Right(q, o)
  <1> DEFINE Counted == q.count \in 1 .. 125 /\ q.wcount \in 1 .. 121 /\ 2 * q.wcount = q.bytes
  <1> HIDE DEF Counted
  <1>1. /\ q.addr \in Word /\ q.count \in Nat /\ q.waddr \in Word /\ q.wcount \in Nat
        /\ q.len \in Nat /\ q.bytes \in Nat /\ q.vals \in Seq(Word)
    BY Fields
  <1>2. q.fn \in {3, 6, 23} /\ Writes(q) /\ Reads(q)
    BY SMT DEF Writes, Reads
  <1>3. Complete(q) <=> q.len = 10 + q.bytes /\ q.bytes = 2 * q.wcount
    BY SMT DEF Complete
  <1>4. Complete(q) => /\ q.len >= 10 /\ Len(q.vals) = q.wcount /\ 2 * q.wcount = q.bytes
                       /\ \A j \in 1 .. q.wcount : 10 + 2 * j <= q.len
    <2>1. q.len >= 10 => Len(q.vals) = (q.len - 10) \div 2
      BY Fields
    <2> SUFFICES ASSUME Complete(q)
                 PROVE  /\ q.len >= 10 /\ (q.len - 10) \div 2 = q.wcount /\ 2 * q.wcount = q.bytes
                        /\ \A j \in 1 .. q.wcount : 10 + 2 * j <= q.len
      BY <2>1, Zenon
    <2>2. q.len = 10 + q.bytes /\ q.bytes = 2 * q.wcount
      BY <1>3, Zenon
    <2> QED  BY <1>1, <2>2, CompleteFrame, Zenon
  <1>5. /\ q.count \in 1 .. 125 <=> q.count >= 1 /\ q.count <= 125
        /\ q.wcount \in 1 .. 121 <=> q.wcount >= 1 /\ q.wcount <= 121
    <2>1. q.count \in Nat /\ q.wcount \in Nat
      BY Fields
    <2> QED  BY <2>1, SMT
  <1>6. Acceptable(q) =>
          /\ Complete(q) /\ Counted
          /\ InRange(q.waddr, q.wcount) /\ InRange(q.addr, q.count)
    <2> SUFFICES ASSUME Acceptable(q)
                 PROVE  /\ Complete(q) /\ Counted
                        /\ InRange(q.waddr, q.wcount) /\ InRange(q.addr, q.count)
      OBVIOUS
    <2>1. Complete(q) /\ Existing(q.waddr, Len(q.vals)) /\ Len(q.vals) <= 121
      BY <1>2, Zenon DEF Acceptable
    <2>2. Existing(q.addr, q.count) /\ q.count <= 125
      BY <1>2, Zenon DEF Acceptable
    <2>3. Len(q.vals) = q.wcount /\ 2 * q.wcount = q.bytes
      BY <1>4, <2>1, Zenon
    <2>4. Existing(q.waddr, q.wcount) /\ q.wcount <= 121
      BY <2>1, <2>3, Zenon
    <2>5. q.count >= 1 /\ q.wcount >= 1
      BY <1>1, <2>2, <2>4, ExistsFits, ZenonT(40)
    <2>6. Counted
      BY <1>5, <2>2, <2>3, <2>4, <2>5, Zenon DEF Counted
    <2>7. InRange(q.waddr, q.wcount) /\ InRange(q.addr, q.count)
      BY <1>1, <2>2, <2>4, <2>5, RangeExists, Zenon
    <2> QED  BY <2>1, <2>6, <2>7, Zenon
  <1>7. Complete(q) /\ Counted /\ InRange(q.waddr, q.wcount) /\ InRange(q.addr, q.count) => Acceptable(q)
    BY <1>1, <1>2, <1>4, <1>5, RangeExists, Zenon DEF Acceptable, Counted
  <1>8. CASE q.len < 10
    <2>1. o = Refuse("NONE")
      BY <1>8, Zenon DEF eMBFuncReadWriteMultipleHoldingRegister
    <2>2. ~Complete(q)
      BY <1>1, <1>4, <1>8, SMT
    <2> QED  BY <1>6, <2>1, <2>2, Refusals, Zenon DEF Right
  <1>9. CASE ~(q.len < 10) /\ ~(Counted /\ InRange(q.waddr, q.wcount))
    <2>1. o = Refuse("ILLEGAL_DATA_VALUE") \/ o = Refuse("ILLEGAL_DATA_ADDRESS")
      BY <1>9, Zenon DEF eMBFuncReadWriteMultipleHoldingRegister, Counted
    <2>2. ~Acceptable(q)
      BY <1>6, <1>9, Zenon
    <2>3. Kept(o) /\ Typed(o) /\ o.eStatus # "NONE"
      <3>1. PICK e \in {"ILLEGAL_DATA_VALUE", "ILLEGAL_DATA_ADDRESS"} : o = Refuse(e)
        BY <2>1, Zenon
      <3>2. e # "NONE"
        BY SMT
      <3> QED  BY <3>1, <3>2, Refusals, Zenon
    <2> QED  BY <2>2, <2>3, Zenon DEF Right, Declined
  <1>10. CASE ~(q.len < 10) /\ Counted /\ InRange(q.waddr, q.wcount)
    <2>1. PICK v \in Words(q) :
            LET r == Write(q.waddr, q.wcount, v)
                f == Stored(q.waddr, q.wcount, r)
            IN  o = IF InRange(q.addr, q.count)
                    THEN Outcome("NONE", r, f, Read(NewRegisters(r), q.addr, q.count))
                    ELSE Outcome("ILLEGAL_DATA_ADDRESS", r, f, <<>>)
      BY <1>10, Zenon DEF eMBFuncReadWriteMultipleHoldingRegister, Counted
    <2> DEFINE r == Write(q.waddr, q.wcount, v)
               f == Stored(q.waddr, q.wcount, r)
    <2>2. v \in [1 .. q.wcount -> Word]
      <3>1. \A j \in DOMAIN q.vals : q.vals[j] \in Word
        BY <1>1, SMT
      <3>2. Any \cup {q.vals[j] : j \in DOMAIN q.vals} \subseteq Word
        BY <3>1, RegistersAssumption, Zenon
      <3>3. v \in [1 .. q.wcount -> Any \cup {q.vals[j] : j \in DOMAIN q.vals}]
        BY Zenon DEF Words
      <3> QED  BY <3>2, <3>3, Zenon
    <2>3. Existing(q.waddr, q.wcount) /\ q.waddr + q.wcount <= NREGS
      BY <1>1, <1>5, <1>10, RangeExists, ExistsFits, Zenon DEF Counted
    <2>4. /\ r \in [0 .. NREGS - 1 -> Word]
          /\ \A i \in 0 .. NREGS - 1 :
               r[i] = IF i \in q.waddr .. q.waddr + q.wcount - 1 THEN v[i - q.waddr + 1] ELSE regs[i]
          /\ f \in Calibrations
      BY <1>1, <2>2, <2>3, WriteEffect
    <2>5. CASE InRange(q.addr, q.count)
      <3>1. o = Outcome("NONE", r, f, Read(r, q.addr, q.count))
        BY <2>1, <2>5, Zenon DEF NewRegisters
      <3>2. Typed(o)
        BY <2>4, <3>1, Zenon DEF Typed, Outcome
      <3>3. Acceptable(q) => Carried(q, o)
        <4> SUFFICES ASSUME Acceptable(q) PROVE Carried(q, o)
          OBVIOUS
        <4>1. Targets(q) = q.waddr .. q.waddr + q.wcount - 1
          BY <1>2, <1>4, <1>6, Zenon DEF Targets
        <4>2. \A j \in 1 .. q.wcount : v[j] = q.vals[j]
          BY <1>4, <1>6, Zenon DEF Words
        <4>3. \A i \in q.waddr .. q.waddr + q.wcount - 1 : i - q.waddr + 1 \in 1 .. q.wcount
          BY <1>1, WordInt, Offset, SMTT(30)
        <4> HIDE DEF r
        <4> QED  BY <2>4, <3>1, <4>1, <4>2, <4>3, Zenon DEF Carried, Outcome, Stored, Read
      <3> QED  BY <1>7, <1>10, <2>5, <3>2, <3>3, Zenon DEF Right
    <2>6. CASE ~InRange(q.addr, q.count)
      <3>1. o = Outcome("ILLEGAL_DATA_ADDRESS", r, f, <<>>)
        BY <2>1, <2>6, Zenon
      <3>2. Typed(o)
        BY <2>4, <3>1, Zenon DEF Typed, Outcome
      <3>3. o.eStatus # "NONE"
        BY <3>1, SMT DEF Outcome
      <3>4. Complete(q) => Existing(q.waddr, Len(q.vals)) /\ ~Existing(q.addr, q.count)
        BY <1>1, <1>4, <1>5, <1>10, <2>3, <2>6, RangeExists, Zenon DEF Counted
      <3> QED  BY <1>6, <2>6, <3>2, <3>3, <3>4, Zenon DEF Right, Declined
    <2> QED  BY <2>5, <2>6
  <1> QED  BY <1>8, <1>9, <1>10

LEMMA OutcomesRight ==
    ASSUME TypeInv, NEW q \in Requests, NEW o \in Outcomes(q)
    PROVE  Right(q, o)
  <1>1. CASE q.fn = 3
    <2>1. o \in eMBFuncReadHoldingRegister(q)
      BY <1>1, SMT DEF Outcomes
    <2> QED  BY <1>1, <2>1, ReadRight
  <1>2. CASE q.fn = 6
    <2>1. o \in eMBFuncWriteHoldingRegister(q)
      BY <1>2, SMT DEF Outcomes
    <2> QED  BY <1>2, <2>1, WriteRight
  <1>3. CASE q.fn = 23
    <2>1. o \in eMBFuncReadWriteMultipleHoldingRegister(q)
      BY <1>3, SMT DEF Outcomes
    <2> QED  BY <1>3, <2>1, ReadWriteRight
  <1>4. CASE q.fn \notin {3, 6, 23}
    <2>1. o = Refuse("ILLEGAL_FUNCTION")
      BY <1>4, SMT DEF Outcomes
    <2>2. ~Acceptable(q)
      BY <1>4, Zenon DEF Acceptable
    <2> QED  BY <2>1, <2>2, Refusals, Zenon DEF Right, Declined
  <1> QED  BY <1>1, <1>2, <1>3, <1>4

-----------------------------------------------------------------------------
(* The invariant.                                                           *)

\* The temperature register was made of the sample and of the calibration in the registers.
TemperatureInv ==
    /\ pc = "start" => sample = NoSample
    /\ pc = "poll" /\ sample # NoSample =>
         regs[TMP117_TEMP_IND]
           \in tmp117_get_temp(sample, Int16(regs[CALC_K_IND]), Int16(regs[CALC_B_IND]))

\* What the master expects to survive is in flash; before mbs_sts_init it expects no more.
FlashInv ==
    /\ pc = "start" => known = durable
    /\ durable.K # Unknown => flash.K = durable.K
    /\ durable.B # Unknown => flash.B = durable.B

RegistersInv == TypeInv /\ TemperatureInv /\ FlashInv /\ MasterView

LEMMA InitInv == Init => RegistersInv
  <1> SUFFICES ASSUME Init PROVE RegistersInv
    OBVIOUS
  <1>1. TypeInv
    <2>1. 0 \in Word /\ -1 \in Int
      BY WordIs, SMT
    <2>2. regs \in [0 .. NREGS - 1 -> Word]
      BY <2>1, Zenon DEF Init, Zeroed
    <2>3. flash \in Calibrations
      BY <2>1, SMT DEF Init, Calibrations
    <2>4. known \in [K : Int, B : Int] /\ durable \in [K : Int, B : Int]
      BY <2>1, SMT DEF Init, Unknown
    <2> QED  BY <2>2, <2>3, <2>4, Zenon DEF Init, TypeInv
  <1>2. TemperatureInv /\ FlashInv /\ MasterView
    BY SMT DEF Init, TemperatureInv, FlashInv, MasterView, Unknown
  <1> QED  BY <1>1, <1>2 DEF RegistersInv

LEMMA StartInv == RegistersInv /\ mbs_sts_init => RegistersInv'
  <1> SUFFICES ASSUME RegistersInv, mbs_sts_init PROVE RegistersInv'
    OBVIOUS
  <1>0. NREGS \in Nat /\ NREGS >= 9 /\ Address \in Word
    BY RegistersAssumption DEF MAX_IND
  <1>1. flash.K \in Word /\ flash.B \in Word
    BY SMT DEF RegistersInv, TypeInv, Calibrations
  <1>2. /\ regs' \in [0 .. NREGS - 1 -> Word]
        /\ regs'[CALC_K_IND] = flash.K /\ regs'[CALC_B_IND] = flash.B
    <2>1. 9 \in Word /\ 261 \in Word
      BY WordIs, SMT
    <2>2. regs \in [0 .. NREGS - 1 -> Word]
      BY DEF RegistersInv, TypeInv
    <2>3. regs' = [regs EXCEPT ![0] = 9, ![3] = 261, ![1] = Address, ![4] = flash.K, ![5] = flash.B]
      BY SMT DEF mbs_sts_init, rd_calc_data, MBS_REG_CNT, SOFT_VER_IND, MBS_ADDR_IND, CALC_K_IND, CALC_B_IND, SOFT_VER, MAX_IND
    <2> QED  BY <1>0, <1>1, <2>1, <2>2, <2>3, SMT DEF CALC_K_IND, CALC_B_IND
  <1>3. TypeInv'
    BY <1>2, Zenon DEF RegistersInv, TypeInv, mbs_sts_init
  <1>4. TemperatureInv'
    BY SMT DEF RegistersInv, TemperatureInv, mbs_sts_init
  <1>5. FlashInv' /\ MasterView'
    BY <1>2, SMT DEF RegistersInv, FlashInv, MasterView, mbs_sts_init
  <1> QED  BY <1>3, <1>4, <1>5 DEF RegistersInv

\* What tmp117_get_temp returns is a word.
LEMMA TemperatureWord ==
    ASSUME NEW temp \in Word, NEW k \in Half, NEW b \in Half, NEW t \in tmp117_get_temp(temp, k, b)
    PROVE  t \in Word
  <1>1. CASE ProductFits(Hundredths(temp), k)
    <2>1. Scaled(Hundredths(temp), k, b) \in Int
      BY WithinTwo
    <2>2. t = UInt16(Scaled(Hundredths(temp), k, b))
      BY <1>1, Zenon DEF tmp117_get_temp
    <2> QED  BY <2>1, <2>2, UInt16Word, Zenon
  <1>2. CASE ~ProductFits(Hundredths(temp), k)
    BY <1>2, RegistersAssumption, Zenon DEF tmp117_get_temp
  <1> QED  BY <1>1, <1>2

LEMMA UpdateInv == RegistersInv /\ mbs_sts_update => RegistersInv'
  <1> SUFFICES ASSUME RegistersInv, mbs_sts_update PROVE RegistersInv'
    OBVIOUS
  <1> DEFINE k == Int16(regs[CALC_K_IND])
             b == Int16(regs[CALC_B_IND])
  <1>0. NREGS \in Nat /\ NREGS >= 9 /\ Raws \subseteq Word /\ Any \subseteq Word /\ Readings \subseteq Word
    BY RegistersAssumption DEF MAX_IND
  <1>1. regs \in [0 .. NREGS - 1 -> Word]
    BY DEF RegistersInv, TypeInv
  <1>2. regs[4] \in Int /\ regs[5] \in Int
    <2>1. regs[4] \in Word /\ regs[5] \in Word
      BY <1>0, <1>1, SMT
    <2> QED  BY <2>1, WordInt
  <1>3. k \in Half /\ b \in Half
    BY <1>2, Int16Range DEF CALC_K_IND, CALC_B_IND
  <1> DEFINE Made(t, s, l, p, temp) ==
        regs' = Updated(t, s, l, p) /\ (sample' = NoSample \/ (temp \in Raws /\ sample' = temp))
  <1>a. PICK s \in Readings, l \in Readings, p \in Readings, temp \in Raws \cup Any :
          \E t \in tmp117_get_temp(temp, k, b) : Made(t, s, l, p, temp)
    BY Zenon DEF mbs_sts_update, Calibration
  <1>4. PICK t \in tmp117_get_temp(temp, k, b) : Made(t, s, l, p, temp)
    BY <1>a
  <1> HIDE DEF k, b
  <1>5. t \in Word /\ s \in Word /\ l \in Word /\ p \in Word
    BY <1>0, <1>3, <1>4, TemperatureWord
  <1>6. /\ regs' \in [0 .. NREGS - 1 -> Word]
        /\ regs'[4] = regs[4] /\ regs'[5] = regs[5] /\ regs'[6] = t
    <2>1. regs' = [regs EXCEPT ![2] = s, ![7] = l, ![8] = p, ![6] = t]
      BY <1>4 DEF Updated, MBS_STATUS_IND, MS5837_LTEMP_IND, MS5837_LPRES_IND, TMP117_TEMP_IND
    <2> QED  BY <1>0, <1>1, <1>5, <2>1, SMT
  <1>7. sample' \in Raws \cup {NoSample}
    BY <1>4, Zenon
  <1>8. TypeInv'
    BY <1>6, <1>7, Zenon DEF RegistersInv, TypeInv, mbs_sts_update
  <1>9. TemperatureInv'
    <2>1. pc' = "poll"
      BY DEF mbs_sts_update
    <2>2. sample' # NoSample => t \in tmp117_get_temp(sample', k, b)
      BY <1>4, Zenon
    <2>3. (sample' # NoSample => regs'[6] \in tmp117_get_temp(sample', Int16(regs'[4]), Int16(regs'[5])))
      BY <1>6, <2>2, Zenon DEF k, b, CALC_K_IND, CALC_B_IND
    <2> QED  BY <2>1, <2>3, SMT DEF TemperatureInv, TMP117_TEMP_IND, CALC_K_IND, CALC_B_IND, tmp117_get_temp
  <1>10. FlashInv' /\ MasterView'
    BY <1>6, SMT DEF RegistersInv, FlashInv, MasterView, mbs_sts_update, CALC_K_IND, CALC_B_IND
  <1> QED  BY <1>8, <1>9, <1>10 DEF RegistersInv

LEMMA ExecuteInv == RegistersInv /\ Execute => RegistersInv'
  <1> SUFFICES ASSUME RegistersInv, Execute PROVE RegistersInv'
    OBVIOUS
  <1>1. pdu \in Requests
    BY Zenon DEF RegistersInv, TypeInv, Execute
  <1>2. PICK o \in Outcomes(pdu) : regs' = o.regs /\ flash' = o.flash
    BY Zenon DEF Execute
  <1>3. Right(pdu, o)
    BY <1>1, OutcomesRight DEF RegistersInv
  <1>4. pc' = "update" /\ pdu' = NoPDU /\ sample' = sample /\ known' = Learns(pdu)
    BY DEF Execute
  <1>5. NREGS \in Nat /\ 4 \in 0 .. NREGS - 1 /\ 5 \in 0 .. NREGS - 1
    BY RegistersAssumption, SMT DEF MAX_IND
  <1>6. durable' = IF MayWrite(pdu) \/ (Acceptable(pdu) /\ CALC_B_IND \in Targets(pdu)) THEN known' ELSE durable
    BY DEF Execute
  <1>7. known \in [K : Int, B : Int] /\ durable \in [K : Int, B : Int]
    BY DEF RegistersInv, TypeInv
  <1>8. /\ known'.K = Learned(pdu, 4, known.K) /\ known'.B = Learned(pdu, 5, known.B)
    BY <1>4 DEF Learns, CALC_K_IND, CALC_B_IND
  <1>9. pc # "start" /\ FlashInv /\ MasterView
    BY DEF RegistersInv, Execute
  <1>10. ASSUME Acceptable(pdu)
         PROVE  known' \in [K : Int, B : Int] /\ MasterView' /\ FlashInv'
    <2>1. ~MayWrite(pdu)
      BY <1>10 DEF MayWrite
    <2>2. Carried(pdu, o)
      BY <1>3, <1>10 DEF Right
    <2>3. /\ known'.K = IF 4 \in Targets(pdu) THEN pdu.vals[4 - pdu.waddr + 1] ELSE known.K
          /\ known'.B = IF 5 \in Targets(pdu) THEN pdu.vals[5 - pdu.waddr + 1] ELSE known.B
      BY <1>8, <1>10, <2>1, Zenon DEF Learned
    <2>4. /\ regs'[4] = IF 4 \in Targets(pdu) THEN pdu.vals[4 - pdu.waddr + 1] ELSE regs[4]
          /\ regs'[5] = IF 5 \in Targets(pdu) THEN pdu.vals[5 - pdu.waddr + 1] ELSE regs[5]
      BY <1>2, <1>5, <2>2, Zenon DEF Carried
    <2>5. MasterView'
      BY <1>9, <2>3, <2>4, SMT DEF MasterView, CALC_K_IND, CALC_B_IND
    <2>6. known' \in [K : Int, B : Int]
      <3>1. known'.K \in Int /\ known'.B \in Int
        <4>1. regs'[4] \in Word /\ regs'[5] \in Word
          BY <1>2, <1>3, <1>5 DEF Right, Typed
        <4>2. regs'[4] \in Int /\ regs'[5] \in Int
          BY <4>1, WordInt
        <4> QED  BY <1>7, <2>3, <2>4, <4>2
      <3> QED  BY <1>4, <3>1 DEF Learns
    <2>7. FlashInv'
      <3>1. CASE 5 \in Targets(pdu)
        <4>1. durable' = known'
          BY <1>6, <1>10, <3>1 DEF CALC_B_IND
        <4>2. flash'.K = regs'[4] /\ flash'.B = regs'[5]
          BY <1>2, <2>2, <3>1 DEF Carried, CALC_K_IND, CALC_B_IND
        <4> QED  BY <1>4, <2>5, <4>1, <4>2, SMT DEF FlashInv, MasterView, CALC_K_IND, CALC_B_IND
      <3>2. CASE 5 \notin Targets(pdu)
        <4>1. durable' = durable
          BY <1>6, <2>1, <3>2 DEF CALC_B_IND
        <4>2. flash' = flash
          BY <1>2, <2>2, <3>2 DEF Carried, CALC_B_IND
        <4> QED  BY <1>4, <1>9, <4>1, <4>2, SMT DEF FlashInv
      <3> QED  BY <3>1, <3>2
    <2> QED  BY <2>5, <2>6, <2>7
  <1>11. ASSUME ~Acceptable(pdu) /\ pdu.fn = 23
         PROVE  known' \in [K : Int, B : Int] /\ MasterView' /\ FlashInv'
    <2>1. MayWrite(pdu)
      BY <1>11 DEF MayWrite
    <2>2. known'.K = Unknown /\ known'.B = Unknown /\ known' = [K |-> Unknown, B |-> Unknown] /\ durable' = known'
      BY <1>4, <1>6, <1>8, <2>1, Zenon DEF Learned, Learns
    <2>3. known' \in [K : Int, B : Int]
      BY <2>2, SMT DEF Unknown
    <2>4. MasterView' /\ FlashInv'
      BY <1>4, <2>2, SMT DEF MasterView, FlashInv
    <2> QED  BY <2>3, <2>4
  <1>12. ASSUME ~Acceptable(pdu) /\ pdu.fn # 23
         PROVE  known' \in [K : Int, B : Int] /\ MasterView' /\ FlashInv'
    <2>1. ~MayWrite(pdu)
      BY <1>12 DEF MayWrite
    <2>2. Kept(o)
      BY <1>3, <1>12, Zenon DEF Right, Declined
    <2>3. regs' = regs /\ flash' = flash
      BY <1>2, <2>2 DEF Kept
    <2>4. known'.K = known.K /\ known'.B = known.B
      BY <1>8, <1>12, <2>1 DEF Learned
    <2>5. known' \in [K : Int, B : Int]
      <3>1. known.K \in Int /\ known.B \in Int
        BY <1>7
      <3> QED  BY <1>4, <2>4, <3>1 DEF Learns
    <2>6. durable' = durable
      BY <1>6, <1>12, <2>1
    <2>7. MasterView' /\ FlashInv'
      BY <1>4, <1>9, <2>3, <2>4, <2>6, SMT DEF MasterView, FlashInv
    <2> QED  BY <2>5, <2>7
  <1>13. known' \in [K : Int, B : Int] /\ MasterView' /\ FlashInv'
    BY <1>10, <1>11, <1>12
  <1>14. durable' \in [K : Int, B : Int]
    BY <1>6, <1>7, <1>13
  <1>15. TypeInv'
    <2>1. regs' \in [0 .. NREGS - 1 -> Word] /\ flash' \in Calibrations
      BY <1>2, <1>3 DEF Right, Typed
    <2> QED  BY <1>4, <1>13, <1>14, <2>1, Zenon DEF RegistersInv, TypeInv
  <1>16. TemperatureInv'
    BY <1>4, SMT DEF TemperatureInv
  <1> QED  BY <1>13, <1>15, <1>16 DEF RegistersInv

LEMMA OtherInv ==
    RegistersInv /\ (PollNothing \/ Reset \/ (\E q \in Requests : Receive(q)) \/ UNCHANGED vars)
        => RegistersInv'
  <1> SUFFICES ASSUME RegistersInv PROVE
        PollNothing \/ Reset \/ (\E q \in Requests : Receive(q)) \/ UNCHANGED vars => RegistersInv'
    OBVIOUS
  <1>1. ASSUME PollNothing \/ \E q \in Requests : Receive(q) PROVE RegistersInv'
    <2>1. /\ pc # "start" /\ pc' = "update" /\ pdu' \in Requests \cup {NoPDU}
          /\ UNCHANGED <<regs, flash, sample, known, durable>>
      BY <1>1, Zenon DEF PollNothing, Receive, RegistersInv, TypeInv
    <2>2. TypeInv'
      BY <2>1, Zenon DEF RegistersInv, TypeInv
    <2> QED  BY <2>1, <2>2, SMT DEF RegistersInv, TemperatureInv, FlashInv, MasterView
  <1>2. ASSUME Reset PROVE RegistersInv'
    <2>1. /\ pc' = "start" /\ regs' = Zeroed /\ pdu' = NoPDU /\ sample' = NoSample
          /\ known' = durable /\ UNCHANGED <<flash, durable>>
      BY <1>2, Zenon DEF Reset
    <2>2. 0 \in Word
      BY WordIs, SMT
    <2>3. regs' \in [0 .. NREGS - 1 -> Word]
      BY <2>1, <2>2, Zenon DEF Zeroed
    <2>4. TypeInv'
      BY <2>1, <2>3, Zenon DEF RegistersInv, TypeInv
    <2> QED  BY <2>1, <2>4, SMT DEF RegistersInv, TemperatureInv, FlashInv, MasterView
  <1>3. ASSUME UNCHANGED vars PROVE RegistersInv'
    <2>1. TypeInv'
      BY <1>3, Zenon DEF vars, RegistersInv, TypeInv
    <2>2. TemperatureInv' /\ FlashInv' /\ MasterView'
      BY <1>3 DEF vars, RegistersInv, TemperatureInv, FlashInv, MasterView, tmp117_get_temp
    <2> QED  BY <2>1, <2>2 DEF RegistersInv
  <1> QED  BY <1>1, <1>2, <1>3

\* RegistersInv is inductive.
THEOREM RegistersSafe == Spec => []RegistersInv
  <1>1. RegistersInv /\ [Next]_vars => RegistersInv'
    BY StartInv, UpdateInv, ExecuteInv, OtherInv DEF Next
  <1> QED  BY <1>1, InitInv, PTL DEF Spec

-----------------------------------------------------------------------------
(* The properties.                                                          *)

\* What tmp117_get_temp returns is within 2 of the reference.
LEMMA Accurate ==
    ASSUME NEW s \in Word, NEW k \in Half, NEW b \in Half, InSensorRange(s),
           NEW r \in tmp117_get_temp(s, k, b), Representable(Reference(s, k, b))
    PROVE  Magnitude(Int16(r) - Reference(s, k, b)) <= 2
  <1> DEFINE x == Scaled(Hundredths(s), k, b)
             t == Reference(s, k, b)
  <1>1. ProductFits(Hundredths(s), k)
    BY NoOverflow, Zenon
  <1>2. r = UInt16(x)
    BY <1>1, Zenon DEF tmp117_get_temp
  <1>3. x \in Int /\ t \in Int /\ Magnitude(x - t) <= 2
    BY WithinTwo, Zenon
  <1>4. Representable(t)
    OBVIOUS
  <1> HIDE DEF x, t
  <1>5. x \in Half
    BY <1>3, <1>4, SMT DEF Magnitude, Half, Representable
  <1>6. Int16(r) = x
    BY <1>2, <1>5, Int16OfUInt16, Zenon
  <1>7. Magnitude(Int16(r) - t) <= 2
    BY <1>3, <1>6, Zenon
  <1> QED  BY <1>7 DEF t

\* The temperature a request may read is that of the last reading, calibrated with K and B of
\* the registers, to within 2 hundredths of a degree (mbs_sts_update, tmp117_get_temp).
THEOREM TemperatureCalibrated == Spec => []Calibrated
  <1>1. RegistersInv => Calibrated
    <2> DEFINE k == Int16(regs[CALC_K_IND])
               b == Int16(regs[CALC_B_IND])
    <2> SUFFICES ASSUME RegistersInv, pc = "poll", sample # NoSample, InSensorRange(sample),
                        Representable(Reference(sample, k, b))
                 PROVE  Magnitude(Int16(regs[TMP117_TEMP_IND]) - Reference(sample, k, b)) <= 2
      BY Zenon DEF Calibrated
    <2>1. sample \in Word
      BY RegistersAssumption, Zenon DEF RegistersInv, TypeInv
    <2>2. k \in Half /\ b \in Half
      <3>1. regs[CALC_K_IND] \in Word /\ regs[CALC_B_IND] \in Word
        <4>1. CALC_K_IND \in 0 .. NREGS - 1 /\ CALC_B_IND \in 0 .. NREGS - 1
          BY RegistersAssumption DEF MAX_IND, CALC_K_IND, CALC_B_IND
        <4> QED  BY <4>1, Zenon DEF RegistersInv, TypeInv
      <3>2. regs[CALC_K_IND] \in Int /\ regs[CALC_B_IND] \in Int
        BY <3>1, WordInt, SMT
      <3>3. Int16(regs[CALC_K_IND]) \in Half /\ Int16(regs[CALC_B_IND]) \in Half
        BY <3>2, Int16Range, Zenon
      <3> QED  BY <3>3
    <2>3. regs[TMP117_TEMP_IND] \in tmp117_get_temp(sample, k, b)
      BY Zenon DEF RegistersInv, TemperatureInv
    <2> QED  BY <2>1, <2>2, <2>3, Accurate, Zenon
  <1> QED  BY <1>1, RegistersSafe, PTL

\* The calibration registers hold what the master wrote, over all requests, updates and
\* restarts (eMBRegHoldingCB, mbs_sts_init).
THEOREM MasterViewKept == Spec => []MasterView
  <1>1. RegistersInv => MasterView
    BY DEF RegistersInv
  <1> QED  BY <1>1, RegistersSafe, PTL

\* A step that executes a request has one of its outcomes.
LEMMA ExecutedRight ==
    ASSUME RegistersInv, [Next]_vars, Executed
    PROVE  /\ pdu \in Requests
           /\ \E o \in Outcomes(pdu) :
                /\ Right(pdu, o) /\ regs' = o.regs /\ flash' = o.flash
                /\ reply' = IF pdu.broadcast THEN NoReply
                            ELSE IF o.eStatus = "NONE"
                            THEN [kind |-> "normal", code |-> "none", data |-> o.data]
                            ELSE [kind |-> "exception", code |-> o.eStatus, data |-> <<>>]
  <1>1. Execute
    <2>1. pdu # NoPDU /\ pdu' = NoPDU /\ pc' = "update"
      BY DEF Executed
    <2>2. \A q \in Requests : ~Receive(q)
      BY <2>1, Zenon DEF Receive
    <2>3. ~mbs_sts_init /\ ~mbs_sts_update /\ ~PollNothing /\ ~Reset /\ ~UNCHANGED vars
      BY <2>1, SMT DEF mbs_sts_init, mbs_sts_update, PollNothing, Reset, vars
    <2> QED  BY <2>2, <2>3 DEF Next
  <1>2. pdu \in Requests
    BY <1>1, Zenon DEF RegistersInv, TypeInv, Execute
  <1>3. \A o \in Outcomes(pdu) : Right(pdu, o)
    BY <1>2, OutcomesRight DEF RegistersInv
  <1> QED  BY <1>1, <1>2, <1>3, Zenon DEF Execute

\* A request that can be met is met, and its reply reads the registers after the write
\* (mbfuncholding.c, EV_EXECUTE).
THEOREM RequestsMet == Spec => Met
  <1>1. ASSUME RegistersInv, [Next]_vars, Executed, Acceptable(pdu)
        PROVE  /\ \A i \in DOMAIN regs :
                    regs'[i] = IF i \in Targets(pdu) THEN pdu.vals[i - pdu.waddr + 1] ELSE regs[i]
               /\ IF pdu.broadcast THEN reply'.kind = "none"
                  ELSE /\ reply'.kind = "normal"
                       /\ Reads(pdu) =>
                            /\ Len(reply'.data) = pdu.count
                            /\ \A j \in 1 .. pdu.count : reply'.data[j] = regs'[pdu.addr + j - 1]
    <2>1. PICK o \in Outcomes(pdu) :
            /\ Right(pdu, o) /\ regs' = o.regs /\ flash' = o.flash
            /\ reply' = IF pdu.broadcast THEN NoReply
                        ELSE IF o.eStatus = "NONE"
                        THEN [kind |-> "normal", code |-> "none", data |-> o.data]
                        ELSE [kind |-> "exception", code |-> o.eStatus, data |-> <<>>]
      BY <1>1, ExecutedRight
    <2>2. Carried(pdu, o)
      BY <1>1, <2>1 DEF Right
    <2>3. DOMAIN regs = 0 .. NREGS - 1
      BY <1>1, Zenon DEF RegistersInv, TypeInv
    <2>4. \A i \in DOMAIN regs :
            regs'[i] = IF i \in Targets(pdu) THEN pdu.vals[i - pdu.waddr + 1] ELSE regs[i]
      BY <2>1, <2>2, <2>3, Zenon DEF Carried
    <2>5. CASE pdu.broadcast
      BY <2>1, <2>4, <2>5, Zenon DEF NoReply
    <2>6. CASE ~pdu.broadcast
      <3>1. reply'.kind = "normal" /\ reply'.data = o.data
        BY <2>1, <2>2, <2>6, Zenon DEF Carried
      <3>2. ASSUME Reads(pdu)
            PROVE  /\ Len(reply'.data) = pdu.count
                   /\ \A j \in 1 .. pdu.count : reply'.data[j] = regs'[pdu.addr + j - 1]
        <4>1. reply'.data = [j \in 1 .. pdu.count |-> regs'[pdu.addr + j - 1]]
          BY <2>1, <2>2, <3>1, <3>2, Zenon DEF Carried
        <4>2. pdu.count \in Nat
          BY <1>1, ExecutedRight, Fields
        <4> QED  BY <4>1, <4>2, SMT
      <3> QED  BY <2>4, <2>6, <3>1, <3>2, Zenon
    <2> QED  BY <2>5, <2>6
  <1>2. [][RegistersInv /\ [Next]_vars =>
             (Executed /\ Acceptable(pdu) =>
               /\ \A i \in DOMAIN regs :
                    regs'[i] = IF i \in Targets(pdu) THEN pdu.vals[i - pdu.waddr + 1] ELSE regs[i]
               /\ IF pdu.broadcast THEN reply'.kind = "none"
                  ELSE /\ reply'.kind = "normal"
                       /\ Reads(pdu) =>
                            /\ Len(reply'.data) = pdu.count
                            /\ \A j \in 1 .. pdu.count : reply'.data[j] = regs'[pdu.addr + j - 1])]_vars
    BY <1>1, PTL
  <1> QED  BY <1>2, RegistersSafe, PTL DEF Spec, Met

\* A request that cannot be met gets an exception and changes nothing, but for read/write with
\* registers to read that do not exist (mbfuncholding.c, EV_EXECUTE).
THEOREM RequestsRefused == Spec => Refused
  <1>1. ASSUME RegistersInv, [Next]_vars, Executed, ~Acceptable(pdu), Complete(pdu) \/ pdu.fn # 23
        PROVE  /\ ~pdu.broadcast => reply'.kind = "exception"
               /\ \/ regs' = regs /\ flash' = flash
                  \/ pdu.fn = 23 /\ Existing(pdu.waddr, Len(pdu.vals)) /\ ~Existing(pdu.addr, pdu.count)
    <2>1. PICK o \in Outcomes(pdu) :
            /\ Right(pdu, o) /\ regs' = o.regs /\ flash' = o.flash
            /\ reply' = IF pdu.broadcast THEN NoReply
                        ELSE IF o.eStatus = "NONE"
                        THEN [kind |-> "normal", code |-> "none", data |-> o.data]
                        ELSE [kind |-> "exception", code |-> o.eStatus, data |-> <<>>]
      BY <1>1, ExecutedRight
    <2>2. Declined(pdu, o)
      BY <1>1, <2>1, Zenon DEF Right
    <2>3. ~pdu.broadcast => reply'.kind = "exception"
      BY <2>1, <2>2, Zenon DEF Declined
    <2> QED  BY <2>1, <2>2, <2>3, Zenon DEF Declined, Kept
  <1>2. [][RegistersInv /\ [Next]_vars =>
             (Executed /\ ~Acceptable(pdu) /\ (Complete(pdu) \/ pdu.fn # 23) =>
               /\ ~pdu.broadcast => reply'.kind = "exception"
               /\ \/ regs' = regs /\ flash' = flash
                  \/ pdu.fn = 23 /\ Existing(pdu.waddr, Len(pdu.vals))
                     /\ ~Existing(pdu.addr, pdu.count))]_vars
    BY <1>1, PTL
  <1> QED  BY <1>2, RegistersSafe, PTL DEF Spec, Refused
=============================================================================
