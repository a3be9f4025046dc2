--------------------------- MODULE AutoAddrProofs ----------------------------
(***************************************************************************)
(* Proofs about AutoAddr, for chains and address fields of every length.   *)
(*                                                                         *)
(* They suppose that no clock is slower than another by more percent than  *)
(* there are address bits (6 in the firmware), and that the nodes are      *)
(* powered up within 120 ticks of each other, less what the clocks take.   *)
(* Then a node has looked at its lines in FSM_PREP before the node in      *)
(* front of it can send, and the whole argument is about pairs: where the  *)
(* sender s is in its frame, what the receiver r has counted and shifted   *)
(* in, and whether r starts afresh before s has sent it enough edges for   *)
(* it to take what it has for a frame.                                     *)
(***************************************************************************)
EXTENDS AutoAddr, ListsProofs

-----------------------------------------------------------------------------
(* The inductive invariant.                                                 *)

\* How far the nodes' clocks and the times at which they are powered up may be apart.
Tolerances == Drift <= AddrBits /\ \A skew \in Skews : skew + 4 * Drift <= 120

\* The least time from now in which s makes k more clock edges.
To(s, k) ==
    s.wait + 2 * k - 1 +
        CASE s.fsm = "INIT" -> 240
          [] s.fsm = "PREP" -> 120
          [] s.fsm = "SYNC" -> 200
          [] s.fsm \in Sending /\ s.pc = "clock" -> IF k > FrameBits - s.bit THEN 199 ELSE 0 - 1
          [] s.fsm \in Sending /\ s.pc = "read" -> IF k > FrameBits - 1 - s.bit THEN 200 ELSE 0
          [] OTHER -> 0

\* Between the first clock edge and the end of a frame.
InFrame(s) == s.pc = "read" \/ (s.pc = "clock" /\ s.bit # 0)

\* How many edges of its frame s has made; a complete frame counts as none.
Edges(s) ==
    IF s.pc = "clock" THEN s.bit
    ELSE IF s.pc = "read" /\ s.bit # FrameBits - 1 THEN s.bit + 1 ELSE 0

\* r has counted the edges that s has made of its frame and has exactly their bits ...
Whole(s, r) == r.cnt = Edges(s) /\ Temp(s) \div pow2[FrameBits - Edges(s)] = r.sr

\* ... or lacks the first, a one.
Headless(s, r) ==
    /\ r.cnt = Edges(s) /\ Edges(s) # 0
    /\ Temp(s) \div pow2[FrameBits - Edges(s)] = r.sr + pow2[Edges(s) - 1]

\* The longest it can be until r starts afresh.
Left(r) == IF r.pc \in {"sr", "rxd"} THEN Late(SyncPeriod) ELSE r.wait

\* r has counted other edges, but it starts afresh before it has enough for a frame.
Cut(s, r) == r.fsm = "SYNC" /\ Left(r) < To(s, FrameBits - r.cnt)

\* r has taken back its count and has its register still to clear; there was an edge since or not.
Opened(s, r) == r.cnt = 0 \/ (r.cnt = 1 /\ s.pc = "read" /\ s.wait > 0)

\* What holds of node i by itself.
NodeInv(i, n) ==
    /\ n.pc = "boot" => n.fsm = "INIT" /\ n.irq = "off" /\ n.cnt = 0 /\ n.sr = 0 /\ n.rxd = 0
    /\ n.pc \in {"cnt", "sr", "rxd"} => n.fsm = "SYNC" /\ n.wait = 0
    /\ n.pc \in {"clock", "read"} => n.fsm \in Sending /\ n.DOWN_O = BitOf(n, n.bit)
    /\ n.pc \notin {"clock", "read"} => n.bit = 0
    /\ n.pc # "read" => n.DOWN_I = 1
    /\ n.pc # "boot" => (n.irq = "on" <=> n.fsm \notin Sending)
    /\ n.auto_addr # 0 <=> n.fsm \in Sending
    /\ i = 1 => n.fsm # "SYNC"

\* What holds of a node, the sender s, and the next, the receiver r.
LinkInv(s, r) ==
    /\ r.fsm = "INIT" => ~InFrame(s) /\ r.wait + Late(120) < To(s, 1)
    /\ r.fsm = "PREP" => ~InFrame(s) /\ r.wait < To(s, 1)
    /\ r.irq = "on" =>
         /\ r.rxd # 0 => s.fsm \in Sending /\ r.rxd \in {s.auto_addr + 1, (s.auto_addr + 1) - Half}
         /\ s.fsm \notin Sending => r.cnt = 0 /\ r.sr = 0
         /\ s.fsm \in Sending => IF r.pc = "sr" THEN Opened(s, r)
                                 ELSE Whole(s, r) \/ Headless(s, r) \/ Cut(s, r)

AddrInv ==
    /\ TypeOK
    /\ \A i \in Nodes : NodeInv(i, node[i])
    /\ \A i \in Nodes \ {N} : LinkInv(node[i], node[i + 1])
    /\ Chain!Follows /\ Chain!Numbered
-----------------------------------------------------------------------------
(* Powers of two, and taking a number apart bit by bit.                     *)

\* pow2 is the power of two.
LEMMA Pow2 ==
    /\ FrameBits \in Nat /\ FrameBits = AddrBits + 2 /\ AddrBits >= 1
    /\ pow2 \in [0 .. FrameBits -> Nat \ {0}]
    /\ pow2[0] = 1 /\ \A n \in 1 .. FrameBits : pow2[n] = 2 * pow2[n - 1]
<1> DEFINE A == Nat \ {0}
           n == FrameBits
           twice == [x \in A |-> 2 * x]
           step == [i \in 1 .. n |-> twice]
           Body(g) == [i \in 0 .. n |-> IF i = 0 THEN 1 ELSE 2 * g[i - 1]]
<1>1. n \in Nat /\ FrameBits = AddrBits + 2 /\ AddrBits >= 1
  BY ChainAssumption DEF FrameBits
<1>2. twice \in [A -> A] /\ \A x \in A : twice[x] = 2 * x
  <2>1. \A x \in A : 2 * x \in A
    OBVIOUS
  <2> HIDE DEF A
  <2> QED BY <2>1
<1>3. step \in Steps(n, A) /\ \A i \in 1 .. n : step[i] = twice
  BY <1>2, Zenon DEF Steps
<1>4. 1 \in A
  OBVIOUS
<1> HIDE DEF A, n, step, twice
<1>5. PICK f \in [0 .. n -> A] : Goes(f, n, 1, step)
  BY <1>1, <1>3, <1>4, Recursion, Zenon
<1>6. f[0] = 1 /\ \A i \in 1 .. n : f[i] = 2 * f[i - 1]
  <2>1. ASSUME NEW i \in 1 .. n PROVE f[i] = 2 * f[i - 1]
    <3>1. f[i - 1] \in A
      BY <1>1
    <3>2. f[i] = twice[f[i - 1]]
      BY <1>3, <1>5, Zenon DEF Goes
    <3> QED BY <3>1, <3>2, <1>2
  <2> QED BY <2>1, <1>5 DEF Goes
<1>7. f = Body(f)
  BY <1>6, <1>1
<1>8. pow2 = Body(pow2)
  <2>1. pow2 = CHOOSE g : g = Body(g)
    BY DEF pow2, n
  <2> HIDE DEF Body
  <2> QED BY <2>1, <1>7, Zenon
<1>9. pow2[0] = 1 /\ \A i \in 1 .. n : pow2[i] = 2 * pow2[i - 1]
  BY <1>8, <1>1
<1> DEFINE T == {i \in 0 .. n : pow2[i] \in A}
<1>10. T = 0 .. n
  <2>1. 0 \in T
    BY <1>1, <1>4, <1>9
  <2>2. \A i \in 1 .. n : i - 1 \in T => i \in T
    BY <1>9, <1>1 DEF A
  <2>3. T \in SUBSET (0 .. n)
    OBVIOUS
  <2> HIDE DEF T
  <2> QED BY <2>1, <2>2, <2>3, <1>1, Induction, Zenon
<1>11. pow2 \in [0 .. n -> A]
  <2>1. \A i \in 0 .. n : pow2[i] \in A
    BY <1>10
  <2>2. pow2 = [i \in 0 .. n |-> pow2[i]]
    BY <1>8
  <2> QED BY <2>1, <2>2, Zenon
<1> QED BY <1>1, <1>9, <1>11 DEF n, A

\* Shifting one bit less to the right brings in the next bit on the left.
LEMMA ShiftBit ==
    ASSUME NEW a \in Nat, NEW b \in Nat \ {0}
    PROVE  2 * (a \div (2 * b)) + ((a \div b) % 2) = a \div b
<1> DEFINE q == a \div b
           r == a % b
<1>1. q \in Nat /\ r \in Nat /\ r < b /\ a = b * q + r
  OBVIOUS
<1>2. q = 2 * (q \div 2) + (q % 2) /\ q \div 2 \in Nat /\ q % 2 \in 0 .. 1
  BY <1>1
<1> DEFINE h == q \div 2
           l == q % 2
           s == b * l + r
<1> HIDE DEF q, r, h, l
<1>3. a = (2 * b) * h + s
  <2>1. b * q = b * (2 * h + l)
    BY <1>2 DEF h, l
  <2>2. h \in Nat /\ l \in 0 .. 1
    BY <1>2 DEF h, l
  <2> QED BY <1>1, <2>1, <2>2
<1>4. s \in Nat /\ s < 2 * b
  <2>1. l \in {0, 1}
    BY <1>2 DEF l
  <2> QED BY <2>1, <1>1
<1>5. h = a \div (2 * b)
  <2> HIDE DEF s
  <2>1. h \in Nat
    BY <1>2 DEF h
  <2> DEFINE c == 2 * b
  <2>2. a = c * h + s /\ s < c /\ c \in Nat \ {0}
    BY <1>3, <1>4, <2>1
  <2> HIDE DEF c
  <2>3. h = a \div c
    BY <2>1, <2>2, <1>4
  <2> QED BY <2>3 DEF c
<1> QED BY <1>2, <1>5 DEF q, h, l

\* What the provers know about division, for divisors that are not numerals.
LEMMA Division ==
    ASSUME NEW a \in Nat, NEW m \in Nat \ {0}
    PROVE  /\ a % m \in 0 .. m - 1 /\ a \div m \in Nat /\ a \div m <= a
           /\ a < m => a % m = a /\ a \div m = 0
           /\ \A k \in Nat : a = m + k /\ k < m => a % m = k
OBVIOUS

\* The widths of the address field and of the frame.
LEMMA Widths ==
    /\ Half \in Nat \ {0} /\ pow2[AddrBits] = 2 * Half /\ pow2[FrameBits - 1] = 4 * Half
    /\ pow2[FrameBits] = 8 * Half
<1>1. AddrBits - 1 \in 0 .. FrameBits /\ AddrBits \in 1 .. FrameBits /\ FrameBits - 1 = AddrBits + 1
      /\ AddrBits + 1 \in 1 .. FrameBits /\ FrameBits \in 1 .. FrameBits
  BY Pow2, ChainAssumption
<1>2. pow2[AddrBits] = 2 * pow2[AddrBits - 1]
  BY <1>1, Pow2
<1>3. pow2[AddrBits + 1] = 2 * pow2[AddrBits] /\ pow2[FrameBits] = 2 * pow2[AddrBits + 1]
  BY <1>1, Pow2, ChainAssumption
<1>4. pow2[AddrBits - 1] \in Nat \ {0}
  BY <1>1, Pow2
<1> QED BY <1>1, <1>2, <1>3, <1>4 DEF Half

\* The frame of a node holds the next address, or 0 if that does not fit the field.
LEMMA FrameOf ==
    ASSUME NEW n, n.auto_addr \in 0 .. pow2[AddrBits] - 1
    PROVE  /\ Temp(n) \in Nat /\ Temp(n) < pow2[FrameBits]
           /\ Temp(n) \div 4 \in {0, n.auto_addr + 1}
<1> DEFINE P == pow2[AddrBits]
           a == 4 * (n.auto_addr + 1) + 3
<1>1. pow2[FrameBits] = 4 * P /\ P \in Nat \ {0}
  BY Widths
<1>2. n.auto_addr \in Nat /\ n.auto_addr <= P - 1
  BY <1>1
<1>3. Temp(n) = a % (4 * P)
  BY <1>1 DEF Temp, NextAddr
<1>4. a \in Nat /\ 4 * P \in Nat \ {0}
  BY <1>1, <1>2
<1> HIDE DEF P
<1>5. CASE n.auto_addr + 1 < P
  <2>1. a < 4 * P
    BY <1>5, <1>1, <1>2
  <2>2. Temp(n) = a
    <3> HIDE DEF a
    <3> QED BY <2>1, <1>3, <1>4, Division
  <2> QED BY <2>1, <2>2, <1>1, <1>2
<1>6. CASE n.auto_addr + 1 >= P
  <2>1. a = 4 * P + 3 /\ 3 < 4 * P
    BY <1>6, <1>1, <1>2
  <2>2. Temp(n) = 3
    <3> HIDE DEF a
    <3> QED BY <2>1, <1>3, <1>4, Division
  <2> QED BY <2>2, <1>1
<1> QED BY <1>5, <1>6, <1>1, <1>2

\* The first b + 1 bits of a frame are the first b and the next one.
LEMMA NextBit ==
    ASSUME NEW n, n.auto_addr \in 0 .. pow2[AddrBits] - 1, NEW b \in 0 .. FrameBits - 1
    PROVE  /\ BitOf(n, b) \in {0, 1}
           /\ Temp(n) \div pow2[FrameBits - b] \in Nat
           /\ Temp(n) \div pow2[FrameBits - (b + 1)] = 2 * (Temp(n) \div pow2[FrameBits - b]) + BitOf(n, b)
           /\ Temp(n) \div pow2[FrameBits - (b + 1)] < pow2[FrameBits]
           /\ b = 0 => Temp(n) \div pow2[FrameBits - b] = 0
           /\ b = FrameBits - 1 => Temp(n) \div pow2[FrameBits - (b + 1)] = Temp(n)
<1> DEFINE p == pow2[FrameBits - (b + 1)]
           a == Temp(n)
           M == pow2[FrameBits]
<1>1. FrameBits - b \in 1 .. FrameBits /\ FrameBits - (b + 1) \in 0 .. FrameBits /\ FrameBits \in 0 .. FrameBits
  BY Pow2
<1>2. pow2[FrameBits - b] = 2 * p /\ p \in Nat \ {0} /\ M \in Nat \ {0} /\ (b = 0 => 2 * p = M)
  BY <1>1, Pow2
<1>3. a \in Nat /\ a < M
  BY FrameOf
<1>4. BitOf(n, b) = (a \div p) % 2
  <2>1. FrameBits - 1 - b = FrameBits - (b + 1)
    BY Pow2
  <2> QED BY <2>1, Zenon DEF BitOf
<1>5. b = FrameBits - 1 => p = 1
  BY Pow2
<1> HIDE DEF p, a, M
<1>6. 2 * (a \div (2 * p)) + ((a \div p) % 2) = a \div p
  BY <1>2, <1>3, ShiftBit
<1>7. a \div p \in Nat /\ a \div p <= a
  BY <1>2, <1>3, Division
<1>8. a \div (2 * p) \in Nat /\ (a < 2 * p => a \div (2 * p) = 0)
  <2> DEFINE c == 2 * p
  <2>1. c \in Nat \ {0}
    BY <1>2
  <2> HIDE DEF c
  <2>2. a \div c \in Nat /\ (a < c => a \div c = 0)
    BY <2>1, <1>3, Division
  <2> QED BY <2>2 DEF c
<1>9. BitOf(n, b) \in {0, 1}
  BY <1>4, <1>7
<1>10. b = FrameBits - 1 => a \div p = a
  BY <1>5, <1>3
<1>11. a \div p < M /\ (b = 0 => a \div (2 * p) = 0)
  BY <1>2, <1>3, <1>7, <1>8
<1> QED BY <1>2, <1>4, <1>6, <1>8, <1>9, <1>10, <1>11 DEF p, a, M

-----------------------------------------------------------------------------
(* Delays, and how far the next edges are.                                  *)

\* How long the code's delays take.
LEMMA Delays ==
    /\ \A d \in {1, 2, 120, 200, 1100} :
         Late(d) \in Nat /\ \A t \in Ticks(d) : t \in Nat /\ t >= d /\ t <= Late(d)
    /\ Late(200) = 200 + 2 * Drift /\ Late(120) <= 120 + 2 * Drift /\ Drift \in Nat
<1>1. Drift \in Nat
  BY ChainAssumption
<1>2. \A d \in {1, 2, 120, 200, 1100} : Late(d) \in Nat
  BY <1>1 DEF Late
<1>3. Late(200) = 200 + 2 * Drift /\ Late(120) <= 120 + 2 * Drift
  BY <1>1 DEF Late
<1>4. ASSUME NEW d \in {1, 2, 120, 200, 1100}, NEW t \in Ticks(d) PROVE t \in Nat /\ t >= d /\ t <= Late(d)
  BY <1>2, <1>4 DEF Ticks
<1> QED BY <1>1, <1>2, <1>3, <1>4

\* Times are numbers, and the receiver's next edges are some of the sender's.
LEMMA Times ==
    ASSUME NEW s \in NodeType
    PROVE  /\ \A k \in Int : To(s, k) \in Int
           /\ s.wait \in Nat /\ Left(s) \in Nat /\ FrameBits \in Nat /\ FrameBits >= 3
           /\ s.bit \in 0 .. FrameBits - 1 /\ s.cnt \in 0 .. FrameBits - 1 /\ FrameBits - s.cnt \in 1 .. FrameBits
           /\ s.auto_addr \in 0 .. pow2[AddrBits] - 1
<1>1. s.wait \in Nat /\ s.bit \in 0 .. FrameBits - 1 /\ s.cnt \in 0 .. FrameBits - 1
      /\ s.auto_addr \in 0 .. pow2[AddrBits] - 1
  BY DEF NodeType
<1>2. FrameBits \in Nat /\ FrameBits >= 3
  BY ChainAssumption DEF FrameBits
<1>3. Left(s) \in Nat
  BY <1>1, Delays DEF Left, SyncPeriod
<1>4. ASSUME NEW k \in Int PROVE To(s, k) \in Int
  BY <1>1, <1>2 DEF To
<1> QED BY <1>1, <1>2, <1>3, <1>4

-----------------------------------------------------------------------------
(* A step of one node.                                                      *)

\* Node i takes the value m, with its own and its neighbours' invariants.
Fits(i, m) ==
    /\ m \in NodeType /\ NodeInv(i, m)
    /\ i # N => LinkInv(m, node[i + 1])
    /\ i # 1 => LinkInv(node[i - 1], m)

\* Then the invariant of the chain is kept, if the numbers are.
LEMMA ChangeOne ==
    ASSUME AddrInv, NEW i \in Nodes, NEW m, node' = [node EXCEPT ![i] = m], Fits(i, m),
           Chain!Follows', Chain!Numbered'
    PROVE  AddrInv'
<1>1. node \in [Nodes -> NodeType] /\ N \in Nat
  BY ChainAssumption DEF AddrInv, TypeOK
<1>2. node' \in [Nodes -> NodeType]
  BY <1>1, Zenon DEF Fits
<1>3. node'[i] = m /\ \A j \in Nodes : j # i => node'[j] = node[j]
  BY <1>1
<1>4. \A j \in Nodes : NodeInv(j, node'[j])
  BY <1>3, Zenon DEF AddrInv, Fits
<1>5. ASSUME NEW j \in Nodes \ {N} PROVE LinkInv(node'[j], node'[j + 1])
  <2>1. j \in Nodes /\ j + 1 \in Nodes /\ j + 1 # 1 /\ (j + 1) - 1 = j /\ j # j + 1
    BY <1>1 DEF Nodes
  <2>2. LinkInv(node[j], node[j + 1])
    BY DEF AddrInv
  <2>3. CASE j = i
    BY <2>1, <2>3, <1>3 DEF Fits
  <2>4. CASE j + 1 = i
    BY <2>1, <2>4, <1>3, SMT DEF Fits
  <2>5. CASE j # i /\ j + 1 # i
    BY <2>1, <2>5, <2>2, <1>3, Zenon
  <2> QED BY <2>3, <2>4, <2>5
<1> QED BY <1>2, <1>4, <1>5, Zenon DEF AddrInv, TypeOK

\* A step that changes no address keeps the numbers.
LEMMA SameNumbers ==
    ASSUME AddrInv, node' \in [Nodes -> NodeType], \A j \in Nodes : node'[j].auto_addr = node[j].auto_addr
    PROVE  addr' = addr /\ Chain!Follows' /\ Chain!Numbered'
<1>1. addr' = addr
  BY Zenon DEF addr
<1>2. Chain!Follows /\ Chain!Numbered
  BY DEF AddrInv
<1> QED BY <1>1, <1>2, Zenon DEF Chain!Follows, Chain!Number, Chain!Numbered, Chain!Nodes

\* Every node fits as it is.
LEMMA Here ==
    ASSUME AddrInv, NEW i \in Nodes
    PROVE  /\ Fits(i, node[i]) /\ node[i] \in NodeType /\ NodeInv(i, node[i]) /\ node \in [Nodes -> NodeType]
           /\ i # N => i + 1 \in Nodes /\ node[i + 1] \in NodeType /\ LinkInv(node[i], node[i + 1])
           /\ i # 1 => i - 1 \in Nodes /\ node[i - 1] \in NodeType /\ LinkInv(node[i - 1], node[i])
                       /\ NodeInv(i - 1, node[i - 1])
<1>1. node \in [Nodes -> NodeType] /\ N \in Nat
  BY ChainAssumption DEF AddrInv, TypeOK
<1>2. (i # N => i + 1 \in Nodes) /\ (i # 1 => i - 1 \in Nodes \ {N} /\ (i - 1) + 1 = i)
  BY <1>1 DEF Nodes
<1>3. i # 1 => LinkInv(node[i - 1], node[i])
  <2> SUFFICES ASSUME i # 1 PROVE LinkInv(node[i - 1], node[i])
    OBVIOUS
  <2>1. LinkInv(node[i - 1], node[(i - 1) + 1])
    BY <1>2, Zenon DEF AddrInv
  <2> QED BY <2>1, <1>2
<1>4. node[i] \in NodeType /\ NodeInv(i, node[i]) /\ (i # N => LinkInv(node[i], node[i + 1]))
  BY <1>1, Zenon DEF AddrInv
<1>5. i # 1 => NodeInv(i - 1, node[i - 1])
  BY <1>2, Zenon DEF AddrInv
<1> QED BY <1>1, <1>2, <1>3, <1>4, <1>5, Zenon DEF Fits

\* The node at i in its new state, with its neighbours, and the addresses as they were.
LEMMA QuietStep ==
    ASSUME AddrInv, NEW i \in Nodes, NEW m \in NodeType, node' = [node EXCEPT ![i] = m], Fits(i, m),
           m.auto_addr = node[i].auto_addr
    PROVE  AddrInv' /\ addr' = addr
<1>1. node \in [Nodes -> NodeType]
  BY Here
<1>2. node' \in [Nodes -> NodeType] /\ \A j \in Nodes : node'[j].auto_addr = node[j].auto_addr
  BY <1>1, Zenon
<1>3. addr' = addr /\ Chain!Follows' /\ Chain!Numbered'
  BY <1>2, SameNumbers
<1> QED BY <1>3, ChangeOne

\* A node that sends does not listen, and its place as a receiver asks nothing of it.
LEMMA SenderIsDeaf ==
    ASSUME NEW s, NEW r, r.fsm \in Sending, r.irq # "on"
    PROVE  LinkInv(s, r)
BY DEF LinkInv, Sending

\* What a receiver does to its other fields does not concern the link; nor does where its
\* thread is, except between the stores of FSM_SYNC.
LEMMA SameReceiver ==
    ASSUME NEW s, NEW r, NEW q, LinkInv(s, r),
           q.fsm = r.fsm, q.wait = r.wait, q.irq = r.irq, q.cnt = r.cnt, q.sr = r.sr, q.rxd = r.rxd,
           q.pc = r.pc \/ (r.pc = "switch" /\ q.pc = "cnt")
    PROVE  LinkInv(s, q)
<1>1. (q.pc = "sr" <=> r.pc = "sr") /\ Left(q) = Left(r)
  BY DEF Left
<1> QED BY <1>1 DEF LinkInv, Whole, Headless, Cut, Opened

\* A step of a sender that makes no edge and brings the next ones no nearer.
LEMMA SenderGoesOn ==
    ASSUME NEW s \in NodeType, NEW m \in NodeType, NEW r \in NodeType, LinkInv(s, r),
           InFrame(m) => InFrame(s), Edges(m) = Edges(s), m.auto_addr = s.auto_addr,
           m.fsm \in Sending <=> s.fsm \in Sending,
           s.pc = "read" /\ s.wait > 0 => m.pc = "read" /\ m.wait > 0,
           \A k \in 1 .. FrameBits : To(s, k) <= To(m, k)
    PROVE  LinkInv(m, r)
<1>1. FrameBits - r.cnt \in 1 .. FrameBits /\ 1 \in 1 .. FrameBits
  BY Times
<1>2. /\ To(s, 1) \in Int /\ To(m, 1) \in Int /\ To(s, 1) <= To(m, 1)
      /\ To(s, FrameBits - r.cnt) \in Int /\ To(m, FrameBits - r.cnt) \in Int
      /\ To(s, FrameBits - r.cnt) <= To(m, FrameBits - r.cnt)
  BY <1>1, Times
<1>3. r.wait \in Nat /\ Left(r) \in Nat /\ Late(120) \in Nat
  BY Times, Delays
<1>4. Temp(m) = Temp(s)
  BY DEF Temp, NextAddr
<1> HIDE DEF To, InFrame, Edges, Temp, Sending, Left, Late
<1>5. /\ Whole(s, r) => Whole(m, r)
      /\ Headless(s, r) => Headless(m, r)
      /\ Opened(s, r) => Opened(m, r)
  BY <1>4 DEF Whole, Headless, Opened
<1>6. /\ Cut(s, r) => Cut(m, r)
      /\ r.wait < To(s, 1) => r.wait < To(m, 1)
      /\ r.wait + Late(120) < To(s, 1) => r.wait + Late(120) < To(m, 1)
  BY <1>2, <1>3 DEF Cut
<1> QED BY <1>5, <1>6, Zenon DEF LinkInv

\* A receiver that starts afresh between two frames has the bits of the next one.
LEMMA ReadyReceiver ==
    ASSUME NEW s \in NodeType, NEW r, Edges(s) = 0 \/ ~InFrame(s), r.cnt = 0, r.sr = 0
    PROVE  Whole(s, r)
<1>1. Edges(s) = 0
  BY DEF Edges, InFrame
<1>2. s.auto_addr \in 0 .. pow2[AddrBits] - 1 /\ 0 \in 0 .. FrameBits - 1
  BY Times
<1>3. Temp(s) \div pow2[FrameBits - 0] = 0
  BY <1>2, NextBit
<1> QED BY <1>1, <1>3 DEF Whole

\* A node that begins to send begins with a frame, and its receiver is ready.
LEMMA SenderStarts ==
    ASSUME NEW s \in NodeType, NEW m \in NodeType, NEW r \in NodeType, LinkInv(s, r),
           ~InFrame(m), m.fsm \in Sending, s.fsm \notin Sending, To(s, 1) <= To(m, 1)
    PROVE  LinkInv(m, r)
<1>1. r.cnt = 0 /\ r.sr = 0 => Whole(m, r) /\ Opened(m, r)
  BY ReadyReceiver DEF Opened
<1>2. To(s, 1) \in Int /\ To(m, 1) \in Int /\ r.wait \in Nat /\ Late(120) \in Nat
  BY Times, Delays
<1> HIDE DEF To, InFrame, Edges, Temp, Sending, Whole, Opened, Late
<1>3. /\ r.wait < To(s, 1) => r.wait < To(m, 1)
      /\ r.wait + Late(120) < To(s, 1) => r.wait + Late(120) < To(m, 1)
  BY <1>2
<1> QED BY <1>1, <1>3, Zenon DEF LinkInv

-----------------------------------------------------------------------------
(* The actions.                                                             *)

LEMMA StepTimer ==
    ASSUME AddrInv, NEW i \in Nodes, last_timer_cb(i)
    PROVE  AddrInv' /\ addr' = addr
<1> DEFINE n == node[i]
           m == [n EXCEPT !.last = 0, !.UP_I = "input"]
<1>1. n \in NodeType /\ NodeInv(i, n) /\ node \in [Nodes -> NodeType]
  BY Here
<1>2. node' = [node EXCEPT ![i] = m]
  BY <1>1 DEF last_timer_cb
<1>3. /\ m \in NodeType
      /\ m.sr = n.sr /\ m.rxd = n.rxd /\ m.cnt = n.cnt /\ m.fsm = n.fsm /\ m.auto_addr = n.auto_addr
      /\ m.pc = n.pc /\ m.wait = n.wait /\ m.bit = n.bit /\ m.DOWN_O = n.DOWN_O /\ m.DOWN_I = n.DOWN_I
      /\ m.irq = n.irq
  <2> DEFINE z == 0
  <2>1. z \in Nat /\ m = [n EXCEPT !.last = z, !.UP_I = "input"]
    OBVIOUS
  <2> HIDE DEF n, m, z
  <2> QED BY <1>1, <2>1, ZenonT(60) DEF NodeType
<1> HIDE DEF n, m
<1>4. NodeInv(i, m)
  BY <1>1, <1>3 DEF NodeInv, BitOf, Temp, NextAddr
<1>5. i # N => LinkInv(m, node[i + 1])
  <2>1. InFrame(m) = InFrame(n) /\ Edges(m) = Edges(n) /\ \A k \in 1 .. FrameBits : To(n, k) = To(m, k)
    BY <1>3 DEF InFrame, Edges, To
  <2>2. \A k \in 1 .. FrameBits : To(n, k) <= To(m, k)
    BY <2>1, <1>1, Times
  <2> QED BY <2>1, <2>2, <1>1, <1>3, Here, SenderGoesOn DEF n
<1>6. i # 1 => LinkInv(node[i - 1], m)
  BY <1>3, Here, SameReceiver DEF n
<1> QED BY <1>2, <1>3, <1>4, <1>5, <1>6, QuietStep DEF Fits, n

LEMMA StepInit ==
    ASSUME AddrInv, NEW i \in Nodes, FsmInit(i)
    PROVE  AddrInv' /\ addr' = addr
<1> DEFINE n == node[i]
<1>1. n \in NodeType /\ NodeInv(i, n) /\ node \in [Nodes -> NodeType]
  BY Here
<1>2. PICK t \in Ticks(120) : node' = [node EXCEPT ![i].fsm = "PREP", ![i].wait = t]
  BY DEF FsmInit
<1> DEFINE m == [n EXCEPT !.fsm = "PREP", !.wait = t]
<1>3. node' = [node EXCEPT ![i] = m] /\ n.pc = "switch" /\ n.wait = 0 /\ n.fsm = "INIT"
  BY <1>1, <1>2 DEF FsmInit, In, Due
<1>4. t \in Nat /\ t >= 120 /\ t <= Late(120) /\ Late(120) \in Nat
  BY Delays
<1>5. /\ m \in NodeType
      /\ m.sr = n.sr /\ m.rxd = n.rxd /\ m.cnt = n.cnt /\ m.fsm = "PREP" /\ m.auto_addr = n.auto_addr
      /\ m.pc = n.pc /\ m.wait = t /\ m.bit = n.bit /\ m.DOWN_O = n.DOWN_O /\ m.DOWN_I = n.DOWN_I
      /\ m.irq = n.irq
  BY <1>1, <1>4, ZenonT(60) DEF NodeType
<1> HIDE DEF n, m
<1>6. NodeInv(i, m)
  BY <1>1, <1>3, <1>5 DEF NodeInv, Sending
<1>7. i # N => LinkInv(m, node[i + 1])
  <2>1. InFrame(m) = InFrame(n) /\ Edges(m) = Edges(n) /\ m.fsm \notin Sending /\ n.fsm \notin Sending
    BY <1>3, <1>5 DEF InFrame, Edges, Sending
  <2>2. \A k \in 1 .. FrameBits : To(n, k) <= To(m, k)
    BY <1>3, <1>4, <1>5 DEF To
  <2> QED BY <2>1, <2>2, <1>1, <1>3, <1>5, Here, SenderGoesOn DEF n
<1>8. i # 1 => LinkInv(node[i - 1], m)
  <2> SUFFICES ASSUME i # 1 PROVE LinkInv(node[i - 1], m)
    OBVIOUS
  <2> DEFINE s == node[i - 1]
  <2>1. LinkInv(s, n) /\ s \in NodeType
    BY Here DEF n
  <2> HIDE DEF s
  <2>2. ~InFrame(s) /\ m.wait < To(s, 1)
    <3>1. To(s, 1) \in Int
      BY <2>1, Times
    <3> QED BY <2>1, <1>3, <1>4, <1>5, <3>1 DEF LinkInv
  <2>3. ~Cut(s, n)
    BY <1>3 DEF Cut
  <2> QED BY <2>1, <2>2, <2>3, <1>3, <1>5 DEF LinkInv, Whole, Headless, s
<1> QED BY <1>3, <1>5, <1>6, <1>7, <1>8, QuietStep DEF Fits, n

LEMMA StepBoot ==
    ASSUME AddrInv, NEW i \in Nodes, addr_init(i)
    PROVE  AddrInv' /\ addr' = addr
<1> DEFINE n == node[i]
           m == [n EXCEPT !.pc = "switch", !.UP_I = "input", !.irq = "on"]
<1>1. n \in NodeType /\ NodeInv(i, n) /\ node \in [Nodes -> NodeType]
  BY Here
<1>2. node' = [node EXCEPT ![i] = m] /\ n.pc = "boot" /\ n.wait = 0
  BY <1>1 DEF addr_init, Due
<1>3. /\ m \in NodeType
      /\ m.sr = n.sr /\ m.rxd = n.rxd /\ m.cnt = n.cnt /\ m.fsm = n.fsm /\ m.auto_addr = n.auto_addr
      /\ m.pc = "switch" /\ m.wait = n.wait /\ m.bit = n.bit /\ m.DOWN_O = n.DOWN_O /\ m.DOWN_I = n.DOWN_I
      /\ m.irq = "on"
  BY <1>1, ZenonT(60) DEF NodeType, Pcs
<1> HIDE DEF n, m
<1>4. NodeInv(i, m) /\ n.fsm = "INIT" /\ n.cnt = 0 /\ n.sr = 0 /\ n.rxd = 0
  BY <1>1, <1>2, <1>3 DEF NodeInv, Sending
<1>5. i # N => LinkInv(m, node[i + 1])
  <2>1. InFrame(m) = InFrame(n) /\ Edges(m) = Edges(n) /\ \A k \in 1 .. FrameBits : To(n, k) = To(m, k)
    BY <1>2, <1>3, <1>4 DEF InFrame, Edges, To
  <2>2. \A k \in 1 .. FrameBits : To(n, k) <= To(m, k)
    BY <2>1, <1>1, Times
  <2> QED BY <2>1, <2>2, <1>1, <1>2, <1>3, Here, SenderGoesOn DEF n
<1>6. i # 1 => LinkInv(node[i - 1], m)
  <2> SUFFICES ASSUME i # 1 PROVE LinkInv(node[i - 1], m)
    OBVIOUS
  <2> DEFINE s == node[i - 1]
  <2>1. LinkInv(s, n) /\ s \in NodeType
    BY Here DEF n
  <2> HIDE DEF s
  <2>2. ~InFrame(s) /\ m.wait + Late(120) < To(s, 1)
    BY <2>1, <1>3, <1>4 DEF LinkInv
  <2>3. Whole(s, m)
    BY <2>1, <2>2, <1>3, <1>4, ReadyReceiver
  <2> QED BY <2>2, <2>3, <1>3, <1>4 DEF LinkInv, s
<1> QED BY <1>2, <1>3, <1>4, <1>5, <1>6, QuietStep DEF Fits, n

ChainProofs == INSTANCE AddrChainProofs WITH addr <- addr, Half <- Half

\* A node that takes the number after that of the node before it, or that number without its
\* first bit, takes a step of AddrChain.
LEMMA TakesNumber ==
    ASSUME AddrInv, NEW i \in Nodes, NEW m \in NodeType, node' = [node EXCEPT ![i] = m],
           m.auto_addr # 0, node[i].auto_addr = 0, i # 1 => node[i - 1].auto_addr # 0,
           NEW k, k = IF i = 1 THEN 1 ELSE node[i - 1].auto_addr + 1, m.auto_addr \in {k, k - Half}
    PROVE  Chain!Take(i) /\ Chain!Follows' /\ Chain!Numbered'
<1>1. node \in [Nodes -> NodeType] /\ N \in Nat
  BY Here, ChainAssumption
<1>2. Half \in Nat \ {0} /\ pow2[AddrBits] = 2 * Half
  BY Widths
<1>3. \A n \in NodeType : n.auto_addr \in 0 .. 2 * Half - 1
  BY <1>2, Times
<1>4. addr \in [Nodes -> Nat]
  <2>1. \A j \in Nodes : node[j].auto_addr \in Nat
    BY <1>1, <1>2, <1>3
  <2> QED BY <2>1, Zenon DEF addr
<1>5. i # 1 => i - 1 \in Nodes
  BY <1>1 DEF Nodes
<1>6. addr' = [addr EXCEPT ![i] = m.auto_addr]
  BY <1>1 DEF addr
<1>7. addr[i] = 0 /\ (i # 1 => addr[i - 1] # 0) /\ Chain!Number(i) = k
  BY <1>5 DEF addr, Chain!Number
<1>8. m.auto_addr \in {k, k - Half} \cap (1 .. 2 * Half - 1)
  <2>1. m.auto_addr \in 0 .. 2 * Half - 1
    BY <1>3
  <2> QED BY <2>1, <1>2
<1>9. Chain!Take(i)
  BY <1>6, <1>7, <1>8, Zenon DEF Chain!Take
<1>10. i \in ChainProofs!Nodes /\ addr \in [ChainProofs!Nodes -> Nat]
  BY <1>4 DEF Nodes, ChainProofs!Nodes
<1>11. ChainProofs!Follows /\ ChainProofs!Numbered /\ ChainProofs!Take(i)
  BY <1>9, Zenon DEF AddrInv, ChainProofs!Follows, ChainProofs!Numbered, ChainProofs!Take, ChainProofs!Number,
     ChainProofs!Nodes, Chain!Follows, Chain!Numbered, Chain!Take, Chain!Number, Chain!Nodes
<1>12. ChainProofs!Follows' /\ ChainProofs!Numbered'
  BY <1>1, <1>2, <1>10, <1>11, ChainProofs!TakeFollows
<1>13. Chain!Follows' /\ Chain!Numbered'
  BY <1>12, Zenon DEF ChainProofs!Follows, ChainProofs!Numbered, ChainProofs!Number, ChainProofs!Nodes,
     Chain!Follows, Chain!Numbered, Chain!Number, Chain!Nodes
<1> QED BY <1>9, <1>13

LEMMA StepPrep ==
    ASSUME AddrInv, NEW i \in Nodes, FsmPrep(i)
    PROVE  AddrInv' /\ (addr' = addr \/ Chain!Take(i))
<1> DEFINE n == node[i]
<1>1. n \in NodeType /\ NodeInv(i, n) /\ node \in [Nodes -> NodeType]
  BY Here
<1>2. n.pc = "switch" /\ n.wait = 0 /\ n.fsm = "PREP"
  BY DEF FsmPrep, In, Due
<1>3. n.irq = "on" /\ n.auto_addr = 0 /\ n.bit = 0 /\ n.DOWN_I = 1
  BY <1>1, <1>2 DEF NodeInv, Sending
<1>4. PICK t \in Ticks(120) :
        node' = IF UpDataLow(i) /\ UpClockLow(i)
                THEN [node EXCEPT ![i].auto_addr = 1, ![i].irq = "off", ![i].fsm = "PUSH", ![i].wait = t]
                ELSE [node EXCEPT ![i].fsm = "SYNC", ![i].wait = t]
  BY Zenon DEF FsmPrep
<1>5. t \in Nat /\ t >= 120
  BY Delays
<1> DEFINE head == [n EXCEPT !.auto_addr = 1, !.irq = "off", !.fsm = "PUSH", !.wait = t]
           m == [n EXCEPT !.fsm = "SYNC", !.wait = t]
<1>6. CASE i = 1
  <2>1. node' = [node EXCEPT ![i] = head]
    BY <1>1, <1>4, <1>6 DEF UpDataLow, UpClockLow
  <2>2. /\ head.fsm = "PUSH" /\ head.auto_addr = 1 /\ head.pc = n.pc /\ head.wait = t
        /\ head.bit = n.bit /\ head.DOWN_I = n.DOWN_I /\ head.irq = "off" /\ head \in NodeType
    <3> DEFINE x == 1
    <3>1. x \in 0 .. pow2[AddrBits] - 1
      BY Widths
    <3>2. head = [n EXCEPT !.auto_addr = x, !.irq = "off", !.fsm = "PUSH", !.wait = t]
      OBVIOUS
    <3> HIDE DEF x, n, head
    <3>3. /\ head.fsm = "PUSH" /\ head.auto_addr = x /\ head.pc = n.pc /\ head.wait = t
          /\ head.bit = n.bit /\ head.DOWN_I = n.DOWN_I /\ head.irq = "off" /\ head \in NodeType
      BY <1>1, <1>5, <3>1, <3>2, ZenonT(60) DEF NodeType
    <3> QED BY <3>3 DEF x
  <2> HIDE DEF n, head
  <2>3. NodeInv(i, head)
    BY <1>2, <1>3, <1>6, <2>2 DEF NodeInv, Sending
  <2>4. i # N => LinkInv(head, node[i + 1])
    <3>1. ~InFrame(head) /\ n.fsm \notin Sending /\ head.fsm \in Sending
      BY <1>2, <2>2 DEF InFrame, Sending
    <3>2. To(n, 1) <= To(head, 1)
      BY <1>2, <1>5, <2>2 DEF To, Sending
    <3> QED BY <3>1, <3>2, <1>1, <2>2, Here, SenderStarts DEF n
  <2>5. Fits(i, head)
    BY <1>6, <2>2, <2>3, <2>4 DEF Fits
  <2>6. Chain!Take(i) /\ Chain!Follows' /\ Chain!Numbered'
    <3>1. node[i].auto_addr = 0 /\ head.auto_addr # 0 /\ head \in NodeType
      BY <1>3, <2>2 DEF n
    <3> DEFINE k == IF i = 1 THEN 1 ELSE node[i - 1].auto_addr + 1
    <3>2. head.auto_addr \in {k, k - Half}
      BY <1>6, <2>2
    <3> HIDE DEF k
    <3>3. k = IF i = 1 THEN 1 ELSE node[i - 1].auto_addr + 1
      BY DEF k
    <3> QED BY <1>6, <2>1, <3>1, <3>2, <3>3, TakesNumber
  <2> QED BY <2>1, <2>5, <2>6, ChangeOne
<1>7. CASE i # 1
  <2> DEFINE s == node[i - 1]
  <2>1. s \in NodeType /\ NodeInv(i - 1, s) /\ LinkInv(s, n)
    BY <1>7, Here
  <2>2. ~InFrame(s)
    BY <2>1, <1>2 DEF LinkInv
  <2>3. s.DOWN_I = 1
    BY <2>1, <2>2 DEF NodeInv, InFrame
  <2>4. node' = [node EXCEPT ![i] = m]
    <3>1. ~UpClockLow(i)
      BY <1>7, <2>3 DEF UpClockLow
    <3> QED BY <1>1, <1>4, <3>1
  <2>5. /\ m \in NodeType
        /\ m.sr = n.sr /\ m.rxd = n.rxd /\ m.cnt = n.cnt /\ m.fsm = "SYNC" /\ m.auto_addr = n.auto_addr
        /\ m.pc = n.pc /\ m.wait = t /\ m.bit = n.bit /\ m.DOWN_O = n.DOWN_O /\ m.DOWN_I = n.DOWN_I
        /\ m.irq = n.irq
    BY <1>1, <1>5, ZenonT(60) DEF NodeType
  <2> HIDE DEF n, m, s
  <2>6. NodeInv(i, m)
    BY <1>2, <1>3, <1>7, <2>5 DEF NodeInv, Sending
  <2>7. i # N => LinkInv(m, node[i + 1])
    <3>1. InFrame(m) = InFrame(n) /\ Edges(m) = Edges(n) /\ n.fsm \notin Sending /\ m.fsm \notin Sending
      BY <1>2, <2>5 DEF InFrame, Edges, Sending
    <3>2. \A k \in 1 .. FrameBits : To(n, k) <= To(m, k)
      BY <1>2, <1>5, <2>5 DEF To
    <3> QED BY <3>1, <3>2, <1>1, <1>2, <2>5, Here, SenderGoesOn DEF n
  <2>8. LinkInv(s, m)
    <3>1. ~Cut(s, n)
      BY <1>2 DEF Cut
    <3> QED BY <2>1, <2>5, <1>2, <1>3, <3>1 DEF LinkInv, Whole, Headless
  <2>9. Fits(i, m)
    BY <2>5, <2>6, <2>7, <2>8 DEF Fits, s
  <2> QED BY <2>4, <2>5, <2>9, QuietStep DEF n
<1> QED BY <1>6, <1>7

LEMMA StepSync ==
    ASSUME AddrInv, NEW i \in Nodes, FsmSync(i)
    PROVE  AddrInv' /\ (addr' = addr \/ Chain!Take(i))
<1> DEFINE n == node[i]
           s == node[i - 1]
<1>1. n \in NodeType /\ NodeInv(i, n) /\ node \in [Nodes -> NodeType]
  BY Here
<1>2. n.pc = "switch" /\ n.wait = 0 /\ n.fsm = "SYNC"
  BY DEF FsmSync, In, Due
<1>3. n.irq = "on" /\ n.auto_addr = 0 /\ n.bit = 0 /\ n.DOWN_I = 1 /\ i # 1
  BY <1>1, <1>2 DEF NodeInv, Sending
<1>4. s \in NodeType /\ NodeInv(i - 1, s) /\ LinkInv(s, n)
  BY <1>3, Here
<1>5. CASE n.rxd # 0
  <2>1. PICK t \in Ticks(SyncPeriod) :
          node' = [node EXCEPT ![i].auto_addr = n.rxd, ![i].irq = "off", ![i].fsm = "PUSH", ![i].wait = t]
    BY <1>5, Zenon DEF FsmSync
  <2> DEFINE m == [n EXCEPT !.auto_addr = n.rxd, !.irq = "off", !.fsm = "PUSH", !.wait = t]
  <2>2. node' = [node EXCEPT ![i] = m]
    BY <1>1, <2>1
  <2>3. t \in Nat /\ t >= 200
    BY Delays DEF SyncPeriod
  <2>4. n.rxd \in {s.auto_addr + 1, (s.auto_addr + 1) - Half} /\ s.auto_addr # 0
    BY <1>3, <1>4, <1>5 DEF LinkInv, NodeInv
  <2>5. /\ m.fsm = "PUSH" /\ m.auto_addr = n.rxd /\ m.pc = n.pc /\ m.wait = t
        /\ m.bit = n.bit /\ m.DOWN_I = n.DOWN_I /\ m.irq = "off" /\ m \in NodeType
    <3> DEFINE x == n.rxd
    <3>1. m = [n EXCEPT !.auto_addr = x, !.irq = "off", !.fsm = "PUSH", !.wait = t]
      OBVIOUS
    <3> HIDE DEF n, m
    <3>2. x \in 0 .. pow2[AddrBits] - 1
      BY <1>1 DEF NodeType
    <3> HIDE DEF x
    <3>3. /\ m.fsm = "PUSH" /\ m.auto_addr = x /\ m.pc = n.pc /\ m.wait = t
          /\ m.bit = n.bit /\ m.DOWN_I = n.DOWN_I /\ m.irq = "off" /\ m \in NodeType
      BY <1>1, <2>3, <3>1, <3>2, ZenonT(60) DEF NodeType
    <3> QED BY <3>3 DEF x
  <2> HIDE DEF n, m, s
  <2>6. NodeInv(i, m)
    BY <1>2, <1>3, <1>5, <2>5 DEF NodeInv, Sending
  <2>7. i # N => LinkInv(m, node[i + 1])
    <3>1. ~InFrame(m) /\ n.fsm \notin Sending /\ m.fsm \in Sending
      BY <1>2, <2>5 DEF InFrame, Sending
    <3>2. To(n, 1) <= To(m, 1)
      BY <1>2, <2>3, <2>5 DEF To, Sending
    <3> QED BY <3>1, <3>2, <1>1, <2>5, Here, SenderStarts DEF n
  <2>8. LinkInv(s, m)
    BY <2>5, SenderIsDeaf DEF Sending
  <2>9. Fits(i, m)
    BY <2>5, <2>6, <2>7, <2>8 DEF Fits, s
  <2>10. Chain!Take(i) /\ Chain!Follows' /\ Chain!Numbered'
    <3> DEFINE k == IF i = 1 THEN 1 ELSE node[i - 1].auto_addr + 1
    <3>1. m.auto_addr \in {k, k - Half}
      <4>1. k = s.auto_addr + 1
        BY <1>3 DEF s
      <4>2. m.auto_addr = n.rxd
        BY <2>5
      <4> HIDE DEF k
      <4> QED BY <4>1, <4>2, <2>4, Zenon
    <3>2. m.auto_addr # 0 /\ m \in NodeType /\ node[i].auto_addr = 0 /\ node[i - 1].auto_addr # 0
      BY <1>3, <1>5, <2>4, <2>5 DEF n, s
    <3> HIDE DEF k
    <3>3. k = IF i = 1 THEN 1 ELSE node[i - 1].auto_addr + 1
      BY DEF k
    <3> QED BY <2>2, <3>1, <3>2, <3>3, TakesNumber
  <2> QED BY <2>2, <2>9, <2>10, ChangeOne
<1>6. CASE n.rxd = 0
  <2> DEFINE m == [n EXCEPT !.pc = "cnt"]
  <2>1. node' = [node EXCEPT ![i] = m]
    BY <1>1, <1>6 DEF FsmSync
  <2>2. /\ m \in NodeType
        /\ m.sr = n.sr /\ m.rxd = n.rxd /\ m.cnt = n.cnt /\ m.fsm = n.fsm /\ m.auto_addr = n.auto_addr
        /\ m.pc = "cnt" /\ m.wait = n.wait /\ m.bit = n.bit /\ m.DOWN_O = n.DOWN_O /\ m.DOWN_I = n.DOWN_I
        /\ m.irq = n.irq
    BY <1>1, ZenonT(60) DEF NodeType, Pcs
  <2> HIDE DEF n, m, s
  <2>3. NodeInv(i, m)
    BY <1>2, <1>3, <2>2 DEF NodeInv, Sending
  <2>4. i # N => LinkInv(m, node[i + 1])
    <3>1. InFrame(m) = InFrame(n) /\ Edges(m) = Edges(n) /\ \A k \in 1 .. FrameBits : To(n, k) = To(m, k)
      BY <1>2, <2>2 DEF InFrame, Edges, To
    <3>2. \A k \in 1 .. FrameBits : To(n, k) <= To(m, k)
      BY <3>1, <1>1, Times
    <3> QED BY <3>1, <3>2, <1>1, <1>2, <2>2, Here, SenderGoesOn DEF n
  <2>5. LinkInv(s, m)
    BY <1>2, <1>4, <2>2, SameReceiver
  <2>6. Fits(i, m)
    BY <2>2, <2>3, <2>4, <2>5 DEF Fits, s
  <2> QED BY <2>1, <2>2, <2>6, QuietStep DEF n
<1> QED BY <1>5, <1>6

\* A receiver that has taken back its count, and that s has sent at most one edge since, has
\* the frame's bits, or all but the first, or will start afresh before it has enough for a frame.
LEMMA Restarted ==
    ASSUME Drift <= AddrBits, NEW s \in NodeType, NEW r \in NodeType, s.fsm \in Sending,
           Opened(s, r), r.sr = 0, r.fsm = "SYNC", r.pc = "rxd"
    PROVE  Whole(s, r) \/ Headless(s, r) \/ Cut(s, r)
<1>1. /\ FrameBits \in Nat /\ FrameBits >= 3 /\ s.wait \in Nat /\ s.bit \in 0 .. FrameBits - 1
      /\ s.auto_addr \in 0 .. pow2[AddrBits] - 1
  BY Times
<1>2. Left(r) < 2 * FrameBits + 198 /\ Left(r) \in Nat
  <2>1. Late(SyncPeriod) = 200 + 2 * Drift /\ Drift \in Nat
    BY Delays DEF SyncPeriod
  <2>2. FrameBits = AddrBits + 2 /\ AddrBits \in Nat
    BY ChainAssumption DEF FrameBits
  <2> QED BY <2>1, <2>2 DEF Left
<1>3. CASE r.cnt = 0 /\ Edges(s) = 0
  BY <1>3, ReadyReceiver
<1>4. CASE r.cnt = 0 /\ Edges(s) # 0
  <2>1. To(s, FrameBits) >= 2 * FrameBits + 198
    BY <1>1, <1>4 DEF To, Edges, Sending
  <2>2. FrameBits - r.cnt = FrameBits /\ To(s, FrameBits) \in Int
    BY <1>1, <1>4, Times
  <2> QED BY <2>1, <2>2, <1>1, <1>2 DEF Cut
<1>5. CASE r.cnt = 1 /\ s.pc = "read" /\ s.wait > 0 /\ s.bit # 0
  <2>1. To(s, FrameBits - 1) >= 2 * FrameBits + 198
    BY <1>1, <1>5 DEF To, Sending
  <2>2. FrameBits - r.cnt = FrameBits - 1 /\ To(s, FrameBits - 1) \in Int
    BY <1>1, <1>5, Times
  <2> QED BY <2>1, <2>2, <1>1, <1>2 DEF Cut
<1>6. CASE r.cnt = 1 /\ s.pc = "read" /\ s.wait > 0 /\ s.bit = 0
  <2>1. Edges(s) = 1
    BY <1>1, <1>6 DEF Edges
  <2>2. /\ Temp(s) \div pow2[FrameBits - (0 + 1)] = 2 * (Temp(s) \div pow2[FrameBits - 0]) + BitOf(s, 0)
        /\ Temp(s) \div pow2[FrameBits - 0] = 0 /\ BitOf(s, 0) \in {0, 1}
    <3>1. 0 \in 0 .. FrameBits - 1
      BY <1>1
    <3> QED BY <1>1, <3>1, NextBit
  <2>3. Temp(s) \div pow2[FrameBits - 1] \in {0, 1}
    BY <2>2
  <2>4. pow2[0] = 1 /\ 1 - 1 = 0
    BY Pow2
  <2> QED BY <2>1, <2>3, <2>4, <1>6 DEF Whole, Headless
<1> QED BY <1>3, <1>4, <1>5, <1>6 DEF Opened

LEMMA StepSyncClear ==
    ASSUME AddrInv, Drift <= AddrBits, NEW i \in Nodes, FsmSyncClear(i)
    PROVE  AddrInv' /\ addr' = addr
<1> DEFINE n == node[i]
           s == node[i - 1]
           z == 0
<1>1. n \in NodeType /\ NodeInv(i, n) /\ node \in [Nodes -> NodeType]
  BY Here
<1>2. n.pc \in {"cnt", "sr", "rxd"} /\ n.wait = 0 /\ n.fsm = "SYNC"
  BY <1>1 DEF FsmSyncClear, Due, NodeInv
<1>3. n.irq = "on" /\ n.auto_addr = 0 /\ n.bit = 0 /\ n.DOWN_I = 1 /\ i # 1
  BY <1>1, <1>2 DEF NodeInv, Sending
<1>4. s \in NodeType /\ NodeInv(i - 1, s) /\ LinkInv(s, n)
  BY <1>3, Here
<1>5. z \in 0 .. pow2[FrameBits] - 1 /\ z \in 0 .. pow2[AddrBits] - 1 /\ z \in 0 .. FrameBits - 1 /\ z = 0
  <2>1. pow2[FrameBits] - 1 \in Nat /\ pow2[AddrBits] - 1 \in Nat
    BY Widths
  <2>2. FrameBits - 1 \in Nat
    BY ChainAssumption DEF FrameBits
  <2> QED BY <2>1, <2>2
\* What is left to show of the node's new state m.
<1>6. ASSUME NEW m \in NodeType, node' = [node EXCEPT ![i] = m],
             m.fsm = n.fsm, m.auto_addr = n.auto_addr, m.bit = n.bit, m.DOWN_I = n.DOWN_I, m.irq = n.irq,
             (m.pc \in {"sr", "rxd"} /\ m.wait = 0) \/ m.pc = "switch", LinkInv(s, m)
      PROVE  AddrInv' /\ addr' = addr
  <2> HIDE DEF n, s
  <2>1. NodeInv(i, m)
    BY <1>2, <1>3, <1>6 DEF NodeInv, Sending
  <2>2. i # N => LinkInv(m, node[i + 1])
    <3>1. InFrame(m) = InFrame(n) /\ Edges(m) = Edges(n)
      BY <1>2, <1>6 DEF InFrame, Edges
    <3>2. n.wait \in Nat /\ m.wait \in Nat
      BY <1>1, <1>6, Times
    <3>3. \A k \in 1 .. FrameBits : To(n, k) <= To(m, k)
      BY <1>2, <1>6, <3>2 DEF To
    <3> QED BY <3>1, <3>3, <1>1, <1>2, <1>6, Here, SenderGoesOn DEF n
  <2>3. Fits(i, m)
    BY <1>6, <2>1, <2>2 DEF Fits, s
  <2> QED BY <1>6, <2>3, QuietStep DEF n
<1> HIDE DEF z
<1>7. CASE n.pc = "cnt"
  <2> DEFINE m == [n EXCEPT !.cnt = z, !.pc = "sr"]
  <2>1. node' = [node EXCEPT ![i] = m]
    BY <1>1, <1>5, <1>7 DEF FsmSyncClear, Due
  <2>2. /\ m \in NodeType
        /\ m.sr = n.sr /\ m.rxd = n.rxd /\ m.cnt = z /\ m.fsm = n.fsm /\ m.auto_addr = n.auto_addr
        /\ m.pc = "sr" /\ m.wait = n.wait /\ m.bit = n.bit /\ m.DOWN_O = n.DOWN_O /\ m.DOWN_I = n.DOWN_I
        /\ m.irq = n.irq
    <3>1. m = [n EXCEPT !.cnt = z, !.pc = "sr"]
      OBVIOUS
    <3> HIDE DEF n, m
    <3> QED BY <1>1, <1>5, <3>1, ZenonT(60) DEF NodeType, Pcs
  <2> HIDE DEF n, m, s
  <2>3. m.cnt = 0 /\ Opened(s, m)
    BY <1>5, <2>2 DEF Opened
  <2>4. LinkInv(s, m)
    BY <1>2, <1>3, <1>4, <1>7, <2>2, <2>3 DEF LinkInv
  <2> QED BY <1>2, <2>1, <2>2, <2>4, <1>6
<1>8. CASE n.pc = "sr"
  <2> DEFINE m == [n EXCEPT !.sr = z, !.pc = "rxd"]
  <2>1. node' = [node EXCEPT ![i] = m]
    BY <1>1, <1>5, <1>8 DEF FsmSyncClear, Due
  <2>2. /\ m \in NodeType
        /\ m.sr = z /\ m.rxd = n.rxd /\ m.cnt = n.cnt /\ m.fsm = n.fsm /\ m.auto_addr = n.auto_addr
        /\ m.pc = "rxd" /\ m.wait = n.wait /\ m.bit = n.bit /\ m.DOWN_O = n.DOWN_O /\ m.DOWN_I = n.DOWN_I
        /\ m.irq = n.irq
    <3>1. m = [n EXCEPT !.sr = z, !.pc = "rxd"]
      OBVIOUS
    <3> HIDE DEF n, m
    <3> QED BY <1>1, <1>5, <3>1, ZenonT(60) DEF NodeType, Pcs
  <2> HIDE DEF n, m, s
  <2>3. ASSUME s.fsm \in Sending PROVE Whole(s, m) \/ Headless(s, m) \/ Cut(s, m)
    <3>1. Opened(s, n)
      BY <1>3, <1>4, <1>8, <2>3 DEF LinkInv
    <3>2. Opened(s, m) /\ m.sr = 0 /\ m.fsm = "SYNC"
      BY <3>1, <1>2, <1>5, <2>2 DEF Opened
    <3> QED BY <3>2, <2>2, <2>3, <1>4, Restarted
  <2>4. LinkInv(s, m)
    BY <1>2, <1>3, <1>4, <1>5, <2>2, <2>3 DEF LinkInv
  <2> QED BY <1>2, <2>1, <2>2, <2>4, <1>6
<1>9. CASE n.pc = "rxd"
  <2>1. PICK t \in Ticks(SyncPeriod) : node' = [node EXCEPT ![i].rxd = z, ![i].pc = "switch", ![i].wait = t]
    BY <1>5, <1>9 DEF FsmSyncClear, Due
  <2> DEFINE m == [n EXCEPT !.rxd = z, !.pc = "switch", !.wait = t]
  <2>2. node' = [node EXCEPT ![i] = m]
    BY <1>1, <2>1
  <2>3. t \in Nat /\ t <= Late(SyncPeriod) /\ Late(SyncPeriod) \in Nat
    BY Delays DEF SyncPeriod
  <2>4. /\ m \in NodeType
        /\ m.sr = n.sr /\ m.rxd = z /\ m.cnt = n.cnt /\ m.fsm = n.fsm /\ m.auto_addr = n.auto_addr
        /\ m.pc = "switch" /\ m.wait = t /\ m.bit = n.bit /\ m.DOWN_O = n.DOWN_O /\ m.DOWN_I = n.DOWN_I
        /\ m.irq = n.irq
    <3>1. m = [n EXCEPT !.rxd = z, !.pc = "switch", !.wait = t]
      OBVIOUS
    <3> HIDE DEF n, m
    <3> QED BY <1>1, <1>5, <2>3, <3>1, ZenonT(60) DEF NodeType, Pcs
  <2> HIDE DEF n, m, s
  <2>5. Cut(s, n) => Cut(s, m)
    <3>1. Left(m) <= Left(n) /\ Left(m) \in Nat /\ Left(n) \in Nat
      BY <1>9, <2>3, <2>4 DEF Left
    <3>2. To(s, FrameBits - n.cnt) \in Int
      BY <1>1, <1>4, Times
    <3> QED BY <3>1, <3>2, <2>4 DEF Cut
  <2>6. (Whole(s, n) => Whole(s, m)) /\ (Headless(s, n) => Headless(s, m))
    BY <2>4 DEF Whole, Headless
  <2>7. LinkInv(s, m)
    BY <1>2, <1>3, <1>4, <1>5, <1>9, <2>4, <2>5, <2>6 DEF LinkInv
  <2> QED BY <2>2, <2>4, <2>7, <1>6
<1> QED BY <1>2, <1>7, <1>8, <1>9

LEMMA StepSend ==
    ASSUME AddrInv, NEW i \in Nodes, FsmSend(i)
    PROVE  AddrInv' /\ addr' = addr
<1> DEFINE n == node[i]
           x == BitOf(n, 0)
<1>1. n \in NodeType /\ NodeInv(i, n) /\ node \in [Nodes -> NodeType]
  BY Here
<1>2. n.pc = "switch" /\ n.wait = 0 /\ n.fsm \in Sending
  BY DEF FsmSend, In, Due
<1>3. n.irq # "on" /\ n.bit = 0 /\ n.DOWN_I = 1
  BY <1>1, <1>2 DEF NodeInv
<1>4. PICK t \in Ticks(1) :
        node' = [node EXCEPT ![i].pc = "clock", ![i].bit = 0, ![i].txd = 0, ![i].DOWN_O = x, ![i].wait = t]
  BY Zenon DEF FsmSend
<1> DEFINE m == [n EXCEPT !.pc = "clock", !.bit = 0, !.txd = 0, !.DOWN_O = x, !.wait = t]
<1>5. node' = [node EXCEPT ![i] = m]
  BY <1>1, <1>4
<1>6. 0 \in 0 .. FrameBits - 1 /\ x \in {0, 1} /\ 0 \in 0 .. 3 /\ t \in Nat /\ t >= 1
  <2>1. 0 \in 0 .. FrameBits - 1 /\ n.auto_addr \in 0 .. pow2[AddrBits] - 1
    BY <1>1, Times
  <2>2. x \in {0, 1}
    BY <2>1, NextBit
  <2> QED BY <2>1, <2>2, Delays
<1>7. /\ m \in NodeType /\ m.fsm = n.fsm /\ m.auto_addr = n.auto_addr /\ m.pc = "clock" /\ m.wait = t
      /\ m.bit = 0 /\ m.DOWN_O = x /\ m.DOWN_I = n.DOWN_I /\ m.irq = n.irq
  <2> DEFINE z == 0
  <2>1. z \in 0 .. FrameBits - 1 /\ z \in 0 .. 3
    BY <1>6
  <2>2. m = [n EXCEPT !.pc = "clock", !.bit = z, !.txd = z, !.DOWN_O = x, !.wait = t]
    OBVIOUS
  <2> HIDE DEF z, m, n, x
  <2>3. /\ m \in NodeType /\ m.fsm = n.fsm /\ m.auto_addr = n.auto_addr /\ m.pc = "clock" /\ m.wait = t
        /\ m.bit = z /\ m.DOWN_O = x /\ m.DOWN_I = n.DOWN_I /\ m.irq = n.irq
    BY <1>1, <1>6, <2>1, <2>2, ZenonT(60) DEF NodeType, Pcs
  <2> QED BY <2>3 DEF z
<1>8. BitOf(m, 0) = x
  BY <1>7 DEF BitOf, Temp, NextAddr
<1> HIDE DEF n, m, x
<1>9. NodeInv(i, m)
  BY <1>1, <1>2, <1>3, <1>7, <1>8 DEF NodeInv, Sending
<1>10. i # N => LinkInv(m, node[i + 1])
  <2>1. InFrame(m) = InFrame(n) /\ Edges(m) = Edges(n)
    BY <1>2, <1>3, <1>7 DEF InFrame, Edges
  <2>2. FrameBits \in Nat
    BY <1>1, Times
  <2>3. \A k \in 1 .. FrameBits : To(n, k) <= To(m, k)
    BY <2>2, <1>2, <1>3, <1>6, <1>7 DEF To, Sending
  <2> QED BY <2>1, <2>3, <1>1, <1>2, <1>7, Here, SenderGoesOn DEF n
<1>11. LinkInv(node[i - 1], m)
  BY <1>2, <1>3, <1>7, SenderIsDeaf
<1>12. Fits(i, m)
  BY <1>7, <1>9, <1>10, <1>11 DEF Fits
<1> QED BY <1>5, <1>7, <1>12, QuietStep DEF n

LEMMA StepRead ==
    ASSUME AddrInv, NEW i \in Nodes, TxRead(i)
    PROVE  AddrInv' /\ addr' = addr
<1> DEFINE n == node[i]
<1>1. n \in NodeType /\ NodeInv(i, n) /\ node \in [Nodes -> NodeType]
  BY Here
<1>2. n.pc = "read" /\ n.wait = 0
  BY DEF TxRead, Due
<1>3. n.fsm \in Sending /\ n.irq # "on" /\ n.auto_addr # 0 /\ n.auto_addr \in 0 .. pow2[AddrBits] - 1
  BY <1>1, <1>2, Times DEF NodeInv, Sending
<1>4. PICK level \in DownLevels(i) :
        LET txd == IF n.bit < AddrBits THEN 0 ELSE (2 * n.txd + level) % 4
            high == [n EXCEPT !.txd = txd, !.DOWN_I = 1]
        IN  IF n.bit = FrameBits - 1
            THEN \E t \in Ticks(Gap(n)) :
                   node' = [node EXCEPT ![i] = [Sent(high, txd) EXCEPT !.pc = "switch", !.bit = 0, !.wait = t]]
            ELSE \E t \in Ticks(1) :
                   node' = [node EXCEPT ![i] = [high EXCEPT !.pc = "clock", !.bit = @ + 1, !.wait = t,
                                                            !.DOWN_O = BitOf(n, n.bit + 1)]]
  BY Zenon DEF TxRead
<1> DEFINE txd == IF n.bit < AddrBits THEN 0 ELSE (2 * n.txd + level) % 4
           high == [n EXCEPT !.txd = txd, !.DOWN_I = 1]
           x == BitOf(n, n.bit + 1)
<1>5. level \in {0, 1} /\ n.txd \in 0 .. 3 /\ n.bit \in 0 .. FrameBits - 1 /\ FrameBits \in Nat /\ FrameBits >= 3
  <2>1. n.DOWN_O \in {0, 1} /\ n.txd \in 0 .. 3
    BY <1>1 DEF NodeType
  <2>2. level \in {0, 1}
    <3>1. DownLevels(i) \subseteq {0, 1}
      <4> DEFINE far == IF i = N THEN "float" ELSE node[i + 1].UP_I
      <4>1. far \in {"float", "input", "low", "high"}
        BY Here DEF NodeType
      <4>2. DownLevels(i) = CASE far = "low" -> {0}
                              [] far = "float" -> IF n.DOWN_O = 0 THEN {0} ELSE {0, 1}
                              [] far = "input" -> {n.DOWN_O}
                              [] far = "high" -> IF n.DOWN_O = 0 THEN {0, 1} ELSE {1}
        BY Zenon DEF DownLevels
      <4> HIDE DEF far
      <4> QED BY <2>1, <4>1, <4>2
    <3> QED BY <3>1
  <2> QED BY <2>1, <2>2, <1>1, Times
<1>6. txd \in 0 .. 3
  BY <1>5
<1>7. /\ high \in NodeType /\ high.DOWN_I = 1
      /\ high.fsm = n.fsm /\ high.auto_addr = n.auto_addr /\ high.irq = n.irq /\ high.bit = n.bit
  <2> DEFINE one == 1
  <2>1. one \in {0, 1} /\ high = [n EXCEPT !.txd = txd, !.DOWN_I = one]
    OBVIOUS
  <2> HIDE DEF txd, n, one, high
  <2>2. /\ high \in NodeType /\ high.DOWN_I = one
        /\ high.fsm = n.fsm /\ high.auto_addr = n.auto_addr /\ high.irq = n.irq /\ high.bit = n.bit
    BY <1>1, <2>1, <1>6, ZenonT(60) DEF NodeType
  <2> QED BY <2>2 DEF one
<1> HIDE DEF n, txd, high
<1>8. CASE n.bit = FrameBits - 1
  <2>1. PICK t \in Ticks(Gap(n)) :
          node' = [node EXCEPT ![i] = [Sent(high, txd) EXCEPT !.pc = "switch", !.bit = 0, !.wait = t]]
    BY <1>4, <1>8 DEF txd, high
  <2>2. t \in Nat /\ t >= 200
    BY Delays DEF Gap
  <2> DEFINE m == [Sent(high, txd) EXCEPT !.pc = "switch", !.bit = 0, !.wait = t]
  <2>3. /\ m \in NodeType /\ m.fsm \in Sending /\ m.auto_addr = n.auto_addr /\ m.irq = n.irq
        /\ m.wait = t /\ m.DOWN_I = 1 /\ m.pc = "switch" /\ m.bit = 0
    <3> DEFINE z == 0
               f == IF high.fsm = "SUCC" \/ txd = 1 THEN "SUCC" ELSE "PUSH"
               sent == [high EXCEPT !.fsm = f]
    <3>1. f \in Sending /\ f \in {"INIT", "PREP", "SYNC", "PUSH", "SUCC"} /\ z \in 0 .. FrameBits - 1
          /\ m = [sent EXCEPT !.pc = "switch", !.bit = z, !.wait = t]
      BY <1>5 DEF Sent, Sending
    <3> HIDE DEF f, z
    <3>2. sent \in NodeType /\ sent.fsm = f /\ sent.auto_addr = high.auto_addr /\ sent.irq = high.irq
          /\ sent.DOWN_I = high.DOWN_I
      BY <3>1, <1>7, ZenonT(60) DEF NodeType
    <3> HIDE DEF sent, m
    <3>3. /\ m \in NodeType /\ m.fsm = sent.fsm /\ m.auto_addr = sent.auto_addr /\ m.irq = sent.irq
          /\ m.wait = t /\ m.DOWN_I = sent.DOWN_I /\ m.pc = "switch" /\ m.bit = z
      BY <3>1, <3>2, <2>2, ZenonT(60) DEF NodeType, Pcs
    <3> QED BY <3>1, <3>2, <3>3, <1>7 DEF z
  <2> HIDE DEF m
  <2>4. node' = [node EXCEPT ![i] = m]
    BY <2>1 DEF m
  <2>5. NodeInv(i, m)
    BY <1>1, <1>2, <1>3, <2>3 DEF NodeInv, Sending
  <2>6. i # N => LinkInv(m, node[i + 1])
    <3>1. ~InFrame(m) /\ Edges(m) = Edges(n)
      BY <1>2, <1>8, <2>3 DEF InFrame, Edges
    <3>2. \A k \in 1 .. FrameBits : To(n, k) <= To(m, k)
      BY <1>2, <1>3, <1>5, <1>8, <2>2, <2>3 DEF To, Sending
    <3> QED BY <3>1, <3>2, <1>1, <1>2, <1>3, <2>3, Here, SenderGoesOn DEF n
  <2>7. LinkInv(node[i - 1], m)
    BY <1>3, <2>3, SenderIsDeaf
  <2> QED BY <2>3, <2>4, <2>5, <2>6, <2>7, QuietStep DEF n, Fits
<1>9. CASE n.bit # FrameBits - 1
  <2>1. PICK t \in Ticks(1) :
          node' = [node EXCEPT ![i] = [high EXCEPT !.pc = "clock", !.bit = @ + 1, !.wait = t, !.DOWN_O = x]]
    BY <1>4, <1>9, Zenon DEF txd, high
  <2>2. n.bit + 1 \in 0 .. FrameBits - 1 /\ t \in Nat /\ t >= 1
    BY <1>5, <1>9, Delays
  <2>3. x \in {0, 1}
    BY <1>3, <2>2, NextBit
  <2> DEFINE m == [high EXCEPT !.pc = "clock", !.bit = high.bit + 1, !.wait = t, !.DOWN_O = x]
  <2>4. /\ m \in NodeType /\ m.fsm = n.fsm /\ m.auto_addr = n.auto_addr /\ m.irq = n.irq
        /\ m.wait = t /\ m.DOWN_I = 1 /\ m.DOWN_O = x /\ m.pc = "clock" /\ m.bit = n.bit + 1
    <3> DEFINE b == n.bit + 1
    <3>1. b \in 0 .. FrameBits - 1 /\ m = [high EXCEPT !.pc = "clock", !.bit = b, !.wait = t, !.DOWN_O = x]
      BY <2>2, <1>7
    <3> HIDE DEF b, x, m
    <3>2. /\ m \in NodeType /\ m.fsm = high.fsm /\ m.auto_addr = high.auto_addr /\ m.irq = high.irq
          /\ m.wait = t /\ m.DOWN_I = high.DOWN_I /\ m.DOWN_O = x /\ m.pc = "clock" /\ m.bit = b
      BY <3>1, <2>2, <2>3, <1>7, ZenonT(60) DEF NodeType, Pcs
    <3> QED BY <3>2, <1>7 DEF b
  <2>5. x = BitOf(m, m.bit)
    BY <2>4 DEF BitOf, Temp, NextAddr
  <2>6. node' = [node EXCEPT ![i] = m]
    BY <2>1
  <2> HIDE DEF m, x
  <2>7. NodeInv(i, m)
    BY <1>1, <1>2, <1>3, <2>4, <2>5 DEF NodeInv, Sending
  <2>8. i # N => LinkInv(m, node[i + 1])
    <3>1. InFrame(n) /\ Edges(m) = Edges(n)
      BY <1>2, <1>9, <2>4 DEF InFrame, Edges
    <3>2. \A k \in 1 .. FrameBits : To(n, k) <= To(m, k)
      BY <1>2, <1>3, <1>5, <2>2, <2>4 DEF To, Sending
    <3> QED BY <3>1, <3>2, <1>1, <1>2, <1>3, <2>4, Here, SenderGoesOn DEF n
  <2>9. LinkInv(node[i - 1], m)
    BY <1>3, <2>4, SenderIsDeaf
  <2> QED BY <2>4, <2>6, <2>7, <2>8, <2>9, QuietStep DEF n, Fits
<1> QED BY <1>8, <1>9

\* What autoaddr_rx_cb makes of a receiver: one bit more, or a complete frame.
Shifted(r, v, q) ==
    /\ q \in NodeType
    /\ q.fsm = r.fsm /\ q.auto_addr = r.auto_addr /\ q.pc = r.pc /\ q.wait = r.wait /\ q.bit = r.bit
    /\ q.DOWN_O = r.DOWN_O /\ q.DOWN_I = r.DOWN_I /\ q.irq = r.irq
    /\ r.cnt = FrameBits - 1 => q.cnt = 0 /\ q.sr = 0 /\ q.rxd = v \div 4
    /\ r.cnt # FrameBits - 1 => q.cnt = r.cnt + 1 /\ q.sr = v /\ q.rxd = r.rxd

LEMMA Received ==
    ASSUME NEW r \in NodeType, NEW level \in {0, 1}, NEW t \in Nat,
           NEW q, q = autoaddr_rx_cb(r, t, level),
           NEW v, v = (2 * r.sr + level) % pow2[FrameBits]
    PROVE  Shifted(r, v, q)
<1>1. /\ FrameBits \in Nat /\ FrameBits >= 3 /\ r.cnt \in 0 .. FrameBits - 1 /\ r.sr \in Nat
  <2>1. r.sr \in 0 .. pow2[FrameBits] - 1
    BY DEF NodeType
  <2>2. pow2[FrameBits] - 1 \in Nat
    BY Widths
  <2> QED BY <2>1, <2>2, Times
<1>2. v \in 0 .. pow2[FrameBits] - 1 /\ v \div 4 \in 0 .. pow2[AddrBits] - 1
  <2> DEFINE M == pow2[FrameBits]
             a == 2 * r.sr + level
  <2>1. a \in Nat /\ M \in Nat \ {0} /\ M = 4 * pow2[AddrBits] /\ pow2[AddrBits] \in Nat
    BY <1>1, Widths
  <2>2. v = a % M
    OBVIOUS
  <2> HIDE DEF M, a
  <2>3. v \in 0 .. M - 1
    <3>1. a % M \in 0 .. M - 1
      BY <2>1, Division
    <3> QED BY <3>1, <2>2, Zenon
  <2>4. v \div 4 \in 0 .. pow2[AddrBits] - 1
    BY <2>1, <2>3
  <2> QED BY <2>3, <2>4 DEF M
<1> DEFINE z == 0
           w == v \div 4
           c == r.cnt + 1
           full == [r EXCEPT !.rxd = w, !.sr = z, !.cnt = z, !.UP_I = "high", !.last = t]
           ack == [r EXCEPT !.sr = v, !.cnt = c, !.UP_I = "low", !.last = t]
           bit == [r EXCEPT !.sr = v, !.cnt = c, !.UP_I = "input"]
<1>3. z \in 0 .. pow2[FrameBits] - 1 /\ z \in 0 .. FrameBits - 1
  <2>1. pow2[FrameBits] - 1 \in Nat
    BY Widths
  <2> QED BY <2>1, <1>1
<1>4. CASE r.cnt = FrameBits - 1
  <2>1. q = full
    <3>1. q = CASE r.cnt + 1 >= FrameBits -> full
                [] r.cnt + 1 = FrameBits - 1 -> ack
                [] OTHER -> bit
      BY Zenon DEF autoaddr_rx_cb
    <3> HIDE DEF full, ack, bit
    <3> QED BY <3>1, <1>1, <1>4
  <2> HIDE DEF z, w, full
  <2>2. full = [r EXCEPT !.rxd = w, !.sr = z, !.cnt = z, !.UP_I = "high", !.last = t] /\ w \in 0 .. pow2[AddrBits] - 1
    BY <1>2 DEF full, w
  <2>3. /\ q \in NodeType
        /\ q.fsm = r.fsm /\ q.auto_addr = r.auto_addr /\ q.pc = r.pc /\ q.wait = r.wait /\ q.bit = r.bit
        /\ q.DOWN_O = r.DOWN_O /\ q.DOWN_I = r.DOWN_I /\ q.irq = r.irq
        /\ q.cnt = z /\ q.sr = z /\ q.rxd = w
    BY <2>1, <2>2, <1>3, ZenonT(60) DEF NodeType
  <2> QED BY <2>3, <1>4 DEF Shifted, z, w
<1>5. CASE r.cnt = FrameBits - 2
  <2>1. q = ack
    BY <1>1, <1>5 DEF autoaddr_rx_cb
  <2>2. c \in 0 .. FrameBits - 1 /\ r.cnt # FrameBits - 1
    BY <1>1, <1>5
  <2> HIDE DEF c, ack
  <2>3. ack = [r EXCEPT !.sr = v, !.cnt = c, !.UP_I = "low", !.last = t]
    BY DEF ack
  <2>4. /\ q \in NodeType
        /\ q.fsm = r.fsm /\ q.auto_addr = r.auto_addr /\ q.pc = r.pc /\ q.wait = r.wait /\ q.bit = r.bit
        /\ q.DOWN_O = r.DOWN_O /\ q.DOWN_I = r.DOWN_I /\ q.irq = r.irq
        /\ q.cnt = c /\ q.sr = v /\ q.rxd = r.rxd
    BY <2>1, <2>2, <2>3, <1>2, <1>3, ZenonT(60) DEF NodeType
  <2> QED BY <2>2, <2>4 DEF Shifted, c
<1>6. CASE r.cnt < FrameBits - 2
  <2>1. q = bit
    BY <1>1, <1>6 DEF autoaddr_rx_cb
  <2>2. c \in 0 .. FrameBits - 1 /\ r.cnt # FrameBits - 1
    BY <1>1, <1>6
  <2> HIDE DEF c, bit
  <2>3. bit = [r EXCEPT !.sr = v, !.cnt = c, !.UP_I = "input"]
    BY DEF bit
  <2>4. /\ q \in NodeType
        /\ q.fsm = r.fsm /\ q.auto_addr = r.auto_addr /\ q.pc = r.pc /\ q.wait = r.wait /\ q.bit = r.bit
        /\ q.DOWN_O = r.DOWN_O /\ q.DOWN_I = r.DOWN_I /\ q.irq = r.irq
        /\ q.cnt = c /\ q.sr = v /\ q.rxd = r.rxd
    BY <2>1, <2>2, <2>3, <1>2, ZenonT(60) DEF NodeType
  <2> QED BY <2>2, <2>4 DEF Shifted, c
<1>7. r.cnt = FrameBits - 1 \/ r.cnt = FrameBits - 2 \/ r.cnt < FrameBits - 2
  BY <1>1
<1> QED BY <1>4, <1>5, <1>6, <1>7, Zenon

\* A clock edge comes now, and finds the receiver past FSM_PREP.
LEMMA EdgeAfterPrep ==
    ASSUME NEW s \in NodeType, NEW r \in NodeType, LinkInv(s, r), s.fsm \in Sending, s.pc = "clock", s.wait = 0
    PROVE  To(s, 1) = 0 /\ r.fsm # "INIT" /\ r.fsm # "PREP"
<1>1. r.wait \in Nat /\ Late(120) \in Nat /\ s.bit \in 0 .. FrameBits - 1 /\ FrameBits \in Nat
  BY Times, Delays
<1>2. To(s, 1) = 0
  BY <1>1 DEF To, Sending
<1> HIDE DEF To, Late
<1> QED BY <1>1, <1>2 DEF LinkInv

\* A clock edge and the bit it carries keep the link.
LEMMA EdgeKeepsLink ==
    ASSUME NEW s \in NodeType, NEW r \in NodeType, NEW m \in NodeType, NEW q \in NodeType, NEW v,
           s.fsm \in Sending, s.DOWN_O = BitOf(s, s.bit), LinkInv(s, r), s.pc = "clock", s.wait = 0, r.irq = "on",
           m.fsm = s.fsm, m.auto_addr = s.auto_addr, m.bit = s.bit, m.pc = "read", m.wait >= 1,
           v = (2 * r.sr + s.DOWN_O) % pow2[FrameBits],
           q.fsm = r.fsm, q.wait = r.wait, q.irq = r.irq, q.pc = r.pc,
           r.cnt = FrameBits - 1 => q.cnt = 0 /\ q.sr = 0 /\ q.rxd = v \div 4,
           r.cnt # FrameBits - 1 => q.cnt = r.cnt + 1 /\ q.sr = v /\ q.rxd = r.rxd
    PROVE  LinkInv(m, q)
<1> DEFINE b == s.bit
           T == Temp(s)
<1>1. /\ FrameBits \in Nat /\ FrameBits >= 3 /\ b \in 0 .. FrameBits - 1 /\ r.cnt \in 0 .. FrameBits - 1
      /\ m.wait \in Nat /\ s.auto_addr \in 0 .. pow2[AddrBits] - 1 /\ s.DOWN_O \in {0, 1}
  <2>1. s.DOWN_O \in {0, 1}
    BY DEF NodeType
  <2> QED BY <2>1, Times
<1>2. r.sr \in Nat
  <2>1. r.sr \in 0 .. pow2[FrameBits] - 1
    BY DEF NodeType
  <2> QED BY <2>1, Widths
<1>3. /\ q.fsm = r.fsm /\ q.wait = r.wait /\ q.irq = r.irq /\ q.pc = r.pc
      /\ r.cnt = FrameBits - 1 => q.cnt = 0 /\ q.sr = 0 /\ q.rxd = v \div 4
      /\ r.cnt # FrameBits - 1 => q.cnt = r.cnt + 1 /\ q.sr = v /\ q.rxd = r.rxd
  OBVIOUS
<1>4. q.fsm # "INIT" /\ q.fsm # "PREP" /\ To(s, 1) = 0
  BY <1>3, EdgeAfterPrep
<1>5. Edges(s) = b /\ Edges(m) = IF b = FrameBits - 1 THEN 0 ELSE b + 1
  BY DEF Edges
<1>6. Temp(m) = T
  BY DEF Temp, NextAddr
<1>7. r.rxd # 0 => r.rxd \in {m.auto_addr + 1, (m.auto_addr + 1) - Half}
  BY DEF LinkInv
<1>8. /\ s.DOWN_O = BitOf(s, b) /\ T \div pow2[FrameBits - b] \in Nat
      /\ T \div pow2[FrameBits - (b + 1)] = 2 * (T \div pow2[FrameBits - b]) + s.DOWN_O
      /\ T \div pow2[FrameBits - (b + 1)] < pow2[FrameBits]
      /\ b = FrameBits - 1 => T \div pow2[FrameBits - (b + 1)] = T
  BY <1>1, NextBit
<1>9. T \in Nat /\ T \div 4 \in {0, m.auto_addr + 1}
  BY <1>1, FrameOf
\* If the register has no more than the first bits of the frame, none is shifted out of it.
<1>10. 2 * r.sr + s.DOWN_O < pow2[FrameBits] => v = 2 * r.sr + s.DOWN_O
  <2> DEFINE M == pow2[FrameBits]
             a == 2 * r.sr + s.DOWN_O
  <2>1. a \in Nat /\ M \in Nat \ {0} /\ v = a % M
    BY <1>1, <1>2, Widths
  <2> HIDE DEF M, a
  <2>2. a < M => v = a
    BY <2>1, Division
  <2> QED BY <2>2 DEF M, a
<1> DEFINE P == T \div pow2[FrameBits - b]
           Q == T \div pow2[FrameBits - (b + 1)]
<1> HIDE DEF b, T, P, Q
<1>11. Q = 2 * P + s.DOWN_O /\ P \in Nat /\ Q < pow2[FrameBits] /\ (b = FrameBits - 1 => Q = T)
  BY <1>8 DEF P, Q
<1>12. /\ Whole(s, r) <=> r.cnt = b /\ P = r.sr
       /\ Headless(s, r) <=> r.cnt = b /\ b # 0 /\ P = r.sr + pow2[b - 1]
  BY <1>5 DEF Whole, Headless, P, T
<1>13. b # FrameBits - 1 =>
         /\ Whole(m, q) <=> q.cnt = b + 1 /\ Q = q.sr
         /\ Headless(m, q) <=> q.cnt = b + 1 /\ Q = q.sr + pow2[b]
  <2> SUFFICES ASSUME b # FrameBits - 1
               PROVE  /\ Whole(m, q) <=> q.cnt = b + 1 /\ Q = q.sr
                      /\ Headless(m, q) <=> q.cnt = b + 1 /\ Q = q.sr + pow2[b]
    OBVIOUS
  <2>1. Edges(m) = b + 1 /\ b + 1 # 0 /\ (b + 1) - 1 = b
    BY <1>1, <1>5
  <2> QED BY <2>1, <1>6, Zenon DEF Whole, Headless, Q
<1>14. CASE r.pc = "sr"
  <2>1. r.cnt = 0
    BY <1>14 DEF LinkInv, Opened
  <2>2. q.cnt = 1 /\ q.rxd = r.rxd
    BY <2>1, <1>1, <1>3
  <2>3. Opened(m, q)
    BY <2>2, <1>1 DEF Opened
  <2> QED BY <2>2, <2>3, <1>3, <1>4, <1>7, <1>14 DEF LinkInv
<1>15. CASE r.pc # "sr" /\ Cut(s, r)
  <2>1. r.cnt # FrameBits - 1
    <3>1. r.cnt = FrameBits - 1 => FrameBits - r.cnt = 1
      BY <1>1
    <3>2. Left(r) \in Nat
      BY Times
    <3> QED BY <3>1, <3>2, <1>4, <1>15 DEF Cut
  <2>2. q.cnt = r.cnt + 1 /\ q.rxd = r.rxd
    BY <2>1, <1>3
  <2> DEFINE k == FrameBits - q.cnt
  <2>3. k \in 1 .. FrameBits /\ FrameBits - r.cnt = k + 1
    BY <2>1, <2>2, <1>1
  <2> HIDE DEF k
  <2>4. To(s, k + 1) <= To(m, k)
    BY <2>3, <1>1 DEF To, Sending, b
  <2>5. Left(q) = Left(r) /\ Left(r) \in Nat /\ To(s, k + 1) \in Int /\ To(m, k) \in Int
    <3>1. Left(q) = Left(r)
      BY <1>3 DEF Left
    <3>2. k \in Int /\ k + 1 \in Int
      BY <2>3
    <3> QED BY <3>1, <3>2, Times
  <2>6. Cut(m, q)
    BY <2>3, <2>4, <2>5, <1>3, <1>15 DEF Cut, k
  <2> QED BY <2>2, <2>6, <1>3, <1>4, <1>7, <1>15 DEF LinkInv
<1>16. CASE r.pc # "sr" /\ r.cnt = b /\ b # FrameBits - 1 /\ (Whole(s, r) \/ Headless(s, r))
  <2>1. q.cnt = b + 1 /\ q.sr = v /\ q.rxd = r.rxd
    BY <1>16, <1>3
  <2>2. Whole(m, q) \/ Headless(m, q)
    <3>1. CASE P = r.sr
      BY <3>1, <2>1, <1>10, <1>11, <1>13, <1>16
    <3>2. CASE b # 0 /\ P = r.sr + pow2[b - 1]
      <4>1. pow2[b] = 2 * pow2[b - 1] /\ pow2[b - 1] \in Nat
        <5>1. b \in 1 .. FrameBits /\ b - 1 \in 0 .. FrameBits
          BY <3>2, <1>1
        <5> QED BY <5>1, Pow2
      <4>2. v = 2 * r.sr + s.DOWN_O
        BY <3>2, <4>1, <1>1, <1>2, <1>10, <1>11, Widths
      <4>3. Q = v + pow2[b]
        BY <3>2, <4>1, <4>2, <1>1, <1>2, <1>11
      <4> QED BY <4>3, <2>1, <1>13, <1>16
    <3> QED BY <3>1, <3>2, <1>12, <1>16
  <2> QED BY <2>1, <2>2, <1>3, <1>4, <1>7, <1>16 DEF LinkInv
<1>17. CASE r.pc # "sr" /\ r.cnt = b /\ b = FrameBits - 1 /\ (Whole(s, r) \/ Headless(s, r))
  <2>1. q.cnt = 0 /\ q.sr = 0 /\ q.rxd = v \div 4
    BY <1>17, <1>3
  <2>2. Whole(m, q)
    BY <2>1, <1>5, <1>17, ReadyReceiver
  <2>3. q.rxd # 0 => q.rxd \in {m.auto_addr + 1, (m.auto_addr + 1) - Half}
    <3>1. CASE P = r.sr
      <4>1. v = T
        BY <3>1, <1>10, <1>11, <1>17
      <4> QED BY <4>1, <2>1, <1>9
    <3>2. CASE P = r.sr + pow2[b - 1]
      <4>1. pow2[b] = 2 * pow2[b - 1] /\ pow2[b - 1] \in Nat /\ pow2[b] = 4 * Half /\ Half \in Nat \ {0}
        <5>1. b \in 1 .. FrameBits /\ b - 1 \in 0 .. FrameBits
          BY <1>1, <1>17
        <5> QED BY <5>1, <1>17, Pow2, Widths
      <4>2. v = 2 * r.sr + s.DOWN_O
        BY <3>2, <4>1, <1>1, <1>2, <1>10, <1>11, Widths
      <4>3. T = v + 4 * Half /\ v \in Nat
        BY <3>2, <4>1, <4>2, <1>1, <1>2, <1>11, <1>17
      <4>4. T \div 4 = v \div 4 + Half /\ v \div 4 \in Nat
        BY <4>1, <4>3
      <4>5. T \div 4 = m.auto_addr + 1
        BY <4>1, <4>4, <1>9
      <4> QED BY <4>1, <4>4, <4>5, <2>1
    <3> QED BY <3>1, <3>2, <1>12, <1>17
  <2> QED BY <2>2, <2>3, <1>3, <1>4, <1>17 DEF LinkInv
<1>18. r.pc # "sr" => Whole(s, r) \/ Headless(s, r) \/ Cut(s, r)
  BY DEF LinkInv
<1>19. Whole(s, r) \/ Headless(s, r) => r.cnt = b
  BY <1>12
<1> QED BY <1>14, <1>15, <1>16, <1>17, <1>18, <1>19

LEMMA StepClock ==
    ASSUME AddrInv, NEW i \in Nodes, TxClock(i)
    PROVE  AddrInv' /\ addr' = addr
<1> DEFINE n == node[i]
           r == node[i + 1]
<1>1. n \in NodeType /\ node \in [Nodes -> NodeType] /\ NodeInv(i, n) /\ i \in Nat /\ N \in Nat
  BY Here, ChainAssumption DEF Nodes
<1>2. n.pc = "clock" /\ n.wait = 0
  BY DEF TxClock, Due
<1>3. n.fsm \in Sending /\ n.irq # "on" /\ n.DOWN_O = BitOf(n, n.bit)
  BY <1>1, <1>2 DEF NodeInv
<1>4. PICK t \in Ticks(1), k \in 1 .. Late(2) :
        LET low == [node EXCEPT ![i].DOWN_I = 0, ![i].pc = "read", ![i].wait = t]
        IN  node' = IF i < N /\ r.irq = "on"
                    THEN [low EXCEPT ![i + 1] = autoaddr_rx_cb(@, k + 1, n.DOWN_O)]
                    ELSE low
  BY Zenon DEF TxClock
<1>5. t \in Nat /\ t >= 1 /\ k + 1 \in Nat
  BY Delays
<1> DEFINE m == [n EXCEPT !.DOWN_I = 0, !.pc = "read", !.wait = t]
<1>6. /\ m \in NodeType /\ m.fsm = n.fsm /\ m.auto_addr = n.auto_addr /\ m.bit = n.bit /\ m.pc = "read"
      /\ m.wait = t /\ m.DOWN_O = n.DOWN_O /\ m.irq = n.irq /\ m.DOWN_I = 0
  <2> DEFINE z == 0
  <2>1. z \in {0, 1} /\ m = [n EXCEPT !.DOWN_I = z, !.pc = "read", !.wait = t]
    OBVIOUS
  <2> HIDE DEF z, m, n
  <2>2. /\ m \in NodeType /\ m.fsm = n.fsm /\ m.auto_addr = n.auto_addr /\ m.bit = n.bit /\ m.pc = "read"
        /\ m.wait = t /\ m.DOWN_O = n.DOWN_O /\ m.irq = n.irq /\ m.DOWN_I = z
    BY <1>1, <1>5, <2>1, ZenonT(60) DEF NodeType, Pcs
  <2> QED BY <2>2 DEF z
<1> DEFINE low == [node EXCEPT ![i] = m]
           level == n.DOWN_O
           q == autoaddr_rx_cb(r, k + 1, level)
<1>7. node' = IF i < N /\ r.irq = "on" THEN [low EXCEPT ![i + 1] = q] ELSE low
  <2> DEFINE old == [node EXCEPT ![i].DOWN_I = 0, ![i].pc = "read", ![i].wait = t]
  <2>1. old = low
    BY <1>1
  <2>2. i < N => low[i + 1] = r
    BY <1>1 DEF Nodes
  <2>3. node' = IF i < N /\ r.irq = "on"
                THEN [old EXCEPT ![i + 1] = autoaddr_rx_cb(old[i + 1], k + 1, level)]
                ELSE old
    BY <1>4, Zenon
  <2> HIDE DEF old, low, r, n, level
  <2> QED BY <2>1, <2>2, <2>3, Zenon
<1>8. NodeInv(i, m)
  <2>1. BitOf(m, m.bit) = BitOf(n, n.bit)
    BY <1>6 DEF BitOf, Temp, NextAddr
  <2> HIDE DEF n, m
  <2> QED BY <1>1, <1>2, <1>3, <1>6, <2>1 DEF NodeInv, Sending
<1>9. LinkInv(node[i - 1], m)
  BY <1>3, <1>6, SenderIsDeaf
<1>10. i # N => /\ r \in NodeType /\ LinkInv(n, r) /\ NodeInv(i + 1, r) /\ i + 1 \in Nodes /\ i + 1 # i
                /\ r.fsm # "INIT" /\ r.fsm # "PREP"
  <2> SUFFICES ASSUME i # N
               PROVE  /\ r \in NodeType /\ LinkInv(n, r) /\ NodeInv(i + 1, r) /\ i + 1 \in Nodes /\ i + 1 # i
                      /\ r.fsm # "INIT" /\ r.fsm # "PREP"
    OBVIOUS
  <2>1. r \in NodeType /\ LinkInv(n, r) /\ i + 1 \in Nodes
    BY Here
  <2>2. NodeInv(i + 1, r)
    BY <2>1 DEF AddrInv
  <2>3. r.fsm # "INIT" /\ r.fsm # "PREP"
    BY <2>1, <1>1, <1>2, <1>3, EdgeAfterPrep
  <2> QED BY <1>1, <2>1, <2>2, <2>3
<1> HIDE DEF n, m, r, level
<1>11. CASE i < N /\ r.irq = "on"
  <2>1. i # N /\ level \in {0, 1} /\ level = n.DOWN_O
    BY <1>1, <1>11 DEF NodeType, level
  <2>2. PICK v : v = (2 * r.sr + level) % pow2[FrameBits]
    OBVIOUS
  <2>3. PICK u \in Nat, lev \in {0, 1}, p \in NodeType : u = k + 1 /\ lev = level /\ p = r
    BY <2>1, <1>5, <1>10, Zenon
  <2> HIDE DEF q
  <2>4. /\ q \in NodeType
        /\ q.fsm = r.fsm /\ q.auto_addr = r.auto_addr /\ q.pc = r.pc /\ q.wait = r.wait /\ q.bit = r.bit
        /\ q.DOWN_O = r.DOWN_O /\ q.DOWN_I = r.DOWN_I /\ q.irq = r.irq
        /\ r.cnt = FrameBits - 1 => q.cnt = 0 /\ q.sr = 0 /\ q.rxd = v \div 4
        /\ r.cnt # FrameBits - 1 => q.cnt = r.cnt + 1 /\ q.sr = v /\ q.rxd = r.rxd
    <3>1. PICK w : w = q
      OBVIOUS
    <3>2. w = autoaddr_rx_cb(p, u, lev)
      BY <2>3, <3>1, Zenon DEF q
    <3>3. v = (2 * p.sr + lev) % pow2[FrameBits]
      BY <2>2, <2>3, Zenon
    <3>4. Shifted(p, v, w)
      BY <3>2, <3>3, Received
    <3>5. Shifted(r, v, q)
      BY <3>1, <3>4, <2>3, Zenon
    <3> QED BY <3>5 DEF Shifted
  <2>5. LinkInv(m, q)
    <3>1. m.wait >= 1 /\ v = (2 * r.sr + n.DOWN_O) % pow2[FrameBits]
      BY <2>1, <2>2, <1>5, <1>6
    <3> QED BY <2>1, <2>4, <3>1, <1>1, <1>2, <1>3, <1>6, <1>10, <1>11, EdgeKeepsLink
  <2>6. NodeInv(i + 1, q)
    <3>1. BitOf(q, q.bit) = BitOf(r, r.bit)
      BY <2>4 DEF BitOf, Temp, NextAddr
    <3>2. r.pc # "boot"
      BY <2>1, <1>10 DEF NodeInv
    <3> QED BY <2>1, <2>4, <1>10, <3>1, <3>2 DEF NodeInv
  <2>7. ASSUME i + 1 # N PROVE LinkInv(q, node[(i + 1) + 1])
    <3>1. LinkInv(r, node[(i + 1) + 1]) /\ node[(i + 1) + 1] \in NodeType
      BY <2>1, <2>7, <1>10, Here DEF r
    <3>2. InFrame(q) = InFrame(r) /\ Edges(q) = Edges(r) /\ \A j \in 1 .. FrameBits : To(r, j) = To(q, j)
      BY <2>4 DEF InFrame, Edges, To
    <3>3. \A j \in 1 .. FrameBits : To(r, j) <= To(q, j)
      BY <3>2, <2>1, <1>10, Times
    <3> QED BY <3>1, <3>2, <3>3, <2>1, <2>4, <1>10, SenderGoesOn
  <2>8. node' = [[node EXCEPT ![i] = m] EXCEPT ![i + 1] = q]
    BY <1>7, <1>11
  <2>9. /\ node' \in [Nodes -> NodeType] /\ node'[i] = m /\ node'[i + 1] = q
        /\ \A j \in Nodes : j # i /\ j # i + 1 => node'[j] = node[j]
    BY <2>1, <2>4, <2>8, <1>1, <1>6, <1>10
  <2>10. \A j \in Nodes : NodeInv(j, node'[j])
    <3> SUFFICES ASSUME NEW j \in Nodes PROVE NodeInv(j, node'[j])
      OBVIOUS
    <3>1. NodeInv(j, node[j])
      BY DEF AddrInv
    <3> QED BY <2>6, <2>9, <1>8, <3>1
  <2>11. ASSUME NEW j \in Nodes \ {N} PROVE LinkInv(node'[j], node'[j + 1])
    <3>1. /\ j \in Nodes /\ j + 1 \in Nodes /\ j \in Nat
          /\ (j = i \/ j = i + 1 \/ j + 1 = i \/ (j # i /\ j # i + 1 /\ j + 1 # i /\ j + 1 # i + 1))
      BY <1>1 DEF Nodes
    <3>2. CASE j = i
      BY <3>2, <2>5, <2>9
    <3>3. CASE j = i + 1
      <4>1. node'[j] = q /\ node'[j + 1] = node[j + 1] /\ i + 1 # N
        BY <3>1, <3>3, <2>9, <1>1
      <4>2. LinkInv(q, node[(i + 1) + 1])
        BY <4>1, <2>7
      <4> QED BY <4>1, <4>2, <3>3
    <3>4. CASE j + 1 = i
      <4>1. node'[j] = node[j] /\ node'[j + 1] = m /\ j = i - 1
        BY <3>1, <3>4, <2>9, <1>1
      <4> QED BY <4>1, <1>9
    <3>5. CASE j # i /\ j # i + 1 /\ j + 1 # i /\ j + 1 # i + 1
      <4>1. node'[j] = node[j] /\ node'[j + 1] = node[j + 1]
        BY <3>1, <3>5, <2>9, Zenon
      <4>2. LinkInv(node[j], node[j + 1])
        BY DEF AddrInv
      <4> QED BY <4>1, <4>2
    <3> QED BY <3>1, <3>2, <3>3, <3>4, <3>5
  <2>12. \A j \in Nodes : node'[j].auto_addr = node[j].auto_addr
    BY <2>4, <2>9, <1>6, Zenon DEF n, r
  <2>13. addr' = addr /\ Chain!Follows' /\ Chain!Numbered'
    BY <2>9, <2>12, SameNumbers
  <2> QED BY <2>9, <2>10, <2>11, <2>13, Zenon DEF AddrInv, TypeOK
<1>12. CASE ~(i < N /\ r.irq = "on")
  <2>1. node' = [node EXCEPT ![i] = m]
    BY <1>7, <1>12
  <2>2. ASSUME i # N PROVE LinkInv(m, r)
    <3>1. r.irq # "on"
      BY <2>2, <1>1, <1>12 DEF Nodes
    <3> QED BY <2>2, <3>1, <1>10 DEF LinkInv
  <2>3. Fits(i, m)
    BY <2>2, <1>6, <1>8, <1>9 DEF Fits, r
  <2> QED BY <2>1, <2>3, <1>6, QuietStep DEF n
<1> QED BY <1>11, <1>12

\* Time does not pass beyond the next thing due.
LEMMA TickIsShort ==
    ASSUME TypeOK
    PROVE  /\ Min(Remaining) \in Nat
           /\ \A i \in Nodes : /\ Min(Remaining) <= node[i].wait
                               /\ node[i].last # 0 => Min(Remaining) <= node[i].last - 1
<1>1. \A i \in Nodes : node[i].wait \in Nat /\ node[i].last \in Nat
  BY DEF TypeOK, NodeType
<1>2. Remaining \in SUBSET Nat
  BY <1>1 DEF Remaining
<1>3. 1 \in Nodes
  BY ChainAssumption DEF Nodes
<1>4. \A i \in Nodes : node[i].wait \in Remaining /\ (node[i].last # 0 => node[i].last - 1 \in Remaining)
  BY Zenon DEF Remaining
<1>5. PICK d \in Remaining : \A e \in Remaining : d <= e
  BY <1>2, <1>3, <1>4, Least
<1>6. Min(Remaining) \in Remaining /\ \A e \in Remaining : Min(Remaining) <= e
  BY <1>5, Zenon DEF Min
<1> QED BY <1>2, <1>4, <1>6

LEMMA StepTick ==
    ASSUME AddrInv, Tick
    PROVE  AddrInv' /\ addr' = addr
<1> DEFINE d == Min(Remaining)
           Older(n) == [n EXCEPT !.wait = @ - d, !.last = IF @ = 0 THEN 0 ELSE @ - d]
<1>1. TypeOK /\ node \in [Nodes -> NodeType] /\ N \in Nat
  BY ChainAssumption DEF AddrInv, TypeOK
<1>2. /\ d \in Nat /\ d > 0
      /\ \A i \in Nodes : d <= node[i].wait /\ (node[i].last # 0 => d <= node[i].last - 1)
  BY <1>1, TickIsShort DEF Tick
<1>3. node' = [i \in Nodes |-> Older(node[i])]
  BY Zenon DEF Tick
<1> HIDE DEF d
<1>4. ASSUME NEW i \in Nodes
      PROVE  /\ node'[i] \in NodeType /\ node'[i].wait = node[i].wait - d
             /\ node'[i].sr = node[i].sr /\ node'[i].rxd = node[i].rxd /\ node'[i].cnt = node[i].cnt
             /\ node'[i].fsm = node[i].fsm /\ node'[i].auto_addr = node[i].auto_addr
             /\ node'[i].pc = node[i].pc /\ node'[i].bit = node[i].bit /\ node'[i].DOWN_O = node[i].DOWN_O
             /\ node'[i].DOWN_I = node[i].DOWN_I /\ node'[i].irq = node[i].irq
  <2> DEFINE n == node[i]
             w == n.wait - d
             l == IF n.last = 0 THEN 0 ELSE n.last - d
  <2>1. n \in NodeType /\ n.wait \in Nat /\ n.last \in Nat
    BY <1>1 DEF NodeType
  <2>2. w \in Nat /\ l \in Nat
    BY <2>1, <1>2
  <2>3. node'[i] = [n EXCEPT !.wait = w, !.last = l]
    BY <1>3, Zenon
  <2> HIDE DEF n, w, l
  <2> DEFINE m == node'[i]
  <2>4. /\ m \in NodeType /\ m.wait = w
        /\ m.sr = n.sr /\ m.rxd = n.rxd /\ m.cnt = n.cnt /\ m.fsm = n.fsm /\ m.auto_addr = n.auto_addr
        /\ m.pc = n.pc /\ m.bit = n.bit /\ m.DOWN_O = n.DOWN_O /\ m.DOWN_I = n.DOWN_I /\ m.irq = n.irq
    BY <2>1, <2>2, <2>3, ZenonT(60) DEF NodeType
  <2> QED BY <2>4 DEF n, w
<1>5. node' \in [Nodes -> NodeType]
  <2>1. node' = [i \in Nodes |-> node'[i]]
    BY <1>3, Zenon
  <2> QED BY <2>1, <1>4, Zenon
<1>6. ASSUME NEW i \in Nodes PROVE NodeInv(i, node'[i]) /\ node[i].pc \notin {"cnt", "sr", "rxd"}
  <2>1. NodeInv(i, node[i]) /\ d <= node[i].wait
    BY <1>2 DEF AddrInv
  <2>2. BitOf(node'[i], node'[i].bit) = BitOf(node[i], node[i].bit)
    BY <1>4 DEF BitOf, Temp, NextAddr
  <2>3. node[i].pc \notin {"cnt", "sr", "rxd"}
    BY <2>1, <1>2 DEF NodeInv
  <2> QED BY <2>1, <2>2, <2>3, <1>4 DEF NodeInv
<1>7. ASSUME NEW i \in Nodes \ {N} PROVE LinkInv(node'[i], node'[i + 1])
  <2> DEFINE s == node[i]
             r == node[i + 1]
             m == node'[i]
             q == node'[i + 1]
  <2>1. i \in Nodes /\ i + 1 \in Nodes
    BY <1>1 DEF Nodes
  <2>2. LinkInv(s, r) /\ s \in NodeType /\ r \in NodeType /\ r.pc \notin {"cnt", "sr", "rxd"}
    BY <2>1, <1>1, <1>6 DEF AddrInv
  <2>3. /\ m.wait = s.wait - d /\ m.fsm = s.fsm /\ m.auto_addr = s.auto_addr /\ m.pc = s.pc /\ m.bit = s.bit
        /\ q.wait = r.wait - d /\ q.sr = r.sr /\ q.rxd = r.rxd /\ q.cnt = r.cnt /\ q.fsm = r.fsm /\ q.irq = r.irq
        /\ q.pc = r.pc
    BY <2>1, <1>4
  <2> HIDE DEF s, r, m, q
  <2>4. s.wait \in Nat /\ r.wait \in Nat /\ Late(120) \in Nat /\ FrameBits - r.cnt \in Int
    BY <2>2, Times, Delays
  <2>5. \A k \in Int : To(m, k) = To(s, k) - d /\ To(s, k) \in Int
    <3> TAKE k \in Int
    <3> DEFINE x == CASE s.fsm = "INIT" -> 240
                      [] s.fsm = "PREP" -> 120
                      [] s.fsm = "SYNC" -> 200
                      [] s.fsm \in Sending /\ s.pc = "clock" -> IF k > FrameBits - s.bit THEN 199 ELSE 0 - 1
                      [] s.fsm \in Sending /\ s.pc = "read" -> IF k > FrameBits - 1 - s.bit THEN 200 ELSE 0
                      [] OTHER -> 0
    <3>1. To(s, k) = s.wait + 2 * k - 1 + x /\ To(m, k) = m.wait + 2 * k - 1 + x
      BY <2>3, Zenon DEF To
    <3>2. x \in Int
      BY DEF Sending
    <3> HIDE DEF x
    <3> QED BY <3>1, <3>2, <2>3, <2>4, <1>2
  <2>6. /\ r.wait < To(s, 1) => q.wait < To(m, 1)
        /\ r.wait + Late(120) < To(s, 1) => q.wait + Late(120) < To(m, 1)
        /\ Cut(s, r) => Cut(m, q)
    <3>1. To(m, 1) = To(s, 1) - d /\ To(s, 1) \in Int
      BY <2>5
    <3>2. Left(r) = r.wait /\ Left(q) = q.wait
      BY <2>2, <2>3 DEF Left
    <3>3. FrameBits - q.cnt = FrameBits - r.cnt
      BY <2>3
    <3>4. To(m, FrameBits - r.cnt) = To(s, FrameBits - r.cnt) - d /\ To(s, FrameBits - r.cnt) \in Int
      BY <2>4, <2>5
    <3> HIDE DEF To, Left, Late
    <3>5. Cut(s, r) => Cut(m, q)
      BY <2>3, <2>4, <3>2, <3>3, <3>4, <1>2 DEF Cut
    <3> QED BY <2>3, <2>4, <3>1, <3>5, <1>2
  <2>7. InFrame(m) = InFrame(s) /\ Edges(m) = Edges(s) /\ Temp(m) = Temp(s)
    BY <2>3 DEF InFrame, Edges, Temp, NextAddr
  <2>8. (Whole(s, r) => Whole(m, q)) /\ (Headless(s, r) => Headless(m, q))
    BY <2>3, <2>7 DEF Whole, Headless
  <2>9. LinkInv(m, q)
    BY <2>2, <2>3, <2>6, <2>7, <2>8, ZenonT(60) DEF LinkInv
  <2> QED BY <2>9 DEF m, q
<1>8. addr' = addr /\ Chain!Follows' /\ Chain!Numbered'
  BY <1>4, <1>5, SameNumbers
<1> QED BY <1>5, <1>6, <1>7, <1>8, Zenon DEF AddrInv, TypeOK

-----------------------------------------------------------------------------
(* The theorems.                                                            *)

\* A chain within the tolerances starts well: a node looks at its lines at most 440 ticks of the
\* fastest clock after the first was powered up, which cannot send before 441.
LEMMA StartFits ==
    ASSUME Tolerances, Init
    PROVE  AddrInv /\ Chain!Init
<1>1. PICK skew \in [Nodes -> Skews], delay \in [Nodes -> Ticks(200)] :
        node = [i \in Nodes |-> Off(skew[i], delay[i])]
  BY Zenon DEF Init
<1>2. N \in Nat /\ Drift \in Nat /\ Skews \subseteq Nat
  BY ChainAssumption
<1>3. ASSUME NEW i \in Nodes
      PROVE  /\ node[i] \in NodeType /\ node[i].wait \in Nat /\ node[i].wait >= 200
             /\ node[i].wait + 2 * Drift <= 320
             /\ node[i].pc = "boot" /\ node[i].fsm = "INIT" /\ node[i].irq = "off" /\ node[i].auto_addr = 0
             /\ node[i].cnt = 0 /\ node[i].sr = 0 /\ node[i].rxd = 0 /\ node[i].bit = 0 /\ node[i].DOWN_I = 1
  <2> DEFINE n == node[i]
             w == skew[i] + delay[i]
             z == 0
             one == 1
  <2>1. skew[i] \in Nat /\ skew[i] + 4 * Drift <= 120
    BY <1>2 DEF Tolerances
  <2>2. delay[i] \in Nat /\ delay[i] >= 200 /\ delay[i] <= 200 + 2 * Drift
    BY Delays
  <2>3. w \in Nat /\ w >= 200 /\ w + 2 * Drift <= 320
    BY <2>1, <2>2, <1>2
  <2>4. n = [sr |-> z, rxd |-> z, cnt |-> z, txd |-> z, fsm |-> "INIT", auto_addr |-> z,
             pc |-> "boot", wait |-> w, bit |-> z, UP_I |-> "float", DOWN_O |-> one, DOWN_I |-> one,
             irq |-> "off", last |-> z]
    BY <1>1, Zenon DEF Off
  <2>5. /\ z \in 0 .. pow2[FrameBits] - 1 /\ z \in 0 .. pow2[AddrBits] - 1 /\ z \in 0 .. FrameBits - 1
        /\ z \in 0 .. 3 /\ one \in {0, 1}
    <3>1. pow2[FrameBits] - 1 \in Nat /\ pow2[AddrBits] - 1 \in Nat
      BY Widths
    <3>2. FrameBits - 1 \in Nat
      BY ChainAssumption DEF FrameBits
    <3> QED BY <3>1, <3>2
  <2> HIDE DEF w, z, one, n
  <2>6. n \in NodeType
    BY <2>3, <2>4, <2>5 DEF NodeType, Pcs
  <2>7. /\ n.wait = w /\ n.pc = "boot" /\ n.fsm = "INIT" /\ n.irq = "off" /\ n.auto_addr = z
        /\ n.cnt = z /\ n.sr = z /\ n.rxd = z /\ n.bit = z /\ n.DOWN_I = one
    BY <2>4
  <2> QED BY <2>3, <2>6, <2>7 DEF n, z, one
<1>4. TypeOK
  <2>1. node = [i \in Nodes |-> node[i]]
    BY <1>1, Zenon
  <2> QED BY <2>1, <1>3, Zenon DEF TypeOK
<1>5. ASSUME NEW i \in Nodes PROVE NodeInv(i, node[i])
  BY <1>3 DEF NodeInv, Sending
<1>6. ASSUME NEW i \in Nodes \ {N} PROVE LinkInv(node[i], node[i + 1])
  <2> DEFINE s == node[i]
             r == node[i + 1]
  <2>1. i + 1 \in Nodes
    BY <1>2 DEF Nodes
  <2>2. /\ s.wait \in Nat /\ s.wait >= 200 /\ s.pc = "boot" /\ s.fsm = "INIT"
        /\ r.wait \in Nat /\ r.wait + 2 * Drift <= 320 /\ r.fsm = "INIT" /\ r.irq = "off"
    BY <2>1, <1>3
  <2> HIDE DEF s, r
  <2>3. To(s, 1) = s.wait + 241 /\ ~InFrame(s)
    BY <2>2 DEF To, InFrame, Sending
  <2>4. Late(120) \in Nat /\ Late(120) <= 120 + 2 * Drift
    BY Delays
  <2>5. r.wait + Late(120) < To(s, 1)
    BY <2>2, <2>3, <2>4, <1>2
  <2>6. LinkInv(s, r)
    BY <2>2, <2>3, <2>5 DEF LinkInv
  <2> QED BY <2>6 DEF s, r
<1>7. addr = [i \in Nodes |-> 0]
  BY <1>3, Zenon DEF addr
<1>8. Chain!Init
  BY <1>7 DEF Chain!Init, Chain!Nodes, Nodes
<1>9. Chain!Follows /\ Chain!Numbered
  BY <1>7 DEF Chain!Follows, Chain!Numbered, Chain!Nodes, Nodes
<1> QED BY <1>4, <1>5, <1>6, <1>8, <1>9, Zenon DEF AddrInv

\* Every step keeps the invariant, and is a step of AddrChain or none at all.
LEMMA StepFits ==
    ASSUME AddrInv, Drift <= AddrBits, [Next]_vars
    PROVE  AddrInv' /\ [Chain!Next]_addr
<1>1. CASE UNCHANGED vars
  <2>1. node' = node
    BY <1>1 DEF vars
  <2>2. addr' = addr /\ Chain!Follows' /\ Chain!Numbered'
    BY <2>1, SameNumbers DEF AddrInv, TypeOK
  <2> QED BY <2>1, <2>2, Zenon DEF AddrInv, TypeOK
<1>2. CASE Tick
  BY <1>2, StepTick
<1>3. ASSUME NEW i \in Nodes, Step(i) PROVE AddrInv' /\ [Chain!Next]_addr
  <2>1. AddrInv' /\ (addr' = addr \/ Chain!Take(i))
    BY <1>3, StepBoot, StepInit, StepPrep, StepSync, StepSyncClear, StepSend, StepClock, StepRead, StepTimer
       DEF Step
  <2>2. i \in Chain!Nodes
    BY DEF Nodes, Chain!Nodes
  <2> QED BY <2>1, <2>2, Zenon DEF Chain!Next
<1> QED BY <1>1, <1>2, <1>3 DEF Next

\* Nodes whose clocks and starts are not further apart than Tolerances keep the whole invariant.
THEOREM Synchronised ==
    ASSUME Tolerances
    PROVE  Spec => []AddrInv
<1>1. Init => AddrInv
  BY StartFits
<1>2. AddrInv /\ [Next]_vars => AddrInv'
  BY StepFits DEF Tolerances
<1> QED BY <1>1, <1>2, PTL DEF Spec

\* The state of every node keeps its types; in particular the receiver's count stays below
\* the length of a frame and the released address within its field.
THEOREM TypeCorrect ==
    ASSUME Tolerances
    PROVE  Spec => []TypeOK
<1>1. AddrInv => TypeOK
  BY DEF AddrInv
<1> QED BY <1>1, Synchronised, PTL

\* A listening node takes a frame for complete only at its last bit: autoaddr_rx_cb never takes
\* the end of one frame and the beginning of the next for an address, although FSM_SYNC may have
\* started afresh in the middle of one and the clocks of the two nodes differ.
THEOREM FramesAligned ==
    ASSUME Tolerances
    PROVE  Spec => []FrameAligned
<1>1. ASSUME AddrInv PROVE FrameAligned
  <2> SUFFICES ASSUME NEW i \in Nodes \ {N}, node[i].wait = 0, node[i].pc = "clock",
                      node[i + 1].irq = "on", node[i + 1].cnt = FrameBits - 1
               PROVE  node[i].bit = FrameBits - 1
    BY DEF FrameAligned, Due
  <2> DEFINE s == node[i]
             r == node[i + 1]
  <2>1. /\ LinkInv(s, r) /\ NodeInv(i, s) /\ s \in NodeType /\ r \in NodeType
    BY <1>1, Here
  <2>2. s.fsm \in Sending /\ Edges(s) = s.bit
    BY <2>1 DEF NodeInv, Edges
  <2>3. Left(r) \in Nat /\ FrameBits - r.cnt = 1 /\ To(s, 1) = 0 /\ FrameBits - 1 # 0 /\ FrameBits - 1 # 1
    <3>1. FrameBits \in Nat /\ FrameBits >= 3 /\ Left(r) \in Nat
      BY <2>1, Times
    <3>2. To(s, 1) = 0
      BY <2>1, <2>2, EdgeAfterPrep
    <3> QED BY <3>1, <3>2
  <2>4. ~Cut(s, r)
    BY <2>3 DEF Cut
  <2>5. ~Opened(s, r)
    BY <2>3 DEF Opened
  <2> QED BY <2>1, <2>2, <2>4, <2>5 DEF LinkInv, Whole, Headless
<1> QED BY <1>1, Synchronised, PTL

\* The addressed nodes are the head of the chain, however long it is; those up to Half, the first
\* bit of the address field (32 in the firmware), have the numbers of their places, no two the same.
THEOREM NumberedByPlace ==
    ASSUME Tolerances
    PROVE  Spec => []ChainNumbered
<1>1. ASSUME AddrInv PROVE ChainNumbered
  <2>1. Chain!Follows /\ Chain!Numbered
    BY <1>1 DEF AddrInv
  <2> QED BY <2>1 DEF ChainNumbered, Chain!Numbered, Chain!Unique
<1> QED BY <1>1, Synchronised, PTL

\* drv_autoaddr.c implements AddrChain: every step of a node, of the lines or of time is one
\* in which a node takes, after the node before it, the next number with or without its first
\* bit, or it changes no address.
THEOREM ImplementsChain ==
    ASSUME Tolerances
    PROVE  Spec => Chain!Init /\ [][Chain!Next]_addr
<1>1. Init => Chain!Init
  BY StartFits
<1>2. AddrInv /\ [Next]_vars => [Chain!Next]_addr
  BY StepFits DEF Tolerances
<1> QED BY <1>1, <1>2, Synchronised, PTL DEF Spec
=============================================================================
