----------------------------- MODULE KernelProofs ----------------------------
(***************************************************************************)
(* What threads get from the mutex, the event set and the timers, for any  *)
(* number of threads, any priorities, bits and time limits, and a tick of  *)
(* any width.                                                              *)
(***************************************************************************)
EXTENDS Kernel, ListsProofs, FiniteSetTheorems

Objects == {"mutex", "event"}
Statuses == {Ready, Waits("mutex"), Waits("sleep")} \cup {Receiving(r) : r \in Receives}
Ticks == 0 .. RT_TICK_MAX
TimerOf == [timer : Threads \cup {timer}, timeout_tick : Ticks]

-----------------------------------------------------------------------------
(* The operations on the lists.                                             *)

\* rt_ipc_list_suspend puts the thread somewhere into the list; if the list is kept by priority,
\* behind all that are as urgent and before all that are less urgent.
LEMMA SuspendInserts ==
    ASSUME NEW A, NEW list \in Seq(A), NEW t \in A, NEW flag, NEW priority \in [A -> Nat]
    PROVE  LET r == rt_ipc_list_suspend(list, t, flag, priority)
           IN  /\ r \in Seq(A)
               /\ \E p \in 1 .. Len(list) + 1 :
                    /\ Inserted(r, list, p, t)
                    /\ flag # "RT_IPC_FLAG_FIFO" =>
                         /\ \A i \in 1 .. p - 1 : priority[list[i]] <= priority[t]
                         /\ p <= Len(list) => priority[t] < priority[list[p]]
<1> DEFINE Lower(i) == i > Len(list) \/ priority[t] < priority[list[i]]
           n == Len(list)
           First(i) == Lower(i) /\ \A j \in 1 .. i - 1 : ~Lower(j)
           p == CHOOSE i \in 1 .. n + 1 : First(i)
<1>1. n \in Nat /\ \A i \in 1 .. n : list[i] \in A /\ priority[list[i]] \in Nat
  OBVIOUS
<1>2. \E i \in 1 .. n + 1 : First(i)
  <2> DEFINE T == {i \in 1 .. n + 1 : Lower(i)}
  <2>1. T \in SUBSET Nat /\ n + 1 \in T
    BY <1>1
  <2>2. PICK i \in T : \A j \in T : i <= j
    <3> HIDE DEF T
    <3> QED BY <2>1, Least
  <2>3. i \in 1 .. n + 1 /\ Lower(i)
    BY <2>2
  <2>4. \A j \in 1 .. i - 1 : ~Lower(j)
    <3> SUFFICES ASSUME NEW j \in 1 .. i - 1, Lower(j) PROVE FALSE
      OBVIOUS
    <3>1. j \in T /\ j < i
      BY <2>3, <1>1
    <3> HIDE DEF T
    <3> QED BY <3>1, <2>2, <2>3, <1>1
  <2> HIDE DEF Lower
  <2> QED BY <2>3, <2>4
<1>3. p \in 1 .. n + 1 /\ First(p)
  <2> HIDE DEF First
  <2> QED BY <1>2, Zenon
<1>4. PriorityPlace(list, t, priority) = p
  BY DEF PriorityPlace
<1> HIDE DEF p
<1>5. CASE flag = "RT_IPC_FLAG_FIFO"
  <2>1. rt_ipc_list_suspend(list, t, flag, priority) = Append(list, t)
    BY <1>5 DEF rt_ipc_list_suspend
  <2>2. n + 1 \in 1 .. n + 1
    BY <1>1
  <2> QED BY <2>1, <2>2, <1>5, AppendInserts
<1>6. CASE flag # "RT_IPC_FLAG_FIFO"
  <2>1. rt_ipc_list_suspend(list, t, flag, priority) = InsertAt(list, p, t)
    BY <1>4, <1>6 DEF rt_ipc_list_suspend
  <2>2. InsertAt(list, p, t) \in Seq(A) /\ Inserted(InsertAt(list, p, t), list, p, t)
    BY <1>3, InsertAtInserts
  <2>3. ASSUME NEW i \in 1 .. p - 1 PROVE priority[list[i]] <= priority[t]
    <3>1. ~Lower(i) /\ i \in 1 .. n
      BY <1>3, <1>1
    <3> QED BY <3>1, <1>1
  <2>4. p <= n => priority[t] < priority[list[p]]
    BY <1>3, <1>1
  <2> QED BY <1>3, <2>1, <2>2, <2>3, <2>4
<1> QED BY <1>5, <1>6

\* rt_timer_start puts the timer into the list, before the first that expires later.
LEMMA StartInserts ==
    ASSUME NEW list \in Seq(TimerOf), NEW x \in TimerOf
    PROVE  LET r == rt_timer_start(list, x.timer, x.timeout_tick)
           IN  /\ r \in Seq(TimerOf)
               /\ \E p \in 1 .. Len(list) + 1 :
                    /\ Inserted(r, list, p, x)
                    /\ \A i \in 1 .. p - 1 : ~Later(list[i].timeout_tick, x.timeout_tick)
                    /\ p <= Len(list) => Later(list[p].timeout_tick, x.timeout_tick)
<1> DEFINE n == Len(list)
           Stops(i) == i > n \/ Later(list[i].timeout_tick, x.timeout_tick)
           First(i) == Stops(i) /\ \A j \in 1 .. i - 1 : ~Stops(j)
           p == CHOOSE i \in 1 .. n + 1 : First(i)
<1>1. n \in Nat
  OBVIOUS
<1>2. \E i \in 1 .. n + 1 : First(i)
  <2> DEFINE T == {i \in 1 .. n + 1 : Stops(i)}
  <2>1. T \in SUBSET Nat /\ n + 1 \in T
    BY <1>1
  <2>2. PICK i \in T : \A j \in T : i <= j
    <3> HIDE DEF T
    <3> QED BY <2>1, Least
  <2>3. i \in 1 .. n + 1 /\ Stops(i)
    BY <2>2
  <2>4. \A j \in 1 .. i - 1 : ~Stops(j)
    <3> SUFFICES ASSUME NEW j \in 1 .. i - 1, Stops(j) PROVE FALSE
      OBVIOUS
    <3>1. j \in T /\ j < i
      BY <2>3, <1>1
    <3> HIDE DEF T
    <3> QED BY <3>1, <2>2, <2>3, <1>1
  <2> HIDE DEF Stops
  <2> QED BY <2>3, <2>4
<1>3. p \in 1 .. n + 1 /\ First(p)
  <2> HIDE DEF First
  <2> QED BY <1>2, Zenon
<1>4. x = [timer |-> x.timer, timeout_tick |-> x.timeout_tick]
  BY DEF TimerOf
<1>5. rt_timer_start(list, x.timer, x.timeout_tick) = InsertAt(list, p, x)
  BY <1>4, Zenon DEF rt_timer_start
<1> HIDE DEF p
<1>6. InsertAt(list, p, x) \in Seq(TimerOf) /\ Inserted(InsertAt(list, p, x), list, p, x)
  BY <1>3, InsertAtInserts
<1>7. ASSUME NEW i \in 1 .. p - 1 PROVE ~Later(list[i].timeout_tick, x.timeout_tick)
  BY <1>3
<1>8. p <= n => Later(list[p].timeout_tick, x.timeout_tick)
  BY <1>3, <1>1
<1> QED BY <1>3, <1>5, <1>6, <1>7, <1>8

\* rt_timer_stop leaves the timers that are not in S, in their order.
LEMMA StopProperties ==
    ASSUME NEW list \in Seq(TimerOf), NEW S
    PROVE  /\ rt_timer_stop(list, S) \in Seq(TimerOf)
           /\ ToSet(rt_timer_stop(list, S)) = {x \in ToSet(list) : x.timer \notin S}
           /\ Running(rt_timer_stop(list, S)) = Running(list) \ S
           /\ \A R : Sorted(list, R) => Sorted(rt_timer_stop(list, S), R)
<1> DEFINE D == {x \in ToSet(list) : x.timer \in S}
<1>1. rt_timer_stop(list, S) = rt_list_remove(list, D)
  BY DEF rt_timer_stop
<1> HIDE DEF D
<1>2. /\ rt_list_remove(list, D) \in Seq(TimerOf)
      /\ ToSet(rt_list_remove(list, D)) = ToSet(list) \ D
      /\ \A R : Sorted(list, R) => Sorted(rt_list_remove(list, D), R)
  BY RemoveProperties
<1>3. ToSet(rt_timer_stop(list, S)) = {x \in ToSet(list) : x.timer \notin S}
  BY <1>1, <1>2 DEF D
<1>4. Running(rt_timer_stop(list, S)) = Running(list) \ S
  BY <1>3, Zenon DEF Running
<1> QED BY <1>1, <1>2, <1>3, <1>4

-----------------------------------------------------------------------------
(* The loop of rt_event_send.                                               *)

Gifts == [thread : Threads, bits : SUBSET Bits, clear : BOOLEAN]
Accs == [set : SUBSET Bits, to : SUBSET Gifts]
Takers(to, b) == {x \in to : x.clear /\ b \in x.bits}

\* A bit of before is still there or has been taken once, and no other bit is there or was taken.
Kept(b, before, after, to) ==
    IF b \in before
    THEN \/ b \in after /\ Takers(to, b) = {}
         \/ b \notin after /\ \E x : Takers(to, b) = {x}
    ELSE b \notin after /\ Takers(to, b) = {}

\* What holds after the first i threads of the list.
LoopInv(list, bits, i, acc) ==
    /\ acc \in Accs
    /\ acc.set \subseteq bits
    /\ \A x \in acc.to : (\E j \in 1 .. i : x.thread = list[j]) /\ Satisfies(x.bits, stat[x.thread].recv)
    /\ \A j \in 1 .. i : Satisfies(acc.set, stat[list[j]].recv) => \E x \in acc.to : x.thread = list[j]
    /\ \A b \in Bits : Kept(b, bits, acc.set, acc.to)

\* Each pass of the loop keeps to its types.
LEMMA OfferType ==
    ASSUME NEW acc \in Accs, NEW t \in Threads, stat[t].recv \in Receives
    PROVE  Offer(acc, t) \in Accs
<1> DEFINE r == stat[t].recv
<1>1. r.set \subseteq Bits /\ r.clear \in BOOLEAN
  BY KernelAssumption
<1>2. acc.set \subseteq Bits /\ acc.to \subseteq Gifts
  BY DEF Accs
<1> HIDE DEF r
<1>3. CASE Satisfies(acc.set, r)
  <2> DEFINE g == [thread |-> t, bits |-> Handed(acc.set, r), clear |-> r.clear]
  <2>1. Offer(acc, t) = [set |-> AfterRecv(acc.set, r), to |-> acc.to \cup {g}]
    BY <1>3 DEF Offer, r
  <2>2. g \in Gifts
    BY <1>1, <1>2 DEF Gifts, Handed
  <2>3. AfterRecv(acc.set, r) \subseteq Bits
    BY <1>1, <1>2 DEF AfterRecv
  <2> HIDE DEF g
  <2> QED BY <2>1, <2>2, <2>3, <1>2 DEF Accs
<1>4. CASE ~Satisfies(acc.set, r)
  <2>1. Offer(acc, t) = acc
    BY <1>4 DEF Offer, r
  <2> QED BY <2>1
<1> QED BY <1>3, <1>4

\* More bits satisfy whoever fewer satisfy; what is handed over satisfies as the bits did.
LEMMA SatisfiesMonotone ==
    ASSUME NEW r \in Receives, NEW a, NEW b, a \subseteq b
    PROVE  (Satisfies(a, r) => Satisfies(b, r)) /\ (Satisfies(b, r) => Satisfies(Handed(b, r), r))
BY DEF Satisfies, Handed

\* Each pass of the loop keeps its invariant.
LEMMA OfferStep ==
    ASSUME NEW list \in Seq(Threads), NEW bits \in SUBSET Bits, NEW i \in 1 .. Len(list), NEW acc,
           \A t \in ToSet(list) : stat[t].recv \in Receives,
           LoopInv(list, bits, i - 1, acc)
    PROVE  LoopInv(list, bits, i, Offer(acc, list[i]))
<1> DEFINE t == list[i]
           r == stat[t].recv
           g == [thread |-> t, bits |-> Handed(acc.set, r), clear |-> r.clear]
           new == Offer(acc, t)
<1>1. i \in Nat /\ i - 1 \in Nat /\ t \in Threads /\ t \in ToSet(list)
  BY Members
<1>2. r \in Receives /\ r.set \subseteq Bits /\ r.clear \in BOOLEAN
  BY <1>1, KernelAssumption
<1>3. acc \in Accs /\ acc.set \subseteq bits /\ acc.to \subseteq Gifts
  BY DEF LoopInv, Accs
<1>4. \A x \in acc.to : (\E j \in 1 .. i - 1 : x.thread = list[j]) /\ Satisfies(x.bits, stat[x.thread].recv)
  BY DEF LoopInv
<1>5. \A j \in 1 .. i - 1 : Satisfies(acc.set, stat[list[j]].recv) => \E x \in acc.to : x.thread = list[j]
  BY DEF LoopInv
<1>6. \A b \in Bits : Kept(b, bits, acc.set, acc.to)
  BY DEF LoopInv
<1>7. new \in Accs
  BY <1>1, <1>2, <1>3, OfferType
<1>8. \A j \in 1 .. i : j = i \/ j \in 1 .. i - 1
  BY <1>1
<1>9. \A j \in 1 .. i - 1 : j \in 1 .. i /\ stat[list[j]].recv \in Receives
  <2>1. \A j \in 1 .. i - 1 : j \in 1 .. Len(list)
    BY <1>1, Members
  <2>2. \A j \in 1 .. Len(list) : list[j] \in ToSet(list)
    BY Members
  <2> QED BY <1>1, <2>1, <2>2
<1> HIDE DEF r, t
<1>10. CASE Satisfies(acc.set, r)
  <2>1. new = [set |-> AfterRecv(acc.set, r), to |-> acc.to \cup {g}]
    BY <1>10 DEF Offer, r
  <2>2. new.set = AfterRecv(acc.set, r) /\ new.to = acc.to \cup {g}
    BY <2>1
  <2>3. new.set \subseteq acc.set
    BY <2>2 DEF AfterRecv
  <2>4. g.thread = t /\ g.bits = Handed(acc.set, r) /\ g.clear = r.clear
    OBVIOUS
  <2> HIDE DEF g, new
  <2>5. ASSUME NEW x \in new.to
        PROVE  (\E j \in 1 .. i : x.thread = list[j]) /\ Satisfies(x.bits, stat[x.thread].recv)
    <3>1. CASE x \in acc.to
      BY <3>1, <1>4, <1>9
    <3>2. CASE x = g
      <4>1. Satisfies(g.bits, r)
        BY <2>4, <1>2, <1>10, SatisfiesMonotone
      <4>2. i \in 1 .. i
        BY <1>1
      <4> QED BY <4>1, <4>2, <3>2, <2>4 DEF r, t
    <3> QED BY <3>1, <3>2, <2>2
  <2>6. ASSUME NEW j \in 1 .. i, Satisfies(new.set, stat[list[j]].recv)
        PROVE  \E x \in new.to : x.thread = list[j]
    <3>1. CASE j = i
      BY <3>1, <2>2, <2>4 DEF t
    <3>2. CASE j \in 1 .. i - 1
      <4>1. Satisfies(acc.set, stat[list[j]].recv)
        BY <3>2, <2>6, <2>3, <1>9, SatisfiesMonotone
      <4> QED BY <4>1, <3>2, <1>5, <2>2
    <3> QED BY <3>1, <3>2, <1>8
  <2>7. ASSUME NEW b \in Bits PROVE Kept(b, bits, new.set, new.to)
    <3>1. Kept(b, bits, acc.set, acc.to)
      BY <1>6
    <3>2. CASE r.clear /\ b \in r.set /\ b \in acc.set
      <4>1. b \in bits /\ Takers(acc.to, b) = {}
        BY <3>1, <3>2, <1>3 DEF Kept
      <4>2. b \notin new.set
        BY <3>2, <2>2 DEF AfterRecv
      <4>3. Takers(new.to, b) = {g}
        BY <4>1, <3>2, <2>2, <2>4 DEF Takers, Handed
      <4> QED BY <4>1, <4>2, <4>3 DEF Kept
    <3>3. CASE ~(r.clear /\ b \in r.set /\ b \in acc.set)
      <4>1. b \in new.set <=> b \in acc.set
        BY <3>3, <2>2 DEF AfterRecv
      <4>2. Takers(new.to, b) = Takers(acc.to, b)
        BY <3>3, <2>2, <2>4 DEF Takers, Handed
      <4> QED BY <4>1, <4>2, <3>1 DEF Kept
    <3> QED BY <3>2, <3>3
  <2> QED BY <1>3, <1>7, <2>3, <2>5, <2>6, <2>7 DEF LoopInv, new, t
<1>11. CASE ~Satisfies(acc.set, r)
  <2>1. new = acc
    BY <1>11 DEF Offer, r
  <2> HIDE DEF new
  <2>2. \A x \in acc.to : (\E j \in 1 .. i : x.thread = list[j]) /\ Satisfies(x.bits, stat[x.thread].recv)
    BY <1>4, <1>9
  <2>3. \A j \in 1 .. i : Satisfies(acc.set, stat[list[j]].recv) => \E x \in acc.to : x.thread = list[j]
    BY <1>5, <1>8, <1>11 DEF r, t
  <2> QED BY <2>1, <2>2, <2>3, <1>3, <1>6 DEF LoopInv, new, t
<1> QED BY <1>10, <1>11

\* What the loop of rt_event_send leaves and gives away.
LEMMA OfferedProperties ==
    ASSUME NEW list \in Seq(Threads), NEW bits \in SUBSET Bits,
           \A t \in ToSet(list) : stat[t].recv \in Receives
    PROVE  LoopInv(list, bits, Len(list), Offered(list, bits))
<1> DEFINE n == Len(list)
           base == [set |-> bits, to |-> {}]
           step == [i \in 1 .. n |-> [acc \in Accs |-> Offer(acc, list[i])]]
           Body(g) == [i \in 0 .. n |-> IF i = 0 THEN base ELSE Offer(g[i - 1], list[i])]
           f == CHOOSE g : g = Body(g)
<1>1. n \in Nat /\ \A i \in 1 .. n : list[i] \in Threads /\ list[i] \in ToSet(list)
  BY Members
<1>2. base \in Accs
  BY DEF Accs
<1>3. \A i \in 1 .. n, acc \in Accs : Offer(acc, list[i]) \in Accs
  BY <1>1, OfferType
<1>4. \E g : g = Body(g)
  <2>1. step \in Steps(n, Accs)
    BY <1>3, Zenon DEF Steps
  <2> HIDE DEF n, step, base
  <2>2. PICK g \in [0 .. n -> Accs] : Goes(g, n, base, step)
    BY <2>1, <1>1, <1>2, Recursion, Zenon
  <2>3. ASSUME NEW i \in 1 .. n PROVE g[i] = Offer(g[i - 1], list[i])
    <3>1. i - 1 \in 0 .. n
      BY <1>1
    <3>2. g[i - 1] \in Accs
      BY <3>1, Zenon
    <3>3. step[i][g[i - 1]] = Offer(g[i - 1], list[i])
      BY <3>2, Zenon DEF step
    <3> QED BY <2>2, <3>3, Zenon DEF Goes
  <2>4. ASSUME NEW i \in 0 .. n PROVE g[i] = IF i = 0 THEN base ELSE Offer(g[i - 1], list[i])
    <3>1. i = 0 \/ i \in 1 .. n
      BY <1>1
    <3>2. g[0] = base
      BY <2>2, Zenon DEF Goes
    <3>3. 0 \notin 1 .. n
      OBVIOUS
    <3> QED BY <3>1, <3>2, <3>3, <2>3, Zenon
  <2>5. g = Body(g)
    BY <2>4, Zenon
  <2> QED BY <2>5
<1>5. f = Body(f)
  <2> HIDE DEF Body
  <2> QED BY <1>4, Zenon
<1>6. Offered(list, bits) = f[n]
  BY DEF Offered
<1> HIDE DEF n, f, base
<1>7. f[0] = base /\ \A i \in 1 .. n : f[i] = Offer(f[i - 1], list[i])
  <2>1. 0 \in 0 .. n /\ \A i \in 1 .. n : i \in 0 .. n /\ i # 0
    BY <1>1
  <2> QED BY <1>5, <2>1, Zenon
<1> DEFINE T == {i \in 0 .. n : LoopInv(list, bits, i, f[i])}
<1>8. 0 \in T
  <2>1. base.set = bits /\ base.to = {}
    BY DEF base
  <2>2. \A b \in Bits : Kept(b, bits, base.set, base.to)
    BY <2>1 DEF Kept, Takers
  <2>3. LoopInv(list, bits, 0, base)
    BY <1>2, <2>1, <2>2 DEF LoopInv
  <2>4. 0 \in 0 .. n
    BY <1>1
  <2> QED BY <2>3, <2>4, <1>7
<1>9. ASSUME NEW i \in 1 .. n, i - 1 \in T PROVE i \in T
  <2>1. LoopInv(list, bits, i - 1, f[i - 1]) /\ i \in 0 .. n
    BY <1>9, <1>1
  <2>2. LoopInv(list, bits, i, Offer(f[i - 1], list[i]))
    BY <2>1, OfferStep DEF n
  <2> QED BY <2>1, <2>2, <1>7
<1>10. T = 0 .. n
  <2>1. T \in SUBSET (0 .. n)
    OBVIOUS
  <2> HIDE DEF T
  <2> QED BY <1>1, <1>8, <1>9, <2>1, Induction
<1>11. n \in T
  BY <1>10, <1>1
<1> QED BY <1>11, <1>6 DEF n

-----------------------------------------------------------------------------
(* Types.                                                                   *)

ThreadsOK ==
    /\ stat \in [Threads -> Statuses]
    /\ error \in [Threads -> {"RT_EOK", "-RT_ETIMEOUT", "-RT_ERROR"}]
    /\ current_priority \in [Threads -> Nat]

\* The lists agree with what the threads are suspended for.
ListsOK ==
    /\ suspend_thread \in [Objects -> Seq(Threads)]
    /\ \A o \in Objects :
         /\ ToSet(suspend_thread[o]) = {t \in Threads : stat[t].on = o}
         /\ IsInjective(suspend_thread[o])

\* The fields of the mutex agree with each other.
MutexOK ==
    /\ original_priority \in Nat
    /\ owner \in Threads \cup {RT_NULL} /\ value \in {0, 1} /\ hold \in 0 .. MaxHold
    /\ (value = 1) <=> (owner = RT_NULL)
    /\ (value = 1) <=> (hold = 0)

TimersOK ==
    /\ rt_tick \in Ticks
    /\ starting \in Ticks \cup {NotStarting}
    /\ timer_list \in Seq(TimerOf)

LEMMA TypeParts == TypeOK <=> ThreadsOK /\ ListsOK /\ MutexOK /\ TimersOK /\ set \subseteq Bits
BY Zenon DEF TypeOK, ThreadsOK, ListsOK, MutexOK, TimersOK, Statuses, Objects, Ticks, TimerOf

\* What a thread can be suspended for.
LEMMA StatusFacts ==
    ASSUME NEW s \in Statuses
    PROVE  /\ s.on \in {"ready", "mutex", "sleep", "event"}
           /\ s.on = "ready" <=> s = Ready
           /\ s.on = "event" => s.recv \in Receives /\ s = Receiving(s.recv)
           /\ s.on = "mutex" <=> s = Waits("mutex")
           /\ s.on = "sleep" <=> s = Waits("sleep")
<1>1. CASE s \in {Ready, Waits("mutex"), Waits("sleep")}
  BY <1>1 DEF Ready, Waits
<1>2. CASE s \in {Receiving(r) : r \in Receives}
  <2>1. PICK r \in Receives : s = Receiving(r)
    BY <1>2
  <2>2. s.on = "event" /\ s.recv = r
    BY <2>1 DEF Receiving
  <2> QED BY <2>1, <2>2 DEF Ready, Waits
<1> QED BY <1>1, <1>2 DEF Statuses

\* The tick stays in its range.
LEMMA AfterType ==
    ASSUME NEW a \in Ticks, NEW b \in Nat
    PROVE  After(a, b) \in Ticks
<1>1. RT_TICK_MAX \in Nat /\ a \in Nat
  BY TickAssumption DEF Ticks
<1>2. After(a, b) \in 0 .. RT_TICK_MAX
  <2> DEFINE m == RT_TICK_MAX + 1
             c == a + b
  <2>1. m \in Nat \ {0} /\ c \in Int
    BY <1>1
  <2>2. c % m \in 0 .. m - 1
    <3> HIDE DEF m, c
    <3> QED BY <2>1
  <2> QED BY <2>2, <1>1 DEF After
<1> QED BY <1>2 DEF Ticks

\* The time limits that are not RT_WAITING_FOREVER.
LEMMA TimeFacts ==
    ASSUME NEW time \in TakeTimes \cup RecvTimes \cup SleepTimes, time # RT_WAITING_FOREVER
    PROVE  time \in Nat
BY KernelAssumption

\* A thread that is suspended gets its timer.
LEMMA SuspendTimers ==
    ASSUME TimersOK, NEW t \in Threads, NEW what,
           NEW time \in TakeTimes \cup RecvTimes \cup SleepTimes, Suspend(t, what, time)
    PROVE  TimersOK'
<1>1. CASE time = RT_WAITING_FOREVER
  BY <1>1 DEF Suspend, TimersOK
<1>2. CASE time # RT_WAITING_FOREVER
  <2> DEFINE x == [timer |-> t, timeout_tick |-> After(rt_tick, time)]
  <2>1. time \in Nat
    BY <1>2, TimeFacts
  <2>2. After(rt_tick, time) \in Ticks
    BY <2>1, AfterType DEF TimersOK
  <2>3. x \in TimerOf /\ x.timer = t /\ x.timeout_tick = After(rt_tick, time)
    BY <2>2 DEF TimerOf
  <2>4. timer_list' = rt_timer_start(timer_list, x.timer, x.timeout_tick)
    BY <1>2, <2>3 DEF Suspend
  <2> HIDE DEF x
  <2>5. timer_list' \in Seq(TimerOf)
    BY <2>3, <2>4, StartInserts DEF TimersOK
  <2> QED BY <2>5 DEF TimersOK, Suspend
<1> QED BY <1>1, <1>2

\* A thread that is suspended on the list of an object is in that list and in no other.
LEMMA SuspendOnLists ==
    ASSUME ThreadsOK, ListsOK, NEW t \in Threads, stat[t] = Ready,
           NEW what \in Statuses, what.on \in Objects, NEW flag, NEW time, SuspendOn(t, what, flag, time)
    PROVE  stat' \in [Threads -> Statuses] /\ ListsOK'
<1> DEFINE o == what.on
           list == suspend_thread[o]
           new == rt_ipc_list_suspend(list, t, flag, current_priority)
<1>1. stat' = [stat EXCEPT ![t] = what] /\ suspend_thread' = [suspend_thread EXCEPT ![o] = new]
  BY DEF SuspendOn, Suspend
<1>2. stat' \in [Threads -> Statuses]
  BY <1>1 DEF ThreadsOK
<1>3. list \in Seq(Threads) /\ IsInjective(list) /\ ToSet(list) = {u \in Threads : stat[u].on = o}
  BY DEF ListsOK
<1>4. t \notin ToSet(list)
  <2>1. stat[t].on = "ready"
    BY DEF Ready
  <2> QED BY <2>1, <1>3 DEF Objects
<1>5. new \in Seq(Threads) /\ \E p \in 1 .. Len(list) + 1 : Inserted(new, list, p, t)
  <2>1. current_priority \in [Threads -> Nat]
    BY DEF ThreadsOK
  <2> HIDE DEF list, o
  <2> QED BY <1>3, <2>1, SuspendInserts
<1> HIDE DEF new, list
<1>6. IsInjective(new) /\ ToSet(new) = ToSet(list) \cup {t}
  BY <1>3, <1>4, <1>5, InsertedProperties
<1>7. suspend_thread' \in [Objects -> Seq(Threads)]
  BY <1>1, <1>5 DEF ListsOK
<1>8. ASSUME NEW q \in Objects
      PROVE  ToSet(suspend_thread'[q]) = {u \in Threads : stat'[u].on = q} /\ IsInjective(suspend_thread'[q])
  <2>1. stat[t].on = "ready" /\ q # "ready"
    BY DEF Ready, Objects
  <2>2. \A u \in Threads : stat'[u] = IF u = t THEN what ELSE stat[u]
    BY <1>1 DEF ThreadsOK
  <2>3. CASE q = o
    <3>1. suspend_thread'[q] = new
      BY <1>1, <2>3 DEF ListsOK
    <3>2. {u \in Threads : stat'[u].on = q} = {u \in Threads : stat[u].on = q} \cup {t}
      BY <2>2, <2>3
    <3> QED BY <3>1, <3>2, <1>3, <1>6, <2>3
  <2>4. CASE q # o
    <3>1. suspend_thread'[q] = suspend_thread[q]
      BY <1>1, <2>4 DEF ListsOK
    <3>2. {u \in Threads : stat'[u].on = q} = {u \in Threads : stat[u].on = q}
      BY <2>1, <2>2, <2>4
    <3> QED BY <3>1, <3>2 DEF ListsOK
  <2> QED BY <2>3, <2>4
<1> QED BY <1>2, <1>7, <1>8 DEF ListsOK

\* Threads that are made ready are in no list.
LEMMA MakeReadyLists ==
    ASSUME ThreadsOK, ListsOK, NEW S, MakeReady(S)
    PROVE  stat' \in [Threads -> Statuses] /\ ListsOK'
<1>1. \A u \in Threads : stat'[u] = IF u \in S THEN Ready ELSE stat[u]
  BY DEF MakeReady
<1>2. stat' \in [Threads -> Statuses]
  <2>1. Ready \in Statuses
    BY DEF Statuses
  <2> QED BY <2>1 DEF MakeReady, ThreadsOK
<1>3. DOMAIN suspend_thread = Objects /\ \A o \in Objects : suspend_thread[o] \in Seq(Threads)
  BY DEF ListsOK
<1>4. suspend_thread' = [o \in Objects |-> rt_list_remove(suspend_thread[o], S)]
  BY <1>3 DEF MakeReady
<1>5. ASSUME NEW o \in Objects
      PROVE  /\ suspend_thread'[o] \in Seq(Threads)
             /\ ToSet(suspend_thread'[o]) = {u \in Threads : stat'[u].on = o}
             /\ IsInjective(suspend_thread'[o])
  <2> DEFINE list == suspend_thread[o]
  <2>1. suspend_thread'[o] = rt_list_remove(list, S)
    BY <1>4
  <2>2. list \in Seq(Threads) /\ IsInjective(list) /\ ToSet(list) = {u \in Threads : stat[u].on = o}
    BY DEF ListsOK
  <2> HIDE DEF list
  <2>3. /\ rt_list_remove(list, S) \in Seq(Threads) /\ IsInjective(rt_list_remove(list, S))
        /\ ToSet(rt_list_remove(list, S)) = ToSet(list) \ S
    BY <2>2, RemoveProperties
  <2>4. Ready.on # o
    BY DEF Ready, Objects
  <2>5. {u \in Threads : stat'[u].on = o} = {u \in Threads : stat[u].on = o} \ S
    BY <1>1, <2>4
  <2> QED BY <2>1, <2>2, <2>3, <2>5
<1>6. suspend_thread' \in [Objects -> Seq(Threads)]
  BY <1>4, <1>5
<1> QED BY <1>2, <1>5, <1>6 DEF ListsOK

\* The type of the state: one step per action.
LEMMA TypeStep == TypeOK /\ [Next]_vars => TypeOK'
<1> SUFFICES ASSUME ThreadsOK, ListsOK, MutexOK, TimersOK, set \subseteq Bits, [Next]_vars
             PROVE  (ThreadsOK /\ ListsOK /\ MutexOK /\ TimersOK /\ set \subseteq Bits)'
  <2>1. TypeOK' <=> (ThreadsOK /\ ListsOK /\ MutexOK /\ TimersOK /\ set \subseteq Bits)'
    BY TypeParts, PTL
  <2> QED BY TypeParts, <2>1
<1> DEFINE Quiet == UNCHANGED <<stat, suspend_thread>>
<1>a. Waits("mutex") \in Statuses /\ Waits("mutex").on = "mutex" /\ Waits("sleep") \in Statuses
  BY DEF Waits, Statuses
<1>b. ASSUME NEW t \in Threads, ~Suspended(t) PROVE stat[t] = Ready
  BY <1>b DEF Suspended
<1>c. ASSUME Quiet PROVE ListsOK' /\ stat' \in [Threads -> Statuses]
  BY <1>c DEF ListsOK, ThreadsOK
<1>d. ASSUME UNCHANGED timer_vars PROVE TimersOK'
  BY <1>d DEF TimersOK, timer_vars
<1>e. ASSUME UNCHANGED mutex_vars PROVE MutexOK'
  BY <1>e DEF MutexOK, mutex_vars
<1>f. ASSUME NEW S, rt_thread_resume(S) PROVE ListsOK' /\ stat' \in [Threads -> Statuses] /\ TimersOK'
  <2>1. ListsOK' /\ stat' \in [Threads -> Statuses]
    BY <1>f, MakeReadyLists DEF rt_thread_resume
  <2>2. timer_list' \in Seq(TimerOf)
    BY <1>f, StopProperties DEF rt_thread_resume, TimersOK
  <2> QED BY <1>f, <2>1, <2>2 DEF rt_thread_resume, TimersOK
<1>1. ASSUME NEW t \in Threads, NEW time \in TakeTimes, rt_mutex_take(t, time)
      PROVE  (ThreadsOK /\ ListsOK /\ MutexOK /\ TimersOK /\ set \subseteq Bits)'
  <2>1. set' = set /\ error' \in [Threads -> {"RT_EOK", "-RT_ETIMEOUT", "-RT_ERROR"}]
    BY <1>1 DEF rt_mutex_take, ThreadsOK
  <2>2. CASE owner = t /\ hold < MaxHold /\ hold' = hold + 1
             /\ UNCHANGED <<stat, current_priority, owner, value, original_priority, suspend_thread, timer_vars>>
    <3>1. MutexOK'
      BY <2>2, KernelAssumption DEF MutexOK
    <3> QED BY <2>1, <2>2, <3>1, <1>c, <1>d DEF ThreadsOK
  <2>3. CASE /\ owner # t /\ value > 0
             /\ value' = value - 1 /\ owner' = t /\ hold' = hold + 1
             /\ original_priority' = current_priority[t]
             /\ UNCHANGED <<stat, current_priority, suspend_thread, timer_vars>>
    <3>1. original_priority' \in Nat
      BY <2>3 DEF ThreadsOK
    <3>2. value = 1 /\ hold = 0 /\ t # RT_NULL /\ MaxHold >= 1 /\ MaxHold \in Nat
      BY <2>3, KernelAssumption DEF MutexOK
    <3>3. MutexOK'
      BY <2>3, <3>1, <3>2 DEF MutexOK
    <3> QED BY <2>1, <2>3, <3>3, <1>c, <1>d DEF ThreadsOK
  <2>4. CASE UNCHANGED <<stat, current_priority, mutex_vars, suspend_thread, timer_vars>>
    BY <2>1, <2>4, <1>c, <1>d, <1>e DEF ThreadsOK
  <2>5. CASE RaiseOwner(t) /\ SuspendOn(t, Waits("mutex"), mutex_flag, time) /\ UNCHANGED mutex_vars
    <3>1. current_priority' \in [Threads -> Nat]
      BY <2>5 DEF RaiseOwner, ThreadsOK
    <3>2. stat[t] = Ready
      BY <1>1, <1>b DEF rt_mutex_take
    <3>3. ListsOK' /\ stat' \in [Threads -> Statuses]
      BY <2>5, <3>2, <1>a, SuspendOnLists DEF Objects
    <3>4. TimersOK'
      BY <2>5, SuspendTimers DEF SuspendOn
    <3> QED BY <2>1, <2>5, <3>1, <3>3, <3>4, <1>e DEF ThreadsOK
  <2> QED BY <1>1, <2>2, <2>3, <2>4, <2>5 DEF rt_mutex_take
<1>2. ASSUME NEW t \in Threads, rt_mutex_release(t)
      PROVE  (ThreadsOK /\ ListsOK /\ MutexOK /\ TimersOK /\ set \subseteq Bits)'
  <2>1. set' = set
    BY <1>2 DEF rt_mutex_release
  <2>2. CASE error' = [error EXCEPT ![t] = "-RT_ERROR"]
             /\ UNCHANGED <<stat, current_priority, mutex_vars, suspend_thread, timer_vars>>
    BY <2>1, <2>2, <1>c, <1>d, <1>e DEF ThreadsOK
  <2>3. CASE hold > 1 /\ hold' = hold - 1
             /\ UNCHANGED <<thread_vars, owner, value, original_priority, suspend_thread, timer_vars>>
    <3>1. MutexOK'
      BY <2>3, KernelAssumption DEF MutexOK
    <3> QED BY <2>1, <2>3, <3>1, <1>c, <1>d DEF ThreadsOK, thread_vars
  <2>4. CASE owner = t /\ hold = 1 /\ RestoreOwner(t) /\ UNCHANGED error
             /\ (IF suspend_thread.mutex # <<>> THEN HandOver ELSE Free)
    <3>1. current_priority' \in [Threads -> Nat] /\ error' \in [Threads -> {"RT_EOK", "-RT_ETIMEOUT", "-RT_ERROR"}]
      BY <2>4 DEF RestoreOwner, ThreadsOK, MutexOK
    <3>2. value = 0
      BY <2>4 DEF MutexOK
    <3>3. CASE suspend_thread.mutex # <<>>
      <4>1. HandOver
        BY <2>4, <3>3
      <4>2. Head(suspend_thread.mutex) \in Threads
        <5>1. suspend_thread.mutex \in Seq(Threads)
          BY DEF ListsOK, Objects
        <5> QED BY <5>1, <3>3
      <4>3. MutexOK'
        BY <4>1, <4>2, <3>2, KernelAssumption DEF MutexOK, HandOver, ThreadsOK
      <4>4. rt_thread_resume({owner'})
        BY <4>1 DEF HandOver
      <4>5. ListsOK' /\ stat' \in [Threads -> Statuses] /\ TimersOK'
        BY <4>4, <1>f
      <4> QED BY <4>3, <4>5, <3>1, <2>1 DEF ThreadsOK
    <3>4. CASE suspend_thread.mutex = <<>>
      <4>1. Free
        BY <2>4, <3>4
      <4>2. MutexOK'
        BY <4>1, <3>2, KernelAssumption DEF MutexOK, Free, NoPriority
      <4> QED BY <4>1, <4>2, <3>1, <2>1, <1>c, <1>d DEF Free, ThreadsOK
    <3> QED BY <3>3, <3>4
  <2> QED BY <1>2, <2>2, <2>3, <2>4 DEF rt_mutex_release
<1>3. ASSUME NEW t \in Sleepers, NEW time \in SleepTimes, rt_thread_sleep(t, time)
      PROVE  (ThreadsOK /\ ListsOK /\ MutexOK /\ TimersOK /\ set \subseteq Bits)'
  <2>1. t \in Threads
    BY KernelAssumption
  <2>2. stat[t] = Ready /\ stat' = [stat EXCEPT ![t] = Waits("sleep")] /\ Suspend(t, Waits("sleep"), time)
        /\ UNCHANGED <<error, current_priority, mutex_vars, set, suspend_thread>>
    BY <1>3, <2>1, <1>b DEF rt_thread_sleep, Suspend
  <2>3. ThreadsOK'
    BY <2>2, <1>a DEF ThreadsOK
  <2>4. \A o \in Objects : {u \in Threads : stat'[u].on = o} = {u \in Threads : stat[u].on = o}
    BY <2>1, <2>2 DEF Ready, Waits, Objects, ThreadsOK
  <2>5. ListsOK'
    BY <2>2, <2>4 DEF ListsOK
  <2>6. TimersOK'
    BY <2>1, <2>2, SuspendTimers
  <2> QED BY <2>2, <2>3, <2>5, <2>6, <1>e
<1>4. ASSUME NEW t \in Receivers, NEW time \in RecvTimes, NEW r \in Receives, rt_event_recv(t, r, time)
      PROVE  (ThreadsOK /\ ListsOK /\ MutexOK /\ TimersOK /\ set \subseteq Bits)'
  <2>1. t \in Threads
    BY KernelAssumption
  <2>2. /\ error' \in [Threads -> {"RT_EOK", "-RT_ETIMEOUT", "-RT_ERROR"}]
        /\ UNCHANGED <<current_priority, mutex_vars>>
    BY <1>4 DEF rt_event_recv, ThreadsOK
  <2>3. CASE set' = AfterRecv(set, r) /\ UNCHANGED <<stat, suspend_thread, timer_vars>>
    <3>1. set' \subseteq Bits
      BY <2>3 DEF AfterRecv
    <3> QED BY <2>2, <2>3, <3>1, <1>c, <1>d, <1>e DEF ThreadsOK
  <2>4. CASE UNCHANGED <<stat, set, suspend_thread, timer_vars>>
    BY <2>2, <2>4, <1>c, <1>d, <1>e DEF ThreadsOK
  <2>5. CASE SuspendOn(t, Receiving(r), event_flag, time) /\ UNCHANGED set
    <3>1. stat[t] = Ready
      BY <1>4, <2>1, <1>b DEF rt_event_recv
    <3>2. Receiving(r) \in Statuses /\ Receiving(r).on \in Objects
      BY DEF Receiving, Statuses, Objects
    <3>3. ListsOK' /\ stat' \in [Threads -> Statuses]
      BY <2>1, <2>5, <3>1, <3>2, SuspendOnLists
    <3>4. TimersOK'
      BY <2>1, <2>5, SuspendTimers DEF SuspendOn
    <3> QED BY <2>2, <2>5, <3>3, <3>4, <1>e DEF ThreadsOK
  <2> QED BY <1>4, <2>3, <2>4, <2>5 DEF rt_event_recv
<1>5. ASSUME NEW bits \in SUBSET Bits, rt_event_send(bits)
      PROVE  (ThreadsOK /\ ListsOK /\ MutexOK /\ TimersOK /\ set \subseteq Bits)'
  <2> DEFINE all == Offered(suspend_thread.event, set \cup bits)
  <2>1. set' = all.set /\ UNCHANGED <<error, current_priority, mutex_vars>>
        /\ rt_thread_resume({x.thread : x \in all.to})
    BY <1>5 DEF rt_event_send
  <2>2. LoopInv(suspend_thread.event, set \cup bits, Len(suspend_thread.event), all)
    <3>1. suspend_thread.event \in Seq(Threads) /\ ToSet(suspend_thread.event) = {t \in Threads : stat[t].on = "event"}
      BY DEF ListsOK, Objects
    <3>2. \A t \in ToSet(suspend_thread.event) : stat[t].recv \in Receives
      BY <3>1, StatusFacts DEF ThreadsOK
    <3>3. set \cup bits \in SUBSET Bits
      OBVIOUS
    <3> QED BY <3>1, <3>2, <3>3, OfferedProperties
  <2> HIDE DEF all
  <2>3. set' \subseteq Bits
    BY <2>1, <2>2 DEF LoopInv, Accs
  <2>4. ListsOK' /\ stat' \in [Threads -> Statuses] /\ TimersOK'
    BY <2>1, <1>f
  <2> QED BY <2>1, <2>3, <2>4, <1>e DEF ThreadsOK
<1>6. ASSUME rt_event_control
      PROVE  (ThreadsOK /\ ListsOK /\ MutexOK /\ TimersOK /\ set \subseteq Bits)'
  <2>1. ListsOK' /\ stat' \in [Threads -> Statuses] /\ TimersOK'
    BY <1>6, <1>f DEF rt_event_control
  <2>2. error' \in [Threads -> {"RT_EOK", "-RT_ETIMEOUT", "-RT_ERROR"}]
    BY <1>6 DEF rt_event_control, ThreadsOK
  <2> QED BY <1>6, <2>1, <2>2, <1>e DEF rt_event_control, ThreadsOK
<1>7. ASSUME StartTimer \/ TimerStarted \/ StopTimer
      PROVE  (ThreadsOK /\ ListsOK /\ MutexOK /\ TimersOK /\ set \subseteq Bits)'
  <2>1. UNCHANGED <<thread_vars, mutex_vars, set, suspend_thread, rt_tick>>
    BY <1>7 DEF StartTimer, TimerStarted, StopTimer
  <2>2. timer_list' \in Seq(TimerOf)
    <3>1. CASE TimerStarted
      <4> DEFINE x == [timer |-> timer, timeout_tick |-> starting]
      <4>1. starting \in Ticks
        BY <3>1 DEF TimerStarted, TimersOK
      <4>2. x \in TimerOf /\ x.timer = timer /\ x.timeout_tick = starting
        BY <4>1 DEF TimerOf
      <4>3. timer_list' = rt_timer_start(timer_list, x.timer, x.timeout_tick)
        BY <3>1, <4>2 DEF TimerStarted
      <4> HIDE DEF x
      <4> QED BY <4>2, <4>3, StartInserts DEF TimersOK
    <3>2. CASE StartTimer \/ StopTimer
      BY <3>2, StopProperties DEF StartTimer, StopTimer, TimersOK
    <3> QED BY <1>7, <3>1, <3>2
  <2>3. starting' \in Ticks \cup {NotStarting}
    <3>1. After(rt_tick, init_tick) \in Ticks
      BY AfterType, KernelAssumption DEF TimersOK
    <3> QED BY <1>7, <3>1 DEF StartTimer, TimerStarted, StopTimer, TimersOK
  <2> QED BY <2>1, <2>2, <2>3, <1>c, <1>e DEF ThreadsOK, TimersOK, thread_vars
<1>8. ASSUME rt_tick_increase
      PROVE  (ThreadsOK /\ ListsOK /\ MutexOK /\ TimersOK /\ set \subseteq Bits)'
  <2> DEFINE expired == rt_timer_check(timer_list, After(rt_tick, 1))
  <2>1. /\ rt_tick' = After(rt_tick, 1) /\ timer_list' = rt_timer_stop(timer_list, expired)
        /\ rt_thread_timeout(expired \ {timer})
        /\ UNCHANGED <<current_priority, mutex_vars, set, starting>>
    BY <1>8 DEF rt_tick_increase
  <2> HIDE DEF expired
  <2>2. ListsOK' /\ stat' \in [Threads -> Statuses]
    BY <2>1, MakeReadyLists DEF rt_thread_timeout
  <2>3. error' \in [Threads -> {"RT_EOK", "-RT_ETIMEOUT", "-RT_ERROR"}]
    BY <2>1 DEF rt_thread_timeout, ThreadsOK
  <2>4. rt_tick' \in Ticks /\ timer_list' \in Seq(TimerOf)
    BY <2>1, AfterType, StopProperties DEF TimersOK
  <2> QED BY <2>1, <2>2, <2>3, <2>4, <1>e DEF ThreadsOK, TimersOK
<1>9. CASE UNCHANGED vars
  BY <1>9, <1>c, <1>d, <1>e DEF vars, thread_vars, ThreadsOK
<1> QED BY <1>1, <1>2, <1>3, <1>4, <1>5, <1>6, <1>7, <1>8, <1>9 DEF Next

\* The lists of the mutex and of the event set hold exactly the threads that wait for them, none
\* twice, and the fields of the mutex agree: the type invariant of the module, for any constants.
THEOREM TypeCorrect == Spec => []TypeOK
<1>1. Init => TypeOK
  <2> SUFFICES ASSUME Init PROVE ThreadsOK /\ ListsOK /\ MutexOK /\ TimersOK /\ set \subseteq Bits
    BY TypeParts
  <2>1. ThreadsOK
    BY KernelAssumption DEF Init, ThreadsOK, Statuses
  <2>2. ListsOK
    <3>1. suspend_thread \in [Objects -> Seq(Threads)] /\ \A o \in Objects : suspend_thread[o] = <<>>
      BY DEF Init, Objects
    <3>2. ToSet(<<>>) = {} /\ IsInjective(<<>>)
      BY DEF ToSet, IsInjective
    <3>3. \A o \in Objects : {t \in Threads : stat[t].on = o} = {}
      BY DEF Init, Ready, Objects
    <3> QED BY <3>1, <3>2, <3>3 DEF ListsOK
  <2>3. MutexOK
    BY KernelAssumption DEF Init, MutexOK, NoPriority
  <2>4. TimersOK
    BY TickAssumption DEF Init, TimersOK, Ticks
  <2> QED BY <2>1, <2>2, <2>3, <2>4 DEF Init
<1> QED BY <1>1, TypeStep, PTL DEF Spec

-----------------------------------------------------------------------------
(* The mutex.                                                               *)

\* Pairs of threads of which the first is at least as urgent as the second.
Urgent == {p \in Threads \X Threads : init_priority[p[1]] <= init_priority[p[2]]}

\* What the properties of the mutex rest on: the priority to go back to is the owner's own, and the
\* waiters, who run at their own priorities, are sorted by them if the list is kept by priority.
MutexInv ==
    /\ NobodyWaitsForFree
    /\ Restored
    /\ owner # RT_NULL => original_priority = init_priority[owner]
    /\ mutex_flag # "RT_IPC_FLAG_FIFO" => Inherits /\ Sorted(suspend_thread["mutex"], Urgent)

\* A step that leaves the mutex and the priorities alone, and makes some threads ready or suspends
\* one for something else, keeps the invariant.
LEMMA MutexFrame ==
    ASSUME TypeOK, MutexInv, UNCHANGED <<mutex_vars, current_priority>>,
           \A t \in Threads : stat'[t].on = "mutex" => stat[t].on = "mutex",
           Sorted(suspend_thread["mutex"], Urgent) => Sorted(suspend_thread'["mutex"], Urgent)
    PROVE  MutexInv'
<1>1. NobodyWaitsForFree'
  BY DEF MutexInv, NobodyWaitsForFree, mutex_vars
<1>2. Restored'
  BY DEF MutexInv, Restored, mutex_vars
<1>3. Inherits => Inherits'
  BY DEF Inherits, mutex_vars
<1> QED BY <1>1, <1>2, <1>3 DEF MutexInv, mutex_vars

\* Threads that are made ready leave the others in their order.
LEMMA MakeReadySorted ==
    ASSUME TypeOK, NEW S, MakeReady(S)
    PROVE  /\ \A t \in Threads : stat'[t] = IF t \in S THEN Ready ELSE stat[t]
           /\ \A o \in Objects : \A R : Sorted(suspend_thread[o], R) => Sorted(suspend_thread'[o], R)
<1>1. suspend_thread \in [Objects -> Seq(Threads)]
  BY TypeParts DEF ListsOK
<1>2. suspend_thread' = [o \in Objects |-> rt_list_remove(suspend_thread[o], S)]
  BY <1>1 DEF MakeReady
<1>3. ASSUME NEW o \in Objects, NEW R, Sorted(suspend_thread[o], R)
      PROVE  Sorted(suspend_thread'[o], R)
  <2>1. suspend_thread[o] \in Seq(Threads) /\ suspend_thread'[o] = rt_list_remove(suspend_thread[o], S)
    BY <1>1, <1>2
  <2> QED BY <2>1, <1>3, RemoveProperties
<1> QED BY <1>3 DEF MakeReady

\* A thread that is going to wait for the mutex gets its place by its priority and hands it on to
\* the owner.
LEMMA MutexWait ==
    ASSUME TypeOK, MutexInv, NEW t \in Threads, NEW time, stat[t] = Ready, owner # t, value = 0,
           RaiseOwner(t), SuspendOn(t, Waits("mutex"), mutex_flag, time), UNCHANGED mutex_vars
    PROVE  MutexInv'
<1>1. ThreadsOK /\ ListsOK /\ MutexOK
  BY TypeParts
<1>2. owner \in Threads /\ owner # RT_NULL
  BY <1>1 DEF MutexOK
<1>3. /\ current_priority \in [Threads -> Nat] /\ init_priority \in [Threads -> Nat]
      /\ \A u \in Threads : current_priority'[u] =
           IF u = owner /\ current_priority[t] < current_priority[owner] THEN current_priority[t]
           ELSE current_priority[u]
  BY <1>1, <1>2, KernelAssumption DEF RaiseOwner, ThreadsOK
<1>4. \A u \in Threads : stat'[u] = IF u = t THEN Waits("mutex") ELSE stat[u]
  BY <1>1 DEF SuspendOn, Suspend, ThreadsOK
<1>5. NobodyWaitsForFree'
  BY <1>2, <1>4 DEF MutexInv, NobodyWaitsForFree, mutex_vars
<1>6. Restored'
  BY <1>3 DEF MutexInv, Restored, mutex_vars
<1>7. ASSUME mutex_flag # "RT_IPC_FLAG_FIFO" PROVE Inherits' /\ Sorted(suspend_thread'["mutex"], Urgent)
  <2>1. Inherits'
    <3> SUFFICES ASSUME NEW u \in Threads, stat'[u].on = "mutex"
                 PROVE  current_priority'[owner] <= current_priority'[u]
      BY DEF Inherits, mutex_vars
    <3>1. CASE u = t
      BY <3>1, <1>2, <1>3
    <3>2. CASE u # t
      <4>1. stat[u].on = "mutex" /\ u # owner
        BY <3>2, <1>4 DEF MutexInv, NobodyWaitsForFree
      <4>2. current_priority[owner] <= current_priority[u]
        BY <4>1, <1>7 DEF MutexInv, Inherits
      <4> QED BY <4>1, <4>2, <1>2, <1>3
    <3> QED BY <3>1, <3>2
  <2> DEFINE list == suspend_thread["mutex"]
             new == rt_ipc_list_suspend(list, t, mutex_flag, current_priority)
  <2>2. suspend_thread'["mutex"] = new
    BY <1>1 DEF SuspendOn, Waits, ListsOK, Objects
  <2>3. list \in Seq(Threads) /\ ToSet(list) = {u \in Threads : stat[u].on = "mutex"} /\ Sorted(list, Urgent)
    BY <1>1, <1>7 DEF ListsOK, Objects, MutexInv
  <2>4. ASSUME NEW i \in 1 .. Len(list)
        PROVE  list[i] \in Threads /\ current_priority[list[i]] = init_priority[list[i]]
    <3>1. list[i] \in ToSet(list)
      BY <2>3, Members
    <3> QED BY <3>1, <2>3 DEF MutexInv, Restored, NobodyWaitsForFree
  <2>5. current_priority[t] = init_priority[t]
    BY DEF MutexInv, Restored
  <2> HIDE DEF list, new
  <2>6. PICK p \in 1 .. Len(list) + 1 :
               /\ Inserted(new, list, p, t)
               /\ \A i \in 1 .. p - 1 : current_priority[list[i]] <= current_priority[t]
               /\ p <= Len(list) => current_priority[t] < current_priority[list[p]]
    BY <1>3, <1>7, <2>3, SuspendInserts DEF new
  <2>7. Len(list) \in Nat
    BY <2>3
  <2>8. \A i \in 1 .. p - 1 : <<list[i], t>> \in Urgent
    <3> SUFFICES ASSUME NEW i \in 1 .. p - 1 PROVE <<list[i], t>> \in Urgent
      OBVIOUS
    <3>1. i \in 1 .. Len(list)
      BY <2>7
    <3>2. list[i] \in Threads /\ init_priority[list[i]] <= init_priority[t]
      BY <3>1, <2>4, <2>5, <2>6
    <3> QED BY <3>2 DEF Urgent
  <2>9. \A i \in p .. Len(list) : <<t, list[i]>> \in Urgent
    <3> SUFFICES ASSUME NEW i \in p .. Len(list) PROVE <<t, list[i]>> \in Urgent
      OBVIOUS
    <3>1. i \in 1 .. Len(list) /\ p \in 1 .. Len(list) /\ p <= Len(list)
      BY <2>7
    <3>2. list[i] \in Threads /\ list[p] \in Threads /\ init_priority[t] < init_priority[list[p]]
      BY <3>1, <2>4, <2>5, <2>6
    <3>3. i = p \/ <<list[p], list[i]>> \in Urgent
      BY <3>1, <2>3 DEF Sorted
    <3>4. init_priority[list[p]] <= init_priority[list[i]]
      BY <3>2, <3>3, <1>3 DEF Urgent
    <3>5. init_priority[t] <= init_priority[list[i]]
      BY <3>2, <3>4, <1>3
    <3> QED BY <3>2, <3>5 DEF Urgent
  <2>10. new \in Seq(Threads)
    BY <2>3, <1>3, SuspendInserts DEF new
  <2>11. Sorted(new, Urgent)
    <3>1. Between(list, p, t, Urgent)
      BY <2>8, <2>9 DEF Between
    <3> QED BY <3>1, <2>3, <2>6, <2>10, InsertedProperties
  <2> QED BY <2>1, <2>2, <2>11
<1> QED BY <1>5, <1>6, <1>7 DEF MutexInv, mutex_vars

\* The owner gives the mutex to the first waiter and goes back to its own priority.
LEMMA MutexHandOver ==
    ASSUME TypeOK, MutexInv, NEW t \in Threads, owner = t, RestoreOwner(t),
           suspend_thread.mutex # <<>>, HandOver
    PROVE  /\ MutexInv'
           /\ owner' \in Threads /\ stat[owner'].on = "mutex"
           /\ mutex_flag # "RT_IPC_FLAG_FIFO" =>
                \A u \in Threads : stat[u].on = "mutex" => init_priority[owner'] <= init_priority[u]
           /\ current_priority' = [current_priority EXCEPT ![t] = init_priority[t]]
<1>1. ThreadsOK /\ ListsOK /\ MutexOK
  BY TypeParts
<1> DEFINE list == suspend_thread["mutex"]
           first == Head(list)
<1>2. owner' = first /\ original_priority' = current_priority[first] /\ MakeReady({first})
  BY DEF HandOver, rt_thread_resume
<1>3. list \in Seq(Threads) /\ ToSet(list) = {u \in Threads : stat[u].on = "mutex"} /\ list # <<>>
  BY <1>1 DEF ListsOK, Objects
<1> HIDE DEF list
<1>4. Len(list) \in Nat /\ 1 \in 1 .. Len(list) /\ first = list[1]
  BY <1>3
<1>5. first \in Threads /\ stat[first].on = "mutex"
  BY <1>3, <1>4, Members
<1>6. first # t /\ t # RT_NULL /\ first # RT_NULL
  BY <1>5, KernelAssumption DEF MutexInv, NobodyWaitsForFree
<1>7. /\ current_priority \in [Threads -> Nat] /\ init_priority \in [Threads -> Nat]
      /\ original_priority = init_priority[t]
      /\ current_priority' = [current_priority EXCEPT ![t] = init_priority[t]]
  BY <1>1, <1>6, KernelAssumption DEF RestoreOwner, ThreadsOK, MutexInv
<1> HIDE DEF first
<1>8. Restored' /\ original_priority' = init_priority[first] /\ \A u \in Threads : current_priority'[u] = init_priority[u]
  BY <1>2, <1>5, <1>6, <1>7 DEF MutexInv, Restored
<1>9. \A u \in Threads : stat'[u] = IF u = first THEN Ready ELSE stat[u]
  BY <1>2, MakeReadySorted
<1>10. NobodyWaitsForFree'
  BY <1>2, <1>6, <1>9 DEF NobodyWaitsForFree, Ready
<1>11. ASSUME mutex_flag # "RT_IPC_FLAG_FIFO", NEW u \in Threads, stat[u].on = "mutex"
       PROVE  init_priority[first] <= init_priority[u]
  <2>1. PICK i \in 1 .. Len(list) : list[i] = u
    BY <1>3, <1>11, Members
  <2>2. i = 1 \/ <<first, u>> \in Urgent
    BY <2>1, <1>4, <1>11 DEF MutexInv, Sorted, list
  <2> QED BY <2>1, <2>2, <1>4, <1>5, <1>7 DEF Urgent
<1>12. ASSUME mutex_flag # "RT_IPC_FLAG_FIFO" PROVE Inherits' /\ Sorted(suspend_thread'["mutex"], Urgent)
  <2>1. Sorted(suspend_thread'["mutex"], Urgent)
    BY <1>2, <1>12, MakeReadySorted DEF MutexInv, Objects
  <2>2. Inherits'
    BY <1>2, <1>5, <1>8, <1>9, <1>11, <1>12 DEF Inherits, Ready
  <2> QED BY <2>1, <2>2
<1>13. MutexInv'
  BY <1>2, <1>8, <1>10, <1>12 DEF MutexInv
<1> QED BY <1>2, <1>5, <1>7, <1>11, <1>13

\* Every step keeps what is known of the mutex; and if it takes the mutex from its owner while
\* threads wait for it, one of them has it afterwards, than which no other is more urgent.
LEMMA MutexStep ==
    ASSUME TypeOK, MutexInv, [Next]_vars
    PROVE  /\ MutexInv'
           /\ owner' # owner /\ owner # RT_NULL /\ mutex_flag # "RT_IPC_FLAG_FIFO" =>
                \A u \in Threads : stat[u].on = "mutex" => current_priority[owner'] <= current_priority[u]
<1> DEFINE Fair == owner' # owner /\ owner # RT_NULL /\ mutex_flag # "RT_IPC_FLAG_FIFO" =>
                     \A u \in Threads : stat[u].on = "mutex" => current_priority[owner'] <= current_priority[u]
<1>a. ThreadsOK /\ ListsOK /\ MutexOK
  BY TypeParts
<1>b. ASSUME UNCHANGED <<stat, suspend_thread, mutex_vars, current_priority>> PROVE MutexInv' /\ Fair
  BY <1>b, MutexFrame DEF mutex_vars
<1>c. ASSUME NEW S, MakeReady(S), UNCHANGED <<mutex_vars, current_priority>> PROVE MutexInv' /\ Fair
  <2>1. \A t \in Threads : stat'[t] = IF t \in S THEN Ready ELSE stat[t]
    BY <1>c, MakeReadySorted
  <2>2. Sorted(suspend_thread["mutex"], Urgent) => Sorted(suspend_thread'["mutex"], Urgent)
    BY <1>c, MakeReadySorted DEF Objects
  <2>3. \A t \in Threads : stat'[t].on = "mutex" => stat[t].on = "mutex"
    BY <2>1 DEF Ready
  <2> QED BY <1>c, <2>2, <2>3, MutexFrame DEF mutex_vars
<1>1. ASSUME NEW t \in Threads, NEW time \in TakeTimes, rt_mutex_take(t, time)
      PROVE  MutexInv' /\ Fair
  <2>1. stat[t] = Ready
    BY <1>1 DEF rt_mutex_take, Suspended
  <2>2. CASE owner = t /\ UNCHANGED <<stat, current_priority, owner, value, original_priority, suspend_thread, timer_vars>>
    BY <2>2 DEF MutexInv, NobodyWaitsForFree, Restored, Inherits
  <2>3. CASE /\ owner # t /\ value > 0
             /\ value' = value - 1 /\ owner' = t /\ hold' = hold + 1
             /\ original_priority' = current_priority[t]
             /\ UNCHANGED <<stat, current_priority, suspend_thread, timer_vars>>
    <3>1. owner = RT_NULL
      BY <2>3, <1>a DEF MutexOK
    <3>2. \A u \in Threads : stat[u].on # "mutex"
      BY <3>1 DEF MutexInv, NobodyWaitsForFree
    <3>3. \A u \in Threads : current_priority[u] = init_priority[u]
      BY <3>1, KernelAssumption DEF MutexInv, Restored
    <3> QED BY <2>3, <3>1, <3>2, <3>3 DEF MutexInv, NobodyWaitsForFree, Restored, Inherits
  <2>4. CASE UNCHANGED <<stat, current_priority, mutex_vars, suspend_thread, timer_vars>>
    BY <2>4, <1>b
  <2>5. CASE /\ owner # t /\ value = 0
             /\ RaiseOwner(t) /\ SuspendOn(t, Waits("mutex"), mutex_flag, time) /\ UNCHANGED mutex_vars
    BY <2>1, <2>5, MutexWait DEF mutex_vars
  <2> QED BY <1>1, <2>2, <2>3, <2>4, <2>5 DEF rt_mutex_take
<1>2. ASSUME NEW t \in Threads, rt_mutex_release(t)
      PROVE  MutexInv' /\ Fair
  <2>1. CASE UNCHANGED <<stat, current_priority, mutex_vars, suspend_thread, timer_vars>>
    BY <2>1, <1>b
  <2>2. CASE UNCHANGED <<thread_vars, owner, value, original_priority, suspend_thread, timer_vars>>
    BY <2>2 DEF thread_vars, MutexInv, NobodyWaitsForFree, Restored, Inherits
  <2>3. CASE owner = t /\ RestoreOwner(t) /\ suspend_thread.mutex # <<>> /\ HandOver
    <3>1. MutexInv' /\ owner' \in Threads /\ stat[owner'].on = "mutex"
      BY <2>3, MutexHandOver
    <3>2. mutex_flag # "RT_IPC_FLAG_FIFO" =>
            \A u \in Threads : stat[u].on = "mutex" => init_priority[owner'] <= init_priority[u]
      BY <2>3, MutexHandOver
    <3>3. \A u \in Threads : stat[u].on = "mutex" => current_priority[u] = init_priority[u]
      BY DEF MutexInv, Restored, NobodyWaitsForFree
    <3> QED BY <3>1, <3>2, <3>3
  <2>4. CASE owner = t /\ RestoreOwner(t) /\ suspend_thread.mutex = <<>> /\ Free
    <3>1. \A u \in Threads : stat[u].on # "mutex"
      <4>1. ToSet(suspend_thread["mutex"]) = {u \in Threads : stat[u].on = "mutex"}
        BY <1>a DEF ListsOK, Objects
      <4>2. ToSet(<<>>) = {}
        BY DEF ToSet
      <4> QED BY <2>4, <4>1, <4>2
    <3>2. /\ original_priority = init_priority[t] /\ current_priority \in [Threads -> Nat]
          /\ current_priority' = [current_priority EXCEPT ![t] = original_priority]
      BY <2>4, <1>a, KernelAssumption DEF MutexInv, RestoreOwner, ThreadsOK
    <3>3. Restored'
      BY <2>4, <3>2 DEF MutexInv, Restored
    <3> QED BY <2>4, <3>1, <3>3 DEF Free, MutexInv, NobodyWaitsForFree, Inherits
  <2> QED BY <1>2, <2>1, <2>2, <2>3, <2>4 DEF rt_mutex_release
<1>3. ASSUME NEW t \in Sleepers, NEW time \in SleepTimes, rt_thread_sleep(t, time)
      PROVE  MutexInv' /\ Fair
  <2>1. UNCHANGED <<mutex_vars, current_priority, suspend_thread>>
        /\ \A u \in Threads : stat'[u] = IF u = t THEN Waits("sleep") ELSE stat[u]
    BY <1>3, <1>a DEF rt_thread_sleep, Suspend, ThreadsOK
  <2>2. \A u \in Threads : stat'[u].on = "mutex" => stat[u].on = "mutex"
    BY <2>1 DEF Waits
  <2> QED BY <2>1, <2>2, MutexFrame DEF mutex_vars
<1>4. ASSUME NEW t \in Receivers, NEW time \in RecvTimes, NEW r \in Receives, rt_event_recv(t, r, time)
      PROVE  MutexInv' /\ Fair
  <2>1. UNCHANGED <<mutex_vars, current_priority>>
    BY <1>4 DEF rt_event_recv
  <2>2. CASE UNCHANGED <<stat, suspend_thread>>
    BY <2>1, <2>2, <1>b
  <2>3. CASE SuspendOn(t, Receiving(r), event_flag, time)
    <3>1. suspend_thread'["mutex"] = suspend_thread["mutex"]
          /\ \A u \in Threads : stat'[u] = IF u = t THEN Receiving(r) ELSE stat[u]
      BY <2>3, <1>a DEF SuspendOn, Suspend, Receiving, ThreadsOK, ListsOK, Objects
    <3>2. \A u \in Threads : stat'[u].on = "mutex" => stat[u].on = "mutex"
      BY <3>1 DEF Receiving
    <3> QED BY <2>1, <3>1, <3>2, MutexFrame DEF mutex_vars
  <2> QED BY <1>4, <2>2, <2>3 DEF rt_event_recv
<1>5. ASSUME NEW bits \in SUBSET Bits, rt_event_send(bits)
      PROVE  MutexInv' /\ Fair
  BY <1>5, <1>c DEF rt_event_send, rt_thread_resume
<1>6. ASSUME rt_event_control
      PROVE  MutexInv' /\ Fair
  BY <1>6, <1>c DEF rt_event_control, rt_thread_resume
<1>7. ASSUME StartTimer \/ TimerStarted \/ StopTimer
      PROVE  MutexInv' /\ Fair
  BY <1>7, <1>b DEF StartTimer, TimerStarted, StopTimer, thread_vars
<1>8. ASSUME rt_tick_increase
      PROVE  MutexInv' /\ Fair
  BY <1>8, <1>c DEF rt_tick_increase, rt_thread_timeout
<1>9. CASE UNCHANGED vars
  BY <1>9, <1>b DEF vars, thread_vars
<1> QED BY <1>1, <1>2, <1>3, <1>4, <1>5, <1>6, <1>7, <1>8, <1>9 DEF Next

LEMMA MutexInvariant == Spec => [](TypeOK /\ MutexInv)
<1>1. Init => MutexInv
  <2> SUFFICES ASSUME Init PROVE MutexInv
    OBVIOUS
  <2>1. \A t \in Threads : stat[t].on # "mutex"
    BY DEF Init, Ready
  <2>2. Sorted(suspend_thread["mutex"], Urgent)
    BY DEF Init, Sorted
  <2> QED BY <2>1, <2>2 DEF Init, MutexInv, NobodyWaitsForFree, Restored, Inherits
<1>2. TypeOK /\ MutexInv /\ [Next]_vars => MutexInv'
  BY MutexStep
<1> QED BY <1>1, <1>2, TypeCorrect, PTL DEF Spec

\* No thread stays suspended for a mutex that is free or its own: rt_mutex_release hands the mutex
\* over before anyone else can take it, and only the owner's nested take succeeds at once.
THEOREM WaitersHaveOwner == Spec => []NobodyWaitsForFree
<1>1. MutexInv => NobodyWaitsForFree
  BY DEF MutexInv
<1> QED BY <1>1, MutexInvariant, PTL

\* rt_mutex_release gives a thread back its own priority, however often it was raised meanwhile and
\* whichever waiters have given up.
THEOREM PrioritiesRestored == Spec => []Restored
<1>1. MutexInv => Restored
  BY DEF MutexInv
<1> QED BY <1>1, MutexInvariant, PTL

\* With a list kept by priority, the owner of the mutex is at least as urgent as every waiter.
THEOREM PriorityInheritance ==
    ASSUME mutex_flag = "RT_IPC_FLAG_PRIO"
    PROVE  Spec => []Inherits
<1>1. MutexInv => Inherits
  BY DEF MutexInv
<1> QED BY <1>1, MutexInvariant, PTL

\* With a list kept by priority, rt_mutex_release chooses a waiter than which none is more urgent.
THEOREM HandsToMostUrgent ==
    ASSUME mutex_flag = "RT_IPC_FLAG_PRIO"
    PROVE  Spec => MostUrgentNext
<1>1. TypeOK /\ MutexInv /\ [Next]_vars =>
        (owner' # owner /\ owner # RT_NULL =>
           \A u \in Threads : stat[u].on = "mutex" => current_priority[owner'] <= current_priority[u])
  BY MutexStep
<1> QED BY <1>1, MutexInvariant, PTL DEF Spec, MostUrgentNext

-----------------------------------------------------------------------------
(* The event set, and how a wait ends.                                      *)

\* A thread that waits has no error code from an earlier call, and no thread waits for bits that
\* are set.
WaitInv ==
    /\ NoMissedEvent
    /\ \A t \in Threads : stat[t].on \in Objects => error[t] = "RT_EOK"

\* The bodies of Outcome and EventConserved.
Ends(t) ==
    Suspended(t) /\ stat'[t] = Ready =>
      /\ stat[t].on = "mutex" => ((error'[t] = "RT_EOK") <=> (owner' = t))
      /\ stat[t].on = "event" =>
           ((error'[t] = "RT_EOK") <=> \E x \in moved'.to : x.thread = t /\ Satisfies(x.bits, stat[t].recv))
Conserves(b) ==
    IF b \in set \cup moved'.sent THEN Cardinality(Takers(moved'.to, b)) = (IF b \in set' THEN 0 ELSE 1)
    ELSE b \notin set' /\ Takers(moved'.to, b) = {}

\* A bit that is kept by the definition of Kept is conserved.
LEMMA KeptConserves ==
    ASSUME NEW b, Kept(b, set \cup moved'.sent, set', moved'.to)
    PROVE  Conserves(b)
<1>1. Cardinality({}) = 0
  BY FS_EmptySet
<1>2. \A x : Cardinality({x}) = 1
  BY FS_Singleton
<1> QED BY <1>1, <1>2 DEF Kept, Conserves

\* A step that hands nothing over conserves every bit if it leaves the set alone.
LEMMA NothingMoved ==
    ASSUME moved' = Nothing, set' = set, NEW b
    PROVE  Conserves(b)
<1>1. moved'.sent = {} /\ moved'.to = {}
  BY DEF Nothing
<1>2. Takers({}, b) = {}
  BY DEF Takers
<1> QED BY <1>1, <1>2, KeptConserves DEF Kept

\* A step that suspends nobody on the event set and resumes nobody, or suspends t only.
LEMMA NobodyResumed ==
    ASSUME TypeOK, NEW t \in Threads, NEW what, stat[t] = Ready,
           stat' = [stat EXCEPT ![t] = what]
    PROVE  \A u \in Threads : Ends(u)
<1>1. \A u \in Threads : u # t => stat'[u] = stat[u]
  BY TypeParts DEF ThreadsOK
<1> QED BY <1>1 DEF Ends, Suspended

\* Threads are made ready; the set, the codes of the others and the mutex stay as they are.
LEMMA ResumeWaits ==
    ASSUME TypeOK, WaitInv, NEW S, MakeReady(S), set' \subseteq set,
           \A t \in Threads \ S : error'[t] = error[t]
    PROVE  WaitInv'
<1>1. \A t \in Threads : stat'[t] = IF t \in S THEN Ready ELSE stat[t]
  BY MakeReadySorted
<1>2. Ready.on \notin Objects
  BY DEF Ready, Objects
<1>3. ASSUME NEW t \in Threads, stat'[t].on = "event" PROVE ~Satisfies(set', stat'[t].recv)
  <2>1. t \notin S /\ stat'[t] = stat[t] /\ stat[t].on = "event"
    BY <1>1, <1>2, <1>3 DEF Objects
  <2>2. stat[t].recv \in Receives
    BY <2>1, TypeParts, StatusFacts DEF ThreadsOK
  <2> QED BY <2>1, <2>2, SatisfiesMonotone DEF WaitInv, NoMissedEvent
<1>4. \A t \in Threads : stat'[t].on \in Objects => error'[t] = "RT_EOK"
  BY <1>1, <1>2 DEF WaitInv
<1> QED BY <1>3, <1>4 DEF WaitInv, NoMissedEvent

LEMMA WaitStep ==
    ASSUME TypeOK, MutexInv, WaitInv, Next
    PROVE  WaitInv' /\ (\A t \in Threads : Ends(t)) /\ (rt_event_control \/ \A b \in Bits : Conserves(b))
<1> DEFINE Goal == WaitInv' /\ (\A t \in Threads : Ends(t)) /\ (rt_event_control \/ \A b \in Bits : Conserves(b))
<1>a. ThreadsOK /\ ListsOK /\ MutexOK
  BY TypeParts
<1>b. ASSUME UNCHANGED stat PROVE \A t \in Threads : Ends(t)
  BY <1>b DEF Ends, Suspended
<1>c. ASSUME NEW t \in Threads, UNCHANGED <<stat, set>>, stat[t] = Ready, \A u \in Threads : u # t => error'[u] = error[u]
      PROVE  WaitInv'
  BY <1>c DEF WaitInv, NoMissedEvent, Ready, Objects
<1>d. ASSUME NEW t \in Threads, NEW what, stat' = [stat EXCEPT ![t] = what], set' = set, error'[t] = "RT_EOK",
             \A u \in Threads : u # t => error'[u] = error[u],
             what.on = "event" => ~Satisfies(set, what.recv)
      PROVE  WaitInv'
  <2>1. \A u \in Threads : stat'[u] = IF u = t THEN what ELSE stat[u]
    BY <1>a, <1>d DEF ThreadsOK
  <2> QED BY <1>d, <2>1 DEF WaitInv, NoMissedEvent
<1>1. ASSUME NEW t \in Threads, NEW time \in TakeTimes, rt_mutex_take(t, time)
      PROVE  Goal
  <2>1. /\ stat[t] = Ready /\ moved' = Nothing /\ set' = set
        /\ error' = [error EXCEPT ![t] = IF owner # t /\ value = 0 /\ time = 0 THEN "-RT_ETIMEOUT" ELSE "RT_EOK"]
    BY <1>1 DEF rt_mutex_take, Suspended
  <2>2. \A u \in Threads : u # t => error'[u] = error[u]
    BY <2>1, <1>a DEF ThreadsOK
  <2>3. \A b \in Bits : Conserves(b)
    BY <2>1, NothingMoved
  <2>4. CASE UNCHANGED stat
    BY <2>1, <2>2, <2>3, <2>4, <1>b, <1>c
  <2>5. CASE time # 0 /\ SuspendOn(t, Waits("mutex"), mutex_flag, time)
    <3>1. stat' = [stat EXCEPT ![t] = Waits("mutex")] /\ error'[t] = "RT_EOK" /\ Waits("mutex").on # "event"
      BY <2>1, <2>5, <1>a DEF SuspendOn, Suspend, Waits, ThreadsOK
    <3>2. WaitInv'
      BY <3>1, <2>1, <2>2, <1>d
    <3>3. \A u \in Threads : Ends(u)
      BY <3>1, <2>1, NobodyResumed
    <3> QED BY <3>2, <3>3, <2>3
  <2> QED BY <1>1, <2>4, <2>5 DEF rt_mutex_take
<1>2. ASSUME NEW t \in Threads, rt_mutex_release(t)
      PROVE  Goal
  <2>1. stat[t] = Ready /\ moved' = Nothing /\ set' = set
    BY <1>2 DEF rt_mutex_release, Suspended
  <2>2. \A b \in Bits : Conserves(b)
    BY <2>1, NothingMoved
  <2>3. CASE UNCHANGED stat /\ (error' = [error EXCEPT ![t] = "-RT_ERROR"] \/ UNCHANGED error)
    <3>1. \A u \in Threads : u # t => error'[u] = error[u]
      BY <2>3, <1>a DEF ThreadsOK
    <3> QED BY <2>1, <2>2, <2>3, <3>1, <1>b, <1>c
  <2>4. CASE owner = t /\ RestoreOwner(t) /\ suspend_thread.mutex # <<>> /\ HandOver /\ UNCHANGED error
    <3>1. MakeReady({owner'})
      BY <2>4 DEF HandOver, rt_thread_resume
    <3>2. owner' \in Threads /\ stat[owner'].on = "mutex"
      BY <2>4, MutexHandOver
    <3>3. WaitInv'
      BY <2>1, <2>4, <3>1, ResumeWaits
    <3>4. \A u \in Threads : Suspended(u) /\ stat'[u] = Ready => u = owner'
      BY <3>1, MakeReadySorted DEF Suspended
    <3>5. error'[owner'] = "RT_EOK"
      BY <2>4, <3>2 DEF WaitInv, Objects
    <3>6. \A u \in Threads : Ends(u)
      BY <3>2, <3>4, <3>5 DEF Ends
    <3> QED BY <2>2, <3>3, <3>6
  <2>5. CASE Free /\ UNCHANGED error
    BY <2>1, <2>2, <2>5, <1>b, <1>c DEF Free
  <2> QED BY <1>2, <2>3, <2>4, <2>5 DEF rt_mutex_release, thread_vars
<1>3. ASSUME NEW t \in Sleepers, NEW time \in SleepTimes, rt_thread_sleep(t, time)
      PROVE  Goal
  <2>1. t \in Threads
    BY KernelAssumption
  <2>2. /\ stat[t] = Ready /\ stat' = [stat EXCEPT ![t] = Waits("sleep")]
        /\ moved' = Nothing /\ UNCHANGED <<set, error>>
    BY <1>3 DEF rt_thread_sleep, Suspend, Suspended
  <2>3. \A u \in Threads : Ends(u)
    BY <2>1, <2>2, NobodyResumed
  <2>4. \A u \in Threads : stat'[u].on \in Objects => stat'[u] = stat[u]
    BY <2>1, <2>2, <1>a DEF Waits, Objects, ThreadsOK
  <2>5. WaitInv'
    BY <2>2, <2>4 DEF WaitInv, NoMissedEvent, Objects
  <2> QED BY <2>2, <2>3, <2>5, NothingMoved
<1>4. ASSUME NEW t \in Receivers, NEW time \in RecvTimes, NEW r \in Receives, rt_event_recv(t, r, time)
      PROVE  Goal
  <2>1. t \in Threads
    BY KernelAssumption
  <2>2. /\ stat[t] = Ready
        /\ error' = [error EXCEPT ![t] = IF ~Satisfies(set, r) /\ time = 0 THEN "-RT_ETIMEOUT" ELSE "RT_EOK"]
    BY <1>4 DEF rt_event_recv, Suspended
  <2>3. \A u \in Threads : u # t => error'[u] = error[u]
    BY <2>1, <2>2, <1>a DEF ThreadsOK
  <2>4. CASE /\ moved' = [sent |-> {}, to |-> {[thread |-> t, bits |-> Handed(set, r), clear |-> r.clear]}]
             /\ set' = AfterRecv(set, r) /\ UNCHANGED stat
    <3>1. r.set \subseteq Bits /\ r.clear \in BOOLEAN
      BY KernelAssumption
    <3> DEFINE g == [thread |-> t, bits |-> Handed(set, r), clear |-> r.clear]
    <3>2. moved'.sent = {} /\ moved'.to = {g} /\ g.bits = r.set \cap set /\ g.clear = r.clear
      BY <2>4 DEF Handed
    <3> HIDE DEF g
    <3>3. ASSUME NEW b \in Bits PROVE Conserves(b)
      <4>1. CASE r.clear /\ b \in r.set /\ b \in set
        <5>1. Takers(moved'.to, b) = {g} /\ b \notin set'
          BY <4>1, <3>2, <2>4 DEF Takers, AfterRecv
        <5> QED BY <5>1, <4>1, KeptConserves DEF Kept
      <4>2. CASE ~(r.clear /\ b \in r.set /\ b \in set)
        <5>1. Takers(moved'.to, b) = {} /\ (b \in set' <=> b \in set)
          BY <4>2, <3>2, <2>4 DEF Takers, AfterRecv
        <5> QED BY <5>1, <3>2, KeptConserves DEF Kept
      <4> QED BY <4>1, <4>2
    <3>4. set' \subseteq set
      BY <2>4 DEF AfterRecv
    <3>5. WaitInv'
      <4>1. ASSUME NEW u \in Threads, stat[u].on = "event" PROVE ~Satisfies(set', stat[u].recv)
        <5>1. stat[u].recv \in Receives
          BY <4>1, <1>a, StatusFacts DEF ThreadsOK
        <5> QED BY <5>1, <4>1, <3>4, SatisfiesMonotone DEF WaitInv, NoMissedEvent
      <4> QED BY <4>1, <2>2, <2>3, <2>4 DEF WaitInv, NoMissedEvent, Ready, Objects
    <3> QED BY <2>4, <3>3, <3>5, <1>b
  <2>5. CASE moved' = Nothing /\ UNCHANGED <<stat, set>>
    BY <2>1, <2>2, <2>3, <2>5, <1>b, <1>c, NothingMoved
  <2>6. CASE ~Satisfies(set, r) /\ time # 0 /\ SuspendOn(t, Receiving(r), event_flag, time) /\ moved' = Nothing /\ UNCHANGED set
    <3>1. /\ stat' = [stat EXCEPT ![t] = Receiving(r)] /\ error'[t] = "RT_EOK"
          /\ Receiving(r).recv = r
      BY <2>1, <2>2, <2>6, <1>a DEF SuspendOn, Suspend, Receiving, ThreadsOK
    <3>2. WaitInv'
      BY <3>1, <2>1, <2>3, <2>6, <1>d
    <3>3. \A u \in Threads : Ends(u)
      BY <3>1, <2>1, <2>2, NobodyResumed
    <3> QED BY <2>6, <3>2, <3>3, NothingMoved
  <2> QED BY <1>4, <2>4, <2>5, <2>6 DEF rt_event_recv
<1>5. ASSUME NEW bits \in SUBSET Bits, rt_event_send(bits)
      PROVE  Goal
  <2> DEFINE list == suspend_thread["event"]
             all == Offered(list, set \cup bits)
             S == {x.thread : x \in all.to}
  <2>1. /\ set' = all.set /\ moved' = [sent |-> bits, to |-> all.to] /\ MakeReady(S) /\ UNCHANGED error
    BY <1>5 DEF rt_event_send, rt_thread_resume
  <2>2. moved'.sent = bits /\ moved'.to = all.to
    BY <2>1
  <2>3. list \in Seq(Threads) /\ ToSet(list) = {t \in Threads : stat[t].on = "event"}
    BY <1>a DEF ListsOK, Objects
  <2>4. \A t \in ToSet(list) : stat[t].recv \in Receives
    BY <2>3, <1>a, StatusFacts DEF ThreadsOK
  <2>5. LoopInv(list, set \cup bits, Len(list), all)
    <3>1. set \cup bits \in SUBSET Bits
      BY TypeParts
    <3> QED BY <2>3, <2>4, <3>1, OfferedProperties
  <2> HIDE DEF all, list
  <2>6. \A b \in Bits : Conserves(b)
    <3>1. \A b \in Bits : Kept(b, set \cup bits, all.set, all.to)
      BY <2>5 DEF LoopInv
    <3> QED BY <3>1, <2>1, <2>2, KeptConserves
  <2>7. \A t \in Threads : stat'[t] = IF t \in S THEN Ready ELSE stat[t]
    BY <2>1, MakeReadySorted
  <2>8. ASSUME NEW x \in all.to
        PROVE  x.thread \in Threads /\ stat[x.thread].on = "event" /\ Satisfies(x.bits, stat[x.thread].recv)
    <3>1. (\E j \in 1 .. Len(list) : x.thread = list[j]) /\ Satisfies(x.bits, stat[x.thread].recv)
      BY <2>5 DEF LoopInv
    <3>2. x.thread \in ToSet(list)
      BY <3>1, <2>3, Members
    <3> QED BY <3>1, <3>2, <2>3
  <2>9. ASSUME NEW t \in Threads PROVE Ends(t)
    <3> SUFFICES ASSUME Suspended(t), stat'[t] = Ready
                 PROVE  /\ stat[t].on = "event" /\ error'[t] = "RT_EOK"
                        /\ \E x \in moved'.to : x.thread = t /\ Satisfies(x.bits, stat[t].recv)
      BY DEF Ends
    <3>1. t \in S
      BY <2>7 DEF Suspended
    <3>2. PICK x \in all.to : x.thread = t
      BY <3>1
    <3>3. stat[t].on = "event" /\ Satisfies(x.bits, stat[t].recv)
      BY <2>8, <3>2
    <3>4. error'[t] = "RT_EOK"
      BY <2>1, <3>3 DEF WaitInv, Objects
    <3> QED BY <3>2, <3>3, <3>4, <2>2
  <2>10. ASSUME NEW t \in Threads, stat'[t].on = "event" PROVE ~Satisfies(set', stat'[t].recv)
    <3>1. t \notin S /\ stat'[t] = stat[t] /\ stat[t].on = "event"
      BY <2>7, <2>10 DEF Ready
    <3>2. PICK j \in 1 .. Len(list) : list[j] = t
      BY <3>1, <2>3, Members
    <3>3. ~\E x \in all.to : x.thread = list[j]
      BY <3>1, <3>2
    <3>4. ~Satisfies(all.set, stat[list[j]].recv)
      BY <3>3, <2>5 DEF LoopInv
    <3> QED BY <3>1, <3>2, <3>4, <2>1
  <2>11. \A t \in Threads : stat'[t].on \in Objects => error'[t] = "RT_EOK"
    BY <2>1, <2>7 DEF WaitInv, Ready, Objects
  <2>12. WaitInv'
    BY <2>10, <2>11 DEF WaitInv, NoMissedEvent
  <2> QED BY <2>6, <2>9, <2>12
<1>6. ASSUME rt_event_control
      PROVE  Goal
  <2> DEFINE S == ToSet(suspend_thread["event"])
  <2>1. /\ MakeReady(S) /\ error' = [t \in Threads |-> IF t \in S THEN "-RT_ERROR" ELSE error[t]]
        /\ set' = {} /\ moved' = Nothing
    BY <1>6 DEF rt_event_control, rt_thread_resume
  <2>2. S = {t \in Threads : stat[t].on = "event"}
    BY <1>a DEF ListsOK, Objects
  <2> HIDE DEF S
  <2>3. WaitInv'
    BY <2>1, ResumeWaits
  <2>4. \A t \in Threads : Suspended(t) /\ stat'[t] = Ready => t \in S
    BY <2>1, MakeReadySorted DEF Suspended
  <2>5. \A t \in Threads : Ends(t)
    BY <2>1, <2>2, <2>4 DEF Ends, Nothing
  <2> QED BY <1>6, <2>3, <2>5
<1>7. ASSUME StartTimer \/ TimerStarted \/ StopTimer
      PROVE  Goal
  <2>1. moved' = Nothing /\ UNCHANGED <<stat, error, set>>
    BY <1>7 DEF StartTimer, TimerStarted, StopTimer, thread_vars
  <2>2. WaitInv'
    BY <2>1 DEF WaitInv, NoMissedEvent
  <2> QED BY <2>1, <2>2, <1>b, NothingMoved
<1>8. ASSUME rt_tick_increase
      PROVE  Goal
  <2> DEFINE S == rt_timer_check(timer_list, After(rt_tick, 1)) \ {timer}
  <2>1. rt_thread_timeout(S) /\ moved' = Nothing /\ UNCHANGED <<set, mutex_vars>>
    BY <1>8 DEF rt_tick_increase
  <2> HIDE DEF S
  <2>2. /\ MakeReady(S)
        /\ error' = [t \in Threads |->
             IF t \notin S THEN error[t] ELSE IF stat[t].on = "sleep" THEN "RT_EOK" ELSE "-RT_ETIMEOUT"]
    BY <2>1 DEF rt_thread_timeout
  <2>3. WaitInv'
    BY <2>1, <2>2, ResumeWaits
  <2>4. \A t \in Threads : Suspended(t) /\ stat'[t] = Ready => t \in S
    BY <2>2, MakeReadySorted DEF Suspended
  <2>5. \A t \in Threads : stat[t].on = "mutex" => owner' # t
    BY <2>1 DEF mutex_vars, MutexInv, NobodyWaitsForFree
  <2>6. \A t \in Threads : Ends(t)
    BY <2>1, <2>2, <2>4, <2>5 DEF Ends, Nothing
  <2> QED BY <2>1, <2>3, <2>6, NothingMoved
<1> QED BY <1>1, <1>2, <1>3, <1>4, <1>5, <1>6, <1>7, <1>8 DEF Next

LEMMA WaitInvariant == Spec => []WaitInv
<1>1. Init => WaitInv
  BY DEF Init, WaitInv, NoMissedEvent, Ready, Objects
<1>2. TypeOK /\ MutexInv /\ WaitInv /\ [Next]_vars => WaitInv'
  <2>1. ASSUME WaitInv, UNCHANGED vars PROVE WaitInv'
    BY <2>1 DEF WaitInv, NoMissedEvent, vars, thread_vars
  <2> QED BY <2>1, WaitStep
<1> QED BY <1>1, <1>2, MutexInvariant, PTL DEF Spec

\* No thread stays suspended for bits that are set: rt_event_send looks at every waiter, and what
\* it has passed over stays unsatisfied as the set shrinks.
THEOREM EventsNotMissed == Spec => []NoMissedEvent
<1>1. WaitInv => NoMissedEvent
  BY DEF WaitInv
<1> QED BY <1>1, WaitInvariant, PTL

\* A wait that ends has the outcome its error code says.
THEOREM OutcomesAgree == Spec => Outcome
<1>1. TypeOK /\ MutexInv /\ WaitInv /\ Next => \A t \in Threads : Ends(t)
  BY WaitStep
<1>2. [][\A t \in Threads : Ends(t)]_vars => Outcome
  BY DEF Outcome, Ends
<1> QED BY <1>1, <1>2, MutexInvariant, WaitInvariant, PTL DEF Spec

\* No bit of an event is lost, none is given twice to threads that clear it, and none comes from
\* nowhere.
THEOREM BitsConserved == Spec => EventConserved
<1>1. TypeOK /\ MutexInv /\ WaitInv /\ Next => rt_event_control \/ \A b \in Bits : Conserves(b)
  BY WaitStep
<1>2. [][rt_event_control \/ \A b \in Bits : Conserves(b)]_vars => EventConserved
  BY DEF EventConserved, Conserves, Takers
<1> QED BY <1>1, <1>2, MutexInvariant, WaitInvariant, PTL DEF Spec

-----------------------------------------------------------------------------
(* The timers.                                                              *)

\* The differences of ticks, without the remainder they are defined with.
LEMMA SinceCases ==
    ASSUME NEW a \in Ticks, NEW b \in Ticks
    PROVE  Since(a, b) = IF a >= b THEN a - b ELSE a - b + (RT_TICK_MAX + 1)
<1> DEFINE m == RT_TICK_MAX + 1
           c == a - b
<1>1. /\ RT_TICK_MAX \in Nat /\ m \in Nat \ {0} /\ a \in Nat /\ b \in Nat /\ a < m /\ b < m /\ c \in Int
      /\ c < m /\ c >= -m
  BY TickAssumption DEF Ticks
<1>2. Since(a, b) = c % m
  BY DEF Since
<1>3. CASE a >= b
  <2>1. c \in 0 .. m - 1
    BY <1>1, <1>3
  <2>2. c % m = c
    <3> HIDE DEF c, m
    <3> QED BY <2>1, <1>1
  <2> QED BY <2>2, <1>2, <1>3
<1>4. CASE ~(a >= b)
  <2>1. c < 0
    BY <1>1, <1>4
  <2>2. c % m = c + m
    <3> HIDE DEF c, m
    <3> QED BY <2>1, <1>1
  <2> QED BY <2>2, <1>2, <1>4
<1> QED BY <1>3, <1>4

LEMMA AfterCases ==
    ASSUME NEW a \in Ticks, NEW b \in Ticks
    PROVE  After(a, b) = IF a + b <= RT_TICK_MAX THEN a + b ELSE a + b - (RT_TICK_MAX + 1)
<1> DEFINE m == RT_TICK_MAX + 1
           c == a + b
<1>1. /\ RT_TICK_MAX \in Nat /\ m \in Nat \ {0} /\ a \in Nat /\ b \in Nat /\ a < m /\ b < m /\ c \in Int
      /\ c >= 0 /\ c < 2 * m
  BY TickAssumption DEF Ticks
<1>2. After(a, b) = c % m
  BY DEF After
<1>3. CASE c < m
  <2>1. c % m = c
    <3> HIDE DEF c, m
    <3> QED BY <1>1, <1>3
  <2> QED BY <2>1, <1>1, <1>2, <1>3
<1>4. CASE c >= m
  <2>1. c % m = c - m
    <3> HIDE DEF c, m
    <3> QED BY <1>1, <1>4
  <2> QED BY <2>1, <1>1, <1>2, <1>4
<1> QED BY <1>1, <1>3, <1>4

\* The ticks that are left until tick, less than 0 if it has passed.
Left(tick, now) == IF Since(tick, now) < Half THEN Since(tick, now) ELSE Since(tick, now) - (RT_TICK_MAX + 1)

\* How far a timer may be from its tick.
InTime(x, now) ==
    IF x.timer = timer
    THEN 0 <= Left(x.timeout_tick, now) + MaxLate /\ Left(x.timeout_tick, now) <= init_tick
    ELSE 1 <= Left(x.timeout_tick, now) /\ Left(x.timeout_tick, now) + MaxLate < Half

HalfFacts == Half \in Nat /\ 2 * Half <= RT_TICK_MAX /\ RT_TICK_MAX \in Nat /\ MaxLate \in Nat /\ init_tick \in Nat
             /\ init_tick >= 1 /\ init_tick + MaxLate < Half

LEMMA HalfLemma == HalfFacts
<1>1. RT_TICK_MAX \in Nat /\ Half \in Nat /\ 2 * Half <= RT_TICK_MAX
  BY TickAssumption DEF Half
<1> QED BY <1>1, KernelAssumption DEF HalfFacts

\* Near(k): k is far enough from half of the range.
Near(k) == k \in Int /\ 0 <= k + MaxLate /\ k + MaxLate < Half

LEMMA InTimeNear ==
    ASSUME NEW x \in TimerOf, NEW now \in Ticks, InTime(x, now)
    PROVE  Near(Left(x.timeout_tick, now))
<1>1. x.timeout_tick \in Ticks
  BY DEF TimerOf
<1> DEFINE tick == x.timeout_tick
<1> HIDE DEF tick
<1>2. Since(tick, now) \in Int
  BY <1>1, SinceCases, HalfLemma DEF tick, HalfFacts, Ticks
<1>3. Left(tick, now) \in Int
  BY <1>2, HalfLemma DEF Left, HalfFacts
<1> QED BY <1>3, HalfLemma DEF tick, InTime, Near, HalfFacts

\* A timer started now for time ticks has them left.
LEMMA LeftAfter ==
    ASSUME NEW now \in Ticks, NEW time \in Nat, time + MaxLate < Half
    PROVE  Left(After(now, time), now) = time
<1>1. time \in Ticks
  BY HalfLemma DEF HalfFacts, Ticks
<1>2. After(now, time) \in Ticks
  BY AfterType
<1> DEFINE to == After(now, time)
<1>3. to = IF now + time <= RT_TICK_MAX THEN now + time ELSE now + time - (RT_TICK_MAX + 1)
  BY <1>1, AfterCases
<1> HIDE DEF to
<1>4. /\ now \in Nat /\ now <= RT_TICK_MAX /\ to \in Nat /\ to <= RT_TICK_MAX
      /\ Since(to, now) = IF to >= now THEN to - now ELSE to - now + (RT_TICK_MAX + 1)
  BY <1>2, SinceCases, HalfLemma DEF to, HalfFacts, Ticks
<1>5. Left(to, now) = time
  BY <1>3, <1>4, HalfLemma DEF Left, HalfFacts
<1> QED BY <1>5 DEF to

\* With every tick one less is left.
LEMMA LeftTick ==
    ASSUME NEW now \in Ticks, NEW tick \in Ticks, Near(Left(tick, now))
    PROVE  /\ After(now, 1) \in Ticks /\ After(now, 1) # now
           /\ Left(tick, now) > -MaxLate => Left(tick, After(now, 1)) = Left(tick, now) - 1
           /\ Left(tick, now) <= 1 => Since(After(now, 1), tick) = 1 - Left(tick, now)
           /\ Left(tick, now) > 1 => Since(After(now, 1), tick) > MaxLate + 1
           /\ Due(After(now, 1), tick) <=> Left(tick, now) <= 1
<1>1. 1 \in Ticks /\ After(now, 1) \in Ticks
  <2>1. 1 \in Ticks
    BY TickAssumption DEF Ticks
  <2>2. 1 \in Nat
    OBVIOUS
  <2> QED BY <2>1, <2>2, AfterType
<1>2. After(now, 1) = IF now + 1 <= RT_TICK_MAX THEN now + 1 ELSE 0
  BY <1>1, AfterCases, HalfLemma DEF HalfFacts, Ticks
<1>3. /\ now \in Nat /\ now <= RT_TICK_MAX /\ tick \in Nat /\ tick <= RT_TICK_MAX
      /\ Since(tick, now) = IF tick >= now THEN tick - now ELSE tick - now + (RT_TICK_MAX + 1)
  BY SinceCases, HalfLemma DEF HalfFacts, Ticks
<1> DEFINE next == After(now, 1)
<1>4. next \in Ticks
  BY <1>1
<1> HIDE DEF next
<1>5. /\ next \in Nat /\ next <= RT_TICK_MAX
      /\ Since(tick, next) = IF tick >= next THEN tick - next ELSE tick - next + (RT_TICK_MAX + 1)
      /\ Since(next, tick) = IF next >= tick THEN next - tick ELSE next - tick + (RT_TICK_MAX + 1)
  BY <1>4, SinceCases, HalfLemma DEF HalfFacts, Ticks
<1>6. next = IF now + 1 <= RT_TICK_MAX THEN now + 1 ELSE 0
  BY <1>2 DEF next
<1>7. next # now
  BY <1>3, <1>6, TickAssumption
<1>8. Left(tick, now) > -MaxLate => Left(tick, next) = Left(tick, now) - 1
  BY <1>3, <1>5, <1>6, HalfLemma DEF HalfFacts, Left, Near
<1>9. Left(tick, now) <= 1 => Since(next, tick) = 1 - Left(tick, now)
  BY <1>3, <1>5, <1>6, HalfLemma DEF HalfFacts, Left, Near
<1>10. Left(tick, now) > 1 => Since(next, tick) > MaxLate + 1 /\ Since(next, tick) >= Half
  BY <1>3, <1>5, <1>6, HalfLemma DEF HalfFacts, Left, Near
<1>11. Due(next, tick) <=> Left(tick, now) <= 1
  BY <1>9, <1>10, <1>3, <1>5, HalfLemma DEF HalfFacts, Due, Near
<1> QED BY <1>4, <1>7, <1>8, <1>9, <1>10, <1>11 DEF next

\* The comparison of rt_timer_start is right for timers that are near.
LEMMA LaterIsLater ==
    ASSUME NEW now \in Ticks, NEW a \in Ticks, NEW b \in Ticks, Near(Left(a, now)), Near(Left(b, now))
    PROVE  Later(a, b) <=> Left(a, now) > Left(b, now)
<1>1. /\ now \in Nat /\ now <= RT_TICK_MAX /\ a \in Nat /\ a <= RT_TICK_MAX /\ b \in Nat /\ b <= RT_TICK_MAX
      /\ Since(a, now) = IF a >= now THEN a - now ELSE a - now + (RT_TICK_MAX + 1)
      /\ Since(b, now) = IF b >= now THEN b - now ELSE b - now + (RT_TICK_MAX + 1)
      /\ Since(a, b) = IF a >= b THEN a - b ELSE a - b + (RT_TICK_MAX + 1)
  BY SinceCases, HalfLemma DEF HalfFacts, Ticks
<1> QED BY <1>1, HalfLemma DEF HalfFacts, Left, Near, Later

Differ == {p \in TimerOf \X TimerOf : p[1].timer # p[2].timer}
Earlier(now) ==
    {p \in TimerOf \X TimerOf : Left(p[1].timeout_tick, now) <= Left(p[2].timeout_tick, now)}

\* No timer is in the list twice, none is too far from its tick, and the next to expire is first.
InOrder(list, now) ==
    /\ Sorted(list, Differ)
    /\ \A x \in ToSet(list) : InTime(x, now)
    /\ Sorted(list, Earlier(now))

\* rt_timer_start keeps the order.
LEMMA StartInOrder ==
    ASSUME NEW list \in Seq(TimerOf), NEW now \in Ticks, InOrder(list, now),
           NEW x \in TimerOf, x.timer \notin Running(list), InTime(x, now)
    PROVE  LET r == rt_timer_start(list, x.timer, x.timeout_tick)
           IN  r \in Seq(TimerOf) /\ InOrder(r, now) /\ Running(r) = Running(list) \cup {x.timer}
<1> DEFINE r == rt_timer_start(list, x.timer, x.timeout_tick)
           k(y) == Left(y.timeout_tick, now)
<1>1. r \in Seq(TimerOf)
  BY StartInserts
<1>2. PICK p \in 1 .. Len(list) + 1 :
             /\ Inserted(r, list, p, x)
             /\ \A i \in 1 .. p - 1 : ~Later(list[i].timeout_tick, x.timeout_tick)
             /\ p <= Len(list) => Later(list[p].timeout_tick, x.timeout_tick)
  BY StartInserts
<1> HIDE DEF r
<1>3. Len(list) \in Nat /\ \A i \in 1 .. Len(list) : list[i] \in TimerOf /\ list[i] \in ToSet(list)
  BY Members
<1>4. ASSUME NEW i \in 1 .. Len(list)
      PROVE  /\ list[i].timer # x.timer
             /\ k(list[i]) \in Int /\ k(x) \in Int
             /\ Later(list[i].timeout_tick, x.timeout_tick) <=> k(list[i]) > k(x)
  <2>1. list[i].timer # x.timer
    BY <1>3 DEF Running
  <2>2. Near(k(list[i])) /\ Near(k(x))
    BY <1>3, InTimeNear DEF InOrder
  <2>3. list[i].timeout_tick \in Ticks /\ x.timeout_tick \in Ticks
    BY <1>3 DEF TimerOf
  <2> QED BY <2>1, <2>2, <2>3, LaterIsLater DEF Near
<1>5. ToSet(r) = ToSet(list) \cup {x}
  BY <1>1, <1>2, InsertedProperties
<1>6. Sorted(r, Differ)
  <2>1. Between(list, p, x, Differ)
    <3>1. ASSUME NEW i \in 1 .. Len(list) PROVE <<list[i], x>> \in Differ /\ <<x, list[i]>> \in Differ
      BY <1>3, <1>4 DEF Differ
    <3>2. \A i \in 1 .. p - 1 : i \in 1 .. Len(list)
      BY <1>3
    <3>3. \A i \in p .. Len(list) : i \in 1 .. Len(list)
      BY <1>3
    <3> QED BY <3>1, <3>2, <3>3 DEF Between
  <2> QED BY <1>1, <1>2, <2>1, InsertedProperties DEF InOrder
<1>7. Sorted(r, Earlier(now))
  <2>1. ASSUME NEW i \in 1 .. p - 1 PROVE <<list[i], x>> \in Earlier(now)
    <3>1. i \in 1 .. Len(list)
      BY <1>3
    <3>2. k(list[i]) <= k(x)
      BY <3>1, <1>2, <1>4
    <3> QED BY <3>1, <3>2, <1>3 DEF Earlier
  <2>2. ASSUME NEW i \in p .. Len(list) PROVE <<x, list[i]>> \in Earlier(now)
    <3>1. i \in 1 .. Len(list) /\ p \in 1 .. Len(list) /\ p <= Len(list) /\ (p = i \/ p < i)
      BY <1>3
    <3>2. k(list[p]) > k(x) /\ k(list[p]) \in Int /\ k(x) \in Int /\ k(list[i]) \in Int
      BY <3>1, <1>2, <1>4
    <3>3. p = i \/ <<list[p], list[i]>> \in Earlier(now)
      BY <3>1 DEF InOrder, Sorted
    <3>4. k(list[p]) <= k(list[i])
      BY <3>2, <3>3 DEF Earlier
    <3>5. k(x) <= k(list[i])
      BY <3>2, <3>4
    <3> QED BY <3>1, <3>5, <1>3 DEF Earlier
  <2>3. Between(list, p, x, Earlier(now))
    BY <2>1, <2>2 DEF Between
  <2> QED BY <1>1, <1>2, <2>3, InsertedProperties DEF InOrder
<1>8. Running(r) = Running(list) \cup {x.timer}
  BY <1>5 DEF Running
<1>9. \A y \in ToSet(r) : InTime(y, now)
  BY <1>5 DEF InOrder
<1> QED BY <1>1, <1>6, <1>7, <1>8, <1>9 DEF r, InOrder

\* So does rt_timer_stop.
LEMMA StopInOrder ==
    ASSUME NEW list \in Seq(TimerOf), NEW now, InOrder(list, now), NEW S
    PROVE  InOrder(rt_timer_stop(list, S), now)
BY StopProperties DEF InOrder

\* rt_timer_check finds exactly the timers whose tick has come, although it stops at the first that
\* is not due; the others are in order for the next tick.
LEMMA CheckFinds ==
    ASSUME NEW list \in Seq(TimerOf), NEW now \in Ticks, InOrder(list, now)
    PROVE  LET expired == rt_timer_check(list, After(now, 1))
           IN  /\ \A x \in ToSet(list) : x.timer \in expired <=> Left(x.timeout_tick, now) <= 1
               /\ expired \subseteq Running(list)
               /\ InOrder(rt_timer_stop(list, expired), After(now, 1))
<1> DEFINE next == After(now, 1)
           expired == rt_timer_check(list, next)
           k(y) == Left(y.timeout_tick, now)
<1>1. Len(list) \in Nat /\ DOMAIN list = 1 .. Len(list) /\ \A i \in 1 .. Len(list) : list[i] \in TimerOf /\ list[i] \in ToSet(list)
  BY Members
<1>2. ASSUME NEW i \in 1 .. Len(list)
      PROVE  Near(k(list[i])) /\ k(list[i]) \in Int /\ (Due(next, list[i].timeout_tick) <=> k(list[i]) <= 1)
  <2>1. Near(k(list[i])) /\ list[i].timeout_tick \in Ticks
    BY <1>1, InTimeNear DEF InOrder, TimerOf
  <2> QED BY <2>1, LeftTick DEF Near
<1> HIDE DEF next
<1>3. ASSUME NEW i \in 1 .. Len(list), NEW j \in 1 .. Len(list), i <= j PROVE k(list[i]) <= k(list[j])
  <2>1. i = j \/ <<list[i], list[j]>> \in Earlier(now)
    BY <1>3 DEF InOrder, Sorted
  <2> QED BY <2>1, <1>2 DEF Earlier
<1>4. expired = {list[i].timer : i \in {n \in 1 .. Len(list) : \A j \in 1 .. n : Due(next, list[j].timeout_tick)}}
  BY <1>1 DEF rt_timer_check
<1>5. ASSUME NEW n \in 1 .. Len(list)
      PROVE  (\A j \in 1 .. n : Due(next, list[j].timeout_tick)) <=> k(list[n]) <= 1
  <2>1. n \in 1 .. n /\ \A j \in 1 .. n : j \in 1 .. Len(list) /\ j <= n
    BY <1>1
  <2>2. ASSUME k(list[n]) <= 1, NEW j \in 1 .. n PROVE Due(next, list[j].timeout_tick)
    <3>1. k(list[j]) <= k(list[n])
      BY <2>1, <1>3
    <3> QED BY <3>1, <2>1, <2>2, <1>2
  <2> QED BY <2>1, <2>2, <1>2
<1> HIDE DEF k
<1>6. expired = {list[i].timer : i \in {n \in 1 .. Len(list) : k(list[n]) <= 1}}
  BY <1>4, <1>5
<1> HIDE DEF expired
<1>7. ASSUME NEW x \in ToSet(list) PROVE x.timer \in expired <=> k(x) <= 1
  <2>1. PICK n \in 1 .. Len(list) : list[n] = x
    BY Members
  <2>2. k(x) <= 1 => x.timer \in expired
    BY <2>1, <1>6
  <2>3. ASSUME x.timer \in expired PROVE k(x) <= 1
    <3>1. PICK i \in 1 .. Len(list) : k(list[i]) <= 1 /\ list[i].timer = x.timer
      BY <2>3, <1>6
    <3>2. ~(i < n) /\ ~(n < i)
      BY <2>1, <3>1 DEF InOrder, Sorted, Differ
    <3>3. i = n
      BY <3>2, <1>1
    <3> QED BY <3>1, <3>3, <2>1
  <2> QED BY <2>2, <2>3
<1>8. expired \subseteq Running(list)
  BY <1>6, <1>1 DEF Running
<1> DEFINE r == rt_timer_stop(list, expired)
<1>9. r \in Seq(TimerOf) /\ ToSet(r) = {x \in ToSet(list) : x.timer \notin expired}
      /\ Sorted(r, Differ) /\ Sorted(r, Earlier(now))
  BY StopProperties DEF InOrder
<1> HIDE DEF r
<1>10. ASSUME NEW x \in ToSet(r)
       PROVE  x \in TimerOf /\ Left(x.timeout_tick, next) = k(x) - 1 /\ k(x) \in Int /\ InTime(x, next)
  <2>1. x \in ToSet(list) /\ x \in TimerOf /\ ~(k(x) <= 1) /\ InTime(x, now)
    BY <1>7, <1>9, Members DEF InOrder
  <2>2. Near(k(x)) /\ x.timeout_tick \in Ticks
    BY <2>1, InTimeNear DEF TimerOf, k
  <2>3. k(x) \in Int /\ k(x) > 1 /\ k(x) > -MaxLate
    BY <2>1, <2>2, HalfLemma DEF Near, HalfFacts
  <2>4. Left(x.timeout_tick, next) = k(x) - 1
    BY <2>2, <2>3, LeftTick DEF next, k
  <2> QED BY <2>1, <2>3, <2>4, HalfLemma DEF InTime, HalfFacts, k
<1>11. Sorted(r, Earlier(next))
  <2> SUFFICES ASSUME NEW i \in 1 .. Len(r), NEW j \in 1 .. Len(r), i < j
               PROVE  <<r[i], r[j]>> \in Earlier(next)
    BY DEF Sorted
  <2>1. r[i] \in ToSet(r) /\ r[j] \in ToSet(r)
    BY <1>9, Members
  <2>2. k(r[i]) <= k(r[j])
    BY <1>9 DEF Sorted, Earlier, k
  <2>3. Left(r[i].timeout_tick, next) <= Left(r[j].timeout_tick, next)
    BY <2>1, <2>2, <1>10
  <2> QED BY <2>1, <2>3, <1>10 DEF Earlier
<1>12. InOrder(r, next)
  BY <1>9, <1>10, <1>11 DEF InOrder
<1> QED BY <1>7, <1>8, <1>12 DEF k, expired, next, r

\* A list without a timer twice is as long as there are timers in it.
LEMMA TimersCounted ==
    ASSUME NEW list \in Seq(TimerOf), Sorted(list, Differ)
    PROVE  Cardinality(Running(list)) = Len(list)
<1> DEFINE n == Len(list)
           f == [i \in 1 .. n |-> list[i].timer]
<1>1. n \in Nat /\ \A i \in 1 .. n : list[i] \in ToSet(list)
  BY Members
<1>2. \A x \in ToSet(list) : \E i \in 1 .. n : list[i] = x
  BY Members
<1> HIDE DEF n
<1>3. f \in [1 .. n -> Running(list)]
  BY <1>1 DEF Running
<1>4. \A y \in Running(list) : \E i \in 1 .. n : f[i] = y
  BY <1>2 DEF Running
<1>5. \A i, j \in 1 .. n : f[i] = f[j] => i = j
  <2> SUFFICES ASSUME NEW i \in 1 .. n, NEW j \in 1 .. n, f[i] = f[j] PROVE i = j
    OBVIOUS
  <2>1. ~(i < j) /\ ~(j < i)
    BY DEF Sorted, Differ, n
  <2> QED BY <2>1, <1>1
<1> HIDE DEF f
<1>6. ExistsBijection(1 .. n, Running(list))
  BY <1>3, <1>4, <1>5 DEF ExistsBijection, Bijection, Injection, Surjection, IsInjective
<1> QED BY <1>1, <1>6, FS_CountingElements DEF n

\* What the properties of the timers rest on: the timer of a thread runs only while the thread is
\* suspended, and all timers are in order, the one that is being started too.
TimerInv ==
    /\ InOrder(timer_list, rt_tick)
    /\ \A t \in Threads : t \in Running(timer_list) => Suspended(t)
    /\ \A t \in Threads : stat[t].on = "sleep" => t \in Running(timer_list)
    /\ starting # NotStarting =>
         timer \notin Running(timer_list) /\ InTime([timer |-> timer, timeout_tick |-> starting], rt_tick)

\* The body of OnTime.
Punctual ==
    rt_tick' # rt_tick =>
      \A x \in ToSet(timer_list) :
        (x.timer \notin Running(timer_list')) <=>
          Since(rt_tick', x.timeout_tick) \in (IF x.timer = timer THEN 0 .. MaxLate + 1 ELSE {0})

\* A thread that is suspended gets a timer that is in order; one that sleeps always gets one.
LEMMA SuspendInOrder ==
    ASSUME TypeOK, TimerInv, NEW t \in Threads, stat[t] = Ready, NEW what \in Statuses, what # Ready,
           NEW time \in TakeTimes \cup RecvTimes \cup SleepTimes, time # 0, what.on = "sleep" => time # RT_WAITING_FOREVER,
           Suspend(t, what, time)
    PROVE  TimerInv' /\ Punctual
<1>1. ThreadsOK /\ TimersOK
  BY TypeParts
<1>2. rt_tick' = rt_tick /\ starting' = starting /\ \A u \in Threads : stat'[u] = IF u = t THEN what ELSE stat[u]
  BY <1>1 DEF Suspend, ThreadsOK
<1>3. t # timer /\ t \notin Running(timer_list)
  BY KernelAssumption DEF TimerInv, Suspended
<1>4. \A u \in Threads : Suspended(u)' <=> (u = t \/ Suspended(u))
  BY <1>2 DEF Suspended
<1>5. CASE time = RT_WAITING_FOREVER
  <2>1. timer_list' = timer_list
    BY <1>5 DEF Suspend
  <2> QED BY <2>1, <1>2, <1>4, <1>5 DEF TimerInv, Punctual
<1>6. CASE time # RT_WAITING_FOREVER
  <2> DEFINE x == [timer |-> t, timeout_tick |-> After(rt_tick, time)]
  <2>1. time \in Nat /\ time >= 1 /\ time + MaxLate < Half
    BY <1>6, KernelAssumption
  <2>2. After(rt_tick, time) \in Ticks /\ Left(After(rt_tick, time), rt_tick) = time
    BY <2>1, <1>1, AfterType, LeftAfter DEF TimersOK
  <2>3. x \in TimerOf /\ x.timer = t /\ x.timeout_tick = After(rt_tick, time)
    BY <2>2 DEF TimerOf
  <2>4. timer_list' = rt_timer_start(timer_list, x.timer, x.timeout_tick)
    BY <1>6, <2>3 DEF Suspend
  <2> HIDE DEF x
  <2>5. InTime(x, rt_tick)
    BY <2>1, <2>2, <2>3, <1>3 DEF InTime
  <2>6. InOrder(timer_list', rt_tick) /\ Running(timer_list') = Running(timer_list) \cup {t}
    BY <2>3, <2>4, <2>5, <1>1, <1>3, StartInOrder DEF TimerInv, TimersOK
  <2> QED BY <2>6, <1>2, <1>3, <1>4 DEF TimerInv, Punctual
<1> QED BY <1>5, <1>6

\* rt_thread_resume of threads that do not sleep.
LEMMA ResumeInOrder ==
    ASSUME TypeOK, TimerInv, NEW S, S \subseteq Threads, rt_thread_resume(S)
    PROVE  TimerInv' /\ Punctual
<1>1. ThreadsOK /\ TimersOK
  BY TypeParts
<1>2. rt_tick' = rt_tick /\ starting' = starting /\ timer_list' = rt_timer_stop(timer_list, S) /\ MakeReady(S)
  BY DEF rt_thread_resume
<1>3. \A u \in Threads : stat'[u] = IF u \in S THEN Ready ELSE stat[u]
  BY <1>2, MakeReadySorted
<1>4. InOrder(timer_list', rt_tick') /\ Running(timer_list') = Running(timer_list) \ S
  BY <1>1, <1>2, StopInOrder, StopProperties DEF TimersOK, TimerInv
<1>5. \A u \in Threads : Suspended(u)' <=> (u \notin S /\ Suspended(u))
  BY <1>3 DEF Suspended
<1> QED BY <1>2, <1>3, <1>4, <1>5 DEF TimerInv, Punctual, Ready

LEMMA TimerStep ==
    ASSUME TypeOK, TimerInv, Next
    PROVE  TimerInv' /\ Punctual
<1>a. ThreadsOK /\ ListsOK /\ TimersOK
  BY TypeParts
<1>b. ASSUME UNCHANGED <<stat, timer_vars>> PROVE TimerInv' /\ Punctual
  BY <1>b DEF timer_vars, TimerInv, Punctual, Suspended
<1>c. Waits("mutex") \in Statuses /\ Waits("mutex") # Ready /\ Waits("mutex").on # "sleep"
      /\ Waits("sleep") \in Statuses /\ Waits("sleep") # Ready
  BY DEF Waits, Ready, Statuses
<1>1. ASSUME NEW t \in Threads, NEW time \in TakeTimes, rt_mutex_take(t, time)
      PROVE  TimerInv' /\ Punctual
  <2>1. stat[t] = Ready
    BY <1>1 DEF rt_mutex_take, Suspended
  <2>2. CASE UNCHANGED <<stat, timer_vars>>
    BY <2>2, <1>b
  <2>3. CASE time # 0 /\ Suspend(t, Waits("mutex"), time)
    BY <2>1, <2>3, <1>c, SuspendInOrder
  <2> QED BY <1>1, <2>2, <2>3 DEF rt_mutex_take, SuspendOn
<1>2. ASSUME NEW t \in Threads, rt_mutex_release(t)
      PROVE  TimerInv' /\ Punctual
  <2>1. CASE UNCHANGED <<stat, timer_vars>>
    BY <2>1, <1>b
  <2>2. CASE suspend_thread.mutex # <<>> /\ HandOver
    <3>1. suspend_thread.mutex \in Seq(Threads)
      BY <1>a DEF ListsOK, Objects
    <3>2. owner' \in Threads /\ rt_thread_resume({owner'})
      BY <2>2, <3>1 DEF HandOver
    <3>3. {owner'} \subseteq Threads
      BY <3>2
    <3> QED BY <3>2, <3>3, ResumeInOrder
  <2> QED BY <1>2, <2>1, <2>2 DEF rt_mutex_release, Free, thread_vars
<1>3. ASSUME NEW t \in Sleepers, NEW time \in SleepTimes, rt_thread_sleep(t, time)
      PROVE  TimerInv' /\ Punctual
  <2>1. t \in Threads /\ time # 0 /\ time # RT_WAITING_FOREVER
    BY KernelAssumption
  <2>2. stat[t] = Ready /\ Suspend(t, Waits("sleep"), time)
    BY <1>3 DEF rt_thread_sleep, Suspended
  <2> QED BY <2>1, <2>2, <1>c, SuspendInOrder
<1>4. ASSUME NEW t \in Receivers, NEW time \in RecvTimes, NEW r \in Receives, rt_event_recv(t, r, time)
      PROVE  TimerInv' /\ Punctual
  <2>1. t \in Threads /\ stat[t] = Ready
    BY <1>4, KernelAssumption DEF rt_event_recv, Suspended
  <2>2. CASE UNCHANGED <<stat, timer_vars>>
    BY <2>2, <1>b
  <2>3. CASE time # 0 /\ Suspend(t, Receiving(r), time)
    <3>1. Receiving(r) \in Statuses /\ Receiving(r) # Ready /\ Receiving(r).on # "sleep"
      BY DEF Receiving, Ready, Statuses
    <3> QED BY <2>1, <2>3, <3>1, SuspendInOrder
  <2> QED BY <1>4, <2>2, <2>3 DEF rt_event_recv, SuspendOn
<1>5. ASSUME NEW bits \in SUBSET Bits, rt_event_send(bits)
      PROVE  TimerInv' /\ Punctual
  <2> DEFINE all == Offered(suspend_thread["event"], set \cup bits)
  <2>1. rt_thread_resume({x.thread : x \in all.to})
    BY <1>5 DEF rt_event_send
  <2>2. LoopInv(suspend_thread["event"], set \cup bits, Len(suspend_thread["event"]), all)
    <3>1. /\ suspend_thread["event"] \in Seq(Threads)
          /\ ToSet(suspend_thread["event"]) = {t \in Threads : stat[t].on = "event"}
      BY <1>a DEF ListsOK, Objects
    <3>2. \A t \in ToSet(suspend_thread["event"]) : stat[t].recv \in Receives
      BY <3>1, <1>a, StatusFacts DEF ThreadsOK
    <3>3. set \cup bits \in SUBSET Bits
      BY TypeParts
    <3> QED BY <3>1, <3>2, <3>3, OfferedProperties
  <2> HIDE DEF all
  <2>3. {x.thread : x \in all.to} \subseteq Threads
    BY <2>2 DEF LoopInv, Accs, Gifts
  <2> QED BY <2>1, <2>3, ResumeInOrder
<1>6. ASSUME rt_event_control
      PROVE  TimerInv' /\ Punctual
  <2>1. rt_thread_resume(ToSet(suspend_thread["event"]))
    BY <1>6 DEF rt_event_control
  <2>2. ToSet(suspend_thread["event"]) \subseteq Threads
    BY <1>a DEF ListsOK, Objects
  <2> QED BY <2>1, <2>2, ResumeInOrder
<1>7. ASSUME StartTimer
      PROVE  TimerInv' /\ Punctual
  <2> DEFINE x == [timer |-> timer, timeout_tick |-> After(rt_tick, init_tick)]
  <2>1. /\ UNCHANGED <<stat, rt_tick>> /\ starting' = After(rt_tick, init_tick)
        /\ timer_list' = rt_timer_stop(timer_list, {timer})
    BY <1>7 DEF StartTimer, thread_vars
  <2>2. InOrder(timer_list', rt_tick) /\ Running(timer_list') = Running(timer_list) \ {timer}
    BY <1>a, <2>1, StopInOrder, StopProperties DEF TimersOK, TimerInv
  <2>3. x.timer = timer /\ x.timeout_tick = After(rt_tick, init_tick) /\ Left(x.timeout_tick, rt_tick) = init_tick
    BY <1>a, LeftAfter, HalfLemma DEF HalfFacts, TimersOK
  <2> HIDE DEF x
  <2>4. InTime(x, rt_tick)
    BY <2>3, HalfLemma DEF InTime, HalfFacts
  <2>5. timer \notin Threads
    BY KernelAssumption
  <2> QED BY <2>1, <2>2, <2>4, <2>5 DEF TimerInv, Punctual, Suspended, x
<1>8. ASSUME TimerStarted
      PROVE  TimerInv' /\ Punctual
  <2> DEFINE x == [timer |-> timer, timeout_tick |-> starting]
  <2>1. /\ UNCHANGED <<stat, rt_tick>> /\ starting # NotStarting /\ starting' = NotStarting
        /\ x.timer = timer /\ x.timeout_tick = starting
        /\ timer_list' = rt_timer_start(timer_list, x.timer, x.timeout_tick)
    BY <1>8 DEF TimerStarted, thread_vars
  <2>2. x \in TimerOf
    BY <1>a, <2>1 DEF TimerOf, TimersOK
  <2>3. timer \notin Running(timer_list) /\ InTime(x, rt_tick)
    BY <2>1 DEF TimerInv
  <2> HIDE DEF x
  <2>4. InOrder(timer_list', rt_tick) /\ Running(timer_list') = Running(timer_list) \cup {timer}
    BY <1>a, <2>1, <2>2, <2>3, StartInOrder DEF TimersOK, TimerInv
  <2>5. timer \notin Threads
    BY KernelAssumption
  <2> QED BY <2>1, <2>4, <2>5 DEF TimerInv, Punctual, Suspended
<1>9. ASSUME StopTimer
      PROVE  TimerInv' /\ Punctual
  <2>1. UNCHANGED <<stat, rt_tick, starting>> /\ timer_list' = rt_timer_stop(timer_list, {timer})
    BY <1>9 DEF StopTimer, thread_vars
  <2>2. InOrder(timer_list', rt_tick) /\ Running(timer_list') = Running(timer_list) \ {timer}
    BY <1>a, <2>1, StopInOrder, StopProperties DEF TimersOK, TimerInv
  <2>3. timer \notin Threads
    BY KernelAssumption
  <2> QED BY <2>1, <2>2, <2>3 DEF TimerInv, Punctual, Suspended
<1>10. ASSUME rt_tick_increase
       PROVE  TimerInv' /\ Punctual
  <2> DEFINE next == After(rt_tick, 1)
             expired == rt_timer_check(timer_list, next)
             s == [timer |-> timer, timeout_tick |-> starting]
  <2>1. /\ starting # NotStarting => Since(rt_tick, starting) # MaxLate
        /\ rt_tick' = next /\ starting' = starting
        /\ timer_list' = rt_timer_stop(timer_list, expired) /\ MakeReady(expired \ {timer})
    BY <1>10 DEF rt_tick_increase, rt_thread_timeout
  <2>2. rt_tick \in Ticks /\ timer_list \in Seq(TimerOf) /\ InOrder(timer_list, rt_tick)
    BY <1>a DEF TimersOK, TimerInv
  <2>3. /\ \A x \in ToSet(timer_list) : x.timer \in expired <=> Left(x.timeout_tick, rt_tick) <= 1
        /\ expired \subseteq Running(timer_list)
        /\ InOrder(rt_timer_stop(timer_list, expired), next)
    BY <2>2, CheckFinds
  <2> HIDE DEF expired, next
  <2>4. Running(timer_list') = Running(timer_list) \ expired
    BY <2>1, <2>2, StopProperties
  <2>5. \A u \in Threads : stat'[u] = IF u \in expired \ {timer} THEN Ready ELSE stat[u]
    BY <2>1, MakeReadySorted
  <2>6. timer \notin Threads
    BY KernelAssumption
  <2>7. \A u \in Threads : Suspended(u)' <=> (u \notin expired /\ Suspended(u))
    BY <2>5, <2>6 DEF Suspended
  <2>8. Punctual
    <3> SUFFICES ASSUME NEW x \in ToSet(timer_list)
                 PROVE  (x.timer \notin Running(timer_list')) <=>
                          Since(next, x.timeout_tick) \in (IF x.timer = timer THEN 0 .. MaxLate + 1 ELSE {0})
      BY <2>1 DEF Punctual
    <3>1. x \in TimerOf /\ InTime(x, rt_tick) /\ x.timer \in Running(timer_list)
      BY <2>2, Members DEF InOrder, Running
    <3>2. (x.timer \notin Running(timer_list')) <=> Left(x.timeout_tick, rt_tick) <= 1
      BY <2>3, <2>4, <3>1
    <3>3. Near(Left(x.timeout_tick, rt_tick)) /\ x.timeout_tick \in Ticks
      BY <2>2, <3>1, InTimeNear DEF TimerOf
    <3> DEFINE k == Left(x.timeout_tick, rt_tick)
               d == Since(next, x.timeout_tick)
    <3>4. k \in Int /\ (k <= 1 => d = 1 - k) /\ (k > 1 => d > MaxLate + 1)
      BY <2>2, <3>3, LeftTick DEF next, Near
    <3>5. IF x.timer = timer THEN 0 <= k + MaxLate ELSE 1 <= k
      BY <3>1 DEF InTime
    <3> HIDE DEF k, d
    <3>6. (k <= 1) <=> d \in (IF x.timer = timer THEN 0 .. MaxLate + 1 ELSE {0})
      <4>1. k \in Int /\ MaxLate \in Nat
        BY <3>4, HalfLemma DEF HalfFacts
      <4>2. CASE k <= 1
        BY <3>4, <3>5, <4>1, <4>2
      <4>3. CASE k > 1
        BY <3>4, <4>1, <4>3
      <4> QED BY <4>1, <4>2, <4>3
    <3> QED BY <3>2, <3>6 DEF k, d
  <2>9. ASSUME starting # NotStarting PROVE timer \notin Running(timer_list') /\ InTime(s, next)
    <3>1. timer \notin Running(timer_list) /\ InTime(s, rt_tick) /\ s.timer = timer /\ s.timeout_tick = starting
      BY <2>9 DEF TimerInv
    <3>2. starting \in Ticks /\ s \in TimerOf
      BY <1>a, <2>9 DEF TimersOK, TimerOf
    <3> HIDE DEF s
    <3> DEFINE k == Left(starting, rt_tick)
    <3>3. Near(k) /\ k \in Int
      BY <2>2, <3>1, <3>2, InTimeNear DEF Near
    <3>4. k # -MaxLate
      <4>1. Since(rt_tick, starting) # MaxLate
        BY <2>1, <2>9
      <4>2. /\ rt_tick \in Nat /\ rt_tick <= RT_TICK_MAX /\ starting \in Nat /\ starting <= RT_TICK_MAX
            /\ Since(rt_tick, starting) = IF rt_tick >= starting THEN rt_tick - starting ELSE rt_tick - starting + (RT_TICK_MAX + 1)
            /\ Since(starting, rt_tick) = IF starting >= rt_tick THEN starting - rt_tick ELSE starting - rt_tick + (RT_TICK_MAX + 1)
        BY <2>2, <3>2, SinceCases, HalfLemma DEF HalfFacts, Ticks
      <4> QED BY <4>1, <4>2, HalfLemma DEF HalfFacts, Left
    <3>5. k > -MaxLate
      BY <3>3, <3>4, HalfLemma DEF Near, HalfFacts
    <3>6. Left(starting, next) = k - 1
      BY <2>2, <3>2, <3>3, <3>5, LeftTick DEF next
    <3>7. 0 <= k - 1 + MaxLate /\ k - 1 <= init_tick
      <4>1. k <= init_tick
        BY <3>1 DEF InTime
      <4> QED BY <4>1, <3>3, <3>5, HalfLemma DEF HalfFacts
    <3>8. InTime(s, next)
      BY <3>1, <3>6, <3>7 DEF InTime
    <3> QED BY <3>1, <3>8, <2>4
  <2>10. InOrder(timer_list', rt_tick')
    BY <2>1, <2>3
  <2>11. \A t \in Threads : t \in Running(timer_list') => Suspended(t)'
    BY <2>4, <2>7 DEF TimerInv
  <2>12. ASSUME NEW t \in Threads, stat'[t].on = "sleep" PROVE t \in Running(timer_list')
    <3>1. t \notin expired \ {timer} /\ stat'[t] = stat[t]
      BY <2>5, <2>12 DEF Ready
    <3>2. t \in Running(timer_list)
      BY <2>12, <3>1 DEF TimerInv
    <3> QED BY <2>4, <2>6, <3>1, <3>2
  <2>13. ASSUME starting' # NotStarting
         PROVE  timer \notin Running(timer_list') /\ InTime([timer |-> timer, timeout_tick |-> starting'], rt_tick')
    BY <2>1, <2>9, <2>13
  <2> QED BY <2>8, <2>10, <2>11, <2>12, <2>13 DEF TimerInv
<1> QED BY <1>1, <1>2, <1>3, <1>4, <1>5, <1>6, <1>7, <1>8, <1>9, <1>10 DEF Next

LEMMA TimerInvariant == Spec => [](TypeOK /\ TimerInv)
<1>1. Init => TimerInv
  <2> SUFFICES ASSUME Init PROVE TimerInv
    OBVIOUS
  <2>1. timer_list = <<>> /\ starting = NotStarting /\ \A t \in Threads : stat[t].on # "sleep"
    BY DEF Init, Ready
  <2>2. ToSet(<<>>) = {}
    BY DEF ToSet
  <2>3. Running(timer_list) = {}
    BY <2>1, <2>2 DEF Running
  <2>4. InOrder(timer_list, rt_tick)
    BY <2>1, <2>2 DEF InOrder, Sorted
  <2> QED BY <2>1, <2>3, <2>4 DEF TimerInv
<1>2. TypeOK /\ TimerInv /\ [Next]_vars => TimerInv'
  <2>1. ASSUME TimerInv, UNCHANGED vars PROVE TimerInv'
    BY <2>1 DEF vars, thread_vars, timer_vars, TimerInv, Suspended
  <2> QED BY <2>1, TimerStep
<1> QED BY <1>1, <1>2, TypeCorrect, PTL DEF Spec

\* rt_thread_timeout never finds its thread awake, as it asserts: whoever resumes a thread stops its
\* timer; and a thread that sleeps has one.
THEOREM TimeoutsFindSuspended == Spec => []TimersOfSuspended
<1>1. TypeOK /\ TimerInv => TimersOfSuspended
  <2> SUFFICES ASSUME TypeOK, TimerInv PROVE TimersOfSuspended
    OBVIOUS
  <2>1. Cardinality(Running(timer_list)) = Len(timer_list)
    BY TypeParts, TimersCounted DEF TimersOK, TimerInv, InOrder
  <2> QED BY <2>1 DEF TimerInv, TimersOfSuspended
<1> QED BY <1>1, TimerInvariant, PTL

\* Every timer expires at its tick, for a tick of any width that wraps around at any time; only the
\* slave timer, which is started in two steps, can be late, by as much as it was started late.
THEOREM TimersPunctual == Spec => OnTime
<1>1. TypeOK /\ TimerInv /\ Next => Punctual
  BY TimerStep
<1>2. [][Punctual]_vars => OnTime
  BY DEF OnTime, Punctual
<1> QED BY <1>1, <1>2, TimerInvariant, PTL DEF Spec
=============================================================================
