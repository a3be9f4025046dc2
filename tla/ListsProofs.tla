----------------------------- MODULE ListsProofs -----------------------------
(***************************************************************************)
(* What the operations on lists do to any list, whatever its length.       *)
(*                                                                         *)
(* The library's induction theorems take an operator; the least number of  *)
(* a set of numbers does not, and the induction here is on that.           *)
(***************************************************************************)
EXTENDS Lists, SequencesExt, WellFoundedInduction, SequenceTheorems, TLAPS

\* Every set of numbers that is not empty has a least member.
LEMMA Least ==
    ASSUME NEW T \in SUBSET Nat, T # {}
    PROVE  \E n \in T : \A m \in T : n <= m
<1> DEFINE R == OpToRel(<, Nat)
<1>1. IsWellFoundedOn(R, Nat)
  BY NatLessThanWellFounded
<1>2. PICK x \in T : \A y \in T : <<y, x>> \notin R
  <2> HIDE DEF R
  <2> QED BY <1>1, WFMin
<1>3. ASSUME NEW y \in T PROVE x <= y
  <2>1. ~(y < x)
    BY <1>2 DEF OpToRel
  <2> QED BY <2>1
<1> QED BY <1>3

\* What holds of 0 and goes over from each number to the next holds up to n.
LEMMA Induction ==
    ASSUME NEW n \in Nat, NEW T \in SUBSET (0 .. n), 0 \in T,
           \A i \in 1 .. n : i - 1 \in T => i \in T
    PROVE  T = 0 .. n
<1> SUFFICES ASSUME T # 0 .. n PROVE FALSE
  OBVIOUS
<1> DEFINE Bad == (0 .. n) \ T
<1>1. PICK k \in Bad : \A m \in Bad : k <= m
  <2>1. Bad \in SUBSET Nat
    OBVIOUS
  <2>2. Bad # {}
    BY Zenon
  <2> HIDE DEF Bad
  <2> QED BY <2>1, <2>2, Least
<1>2. k \in 1 .. n /\ k - 1 \in 0 .. n /\ k - 1 \notin Bad
  BY <1>1
<1> QED BY <1>1, <1>2

Steps(n, A) == [1 .. n -> [A -> A]]
Goes(f, n, base, step) == f[0] = base /\ \A i \in 1 .. n : f[i] = step[i][f[i - 1]]

\* A function defined step by step from its value at 0 exists.
LEMMA Recursion ==
    ASSUME NEW n \in Nat, NEW A, NEW base \in A, NEW step \in Steps(n, A)
    PROVE  \E f \in [0 .. n -> A] : Goes(f, n, base, step)
<1> USE DEF Steps, Goes
<1> DEFINE Upto(m, f) == f[0] = base /\ \A i \in 1 .. m : f[i] = step[i][f[i - 1]]
           T == {m \in 0 .. n : \E f \in [0 .. m -> A] : Upto(m, f)}
<1>1. 0 \in T
  <2> DEFINE f0 == [i \in 0 .. 0 |-> base]
  <2>1. f0 \in [0 .. 0 -> A] /\ Upto(0, f0)
    OBVIOUS
  <2> HIDE DEF f0
  <2> QED BY <2>1
<1>2. ASSUME NEW m \in 1 .. n, m - 1 \in T
      PROVE  m \in T
  <2>1. PICK f \in [0 .. m - 1 -> A] : Upto(m - 1, f)
    BY <1>2
  <2> DEFINE g == [i \in 0 .. m |-> IF i = m THEN step[m][f[m - 1]] ELSE f[i]]
  <2>2. g \in [0 .. m -> A]
    OBVIOUS
  <2>3. g[0] = base
    BY <2>1
  <2>4. ASSUME NEW i \in 1 .. m PROVE g[i] = step[i][g[i - 1]]
    <3>1. CASE i = m
      BY <3>1
    <3>2. CASE i # m
      BY <3>2, <2>1
    <3> QED BY <3>1, <3>2
  <2>5. Upto(m, g)
    BY <2>3, <2>4, Zenon
  <2> HIDE DEF g, Upto
  <2>6. m \in 0 .. n
    OBVIOUS
  <2> QED BY <2>2, <2>5, <2>6, Zenon
<1>3. T = 0 .. n
  <2>1. T \in SUBSET (0 .. n)
    OBVIOUS
  <2> HIDE DEF T
  <2> QED BY <1>1, <1>2, <2>1, Induction
<1>4. n \in T
  BY <1>3, SMTT(30)
<1> QED BY <1>4

-----------------------------------------------------------------------------
(* rt_list_remove.                                                          *)

\* f[i] is what is left of the first i members.
Removing(f, list, S) ==
    /\ f[0] = <<>>
    /\ \A i \in 1 .. Len(list) : f[i] = IF list[i] \in S THEN f[i - 1] ELSE Append(f[i - 1], list[i])

\* rt_list_remove, member by member.
LEMMA RemoveSteps ==
    ASSUME NEW A, NEW list \in Seq(A), NEW S
    PROVE  \E f \in [0 .. Len(list) -> Seq(A)] :
             Removing(f, list, S) /\ rt_list_remove(list, S) = f[Len(list)]
<1> DEFINE n == Len(list)
           Step(i, s) == IF list[i] \in S THEN s ELSE Append(s, list[i])
           step == [i \in 1 .. n |-> [s \in Seq(A) |-> Step(i, s)]]
           Body(g) == [i \in 0 .. n |-> IF i = 0 THEN <<>> ELSE Step(i, g[i - 1])]
           f == CHOOSE g : g = Body(g)
<1>1. n \in Nat /\ \A i \in 1 .. n : list[i] \in A
  OBVIOUS
<1>2. \A i \in 1 .. n, s \in Seq(A) : Step(i, s) \in Seq(A)
  BY <1>1
<1>3. \E g : g = Body(g)
  <2>1. step \in [1 .. n -> [Seq(A) -> Seq(A)]]
    BY <1>2, Zenon
  <2>2. <<>> \in Seq(A)
    OBVIOUS
  <2> DEFINE Q == Seq(A)
             empty == <<>>
  <2> HIDE DEF n, step
  <2>3. PICK g \in [0 .. n -> Seq(A)] : g[0] = <<>> /\ \A i \in 1 .. n : g[i] = step[i][g[i - 1]]
    <3>1. n \in Nat /\ empty \in Q /\ step \in Steps(n, Q)
      BY <2>1, <2>2, <1>1 DEF Steps
    <3> HIDE DEF Q, empty
    <3>2. \E g \in [0 .. n -> Q] : Goes(g, n, empty, step)
      BY <3>1, Recursion, Zenon
    <3> QED BY <3>2, Zenon DEF Q, empty, Goes
  <2>4. ASSUME NEW i \in 1 .. n PROVE g[i] = Step(i, g[i - 1])
    <3>1. i - 1 \in 0 .. n
      BY <1>1
    <3>2. g[i - 1] \in Seq(A)
      BY <3>1
    <3>3. step[i][g[i - 1]] = Step(i, g[i - 1])
      BY <3>2, Zenon DEF step
    <3> QED BY <2>3, <3>3
  <2>5. ASSUME NEW i \in 0 .. n PROVE g[i] = IF i = 0 THEN <<>> ELSE Step(i, g[i - 1])
    <3>1. i = 0 \/ i \in 1 .. n
      BY <1>1
    <3> HIDE DEF Step
    <3> QED BY <3>1, <2>3, <2>4, <1>1
  <2>6. g = Body(g)
    BY <2>5, Zenon
  <2> QED BY <2>6
<1>4. f = Body(f)
  <2> HIDE DEF Body
  <2> QED BY <1>3, Zenon
<1> HIDE DEF n, Step, f
<1>5. f[0] = <<>> /\ \A i \in 1 .. n : f[i] = Step(i, f[i - 1])
  BY <1>4, <1>1
<1>6. \A i \in 0 .. n : f[i] \in Seq(A)
  <2> DEFINE T == {i \in 0 .. n : f[i] \in Seq(A)}
  <2>1. 0 \in T
    <3>1. <<>> \in Seq(A)
      OBVIOUS
    <3>2. f[0] \in Seq(A)
      BY <1>5, <3>1
    <3>3. 0 \in 0 .. n
      BY <1>1
    <3> QED BY <3>2, <3>3
  <2>2. \A i \in 1 .. n : i - 1 \in T => i \in T
    BY <1>2, <1>5, <1>1
  <2>3. T \in SUBSET (0 .. n)
    OBVIOUS
  <2> HIDE DEF T
  <2>4. T = 0 .. n
    BY <2>1, <2>2, <2>3, <1>1, Induction
  <2> QED BY <2>4 DEF T
<1>7. f \in [0 .. n -> Seq(A)]
  BY <1>4, <1>6, Zenon
<1>8. rt_list_remove(list, S) = f[n]
  BY DEF rt_list_remove, f, Step, n
<1> QED BY <1>5, <1>7, <1>8, Zenon DEF n, Step, Removing
\* t consists of the members of s at the places in K, in their order.
Selects(t, s, K) ==
    \E h :
      /\ \A i \in 1 .. Len(t) : h[i] \in K /\ t[i] = s[h[i]]
      /\ \A i, j \in 1 .. Len(t) : i < j => h[i] < h[j]
      /\ \A k \in K : \E i \in 1 .. Len(t) : h[i] = k

\* rt_list_remove leaves the members that are not in S, in their order.
LEMMA RemoveSelects ==
    ASSUME NEW A, NEW list \in Seq(A), NEW S
    PROVE  /\ rt_list_remove(list, S) \in Seq(A)
           /\ Selects(rt_list_remove(list, S), list, {k \in 1 .. Len(list) : list[k] \notin S})
<1> DEFINE n == Len(list)
           K(m) == {k \in 1 .. m : list[k] \notin S}
<1>1. n \in Nat /\ \A i \in 1 .. n : list[i] \in A
  OBVIOUS
<1>2. PICK f \in [0 .. n -> Seq(A)] :
             /\ f[0] = <<>>
             /\ \A i \in 1 .. n : f[i] = IF list[i] \in S THEN f[i - 1] ELSE Append(f[i - 1], list[i])
             /\ rt_list_remove(list, S) = f[n]
  <2>1. PICK f \in [0 .. n -> Seq(A)] : Removing(f, list, S) /\ rt_list_remove(list, S) = f[n]
    BY RemoveSteps, Zenon
  <2> QED BY <2>1, Zenon DEF Removing
<1> DEFINE T == {m \in 0 .. n : Selects(f[m], list, K(m))}
<1> HIDE DEF n
<1>3. 0 \in T
  <2>1. Len(f[0]) = 0
    BY <1>2
  <2>2. K(0) = {} /\ 0 \in 0 .. n
    BY <1>1
  <2>3. Selects(f[0], list, {})
    BY <2>1 DEF Selects
  <2> QED BY <2>2, <2>3
<1>4. ASSUME NEW m \in 1 .. n, m - 1 \in T
      PROVE  m \in T
  <2> DEFINE s == f[m - 1]
  <2>1. s \in Seq(A) /\ Len(s) \in Nat /\ m \in 0 .. n /\ m - 1 \in Nat
    BY <1>1
  <2>2. PICK h : /\ \A i \in 1 .. Len(s) : h[i] \in K(m - 1) /\ s[i] = list[h[i]]
                 /\ \A i, j \in 1 .. Len(s) : i < j => h[i] < h[j]
                 /\ \A k \in K(m - 1) : \E i \in 1 .. Len(s) : h[i] = k
    BY <1>4 DEF Selects
  <2>3. CASE list[m] \in S
    <3>1. f[m] = s
      BY <2>3, <1>2
    <3>2. K(m) = K(m - 1)
      BY <2>3, <1>1
    <3> QED BY <1>4, <2>1, <3>1, <3>2
  <2>4. CASE list[m] \notin S
    <3> DEFINE t == Append(s, list[m])
               g == [i \in 1 .. Len(s) + 1 |-> IF i = Len(s) + 1 THEN m ELSE h[i]]
    <3>1. f[m] = t
      BY <2>4, <1>2
    <3>2. Len(t) = Len(s) + 1 /\ t[Len(s) + 1] = list[m] /\ \A i \in 1 .. Len(s) : t[i] = s[i]
      BY <2>1, <1>1
    <3>3. \A k : k \in K(m) <=> k \in K(m - 1) \/ k = m
      BY <2>4, <2>1
    <3>4. \A k \in K(m - 1) : k \in Nat /\ k < m
      BY <2>1
    <3> HIDE DEF s, t, K
    <3>5. \A i \in 1 .. Len(t) : g[i] \in K(m) /\ t[i] = list[g[i]]
      BY <2>1, <2>2, <3>2, <3>3, SMTT(30)
    <3>6. ASSUME NEW i \in 1 .. Len(t), NEW j \in 1 .. Len(t), i < j PROVE g[i] < g[j]
      <4>1. i \in 1 .. Len(s) /\ (j = Len(s) + 1 \/ j \in 1 .. Len(s)) /\ i # Len(s) + 1
        BY <3>6, <3>2, <2>1
      <4> QED BY <4>1, <2>1, <2>2, <3>2, <3>4, <3>6
    <3>7. ASSUME NEW k \in K(m) PROVE \E i \in 1 .. Len(t) : g[i] = k
      <4>1. CASE k = m
        <5>1. Len(s) + 1 \in 1 .. Len(t) /\ g[Len(s) + 1] = m
          BY <3>2, <2>1
        <5> QED BY <4>1, <5>1
      <4>2. CASE k \in K(m - 1)
        <5>1. PICK i \in 1 .. Len(s) : h[i] = k
          BY <4>2, <2>2
        <5>2. i \in 1 .. Len(t) /\ g[i] = k
          BY <5>1, <3>2, <2>1
        <5> QED BY <5>2
      <4> QED BY <4>1, <4>2, <3>3
    <3> HIDE DEF g
    <3>8. Selects(t, list, K(m))
      BY <3>5, <3>6, <3>7 DEF Selects
    <3> QED BY <3>1, <3>8, <2>1
  <2> QED BY <2>3, <2>4
<1>5. T = 0 .. n
  <2>1. T \in SUBSET (0 .. n)
    OBVIOUS
  <2> HIDE DEF T
  <2> QED BY <1>1, <1>3, <1>4, <2>1, Induction
<1>6. n \in 0 .. n
  BY <1>1
<1>7. Selects(f[n], list, K(n))
  BY <1>5, <1>6
<1> QED BY <1>2, <1>6, <1>7 DEF n
\* Each member is related by R to each behind it.
Sorted(list, R) == \A i, j \in 1 .. Len(list) : i < j => <<list[i], list[j]>> \in R

\* The members of a list are what is at its places.
LEMMA Members ==
    ASSUME NEW A, NEW list \in Seq(A)
    PROVE  /\ Len(list) \in Nat /\ DOMAIN list = 1 .. Len(list)
           /\ \A i \in 1 .. Len(list) : list[i] \in A
           /\ ToSet(list) \subseteq A
           /\ \A x : x \in ToSet(list) <=> \E i \in 1 .. Len(list) : list[i] = x
BY DEF ToSet

\* What is left of a list has the members that are not in S, none twice if no member was there
\* twice, and is sorted if the list was.
LEMMA RemoveProperties ==
    ASSUME NEW A, NEW list \in Seq(A), NEW S
    PROVE  /\ rt_list_remove(list, S) \in Seq(A)
           /\ ToSet(rt_list_remove(list, S)) = ToSet(list) \ S
           /\ IsInjective(list) => IsInjective(rt_list_remove(list, S))
           /\ \A R : Sorted(list, R) => Sorted(rt_list_remove(list, S), R)
<1> DEFINE r == rt_list_remove(list, S)
           K == {k \in 1 .. Len(list) : list[k] \notin S}
<1>1. r \in Seq(A) /\ Selects(r, list, K)
  BY RemoveSelects
<1> HIDE DEF r
<1>2. PICK h : /\ \A i \in 1 .. Len(r) : h[i] \in K /\ r[i] = list[h[i]]
               /\ \A i, j \in 1 .. Len(r) : i < j => h[i] < h[j]
               /\ \A k \in K : \E i \in 1 .. Len(r) : h[i] = k
  BY <1>1 DEF Selects
<1>3. Len(r) \in Nat /\ DOMAIN r = 1 .. Len(r) /\ \A x : x \in ToSet(r) <=> \E i \in 1 .. Len(r) : r[i] = x
  BY <1>1, Members
<1>4. Len(list) \in Nat /\ DOMAIN list = 1 .. Len(list)
      /\ \A x : x \in ToSet(list) <=> \E i \in 1 .. Len(list) : list[i] = x
  BY Members
<1>5. ToSet(r) = ToSet(list) \ S
  <2>1. ASSUME NEW x \in ToSet(r) PROVE x \in ToSet(list) \ S
    BY <1>2, <1>3, <1>4
  <2>2. ASSUME NEW x \in ToSet(list) \ S PROVE x \in ToSet(r)
    <3>1. PICK k \in 1 .. Len(list) : list[k] = x
      BY <1>4
    <3>2. k \in K
      BY <3>1
    <3>3. PICK i \in 1 .. Len(r) : h[i] = k
      BY <3>2, <1>2
    <3>4. r[i] = x
      BY <3>3, <3>1, <1>2
    <3> QED BY <3>4, <1>3
  <2> QED BY <2>1, <2>2
<1>6. ASSUME NEW i \in 1 .. Len(r) PROVE h[i] \in 1 .. Len(list) /\ r[i] = list[h[i]]
  BY <1>2
<1>7. IsInjective(list) => IsInjective(r)
  <2> SUFFICES ASSUME IsInjective(list), NEW i \in 1 .. Len(r), NEW j \in 1 .. Len(r), r[i] = r[j]
               PROVE  i = j
    BY <1>3 DEF IsInjective
  <2>1. h[i] = h[j]
    BY <1>4, <1>6 DEF IsInjective
  <2>2. h[i] \in Nat /\ h[j] \in Nat
    BY <1>6, <1>4
  <2>3. ~(i < j) /\ ~(j < i)
    BY <1>2, <2>1, <2>2
  <2> QED BY <2>3, <1>3
<1>8. ASSUME NEW R, Sorted(list, R) PROVE Sorted(r, R)
  BY <1>2, <1>6, <1>8, SMTT(30) DEF Sorted
<1> QED BY <1>1, <1>5, <1>7, <1>8 DEF r

-----------------------------------------------------------------------------
(* Insertion.                                                               *)

\* t is s with e put in at place p.
Inserted(t, s, p, e) ==
    /\ Len(t) = Len(s) + 1
    /\ \A i \in 1 .. Len(s) + 1 : t[i] = IF i < p THEN s[i] ELSE IF i = p THEN e ELSE s[i - 1]

\* InsertAt puts e in at place p.
LEMMA InsertAtInserts ==
    ASSUME NEW A, NEW s \in Seq(A), NEW e \in A, NEW p \in 1 .. Len(s) + 1
    PROVE  InsertAt(s, p, e) \in Seq(A) /\ Inserted(InsertAt(s, p, e), s, p, e)
<1> DEFINE a == SubSeq(s, 1, p - 1)
           b == SubSeq(s, p, Len(s))
           ae == a \o <<e>>
<1>1. Len(s) \in Nat /\ p \in Nat /\ p >= 1 /\ p <= Len(s) + 1
  OBVIOUS
<1>2. a \in Seq(A) /\ Len(a) = p - 1 /\ \A i \in 1 .. p - 1 : a[i] = s[i]
  <2>1. \A i \in 1 .. p - 1 : s[i] \in A
    BY <1>1
  <2> QED BY <2>1, <1>1, SubSeqProperties
<1>3. b \in Seq(A) /\ Len(b) = Len(s) - p + 1 /\ \A i \in 1 .. Len(s) - p + 1 : b[i] = s[p + i - 1]
  <2>1. \A i \in p .. Len(s) : s[i] \in A
    BY <1>1
  <2> QED BY <2>1, <1>1, SubSeqProperties
<1>4. <<e>> \in Seq(A) /\ Len(<<e>>) = 1 /\ <<e>>[1] = e
  OBVIOUS
<1> HIDE DEF a, b
<1>5. ae \in Seq(A) /\ Len(ae) = p /\ \A i \in 1 .. p : ae[i] = IF i < p THEN s[i] ELSE e
  BY <1>1, <1>2, <1>4
<1>6. InsertAt(s, p, e) = ae \o b
  BY DEF InsertAt, a, b
<1> HIDE DEF ae
<1>7. ae \o b \in Seq(A) /\ Len(ae \o b) = Len(s) + 1
  <2>1. Len(ae \o b) = Len(ae) + Len(b) /\ ae \o b \in Seq(A)
    BY <1>3, <1>5, ConcatProperties
  <2> QED BY <2>1, <1>1, <1>3, <1>5
<1>8. ASSUME NEW i \in 1 .. Len(s) + 1
      PROVE  (ae \o b)[i] = IF i < p THEN s[i] ELSE IF i = p THEN e ELSE s[i - 1]
  <2>1. CASE i <= p
    BY <2>1, <1>1, <1>3, <1>5
  <2>2. CASE i > p
    <3>1. (ae \o b)[i] = b[i - p]
      BY <2>2, <1>1, <1>3, <1>5
    <3>2. i - p \in 1 .. Len(s) - p + 1 /\ p + (i - p) - 1 = i - 1
      BY <2>2, <1>1
    <3> QED BY <3>1, <3>2, <2>2, <1>1, <1>3
  <2>3. i <= p \/ i > p
    BY <1>1
  <2> QED BY <2>1, <2>2, <2>3, Zenon
<1> QED BY <1>6, <1>7, <1>8 DEF Inserted

\* Append puts e in at the end.
LEMMA AppendInserts ==
    ASSUME NEW A, NEW s \in Seq(A), NEW e \in A
    PROVE  Append(s, e) \in Seq(A) /\ Inserted(Append(s, e), s, Len(s) + 1, e)
BY DEF Inserted

\* e is related to what is before and what is behind place p.
Between(s, p, e, R) == (\A i \in 1 .. p - 1 : <<s[i], e>> \in R) /\ (\A i \in p .. Len(s) : <<e, s[i]>> \in R)

\* A list into which e was put has one member more, twice only if it was there, and is sorted if
\* e was put between the members it is related to.
LEMMA InsertedProperties ==
    ASSUME NEW A, NEW s \in Seq(A), NEW t \in Seq(A), NEW e \in A, NEW p \in 1 .. Len(s) + 1,
           Inserted(t, s, p, e)
    PROVE  /\ ToSet(t) = ToSet(s) \cup {e}
           /\ IsInjective(s) /\ e \notin ToSet(s) => IsInjective(t)
           /\ \A R : Sorted(s, R) /\ Between(s, p, e, R) => Sorted(t, R)
<1>1. /\ Len(s) \in Nat /\ DOMAIN s = 1 .. Len(s) /\ \A x : x \in ToSet(s) <=> \E i \in 1 .. Len(s) : s[i] = x
      /\ DOMAIN t = 1 .. Len(t) /\ \A x : x \in ToSet(t) <=> \E i \in 1 .. Len(t) : t[i] = x
  BY Members
<1>2. Len(t) = Len(s) + 1 /\ p \in Nat /\ p >= 1 /\ p <= Len(s) + 1
  BY <1>1 DEF Inserted
<1>3. /\ t[p] = e
      /\ \A i \in 1 .. p - 1 : t[i] = s[i]
      /\ \A i \in p + 1 .. Len(s) + 1 : t[i] = s[i - 1]
  BY <1>1, <1>2 DEF Inserted
<1>4. ToSet(t) = ToSet(s) \cup {e}
  <2>1. ASSUME NEW x \in ToSet(t) PROVE x \in ToSet(s) \cup {e}
    <3>1. PICK i \in 1 .. Len(t) : t[i] = x
      BY <1>1
    <3>2. CASE i < p
      <4>1. i \in 1 .. Len(s) /\ s[i] = x
        BY <3>1, <3>2, <1>1, <1>2, <1>3
      <4> QED BY <4>1, <1>1
    <3>3. CASE i = p
      BY <3>1, <3>3, <1>3
    <3>4. CASE i > p
      <4>1. i - 1 \in 1 .. Len(s) /\ s[i - 1] = x
        BY <3>1, <3>4, <1>1, <1>2, <1>3
      <4> QED BY <4>1, <1>1
    <3> QED BY <3>2, <3>3, <3>4, <1>2, <1>1
  <2>2. e \in ToSet(t)
    BY <1>1, <1>2, <1>3
  <2>3. ASSUME NEW x \in ToSet(s) PROVE x \in ToSet(t)
    <3>1. PICK i \in 1 .. Len(s) : s[i] = x
      BY <1>1
    <3>2. CASE i < p
      <4>1. i \in 1 .. Len(t) /\ t[i] = x
        BY <3>1, <3>2, <1>1, <1>2, <1>3
      <4> QED BY <4>1, <1>1
    <3>3. CASE i >= p
      <4>1. i + 1 \in 1 .. Len(t) /\ t[i + 1] = x
        BY <3>1, <3>3, <1>1, <1>2, <1>3
      <4> QED BY <4>1, <1>1
    <3> QED BY <3>2, <3>3, <1>2, <1>1
  <2> QED BY <2>1, <2>2, <2>3
<1> DEFINE old(i) == IF i < p THEN i ELSE i - 1
<1>5. ASSUME NEW i \in 1 .. Len(t), i # p
      PROVE  old(i) \in 1 .. Len(s) /\ t[i] = s[old(i)] /\ s[old(i)] \in ToSet(s)
  BY <1>5, <1>1, <1>2, <1>3
<1>6. IsInjective(s) /\ e \notin ToSet(s) => IsInjective(t)
  <2> SUFFICES ASSUME IsInjective(s), e \notin ToSet(s), NEW i \in 1 .. Len(t), NEW j \in 1 .. Len(t), t[i] = t[j]
               PROVE  i = j
    BY <1>1, <1>2 DEF IsInjective
  <2>1. CASE i = p \/ j = p
    <3>1. i # p => t[i] # e
      BY <1>5
    <3>2. j # p => t[j] # e
      BY <1>5
    <3> QED BY <2>1, <3>1, <3>2, <1>3
  <2>2. CASE i # p /\ j # p
    <3>1. old(i) = old(j)
      BY <2>2, <1>5, <1>1, ZenonT(30) DEF IsInjective
    <3> QED BY <3>1, <2>2, <1>1, <1>2
  <2> QED BY <2>1, <2>2
<1>7. ASSUME NEW R, Sorted(s, R), \A i \in 1 .. p - 1 : <<s[i], e>> \in R, \A i \in p .. Len(s) : <<e, s[i]>> \in R,
             NEW i \in 1 .. Len(t), NEW j \in 1 .. Len(t), i < j
      PROVE  <<t[i], t[j]>> \in R
  <2>1. CASE i = p
    <3>1. j - 1 \in p .. Len(s) /\ t[j] = s[j - 1]
      BY <2>1, <1>1, <1>2, <1>3, <1>7
    <3> QED BY <3>1, <2>1, <1>3, <1>7
  <2>2. CASE j = p
    <3>1. i \in 1 .. p - 1 /\ t[i] = s[i]
      BY <2>2, <1>1, <1>2, <1>3, <1>7
    <3> QED BY <3>1, <2>2, <1>3, <1>7
  <2>3. CASE i # p /\ j # p
    <3>1. old(i) < old(j)
      BY <2>3, <1>1, <1>2, <1>7
    <3> HIDE DEF old
    <3> QED BY <3>1, <2>3, <1>5, <1>7 DEF Sorted
  <2> QED BY <2>1, <2>2, <2>3
<1>8. \A R : Sorted(s, R) /\ Between(s, p, e, R) => Sorted(t, R)
  BY <1>7, Zenon DEF Sorted, Between
<1> QED BY <1>4, <1>6, <1>8
=============================================================================
