--------------------------- MODULE AddrChainProofs ---------------------------
(* Proofs about AddrChain, for chains and address fields of every size.      *)
EXTENDS AddrChain, TLAPS

\* Both are kept: a node takes its number only after the one before it, which keeps its own,
\* and of a number up to Half, nothing that could be taken is left without the first bit.
LEMMA TakeFollows ==
    ASSUME N \in Nat, Half \in Nat \ {0}, addr \in [Nodes -> Nat], Follows, Numbered,
           NEW i \in Nodes, Take(i)
    PROVE  addr' \in [Nodes -> Nat] /\ Follows' /\ Numbered'
<1>1. PICK n \in {Number(i), Number(i) - Half} \cap (1 .. 2 * Half - 1) : addr' = [addr EXCEPT ![i] = n]
  BY DEF Take
<1>2. n \in Nat /\ n # 0 /\ n \in {Number(i), Number(i) - Half}
  BY <1>1
<1>3. addr' \in [Nodes -> Nat]
  BY <1>1, <1>2
<1>4. addr'[i] = n /\ \A k \in Nodes : k # i => addr'[k] = addr[k]
  BY <1>1
<1>5. \A k \in Nodes : addr[k] # 0 => k # i
  BY DEF Take
<1>6. ASSUME NEW k \in Nodes, addr'[k] # 0
      PROVE  (k # 1 => addr'[k - 1] # 0) /\ addr'[k] \in {Number(k)', Number(k)' - Half}
  <2>1. (k # 1 => k - 1 \in Nodes /\ k - 1 # k) /\ i \in Nat
    BY DEF Nodes
  <2>2. CASE k = i
    <3>1. (i # 1 => addr'[i - 1] = addr[i - 1] /\ addr[i - 1] # 0)
      BY <2>1, <2>2, <1>4 DEF Take
    <3> QED BY <3>1, <2>2, <1>2, <1>4 DEF Number
  <2>3. CASE k # i
    <3>1. (k # 1 => addr[k - 1] # 0) /\ addr[k] \in {Number(k), Number(k) - Half} /\ addr'[k] = addr[k]
      BY <2>3, <1>4, <1>6 DEF Follows
    <3>2. k # 1 => addr'[k - 1] = addr[k - 1]
      BY <2>1, <3>1, <1>4, <1>5
    <3> QED BY <3>1, <3>2 DEF Number
  <2> QED BY <2>2, <2>3
<1>7. ASSUME NEW k \in Nodes, k <= Half PROVE addr'[k] \in {0, k}
  <2>1. CASE k = i
    <3>1. i # 1 => i - 1 \in Nodes /\ addr[i - 1] = i - 1
      BY <2>1, <1>7 DEF Nodes, Numbered, Take
    <3>2. Number(i) = i
      BY <3>1 DEF Number, Nodes
    <3> QED BY <3>2, <2>1, <1>2, <1>4, <1>7 DEF Nodes
  <2>2. CASE k # i
    BY <2>2, <1>4, <1>7 DEF Numbered
  <2> QED BY <2>1, <2>2
<1>8. Follows'
  BY <1>6 DEF Follows, Nodes
<1>9. Numbered'
  BY <1>7 DEF Numbered, Nodes
<1> QED BY <1>3, <1>8, <1>9

\* The addressed nodes of a chain are always its head, each numbered after the one before it;
\* those up to number Half, the first bit of the field, have the numbers of their places, and no
\* two of them share an address: what every implementation of AddrChain inherits.
THEOREM ChainCorrect ==
    ASSUME N \in Nat, Half \in Nat \ {0}
    PROVE  Spec => [](Follows /\ Numbered /\ Unique)
<1> DEFINE Inv == addr \in [Nodes -> Nat] /\ Follows /\ Numbered
<1>1. Init => Inv
  BY DEF Init, Follows, Numbered, Nodes
<1>2. Inv /\ [Next]_addr => Inv'
  <2> SUFFICES ASSUME Inv, [Next]_addr PROVE Inv'
    OBVIOUS
  <2>1. CASE Next
    BY <2>1, TakeFollows DEF Next
  <2>2. CASE UNCHANGED addr
    BY <2>2 DEF Follows, Number, Numbered, Nodes
  <2> QED BY <2>1, <2>2
<1>3. Inv => Follows /\ Numbered /\ Unique
  BY DEF Numbered, Unique
<1> QED BY <1>1, <1>2, <1>3, PTL DEF Spec

\* An address that a node has taken is never changed or given up.
THEOREM ChainKept == Spec => Kept
<1>1. [Next]_addr => [\A i \in Nodes : addr[i] # 0 => addr'[i] = addr[i]]_addr
  <2> SUFFICES ASSUME NEW k \in Nodes, Take(k), NEW i \in Nodes, addr[i] # 0
               PROVE  addr'[i] = addr[i]
    BY DEF Next
  <2> QED BY DEF Take
<1> QED BY <1>1, PTL DEF Spec, Kept
=============================================================================
