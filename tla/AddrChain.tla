------------------------------ MODULE AddrChain ------------------------------
(***************************************************************************)
(* What automatic addressing promises, without lines, bits or time: the    *)
(* nodes of a daisy chain are numbered from the head on; a node takes a    *)
(* number once and keeps it, and it does so only after the node before it. *)
(* It takes the next number, or what is left of it without the first bit   *)
(* of the address field, which can get lost.  Nobody takes a number that   *)
(* the field cannot hold.                                                  *)
(***************************************************************************)
EXTENDS Integers

CONSTANTS N,      \* how many nodes are in the chain
          Half    \* the weight of the first bit of the address field

VARIABLE addr     \* addr[i]: the address of the i-th node, 0 while it has none

Nodes == 1 .. N

\* The number for node i, once the node before it has one.
Number(i) == IF i = 1 THEN 1 ELSE addr[i - 1] + 1

Init == addr = [i \in Nodes |-> 0]

Take(i) ==
    /\ addr[i] = 0
    /\ i # 1 => addr[i - 1] # 0
    /\ \E n \in {Number(i), Number(i) - Half} \cap (1 .. 2 * Half - 1) : addr' = [addr EXCEPT ![i] = n]

Next == \E i \in Nodes : Take(i)

Spec == Init /\ [][Next]_addr /\ WF_addr(Next)

-----------------------------------------------------------------------------
\* The addressed nodes are the head of the chain, and each has the number after that of the
\* node before it, perhaps without the first bit.
Follows ==
    \A i \in Nodes :
        addr[i] # 0 => (i # 1 => addr[i - 1] # 0) /\ addr[i] \in {Number(i), Number(i) - Half}

\* The nodes up to the one whose number is the first bit alone, and nothing without it, have the
\* numbers of their places.
Numbered == \A i \in Nodes : i <= Half => addr[i] \in {0, i}

\* No two of them answer to the same address.
Unique == \A i, j \in Nodes : i <= Half /\ j <= Half /\ addr[i] = addr[j] /\ addr[i] # 0 => i = j

\* An address, once taken, is never given up or changed.
Kept == [][\A i \in Nodes : addr[i] # 0 => addr'[i] = addr[i]]_addr
=============================================================================
