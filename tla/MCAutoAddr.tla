----------------------------- MODULE MCAutoAddr ------------------------------
(* Instances of AutoAddr: a pair of nodes as far apart in their clocks and   *)
(* their starts as the firmware bears, and a chain of three whose third node *)
(* has a number that can lose the first bit of the address field.            *)
EXTENDS AutoAddr

\* A chain is followed until its last node has an address: no address changes after that.
Unfinished == node[N].auto_addr = 0
=============================================================================
