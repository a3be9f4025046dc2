-------------------------------- MODULE Lists --------------------------------
(***************************************************************************)
(* The lists of the kernel (rtservice.h), as sequences.                    *)
(***************************************************************************)
EXTENDS Naturals, Sequences

\* rt_list_remove of the members that are in S; the others keep their order.
rt_list_remove(list, S) ==
    LET kept[i \in 0 .. Len(list)] ==
            IF i = 0 THEN <<>>
            ELSE IF list[i] \in S THEN kept[i - 1]
            ELSE Append(kept[i - 1], list[i])
    IN  kept[Len(list)]
=============================================================================
