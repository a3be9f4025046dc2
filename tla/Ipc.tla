--------------------------------- MODULE Ipc ---------------------------------
(***************************************************************************)
(* The list of suspended threads every IPC object of the kernel keeps      *)
(* (ipc.c), as a sequence of threads, the next to be resumed first.        *)
(***************************************************************************)
EXTENDS Lists, SequencesExt

\* A faulty variant: the end of the list, whatever the priorities.
LastPlace(list, thread, priority) == Len(list) + 1

\* The place of thread in a list that is sorted by priority (0 is the highest): before the first
\* thread of lower priority, or at the end.
PriorityPlace(list, thread, priority) ==
    LET Lower(i) == i > Len(list) \/ priority[thread] < priority[list[i]]
    IN  CHOOSE i \in 1 .. Len(list) + 1 : Lower(i) /\ \A j \in 1 .. i - 1 : ~Lower(j)

\* rt_ipc_list_suspend; the flag is the one the object was initialised with.
rt_ipc_list_suspend(list, thread, flag, priority) ==
    IF flag = "RT_IPC_FLAG_FIFO" THEN Append(list, thread)
    ELSE InsertAt(list, PriorityPlace(list, thread, priority), thread)
=============================================================================
