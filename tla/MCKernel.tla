------------------------------- MODULE MCKernel ------------------------------
(* Threads 1, 2, ... of which the last two share their priority.            *)
EXTENDS Kernel

CONSTANT NThreads

MCThreads == 1 .. NThreads
MCPriority == [t \in MCThreads |-> IF t = NThreads THEN NThreads - 1 ELSE t]
MCReceives == {[set |-> {"a", "b"}, option |-> "OR", clear |-> TRUE],
               [set |-> {"a", "b"}, option |-> "AND", clear |-> FALSE]}
MCTimes == {0, 2, RT_WAITING_FOREVER}

\* moved is read by the properties only.
WithoutMoved == <<thread_vars, mutex_vars, set, suspend_thread, timer_vars>>
=============================================================================
