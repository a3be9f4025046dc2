------------------------------- MODULE Kernel --------------------------------
(***************************************************************************)
(* What the kernel lets threads wait for: a mutex, an event set, a time    *)
(* (ipc.c, thread.c, timer.c, clock.c), in one model because a thread      *)
(* waits for one of them at a time, with one timer and one error code, and *)
(* because the owner of the mutex may wait for an event.                   *)
(*                                                                         *)
(* Every function runs with interrupts disabled up to the point where it   *)
(* suspends its caller or returns, so each call is one step; rt_timer_start *)
(* of a timer that is not a thread's is two.  A thread that does not wait  *)
(* may take a step at any time: which one runs is the scheduler's choice.  *)
(***************************************************************************)
EXTENDS Ipc, Timer, FiniteSets, FiniteSetsExt

CONSTANTS
    Threads,
    Receivers, Sleepers,      \* the threads that wait for events, and those that sleep
    init_priority,            \* of each thread; 0 is the most urgent
    mutex_flag, event_flag,   \* RT_IPC_FLAG_FIFO or RT_IPC_FLAG_PRIO
    Bits,                     \* of the event set
    Receives,                 \* what rt_event_recv is called for: [set, option, clear]
    TakeTimes, RecvTimes,     \* time limits, in ticks; RT_WAITING_FOREVER may be among them
    SleepTimes,
    RT_NULL,                  \* no thread
    timer,                    \* the slave timer of porttimer.c
    init_tick,                \* its time
    MaxHold,                  \* bound: how deep a thread nests its takes of the mutex
    MaxLate                   \* bound: ticks in the middle of an rt_timer_start

RT_WAITING_FOREVER == -1

ASSUME KernelAssumption ==
    /\ init_priority \in [Threads -> Nat] /\ Receivers \cup Sleepers \subseteq Threads
    /\ {mutex_flag, event_flag} \subseteq {"RT_IPC_FLAG_FIFO", "RT_IPC_FLAG_PRIO"}
    /\ Receives \subseteq [set : (SUBSET Bits) \ {{}}, option : {"AND", "OR"}, clear : BOOLEAN]
    /\ \A time \in (TakeTimes \cup RecvTimes \cup SleepTimes) \ {RT_WAITING_FOREVER} :
         time \in Nat /\ time + MaxLate < Half
    /\ SleepTimes \cap {0, RT_WAITING_FOREVER} = {}
    /\ RT_NULL \notin Threads /\ timer \notin Threads
    /\ init_tick \in Nat \ {0} /\ MaxLate \in Nat /\ init_tick + MaxLate < Half
    /\ MaxHold \in Nat \ {0}

VARIABLES
    stat,                                    \* what each thread is suspended for, or Ready
    error, current_priority,                 \* of each thread
    owner, value, hold, original_priority,   \* of the mutex
    set,                                     \* of the event
    suspend_thread,                          \* the lists of the two
    rt_tick, timer_list,
    starting,                                \* the tick the slave timer is being started for
    \* What the properties remember: the bits sent and handed over in the last step.
    moved

thread_vars == <<stat, error, current_priority>>
mutex_vars == <<owner, value, hold, original_priority>>
timer_vars == <<rt_tick, timer_list, starting>>
vars == <<thread_vars, mutex_vars, set, suspend_thread, timer_vars, moved>>

NoPriority == 255    \* 0xFF
Nothing == [sent |-> {}, to |-> {}]
NotStarting == -1

\* With event_set and event_info, of a thread that waits for an event.
Ready == [on |-> "ready"]
Waits(object) == [on |-> object]
Receiving(r) == [on |-> "event", recv |-> r]

\* The objects as their init functions leave them, at any tick.
Init ==
    /\ stat = [t \in Threads |-> Ready] /\ error = [t \in Threads |-> "RT_EOK"]
    /\ current_priority = init_priority
    /\ owner = RT_NULL /\ value = 1 /\ hold = 0 /\ original_priority = NoPriority
    /\ set = {} /\ suspend_thread = [o \in {"mutex", "event"} |-> <<>>]
    /\ rt_tick = RT_TICK_MAX
    /\ timer_list = <<>> /\ starting = NotStarting
    /\ moved = Nothing

-----------------------------------------------------------------------------
(* Threads.                                                                 *)

Suspended(t) == stat[t] # Ready

\* The calling thread t is suspended, for at most time ticks if a limit is given.
Suspend(t, what, time) ==
    /\ stat' = [stat EXCEPT ![t] = what]
    /\ timer_list' = IF time = RT_WAITING_FOREVER THEN timer_list
                     ELSE rt_timer_start(timer_list, t, After(rt_tick, time))
    /\ UNCHANGED <<rt_tick, starting>>

\* ... on the list of an object.
SuspendOn(t, what, flag, time) ==
    /\ suspend_thread' =
           [suspend_thread EXCEPT ![what.on] = rt_ipc_list_suspend(@, t, flag, current_priority)]
    /\ Suspend(t, what, time)

\* A faulty variant: they stay in the lists.
ReadyOnly(S) ==
    /\ stat' = [t \in Threads |-> IF t \in S THEN Ready ELSE stat[t]]
    /\ UNCHANGED suspend_thread

\* The threads in S are ready again and in no list.
MakeReady(S) ==
    /\ stat' = [t \in Threads |-> IF t \in S THEN Ready ELSE stat[t]]
    /\ suspend_thread' =
           [o \in DOMAIN suspend_thread |-> rt_list_remove(suspend_thread[o], S)]

\* A faulty variant: the timers go on.
ResumeOnly(S) ==
    /\ MakeReady(S)
    /\ UNCHANGED timer_vars

\* rt_thread_resume of the threads in S.
rt_thread_resume(S) ==
    /\ MakeReady(S)
    /\ timer_list' = rt_timer_stop(timer_list, S)
    /\ UNCHANGED <<rt_tick, starting>>

\* The error code is cleared if it is -RT_ETIMEOUT, which nobody sees in between: rt_thread_timeout
\* does it here.
rt_thread_sleep(t, time) ==
    /\ ~Suspended(t)
    /\ Suspend(t, Waits("sleep"), time)
    /\ moved' = Nothing
    /\ UNCHANGED <<error, current_priority, mutex_vars, set, suspend_thread>>

-----------------------------------------------------------------------------
(* The mutex.                                                               *)

\* A faulty variant: the owner's priority is left as it is.
NotRaised(t) == UNCHANGED current_priority

\* The owner gets the priority of t, which is going to wait for it, if that is more urgent.
RaiseOwner(t) ==
    current_priority' =
        [current_priority EXCEPT ![owner] = IF current_priority[t] < @ THEN current_priority[t] ELSE @]

rt_mutex_take(t, time) ==
    /\ ~Suspended(t)
    /\ error' = [error EXCEPT ![t] = IF owner # t /\ value = 0 /\ time = 0 THEN "-RT_ETIMEOUT" ELSE "RT_EOK"]
    /\ \/ /\ owner = t /\ hold < MaxHold
          /\ hold' = hold + 1
          /\ UNCHANGED <<stat, current_priority, owner, value, original_priority, suspend_thread, timer_vars>>
       \/ /\ owner # t /\ value > 0
          /\ value' = value - 1 /\ owner' = t /\ hold' = hold + 1
          /\ original_priority' = current_priority[t]
          /\ UNCHANGED <<stat, current_priority, suspend_thread, timer_vars>>
       \/ /\ owner # t /\ value = 0 /\ time = 0
          /\ UNCHANGED <<stat, current_priority, mutex_vars, suspend_thread, timer_vars>>
       \/ /\ owner # t /\ value = 0 /\ time # 0
          /\ RaiseOwner(t)
          /\ SuspendOn(t, Waits("mutex"), mutex_flag, time)
          /\ UNCHANGED mutex_vars
    /\ moved' = Nothing
    /\ UNCHANGED set

\* A faulty variant: the owner keeps the priority it was raised to.
KeptPriority(t) == UNCHANGED current_priority

\* The owner goes back to the priority it had when it took the mutex.
RestoreOwner(t) == current_priority' = [current_priority EXCEPT ![t] = original_priority]

\* Nobody owns the mutex any more.
Free ==
    /\ value' = value + 1 /\ owner' = RT_NULL /\ original_priority' = NoPriority /\ hold' = 0
    /\ UNCHANGED <<stat, suspend_thread, timer_vars>>

\* A faulty variant: the first waiter is resumed to take the mutex itself.
FreeAndResume ==
    /\ value' = value + 1 /\ owner' = RT_NULL /\ original_priority' = NoPriority /\ hold' = 0
    /\ rt_thread_resume({Head(suspend_thread.mutex)})

\* The first waiter is the next owner and is resumed.
HandOver ==
    /\ owner' = Head(suspend_thread.mutex)
    /\ original_priority' = current_priority[owner']
    /\ hold' = 1
    /\ rt_thread_resume({owner'})
    /\ UNCHANGED value

rt_mutex_release(t) ==
    /\ ~Suspended(t)
    /\ \/ /\ owner # t
          /\ error' = [error EXCEPT ![t] = "-RT_ERROR"]
          /\ UNCHANGED <<stat, current_priority, mutex_vars, suspend_thread, timer_vars>>
       \/ /\ owner = t /\ hold > 1
          /\ hold' = hold - 1
          /\ UNCHANGED <<thread_vars, owner, value, original_priority, suspend_thread, timer_vars>>
       \/ /\ owner = t /\ hold = 1
          /\ RestoreOwner(t)
          /\ IF suspend_thread.mutex # <<>> THEN HandOver ELSE Free
          /\ UNCHANGED error
    /\ moved' = Nothing
    /\ UNCHANGED set

-----------------------------------------------------------------------------
(* The event set.                                                           *)

\* Whether bits satisfy a receiver, and what it then gets.
Satisfies(bits, r) == IF r.option = "AND" THEN r.set \subseteq bits ELSE r.set \cap bits # {}
Handed(bits, r) == r.set \cap bits

\* A faulty variant: the bits stay.
NotCleared(bits, r) == bits

\* What is left of bits when r has received.
AfterRecv(bits, r) == IF r.clear THEN bits \ r.set ELSE bits

\* A faulty variant: the search ends with the first thread that is resumed.
FirstOnly(acc, t) ==
    LET r == stat[t].recv
    IN  IF acc.to = {} /\ Satisfies(acc.set, r)
        THEN [set |-> AfterRecv(acc.set, r),
              to |-> {[thread |-> t, bits |-> Handed(acc.set, r), clear |-> r.clear]}]
        ELSE acc

\* One pass of the loop of rt_event_send: thread t gets what satisfies it.
Offer(acc, t) ==
    LET r == stat[t].recv
    IN  IF Satisfies(acc.set, r)
        THEN [set |-> AfterRecv(acc.set, r),
              to |-> acc.to \cup {[thread |-> t, bits |-> Handed(acc.set, r), clear |-> r.clear]}]
        ELSE acc

\* What the loop leaves of bits, and to whom it gives them.
Offered(list, bits) ==
    LET offered[i \in 0 .. Len(list)] ==
            IF i = 0 THEN [set |-> bits, to |-> {}] ELSE Offer(offered[i - 1], list[i])
    IN  offered[Len(list)]

\* Called by a thread or an interrupt.
rt_event_send(bits) ==
    LET all == Offered(suspend_thread.event, set \cup bits)
    IN  /\ set' = all.set
        /\ moved' = [sent |-> bits, to |-> all.to]
        /\ rt_thread_resume({x.thread : x \in all.to})
        /\ UNCHANGED <<error, current_priority, mutex_vars>>

rt_event_recv(t, r, time) ==
    /\ ~Suspended(t)
    /\ error' = [error EXCEPT ![t] = IF ~Satisfies(set, r) /\ time = 0 THEN "-RT_ETIMEOUT" ELSE "RT_EOK"]
    /\ \/ /\ Satisfies(set, r)
          /\ moved' = [sent |-> {}, to |-> {[thread |-> t, bits |-> Handed(set, r), clear |-> r.clear]}]
          /\ set' = AfterRecv(set, r)
          /\ UNCHANGED <<stat, suspend_thread, timer_vars>>
       \/ /\ ~Satisfies(set, r) /\ time = 0
          /\ moved' = Nothing
          /\ UNCHANGED <<stat, set, suspend_thread, timer_vars>>
       \/ /\ ~Satisfies(set, r) /\ time # 0
          /\ SuspendOn(t, Receiving(r), event_flag, time)
          /\ moved' = Nothing
          /\ UNCHANGED set
    /\ UNCHANGED <<current_priority, mutex_vars>>

\* RT_IPC_CMD_RESET
rt_event_control ==
    /\ LET all == ToSet(suspend_thread.event)
       IN  /\ error' = [t \in Threads |-> IF t \in all THEN "-RT_ERROR" ELSE error[t]]
           /\ rt_thread_resume(all)
    /\ set' = {}
    /\ moved' = Nothing
    /\ UNCHANGED <<current_priority, mutex_vars>>

-----------------------------------------------------------------------------
(* Time.                                                                    *)

\* vMBPortTimersEnable: rt_timer_start takes the timer out of the list and reads the tick, ...
StartTimer ==
    /\ starting = NotStarting
    /\ starting' = After(rt_tick, init_tick)
    /\ timer_list' = rt_timer_stop(timer_list, {timer})
    /\ moved' = Nothing
    /\ UNCHANGED <<thread_vars, mutex_vars, set, suspend_thread, rt_tick>>

\* ... and puts it into the list after it has disabled the interrupts again.
TimerStarted ==
    /\ starting # NotStarting
    /\ starting' = NotStarting
    /\ timer_list' = rt_timer_start(timer_list, timer, starting)
    /\ moved' = Nothing
    /\ UNCHANGED <<thread_vars, mutex_vars, set, suspend_thread, rt_tick>>

\* vMBPortTimersDisable.
StopTimer ==
    /\ timer \in Running(timer_list)
    /\ timer_list' = rt_timer_stop(timer_list, {timer})
    /\ moved' = Nothing
    /\ UNCHANGED <<thread_vars, mutex_vars, set, suspend_thread, rt_tick, starting>>

\* rt_thread_timeout of the threads in S.
rt_thread_timeout(S) ==
    /\ MakeReady(S)
    /\ error' = [t \in Threads |->
                   IF t \notin S THEN error[t] ELSE IF stat[t].on = "sleep" THEN "RT_EOK" ELSE "-RT_ETIMEOUT"]

\* The clock interrupt, with rt_timer_check.
rt_tick_increase ==
    LET now == After(rt_tick, 1)
        expired == rt_timer_check(timer_list, now)
    IN  /\ starting # NotStarting => Since(rt_tick, starting) # MaxLate
        /\ rt_tick' = now
        /\ timer_list' = rt_timer_stop(timer_list, expired)
        /\ rt_thread_timeout(expired \ {timer})
        /\ moved' = Nothing
        /\ UNCHANGED <<current_priority, mutex_vars, set, starting>>

Next ==
    \/ \E t \in Threads : rt_mutex_release(t) \/ \E time \in TakeTimes : rt_mutex_take(t, time)
    \/ \E t \in Sleepers, time \in SleepTimes : rt_thread_sleep(t, time)
    \/ \E t \in Receivers, time \in RecvTimes, r \in Receives : rt_event_recv(t, r, time)
    \/ \E bits \in (SUBSET Bits) \ {{}} : rt_event_send(bits)
    \/ rt_event_control
    \/ StartTimer \/ TimerStarted \/ StopTimer
    \/ rt_tick_increase

Spec == Init /\ [][Next]_vars

-----------------------------------------------------------------------------
(* Properties.                                                              *)

\* The values of the state; the lists agree with what the threads are suspended for, and the
\* fields of the mutex with each other.
TypeOK ==
    /\ stat \in [Threads -> {Ready, Waits("mutex"), Waits("sleep")} \cup {Receiving(r) : r \in Receives}]
    /\ error \in [Threads -> {"RT_EOK", "-RT_ETIMEOUT", "-RT_ERROR"}]
    /\ current_priority \in [Threads -> Nat] /\ original_priority \in Nat
    /\ set \subseteq Bits
    /\ suspend_thread \in [{"mutex", "event"} -> Seq(Threads)]
    /\ \A o \in {"mutex", "event"} :
         /\ ToSet(suspend_thread[o]) = {t \in Threads : stat[t].on = o}
         /\ IsInjective(suspend_thread[o])
    /\ owner \in Threads \cup {RT_NULL} /\ value \in {0, 1} /\ hold \in 0 .. MaxHold
    /\ (value = 1) <=> (owner = RT_NULL)
    /\ (value = 1) <=> (hold = 0)
    /\ rt_tick \in 0 .. RT_TICK_MAX /\ starting \in 0 .. RT_TICK_MAX \cup {NotStarting}
    /\ timer_list \in Seq([timer : Threads \cup {timer}, timeout_tick : 0 .. RT_TICK_MAX])

\* Nobody waits for a mutex that is free or its own.
NobodyWaitsForFree == \A t \in Threads : stat[t].on = "mutex" => owner \notin {t, RT_NULL}

\* Priority inheritance: the owner runs at least at the priority of every thread that waits for
\* the mutex, also after a handover, after a waiter has given up and while it waits itself.
Inherits ==
    \A t \in Threads : stat[t].on = "mutex" => current_priority[owner] <= current_priority[t]

\* A thread that does not hold the mutex runs at its own priority.
Restored == \A t \in Threads : owner # t => current_priority[t] = init_priority[t]

\* The mutex goes from its owner to a waiter than which no other is more urgent.
MostUrgentNext ==
    [][owner' # owner /\ owner # RT_NULL =>
         \A u \in Threads : stat[u].on = "mutex" => current_priority[owner'] <= current_priority[u]]_vars

\* A wait ends as its error code says: a thread that waited for the mutex has it exactly if there
\* is no error, and one that waited for bits has got some that satisfy it.
Outcome ==
    [][\A t \in Threads : Suspended(t) /\ stat'[t] = Ready =>
         /\ stat[t].on = "mutex" => ((error'[t] = "RT_EOK") <=> (owner' = t))
         /\ stat[t].on = "event" =>
              ((error'[t] = "RT_EOK") <=>
                 \E x \in moved'.to : x.thread = t /\ Satisfies(x.bits, stat[t].recv))]_vars

\* No thread waits for bits that are set.
NoMissedEvent == \A t \in Threads : stat[t].on = "event" => ~Satisfies(set, stat[t].recv)

\* A bit that was set, or is sent, is still set afterwards or has gone to exactly one receiver
\* that clears it; only a reset takes it otherwise.
EventConserved ==
    [][rt_event_control \/
       LET takers(b) == {x \in moved'.to : x.clear /\ b \in x.bits}
       IN  \A b \in Bits :
             IF b \in set \cup moved'.sent THEN Cardinality(takers(b)) = (IF b \in set' THEN 0 ELSE 1)
             ELSE b \notin set' /\ takers(b) = {}]_vars

\* At every tick exactly those timers expire whose time has come, also when the tick wraps around:
\* a thread's at its tick, the slave timer at its tick or, if it was started late, at the next one.
OnTime ==
    [][rt_tick' # rt_tick =>
         \A x \in ToSet(timer_list) :
           (x.timer \notin Running(timer_list')) <=>
             Since(rt_tick', x.timeout_tick) \in (IF x.timer = timer THEN 0 .. MaxLate + 1 ELSE {0})]_vars

\* rt_thread_timeout asserts that its thread is suspended; and no timer is in the list twice.
TimersOfSuspended ==
    /\ Cardinality(Running(timer_list)) = Len(timer_list)
    /\ \A t \in Threads : t \in Running(timer_list) => Suspended(t)
    /\ \A t \in Threads : stat[t].on = "sleep" => t \in Running(timer_list)
=============================================================================
