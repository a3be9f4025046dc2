-------------------------------- MODULE Timer --------------------------------
(***************************************************************************)
(* The list of running timers (timer.c), as a sequence, the next to expire *)
(* first.  Ticks are of limited width and wrap around; a timer that is     *)
(* less than half of the range away is in the future.  The rows of the     *)
(* skip list are one, as RT_TIMER_SKIP_LIST_LEVEL is 1.                    *)
(***************************************************************************)
EXTENDS Integers, Lists, SequencesExt

CONSTANT RT_TICK_MAX   \* the largest tick (2^32 - 1)

ASSUME TickAssumption == RT_TICK_MAX \in Nat \ {0, 1, 2}

\* rt_tick_t arithmetic.
After(a, b) == (a + b) % (RT_TICK_MAX + 1)
Since(a, b) == (a - b) % (RT_TICK_MAX + 1)

Half == RT_TICK_MAX \div 2

\* A faulty variant: ticks are compared as if they did not wrap around.
LaterNumber(a, b) == a > b

\* Whether rt_timer_start stops looking for a place at a timer that expires at a.
Later(a, b) == Since(a, b) # 0 /\ Since(a, b) < Half

\* rt_timer_start: timer is to expire at tick, and gets its place behind those that expire
\* earlier or at the same tick.
rt_timer_start(list, timer, tick) ==
    LET Stops(i) == i > Len(list) \/ Later(list[i].timeout_tick, tick)
        place == CHOOSE i \in 1 .. Len(list) + 1 : Stops(i) /\ \A j \in 1 .. i - 1 : ~Stops(j)
    IN  InsertAt(list, place, [timer |-> timer, timeout_tick |-> tick])

\* rt_timer_stop of the timers in S; one that does not run is left alone.
rt_timer_stop(list, S) == rt_list_remove(list, {x \in ToSet(list) : x.timer \in S})

\* The timers that run.
Running(list) == {x.timer : x \in ToSet(list)}

\* Whether rt_timer_check lets a timer of this tick expire.
Due(now, tick) == Since(now, tick) < Half

\* The timers rt_timer_check lets expire: it stops at the first that is not due.
rt_timer_check(list, now) ==
    {list[i].timer : i \in {k \in DOMAIN list : \A j \in 1 .. k : Due(now, list[j].timeout_tick)}}
=============================================================================
