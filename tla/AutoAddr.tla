------------------------------ MODULE AutoAddr -------------------------------
(***************************************************************************)
(* Automatic addressing, drv_autoaddr.c, on a daisy chain of N nodes.      *)
(*                                                                         *)
(* Node i drives two open-drain lines to node i + 1: DOWN_O carries the    *)
(* data and DOWN_I the clock; node i + 1 sees them as UP_I and UP_O.  A    *)
(* frame is the address and two one bits, most significant bit first.  The *)
(* falling clock edge interrupts the receiver, which shifts the data line  *)
(* in; after the last but one bit it pulls the data line low, after the    *)
(* last it drives it high, and a 2 tick timer releases it.  The sender     *)
(* reads the line back in every bit: low, then high in the last two bits   *)
(* is the acknowledge.  The head of the chain has both lines tied low.     *)
(*                                                                         *)
(* Each node counts the ticks, nominally milliseconds, of its own RC       *)
(* oscillator.  Time is counted in ticks of the fastest of these clocks: a *)
(* delay of d ticks takes from d to Late(d) of them, never the same on two *)
(* nodes or in two delays of one.  Late is rounded up, so that a delay may *)
(* take any of the whole numbers that bound it.  A thread that sleeps has  *)
(* its remaining time in wait and runs when that is 0; time passes only    *)
(* when nobody is due, and what is due at the same instant may happen in   *)
(* any order.  Ticks are not in phase with an interrupt, so that a timer   *)
(* of 2 ticks may run out any time after more than one.                    *)
(***************************************************************************)
EXTENDS Integers, FiniteSets, FiniteSetsExt

CONSTANTS
    N,          \* nodes in the chain
    AddrBits,   \* width of the address field (6 in a frame of 8 bits)
    Drift,      \* how much slower a clock may be than the fastest, in percent
    Skews       \* how much later than the first a node may be powered up, in ticks

ASSUME ChainAssumption ==
    /\ N \in Nat \ {0} /\ AddrBits \in Nat \ {0}
    /\ Drift \in Nat /\ Skews \subseteq Nat /\ 0 \in Skews

VARIABLE node   \* autoaddr_inst, the thread, the pins and the timer of every node

Nodes == 1 .. N
FrameBits == AddrBits + 2

\* 1 << n, for the shifts and widths of the shift register.
pow2[n \in 0 .. FrameBits] == IF n = 0 THEN 1 ELSE 2 * pow2[n - 1]

\* Where the thread is: before addr_init, at the head of its switch, before each of the three
\* stores of FSM_SYNC, and in autoaddr_tx before the clock falls and before the line is read back.
Pcs == {"boot", "switch", "cnt", "sr", "rxd", "clock", "read"}

NodeType == [
    sr : 0 .. pow2[FrameBits] - 1, rxd : 0 .. pow2[AddrBits] - 1, cnt : 0 .. FrameBits - 1,
    txd : 0 .. 3,                                    \* what was read in the two acknowledge bits
    fsm : {"INIT", "PREP", "SYNC", "PUSH", "SUCC"}, auto_addr : 0 .. pow2[AddrBits] - 1,
    pc : Pcs, wait : Nat, bit : 0 .. FrameBits - 1,  \* thread, its sleep, the bit being sent
    UP_I : {"float", "input", "low", "high"},        \* how the node drives its UP_I pin
    DOWN_O : {0, 1}, DOWN_I : {0, 1},                \* open drain: 1 is released
    irq : {"off", "on"},                             \* falling edge interrupt of UP_O
    last : Nat]                                      \* last_timer: 0 stopped, k + 1 in k ticks

vars == <<node>>

\* How long a delay of d ticks may take, in ticks of the fastest clock.
Late(d) == d + (Drift * d + 99) \div 100
Ticks(d) == d .. Late(d)

\* rt_thread_delay(200) is what a node does first, after it is powered up.
Off(skew, delay) == [
    sr |-> 0, rxd |-> 0, cnt |-> 0, txd |-> 0, fsm |-> "INIT", auto_addr |-> 0,
    pc |-> "boot", wait |-> skew + delay, bit |-> 0,
    UP_I |-> "float", DOWN_O |-> 1, DOWN_I |-> 1, irq |-> "off", last |-> 0]

\* Time starts when the first node is powered.
Init ==
    \E skew \in [Nodes -> Skews], delay \in [Nodes -> Ticks(200)] :
        /\ \E i \in Nodes : skew[i] = 0
        /\ node = [i \in Nodes |-> Off(skew[i], delay[i])]

-----------------------------------------------------------------------------
(* The lines.                                                               *)

\* What rt_pin_read(DOWN_O) can return to node i: the line is low when either side pulls it
\* low, undefined when nobody pulls it up or one side drives it high against the other.
DownLevels(i) ==
    LET own == node[i].DOWN_O
        far == IF i = N THEN "float" ELSE node[i + 1].UP_I
    IN  CASE far = "low" -> {0}
          [] far = "float" -> IF own = 0 THEN {0} ELSE {0, 1}
          [] far = "input" -> {own}
          [] far = "high" -> IF own = 0 THEN {0, 1} ELSE {1}

\* What node i reads on its own UP_I and UP_O.
UpDataLow(i) == i = 1 \/ node[i - 1].DOWN_O = 0 \/ node[i].UP_I = "low"
UpClockLow(i) == i = 1 \/ node[i - 1].DOWN_I = 0

-----------------------------------------------------------------------------
(* The receiver's interrupt.                                                *)

\* A faulty variant: the count is not taken back after the last bit.
CountRunsOn(n, t, level) ==
    LET sr == (2 * n.sr + level) % pow2[FrameBits]
    IN  IF n.cnt + 1 >= FrameBits
        THEN [n EXCEPT !.rxd = sr \div 4, !.sr = 0, !.cnt = @ + 1, !.UP_I = "high", !.last = t]
        ELSE [n EXCEPT !.sr = sr, !.cnt = @ + 1, !.UP_I = "input"]

autoaddr_rx_cb(n, t, level) ==
    LET sr == (2 * n.sr + level) % pow2[FrameBits]
    IN  CASE n.cnt + 1 >= FrameBits ->
               [n EXCEPT !.rxd = sr \div 4, !.sr = 0, !.cnt = 0, !.UP_I = "high", !.last = t]
          [] n.cnt + 1 = FrameBits - 1 ->
               [n EXCEPT !.sr = sr, !.cnt = @ + 1, !.UP_I = "low", !.last = t]
          [] OTHER ->
               [n EXCEPT !.sr = sr, !.cnt = @ + 1, !.UP_I = "input"]

\* last_timer_cb releases the data line.
last_timer_cb(i) ==
    /\ node[i].last = 1
    /\ node' = [node EXCEPT ![i].last = 0, ![i].UP_I = "input"]

-----------------------------------------------------------------------------
(* The thread.                                                              *)

Due(i, pc) == node[i].wait = 0 /\ node[i].pc = pc
In(i, fsm) == Due(i, "switch") /\ node[i].fsm = fsm

\* addr_init, then the switch.
addr_init(i) ==
    /\ Due(i, "boot")
    /\ node' = [node EXCEPT ![i].pc = "switch", ![i].UP_I = "input", ![i].irq = "on"]

\* FSM_INIT and FSM_PREP each sleep 20 and 100 ticks.
FsmInit(i) ==
    /\ In(i, "INIT")
    /\ \E t \in Ticks(120) : node' = [node EXCEPT ![i].fsm = "PREP", ![i].wait = t]

FsmPrep(i) ==
    /\ In(i, "PREP")
    /\ \E t \in Ticks(120) :
         node' = IF UpDataLow(i) /\ UpClockLow(i)
                 THEN [node EXCEPT ![i].auto_addr = 1, ![i].irq = "off",
                                   ![i].fsm = "PUSH", ![i].wait = t]
                 ELSE [node EXCEPT ![i].fsm = "SYNC", ![i].wait = t]

\* A faulty variant: FSM_SYNC looks for an address twice a second only.
SyncPollsSlowly == 500

\* FSM_SYNC sleeps 100 and 100 ticks.
SyncPeriod == 200

\* FSM_SYNC: an address has arrived, or not (yet) ...
FsmSync(i) ==
    /\ In(i, "SYNC")
    /\ IF node[i].rxd # 0
       THEN \E t \in Ticks(SyncPeriod) :
              node' = [node EXCEPT ![i].auto_addr = node[i].rxd, ![i].irq = "off",
                                   ![i].fsm = "PUSH", ![i].wait = t]
       ELSE node' = [node EXCEPT ![i].pc = "cnt"]

\* ... and the receiver starts afresh.  The interrupt can come between any two of the stores.
FsmSyncClear(i) ==
    \/ Due(i, "cnt") /\ node' = [node EXCEPT ![i].cnt = 0, ![i].pc = "sr"]
    \/ Due(i, "sr") /\ node' = [node EXCEPT ![i].sr = 0, ![i].pc = "rxd"]
    \/ /\ Due(i, "rxd")
       /\ \E t \in Ticks(SyncPeriod) :
            node' = [node EXCEPT ![i].rxd = 0, ![i].pc = "switch", ![i].wait = t]

\* A faulty variant: a node hands on its own address.
PushesOwn(n) == n.auto_addr

\* What FSM_PUSH and FSM_SUCC send: the address of the next node ...
NextAddr(n) == n.auto_addr + 1

\* ... as an eight bit value with the two low bits set.
Temp(n) == (4 * NextAddr(n) + 3) % pow2[FrameBits]
BitOf(n, b) == (Temp(n) \div pow2[FrameBits - 1 - b]) % 2

\* The states in which a node sends the next address, again and again.
Sending == {"PUSH", "SUCC"}

\* autoaddr_tx starts: the first data bit, then 1 tick.
FsmSend(i) ==
    /\ \E f \in Sending : In(i, f)
    /\ \E t \in Ticks(1) :
         node' = [node EXCEPT ![i].pc = "clock", ![i].bit = 0, ![i].txd = 0,
                              ![i].DOWN_O = BitOf(node[i], 0), ![i].wait = t]

\* The clock falls, and interrupts the next node if it listens; then 1 tick.
TxClock(i) ==
    /\ Due(i, "clock")
    /\ \E t \in Ticks(1), k \in 1 .. Late(2) :
         LET low == [node EXCEPT ![i].DOWN_I = 0, ![i].pc = "read", ![i].wait = t]
         IN  node' = IF i < N /\ node[i + 1].irq = "on"
                     THEN [low EXCEPT ![i + 1] = autoaddr_rx_cb(@, k + 1, node[i].DOWN_O)]
                     ELSE low

\* FSM_PUSH goes on to FSM_SUCC when it was acknowledged and sleeps 200 ticks, FSM_SUCC 1100.
Gap(n) == IF n.fsm = "PUSH" THEN 200 ELSE 1100
Sent(n, txd) == [n EXCEPT !.fsm = IF @ = "SUCC" \/ txd = 1 THEN "SUCC" ELSE "PUSH"]

\* The line is read back, the clock rises, and the next bit or the end of the frame follows.
TxRead(i) ==
    /\ Due(i, "read")
    /\ \E level \in DownLevels(i) :
         LET n == node[i]
             txd == IF n.bit < AddrBits THEN 0 ELSE (2 * n.txd + level) % 4
             high == [n EXCEPT !.txd = txd, !.DOWN_I = 1]
         IN  IF n.bit = FrameBits - 1
             THEN \E t \in Ticks(Gap(n)) :
                    node' = [node EXCEPT ![i] = [Sent(high, txd) EXCEPT !.pc = "switch", !.bit = 0, !.wait = t]]
             ELSE \E t \in Ticks(1) :
                    node' = [node EXCEPT ![i] = [high EXCEPT !.pc = "clock", !.bit = @ + 1, !.wait = t,
                                                             !.DOWN_O = BitOf(n, n.bit + 1)]]

-----------------------------------------------------------------------------
\* Time passes until the next thread or timer is due.
Remaining == {node[i].wait : i \in Nodes} \cup {node[i].last - 1 : i \in {j \in Nodes : node[j].last # 0}}

Tick ==
    LET d == Min(Remaining)
    IN  /\ d > 0
        /\ node' = [i \in Nodes |->
                      [node[i] EXCEPT !.wait = @ - d, !.last = IF @ = 0 THEN 0 ELSE @ - d]]

Step(i) ==
    \/ addr_init(i) \/ FsmInit(i) \/ FsmPrep(i) \/ FsmSync(i) \/ FsmSyncClear(i)
    \/ FsmSend(i) \/ TxClock(i) \/ TxRead(i) \/ last_timer_cb(i)

Next == Tick \/ \E i \in Nodes : Step(i)

\* Threads run when they are due and time goes on.
Spec == Init /\ [][Next]_vars /\ WF_vars(Next)

-----------------------------------------------------------------------------
(* Properties.                                                              *)

\* The values the node's state takes.
TypeOK == node \in [Nodes -> NodeType]

addr == [i \in Nodes |-> node[i].auto_addr]

\* The weight of the first bit of the address field.
Half == pow2[AddrBits - 1]

Chain == INSTANCE AddrChain WITH addr <- addr, Half <- Half

\* Automatic addressing implements AddrChain: a node takes its number once and for all, after the
\* node before it, and every node the field can number takes one in the end, although an address
\* that has arrived may be wiped by the stores of FSM_SYNC.
Numbers == Chain!Spec

\* The addressed nodes are the head of the chain.  Each has the number after that of the node
\* before it, or that number without its first bit; so those up to number Half have the numbers
\* of their places, and no two the same.
ChainNumbered == Chain!Follows /\ Chain!Numbered /\ Chain!Unique

\* A listening node takes a frame for complete only at the end of one, never for the end of one
\* and the beginning of the next: of whatever part of a frame it has counted, FSM_SYNC starts
\* afresh in time.
FrameAligned ==
    \A i \in Nodes \ {N} :
        Due(i, "clock") /\ node[i + 1].irq = "on" /\ node[i + 1].cnt = FrameBits - 1
            => node[i].bit = FrameBits - 1
=============================================================================
