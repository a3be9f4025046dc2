------------------------------ MODULE CalStore -------------------------------
(***************************************************************************)
(* The calibration registers and their copy in flash: the write path of    *)
(* eMBRegHoldingCB (user_mb_app.c) and drv_flash.c, with resets at every   *)
(* point and flash operations that fail.                                   *)
(*                                                                         *)
(* Of the holding registers only CALC_K and CALC_B have a copy; the others *)
(* are places that an index may or may not reach.  The page is erased as a *)
(* whole and programmed half-word by half-word: the two halves of          *)
(* PROG_FLAG, then CALC_B, the low half of the data word, then CALC_K.     *)
(* Everything here is done by the modbus slave thread; what interrupts it  *)
(* is a reset, by the watchdog or the power supply.                        *)
(***************************************************************************)
EXTENDS Integers, Sequences

CONSTANTS
    NREGS,        \* S_REG_HOLDING_NREGS (12)
    CALC_K_IND,   \* index of CALC_K (4); CALC_B is the register after it
    Vals,         \* values of a register; 0 and Erased are among them
    Erased,       \* 0xffff, what an erased half-word reads as
    Addrs,        \* register addresses requests name, of 16 bits
    Counts,       \* numbers of registers requests write
    MaxTries,     \* attempts to erase the page (10)
    MaxResets,    \* bound: resets in a behaviour
    None          \* no data word

CALC_B_IND == CALC_K_IND + 1

ASSUME StoreAssumption ==
    /\ NREGS \in Nat /\ CALC_K_IND \in Nat /\ CALC_B_IND < NREGS
    /\ Erased \in Vals /\ 0 \in Vals
    /\ \A x \in Addrs \cup Counts : x \in Nat /\ x < 65536
    /\ MaxTries \in Nat \ {0} /\ MaxResets \in Nat
    /\ None \notin [K : Vals, B : Vals]

VARIABLES
    page,     \* the four half-words of the flash page that are used
    regs,     \* usSRegHoldBuf[CALC_K_IND] and [CALC_B_IND]
    pc,       \* where the thread is
    loop,     \* iRegIndex and usNRegs of the callback's loop
    wr,       \* iflash_wr_val: its data, its caller, timeout, half-word, whether all went well
    \* What the properties remember.
    origin,   \* the data word the two data half-words of the page come from
    saved,    \* the last data word a request stored without an error, until the next one
    konly,    \* whether CALC_K was written without CALC_B since they were last stored
    cut,      \* whether a reset cut iflash_wr_val short and it has not come to its end since
    failed,   \* whether a flash operation has failed: "never", "before" the reset or "since"
    resets

vars == <<page, regs, pc, loop, wr, origin, saved, konly, cut, failed, resets>>

Pairs == [K : Vals, B : Vals]
PROG_FLAG == [flagL |-> 7135, flagH |-> 39903]   \* 0x9bdf1bdf
Halves == <<"flagL", "flagH", "B", "K">>    \* in the order they are programmed
Blank == [flagL |-> Erased, flagH |-> Erased, B |-> Erased, K |-> Erased]

\* iflash_wr_val when it begins, and when it is not running.
Writing(data, caller) ==
    [data |-> data, caller |-> caller, timeout |-> 0, half |-> 1, ok |-> "yes"]
NotWriting == Writing([K |-> 0, B |-> 0], "none")
NoLoop == [iRegIndex |-> 0, usNRegs |-> 0]

\* A blank device, before the first power up.
Init ==
    /\ page = Blank /\ regs = [K |-> 0, B |-> 0]
    /\ pc = "reset" /\ loop = NoLoop /\ wr = NotWriting
    /\ origin = [K |-> None, B |-> None] /\ saved = None /\ konly = "no"
    /\ cut = "no" /\ failed = "never" /\ resets = 0

-----------------------------------------------------------------------------
(* The flash.                                                               *)

get_program_flag == \A h \in DOMAIN PROG_FLAG : page[h] = PROG_FLAG[h]

\* What an erase that did not come to its end leaves: any of the half-words erased.
Decays(S) ==
    /\ page' = [h \in DOMAIN page |-> IF h \in S THEN Erased ELSE page[h]]
    /\ origin' = [h \in DOMAIN origin |-> IF h \in S THEN None ELSE origin[h]]

\* What half-word h is programmed with.
Value(h) == IF h \in DOMAIN PROG_FLAG THEN PROG_FLAG[h] ELSE wr.data[h]

\* wr_calc_data is called: iflash_wr_val begins with the erase.
wr_calc_data(data, caller) ==
    /\ pc' = "erase"
    /\ wr' = Writing(data, caller)
    /\ saved' = IF caller = "request" THEN None ELSE saved

\* mbs_sts_init reads the data word, whatever the flag says.
mbs_sts_init ==
    /\ regs' = [K |-> page'.K, B |-> page'.B]
    /\ pc' = "idle"

\* iflash_wr_val returns, to iflash_init or to the loop of the callback.
Return ==
    /\ IF wr.caller = "init" THEN mbs_sts_init
       ELSE pc' = (IF loop.usNRegs > 0 THEN "write" ELSE "idle") /\ UNCHANGED regs
    /\ wr' = NotWriting

\* while (timeout<10): the erase succeeds ...
EraseOk ==
    /\ pc = "erase"
    /\ Decays(DOMAIN page)
    /\ pc' = "program"
    /\ UNCHANGED <<regs, loop, wr, saved, konly, cut, failed, resets>>

\* A faulty variant: the count of attempts is taken back before it reaches the limit.
TriesForever(timeout) == (timeout + 1) % MaxTries

\* timeout++
Tried(timeout) == timeout + 1

\* A faulty variant: the test after the loop is off by one.
ProgramsAnyway(timeout) == timeout > MaxTries

\* if (timeout>=10), after the loop: nothing is programmed.
EraseFailed(timeout) == timeout >= MaxTries

\* ... or fails, and is tried again or given up.
EraseFails ==
    /\ pc = "erase"
    /\ failed' = "since"
    /\ \E S \in SUBSET DOMAIN page : Decays(S)
    /\ LET timeout == Tried(wr.timeout)
       IN  CASE timeout < MaxTries -> wr' = [wr EXCEPT !.timeout = timeout] /\ UNCHANGED <<regs, pc>>
             [] EraseFailed(timeout) -> Return
             [] OTHER -> pc' = "program" /\ UNCHANGED <<regs, wr>>
    /\ UNCHANGED <<loop, saved, konly, cut, resets>>

\* Where iflash_wr_val goes on after a half-word that could not be programmed: a failure
\* of the flag is ignored, one of the data ends the call.
AfterFailure(half) == IF half <= 2 THEN 3 ELSE 5

\* The half-word at Halves[wr.half] is programmed; one that is not erased never is.
ProgramOk ==
    /\ pc = "program"
    /\ LET h == Halves[wr.half]
       IN  /\ page[h] = Erased
           /\ page' = [page EXCEPT ![h] = Value(h)]
           /\ origin' = IF h \in {"K", "B"} THEN [origin EXCEPT ![h] = wr.data] ELSE origin
    /\ IF wr.half < 4 THEN wr' = [wr EXCEPT !.half = @ + 1] /\ UNCHANGED <<regs, pc, saved, konly, cut>>
       ELSE /\ Return
            /\ saved' = IF wr.caller = "request" /\ wr.ok = "yes" THEN wr.data ELSE saved
            /\ konly' = "no" /\ cut' = "no"
    /\ UNCHANGED <<loop, failed, resets>>

ProgramFails ==
    /\ pc = "program"
    /\ failed' = "since"
    /\ UNCHANGED <<page, origin>>
    /\ IF AfterFailure(wr.half) <= 4
       THEN wr' = [wr EXCEPT !.half = AfterFailure(@), !.ok = "no"] /\ UNCHANGED <<regs, pc>>
       ELSE Return
    /\ UNCHANGED <<loop, saved, konly, cut, resets>>

-----------------------------------------------------------------------------
(* The slave thread.                                                        *)

\* Faulty variants: zeros are stored at every start, or never.
DefaultsAlways == TRUE
DefaultsNever == FALSE

\* Whether iflash_init stores a calibration of zeros.
NotProgrammed == ~ get_program_flag

\* iflash_init, and mbs_sts_init if the page is programmed.
iflash_init ==
    /\ pc = "reset"
    /\ IF NotProgrammed
       THEN wr_calc_data([K |-> 0, B |-> 0], "init") /\ UNCHANGED <<page, regs>>
       ELSE UNCHANGED <<page, wr, saved>> /\ mbs_sts_init
    /\ UNCHANGED <<loop, origin, konly, cut, failed, resets>>

\* A faulty variant: only the first register is checked.
CountUnchecked(usAddress, usNRegs) == usAddress < NREGS

\* The handlers add one to the 16 bit address, the callback takes it away again; the sum
\* with the number of registers is an int.
InRange(usAddress, usNRegs) == ((((usAddress + 1) % 65536) - 1) % 65536) + usNRegs <= NREGS

\* eMBRegHoldingCB is called to write; a request out of range changes nothing.
eMBRegHoldingCB(usAddress, usNRegs) ==
    /\ pc = "idle"
    /\ InRange(usAddress, usNRegs)
    /\ pc' = "write"
    /\ loop' = [iRegIndex |-> usAddress, usNRegs |-> usNRegs]
    /\ UNCHANGED <<page, regs, wr, origin, saved, konly, cut, failed, resets>>

\* A request to write one register, ...
eMBFuncWriteHoldingRegister(usRegAddress) == eMBRegHoldingCB(usRegAddress, 1)

\* ... and one to write several and then read some, which changes nothing more.
eMBFuncReadWriteMultipleHoldingRegister(usRegWriteAddress, usRegWriteCount) ==
    /\ usRegWriteCount \in 1 .. 121
    /\ eMBRegHoldingCB(usRegWriteAddress, usRegWriteCount)

\* A faulty variant: the registers are stored when CALC_K is written.
StoresAtK == CALC_K_IND + 1

\* The index at which the loop calls wr_calc_data: CALC_B has just been written.
StoreInd == CALC_B_IND + 1

\* One pass of the loop of MB_REG_WRITE, with v the value in the frame.
WriteReg(v) ==
    /\ pc = "write"
    /\ loop' = [iRegIndex |-> loop.iRegIndex + 1, usNRegs |-> loop.usNRegs - 1]
    /\ regs' = CASE loop.iRegIndex = CALC_K_IND -> [regs EXCEPT !.K = v]
                 [] loop.iRegIndex = CALC_B_IND -> [regs EXCEPT !.B = v]
                 [] OTHER -> regs
    /\ konly' = IF loop.iRegIndex = CALC_K_IND THEN "yes" ELSE konly
    /\ IF loop'.iRegIndex = StoreInd
       THEN wr_calc_data(regs', "request")
       ELSE /\ pc' = IF loop'.usNRegs > 0 THEN "write" ELSE "idle"
            /\ UNCHANGED <<wr, saved>>
    /\ UNCHANGED <<page, origin, cut, failed, resets>>

\* A reset: the memory is lost, and an erase under way leaves what it has done so far.
Reset ==
    /\ resets < MaxResets /\ resets' = resets + 1
    /\ pc' = "reset" /\ loop' = NoLoop /\ wr' = NotWriting /\ regs' = [K |-> 0, B |-> 0]
    /\ konly' = "no" /\ cut' = IF pc \in {"erase", "program"} THEN "yes" ELSE cut
    /\ failed' = IF failed = "since" THEN "before" ELSE failed
    /\ IF pc = "erase" THEN \E S \in SUBSET DOMAIN page : Decays(S) ELSE UNCHANGED <<page, origin>>
    /\ UNCHANGED saved

\* What the slave thread does without being asked; whether the flash works is not its choice.
Thread ==
    \/ iflash_init \/ EraseOk \/ EraseFails \/ ProgramOk \/ ProgramFails
    \/ \E v \in Vals : WriteReg(v)

Next ==
    \/ Thread \/ Reset
    \/ \E a \in Addrs : eMBFuncWriteHoldingRegister(a)
    \/ \E a \in Addrs, n \in Counts : eMBFuncReadWriteMultipleHoldingRegister(a, n)

\* The thread goes on while it has something to do.
Spec == Init /\ [][Next]_vars /\ WF_vars(Thread)

-----------------------------------------------------------------------------
(* Properties.                                                              *)

\* The values of the state; the loop of the callback only ever writes to registers there are.
TypeOK ==
    /\ page \in [flagL : {PROG_FLAG.flagL, Erased}, flagH : {PROG_FLAG.flagH, Erased},
                 B : Vals, K : Vals]
    /\ regs \in Pairs /\ pc \in {"reset", "erase", "program", "write", "idle"}
    /\ wr \in [data : Pairs, caller : {"none", "init", "request"}, timeout : 0 .. MaxTries - 1,
               half : 1 .. 4, ok : {"yes", "no"}]
    /\ loop \in [iRegIndex : 0 .. NREGS, usNRegs : 0 .. NREGS]
    /\ loop.iRegIndex + loop.usNRegs <= NREGS
    /\ pc = "write" => loop.usNRegs > 0
    /\ origin \in [K : Pairs \cup {None}, B : Pairs \cup {None}]
    /\ saved \in Pairs \cup {None} /\ konly \in {"yes", "no"} /\ cut \in {"yes", "no"}
    /\ failed \in {"never", "before", "since"} /\ resets \in 0 .. MaxResets

\* The page never holds CALC_K of one call of wr_calc_data with CALC_B of another, whatever
\* fails and wherever a reset strikes: a half that is not of the same call is erased.
Untorn == None \in {origin.K, origin.B} \/ origin.K = origin.B

\* While the slave waits for requests and the flash has worked since the reset, a register
\* differs from its copy in the page only if CALC_K was written without CALC_B.
Persisted == pc = "idle" /\ failed # "since" => regs.B = page.B /\ (konly = "yes" \/ regs.K = page.K)

\* While the flash works, a slave that serves requests has a page that iflash_init accepts, and
\* both half-words of its data come from the same call of wr_calc_data, with one exception: when
\* a reset cut the last call short, iflash_init may have found the flag, which is programmed
\* before the data and perhaps erased after it, and taken erased half-words for a calibration.
\* Only the next call that comes to its end makes that good.
ServesWhole ==
    pc = "idle" /\ failed = "never" =>
        get_program_flag /\ (cut = "yes" \/ (origin.K = origin.B /\ origin.K # None))

\* A calibration that a request stored without an error is what the registers hold after
\* every later start, until a request begins to store another one.
RestoredAtStart ==
    [][pc' = "idle" /\ (pc = "reset" \/ wr.caller = "init") /\ saved # None => regs' = saved]_vars

\* What makes Untorn and ServesWhole inductive: how far iflash_wr_val has come tells which
\* half-words are still erased and which hold what it was called with.
WriteProgress ==
    /\ pc = "erase" => wr.half = 1
    /\ pc = "program" =>
         /\ origin.K = None
         /\ origin.B = IF wr.half = 4 THEN wr.data ELSE None

FlagProgress ==
    failed = "never" =>
        /\ pc \in {"idle", "write"} => get_program_flag
        /\ pc = "program" => /\ wr.half >= 2 => page.flagL = PROG_FLAG.flagL
                             /\ wr.half >= 3 => page.flagH = PROG_FLAG.flagH

Kept == pc \in {"idle", "write"} \/ (pc = "reset" /\ get_program_flag)
DataProgress == (failed = "never" /\ cut = "no" /\ Kept) => None \notin {origin.K, origin.B}

StoreInv == Untorn /\ WriteProgress /\ FlagProgress /\ DataProgress

\* The slave always comes back to serving requests: no failing erase holds it up for ever.
Serves == []<>(pc = "idle")
=============================================================================
