--------------------------- MODULE CalStoreProofs ----------------------------
(* Proofs about CalStore, for every register map, set of values, number of   *)
(* attempts and of resets.                                                   *)
EXTENDS CalStore, TLAPS

USE DEF Pairs, Writing, NotWriting, NoLoop, PROG_FLAG, Halves, CALC_B_IND

\* What the proofs use of the assumption on the constants.
LEMMA ConstantTypes ==
    /\ Erased \in Vals /\ 0 \in Vals /\ None \notin Pairs
    /\ MaxTries \in Nat \ {0} /\ MaxResets \in Nat
    /\ NREGS \in Nat /\ CALC_K_IND \in Nat /\ CALC_K_IND + 1 < NREGS
BY StoreAssumption DEF StoreAssumption

\* The types of what the flash operations work on.
FlashType ==
    /\ page \in [flagL : {PROG_FLAG.flagL, Erased}, flagH : {PROG_FLAG.flagH, Erased},
                 B : Vals, K : Vals]
    /\ regs \in Pairs
    /\ origin \in [K : Pairs \cup {None}, B : Pairs \cup {None}]

\* An erase, however much of it is done, keeps the types, and every half-word of the page
\* that it changes has lost its origin.
LEMMA DecaysLemma ==
    ASSUME NEW S \in SUBSET DOMAIN page, Decays(S), FlashType
    PROVE  /\ page' \in [flagL : {PROG_FLAG.flagL, Erased}, flagH : {PROG_FLAG.flagH, Erased},
                         B : Vals, K : Vals]
           /\ origin' \in [K : Pairs \cup {None}, B : Pairs \cup {None}]
           /\ origin'.K \in {origin.K, None} /\ origin'.B \in {origin.B, None}
           /\ S = DOMAIN page => origin'.K = None /\ origin'.B = None
<1>1. DOMAIN page = {"flagL", "flagH", "B", "K"} /\ DOMAIN origin = {"K", "B"} BY DEF FlashType
<1>2. page' = [flagL |-> IF "flagL" \in S THEN Erased ELSE page.flagL,
               flagH |-> IF "flagH" \in S THEN Erased ELSE page.flagH,
               B |-> IF "B" \in S THEN Erased ELSE page.B,
               K |-> IF "K" \in S THEN Erased ELSE page.K]
  BY <1>1 DEF Decays
<1>3. origin' = [K |-> IF "K" \in S THEN None ELSE origin.K,
                 B |-> IF "B" \in S THEN None ELSE origin.B]
  BY <1>1 DEF Decays
<1>4. /\ page.flagL \in {PROG_FLAG.flagL, Erased} /\ page.flagH \in {PROG_FLAG.flagH, Erased}
      /\ page.B \in Vals /\ page.K \in Vals
  BY DEF FlashType
<1>5. origin.K \in Pairs \cup {None} /\ origin.B \in Pairs \cup {None} BY DEF FlashType
<1>6. page' \in [flagL : {PROG_FLAG.flagL, Erased}, flagH : {PROG_FLAG.flagH, Erased},
                 B : Vals, K : Vals]
  <2> DEFINE l == IF "flagL" \in S THEN Erased ELSE page.flagL
             h == IF "flagH" \in S THEN Erased ELSE page.flagH
             b == IF "B" \in S THEN Erased ELSE page.B
             k == IF "K" \in S THEN Erased ELSE page.K
  <2>1. l \in {PROG_FLAG.flagL, Erased} BY <1>4
  <2>2. h \in {PROG_FLAG.flagH, Erased} BY <1>4
  <2>3. b \in Vals /\ k \in Vals BY <1>4, ConstantTypes
  <2>4. page' = [flagL |-> l, flagH |-> h, B |-> b, K |-> k] BY <1>2
  <2> HIDE DEF l, h, b, k, PROG_FLAG
  <2> QED BY <2>1, <2>2, <2>3, <2>4
<1>7. origin' \in [K : Pairs \cup {None}, B : Pairs \cup {None}] BY <1>3, <1>5
<1>8. origin'.K \in {origin.K, None} /\ origin'.B \in {origin.B, None} BY <1>3
<1>9. S = DOMAIN page => origin'.K = None /\ origin'.B = None BY <1>1, <1>3
<1> QED BY <1>6, <1>7, <1>8, <1>9

\* What programming one half-word does to the page.
LEMMA ProgramLemma ==
    ASSUME ProgramOk
    PROVE  /\ wr.half = 1 => page' = [page EXCEPT !.flagL = PROG_FLAG.flagL] /\ origin' = origin
           /\ wr.half = 2 => page' = [page EXCEPT !.flagH = PROG_FLAG.flagH] /\ origin' = origin
           /\ wr.half = 3 => /\ page' = [page EXCEPT !.B = wr.data.B]
                             /\ origin' = [origin EXCEPT !.B = wr.data]
           /\ wr.half = 4 => /\ page' = [page EXCEPT !.K = wr.data.K]
                             /\ origin' = [origin EXCEPT !.K = wr.data]
<1> DEFINE h == Halves[wr.half]
<1>1. DOMAIN PROG_FLAG = {"flagL", "flagH"} OBVIOUS
<1>0. /\ page' = [page EXCEPT ![h] = Value(h)]
      /\ origin' = IF h \in {"K", "B"} THEN [origin EXCEPT ![h] = wr.data] ELSE origin
  BY Zenon DEF ProgramOk
<1>2. wr.half = 1 => page' = [page EXCEPT !.flagL = PROG_FLAG.flagL] /\ origin' = origin
  <2> SUFFICES ASSUME wr.half = 1 PROVE page' = [page EXCEPT !.flagL = PROG_FLAG.flagL] /\ origin' = origin
    OBVIOUS
  <2>1. h = "flagL" OBVIOUS
  <2>2. Value("flagL") = PROG_FLAG.flagL BY <1>1 DEF Value
  <2> HIDE DEF h, PROG_FLAG
  <2> QED BY <1>0, <2>1, <2>2
<1>3. wr.half = 2 => page' = [page EXCEPT !.flagH = PROG_FLAG.flagH] /\ origin' = origin
  <2> SUFFICES ASSUME wr.half = 2 PROVE page' = [page EXCEPT !.flagH = PROG_FLAG.flagH] /\ origin' = origin
    OBVIOUS
  <2>1. h = "flagH" OBVIOUS
  <2>2. Value("flagH") = PROG_FLAG.flagH BY <1>1 DEF Value
  <2> HIDE DEF h, PROG_FLAG
  <2> QED BY <1>0, <2>1, <2>2
<1>4. wr.half = 3 => page' = [page EXCEPT !.B = wr.data.B] /\ origin' = [origin EXCEPT !.B = wr.data]
  <2> SUFFICES ASSUME wr.half = 3 PROVE page' = [page EXCEPT !.B = wr.data.B] /\ origin' = [origin EXCEPT !.B = wr.data]
    OBVIOUS
  <2>1. h = "B" OBVIOUS
  <2>2. Value("B") = wr.data.B BY <1>1 DEF Value
  <2> HIDE DEF h, PROG_FLAG
  <2> QED BY <1>0, <2>1, <2>2
<1>5. wr.half = 4 => page' = [page EXCEPT !.K = wr.data.K] /\ origin' = [origin EXCEPT !.K = wr.data]
  <2> SUFFICES ASSUME wr.half = 4 PROVE page' = [page EXCEPT !.K = wr.data.K] /\ origin' = [origin EXCEPT !.K = wr.data]
    OBVIOUS
  <2>1. h = "K" OBVIOUS
  <2>2. Value("K") = wr.data.K BY <1>1 DEF Value
  <2> HIDE DEF h, PROG_FLAG
  <2> QED BY <1>0, <2>1, <2>2
<1> QED BY <1>2, <1>3, <1>4, <1>5

\* iflash_wr_val returns with what it was called with forgotten and the thread idle or in
\* the callback's loop.
LEMMA ReturnLemma ==
    ASSUME TypeOK, Return, page'.K \in Vals, page'.B \in Vals
    PROVE  /\ wr' = NotWriting
           /\ regs' \in Pairs
           /\ pc' \in {"idle", "write"}
           /\ pc' = "write" => loop.usNRegs > 0
<1>1. CASE wr.caller = "init" BY <1>1 DEF Return, mbs_sts_init
<1>2. CASE wr.caller # "init" BY <1>2 DEF Return, TypeOK
<1> QED BY <1>1, <1>2

\* A 16 bit number that is decremented below zero.
LEMMA Wraps ==
    ASSUME NEW x \in Int, x < 0, x + 65536 >= 0
    PROVE  x % 65536 = x + 65536
OBVIOUS

\* The detour of an address by one more and one less does not change what the test says.
LEMMA InRangeLemma ==
    ASSUME NEW a \in Nat, a < 65536, NEW n \in Nat, InRange(a, n)
    PROVE  a + n <= NREGS
<1> DEFINE x == ((a + 1) % 65536) - 1
<1>1. x % 65536 = a
  <2>1. CASE a = 65535
    <3>1. x \in Int /\ x < 0 /\ x + 65536 = a BY <2>1
    <3> HIDE DEF x
    <3> QED BY <3>1, Wraps
  <2>2. CASE a # 65535
    <3>1. (a + 1) % 65536 = a + 1 BY <2>2
    <3> QED BY <3>1
  <2> QED BY <2>1, <2>2
<1> QED BY <1>1 DEF InRange

\* A request keeps the types, and its loop inside the registers.
LEMMA RequestType ==
    ASSUME TypeOK, NEW a \in Nat, a < 65536, NEW n \in Nat \ {0}, eMBRegHoldingCB(a, n)
    PROVE  TypeOK'
<1>1. a + n <= NREGS BY InRangeLemma DEF eMBRegHoldingCB
<1>2. loop' \in [iRegIndex : 0 .. NREGS, usNRegs : 0 .. NREGS]
  BY <1>1, ConstantTypes DEF eMBRegHoldingCB
<1>3. loop'.iRegIndex + loop'.usNRegs <= NREGS /\ loop'.usNRegs > 0
  BY <1>1 DEF eMBRegHoldingCB
<1> QED BY <1>2, <1>3 DEF TypeOK, eMBRegHoldingCB

\* The type invariant is inductive.
LEMMA TypeStep ==
    ASSUME TypeOK, [Next]_vars
    PROVE  TypeOK'
<1>1. FlashType BY DEF TypeOK, FlashType
<1>2. ASSUME NEW S \in SUBSET DOMAIN page, Decays(S)
      PROVE  /\ page' \in [flagL : {PROG_FLAG.flagL, Erased}, flagH : {PROG_FLAG.flagH, Erased},
                           B : Vals, K : Vals]
             /\ origin' \in [K : Pairs \cup {None}, B : Pairs \cup {None}]
  BY <1>1, <1>2, DecaysLemma
<1>3. NotWriting \in [data : Pairs, caller : {"none", "init", "request"},
                      timeout : 0 .. MaxTries - 1, half : 1 .. 4, ok : {"yes", "no"}]
  BY ConstantTypes
<1>4. CASE iflash_init
  <2>1. CASE NotProgrammed
    <3>1. wr' = Writing([K |-> 0, B |-> 0], "init") /\ saved' = saved /\ pc' = "erase"
      BY <1>4, <2>1 DEF iflash_init, wr_calc_data
    <3>2. wr' \in [data : Pairs, caller : {"none", "init", "request"},
                   timeout : 0 .. MaxTries - 1, half : 1 .. 4, ok : {"yes", "no"}]
      BY <3>1, ConstantTypes
    <3> QED BY <1>4, <2>1, <3>1, <3>2 DEF iflash_init, TypeOK
  <2>2. CASE ~ NotProgrammed
    BY <1>4, <2>2 DEF iflash_init, mbs_sts_init, TypeOK
  <2> QED BY <2>1, <2>2
<1>5. CASE EraseOk
  <2>1. Decays(DOMAIN page) /\ pc' = "program" BY <1>5 DEF EraseOk
  <2> QED BY <1>2, <1>5, <2>1 DEF EraseOk, TypeOK
<1>6. CASE EraseFails
  <2>1. /\ page' \in [flagL : {PROG_FLAG.flagL, Erased}, flagH : {PROG_FLAG.flagH, Erased},
                      B : Vals, K : Vals]
        /\ origin' \in [K : Pairs \cup {None}, B : Pairs \cup {None}]
    BY <1>2, <1>6 DEF EraseFails
  <2>2. wr.timeout \in 0 .. MaxTries - 1 BY DEF TypeOK
  <2>3. CASE Tried(wr.timeout) < MaxTries
    <3>0. ~ EraseFailed(Tried(wr.timeout))
      BY <2>2, <2>3, ConstantTypes DEF Tried, EraseFailed
    <3>1. wr' = [wr EXCEPT !.timeout = Tried(wr.timeout)] /\ UNCHANGED <<regs, pc>>
      BY <1>6, <2>3, <3>0 DEF EraseFails
    <3>2. Tried(wr.timeout) \in 0 .. MaxTries - 1 BY <2>2, <2>3, ConstantTypes DEF Tried
    <3>3. wr' \in [data : Pairs, caller : {"none", "init", "request"},
                   timeout : 0 .. MaxTries - 1, half : 1 .. 4, ok : {"yes", "no"}]
      BY <3>1, <3>2 DEF TypeOK
    <3> QED BY <1>6, <2>1, <3>1, <3>3 DEF EraseFails, TypeOK
  <2>4. CASE ~ (Tried(wr.timeout) < MaxTries)
    <3>1. EraseFailed(Tried(wr.timeout))
      BY <2>2, <2>4, ConstantTypes DEF Tried, EraseFailed
    <3>2. Return BY <1>6, <2>4, <3>1 DEF EraseFails
    <3>3. page'.K \in Vals /\ page'.B \in Vals BY <2>1
    <3>4. /\ wr' = NotWriting /\ regs' \in Pairs /\ pc' \in {"idle", "write"}
          /\ pc' = "write" => loop.usNRegs > 0
      BY <3>2, <3>3, ReturnLemma
    <3> QED BY <1>3, <1>6, <2>1, <3>4 DEF EraseFails, TypeOK
  <2> QED BY <2>3, <2>4
<1>7. CASE ProgramOk
  <2>1. /\ page' \in [flagL : {PROG_FLAG.flagL, Erased}, flagH : {PROG_FLAG.flagH, Erased},
                      B : Vals, K : Vals]
        /\ origin' \in [K : Pairs \cup {None}, B : Pairs \cup {None}]
    <3>1. CASE wr.half = 1 BY <1>7, <3>1, ProgramLemma DEF TypeOK
    <3>2. CASE wr.half = 2 BY <1>7, <3>2, ProgramLemma DEF TypeOK
    <3>3. CASE wr.half = 3 BY <1>7, <3>3, ProgramLemma DEF TypeOK
    <3>4. CASE wr.half = 4 BY <1>7, <3>4, ProgramLemma DEF TypeOK
    <3>5. wr.half \in 1 .. 4 BY DEF TypeOK
    <3> QED BY <3>1, <3>2, <3>3, <3>4, <3>5
  <2>2. CASE wr.half < 4
    <3>1. wr' = [wr EXCEPT !.half = wr.half + 1] /\ UNCHANGED <<regs, pc, saved, konly>>
      BY <1>7, <2>2 DEF ProgramOk
    <3>2. wr.half + 1 \in 1 .. 4 BY <2>2 DEF TypeOK
    <3>3. wr' \in [data : Pairs, caller : {"none", "init", "request"},
                   timeout : 0 .. MaxTries - 1, half : 1 .. 4, ok : {"yes", "no"}]
      BY <3>1, <3>2 DEF TypeOK
    <3> QED BY <1>7, <2>1, <3>1, <3>3 DEF ProgramOk, TypeOK
  <2>3. CASE ~ (wr.half < 4)
    <3>1. Return /\ saved' \in {wr.data, saved} /\ konly' = "no" /\ cut' = "no"
          /\ UNCHANGED <<loop, failed, resets>>
      BY <1>7, <2>3 DEF ProgramOk
    <3>2. page'.K \in Vals /\ page'.B \in Vals BY <2>1
    <3>3. /\ wr' = NotWriting /\ regs' \in Pairs /\ pc' \in {"idle", "write"}
          /\ pc' = "write" => loop.usNRegs > 0
      BY <3>1, <3>2, ReturnLemma
    <3>4. saved' \in Pairs \cup {None} BY <3>1 DEF TypeOK
    <3> QED BY <1>3, <2>1, <3>1, <3>3, <3>4 DEF TypeOK
  <2> QED BY <2>2, <2>3
<1>8. CASE ProgramFails
  <2>1. page'.K \in Vals /\ page'.B \in Vals BY <1>8 DEF ProgramFails, TypeOK
  <2>2. CASE AfterFailure(wr.half) <= 4
    <3>1. /\ wr' = [wr EXCEPT !.half = AfterFailure(wr.half), !.ok = "no"]
          /\ UNCHANGED <<regs, pc>>
      BY <1>8, <2>2 DEF ProgramFails
    <3>2. AfterFailure(wr.half) \in 1 .. 4 BY <2>2 DEF AfterFailure
    <3>3. wr' \in [data : Pairs, caller : {"none", "init", "request"},
                   timeout : 0 .. MaxTries - 1, half : 1 .. 4, ok : {"yes", "no"}]
      <4> DEFINE k == AfterFailure(wr.half)
      <4>1. wr \in [data : Pairs, caller : {"none", "init", "request"},
                    timeout : 0 .. MaxTries - 1, half : 1 .. 4, ok : {"yes", "no"}]
        BY DEF TypeOK
      <4>2. wr' = [[wr EXCEPT !.half = k] EXCEPT !.ok = "no"] BY <3>1
      <4>3. k \in 1 .. 4 BY <3>2
      <4> HIDE DEF Pairs, k
      <4>4. [wr EXCEPT !.half = k] \in [data : Pairs, caller : {"none", "init", "request"},
                    timeout : 0 .. MaxTries - 1, half : 1 .. 4, ok : {"yes", "no"}]
        BY <4>1, <4>3
      <4> QED BY <4>2, <4>4
    <3> QED BY <1>8, <3>1, <3>3 DEF ProgramFails, TypeOK
  <2>3. CASE ~ (AfterFailure(wr.half) <= 4)
    <3>1. Return BY <1>8, <2>3 DEF ProgramFails
    <3>2. /\ wr' = NotWriting /\ regs' \in Pairs /\ pc' \in {"idle", "write"}
          /\ pc' = "write" => loop.usNRegs > 0
      BY <2>1, <3>1, ReturnLemma
    <3> QED BY <1>3, <1>8, <3>2 DEF ProgramFails, TypeOK
  <2> QED BY <2>2, <2>3
<1>9. ASSUME NEW v \in Vals, WriteReg(v) PROVE TypeOK'
  <2>1. loop.iRegIndex \in 0 .. NREGS /\ loop.usNRegs \in 0 .. NREGS /\ loop.usNRegs > 0
        /\ loop.iRegIndex + loop.usNRegs <= NREGS
    BY <1>9 DEF WriteReg, TypeOK
  <2>2. /\ loop' \in [iRegIndex : 0 .. NREGS, usNRegs : 0 .. NREGS]
        /\ loop'.iRegIndex + loop'.usNRegs <= NREGS
    BY <1>9, <2>1, ConstantTypes DEF WriteReg
  <2>3. regs' \in Pairs BY <1>9 DEF WriteReg, TypeOK
  <2>4. CASE loop'.iRegIndex = StoreInd
    <3>1. pc' = "erase" /\ wr' = Writing(regs', "request") /\ saved' = None
      BY <1>9, <2>4 DEF WriteReg, wr_calc_data
    <3>2. wr' \in [data : Pairs, caller : {"none", "init", "request"},
                   timeout : 0 .. MaxTries - 1, half : 1 .. 4, ok : {"yes", "no"}]
      BY <2>3, <3>1, ConstantTypes
    <3> QED BY <1>9, <2>2, <2>3, <3>1, <3>2 DEF WriteReg, TypeOK
  <2>5. CASE loop'.iRegIndex # StoreInd
    <3>1. UNCHANGED <<wr, saved>> /\ pc' = IF loop'.usNRegs > 0 THEN "write" ELSE "idle"
      BY <1>9, <2>5 DEF WriteReg
    <3> QED BY <1>9, <2>2, <2>3, <3>1 DEF WriteReg, TypeOK
  <2> QED BY <2>4, <2>5
<1>10. ASSUME NEW a \in Addrs, eMBFuncWriteHoldingRegister(a) PROVE TypeOK'
  <2>1. a \in Nat /\ a < 65536 BY StoreAssumption DEF StoreAssumption
  <2> QED BY <1>10, <2>1, RequestType DEF eMBFuncWriteHoldingRegister
<1>11. ASSUME NEW a \in Addrs, NEW n \in Counts, eMBFuncReadWriteMultipleHoldingRegister(a, n)
       PROVE  TypeOK'
  <2>1. a \in Nat /\ a < 65536 BY StoreAssumption DEF StoreAssumption
  <2>2. n \in Nat \ {0} BY <1>11 DEF eMBFuncReadWriteMultipleHoldingRegister
  <2> QED BY <1>11, <2>1, <2>2, RequestType DEF eMBFuncReadWriteMultipleHoldingRegister
<1>12. CASE Reset
  <2>1. /\ page' \in [flagL : {PROG_FLAG.flagL, Erased}, flagH : {PROG_FLAG.flagH, Erased},
                      B : Vals, K : Vals]
        /\ origin' \in [K : Pairs \cup {None}, B : Pairs \cup {None}]
    BY <1>2, <1>12 DEF Reset, TypeOK
  <2>2. loop' \in [iRegIndex : 0 .. NREGS, usNRegs : 0 .. NREGS]
        /\ loop'.iRegIndex + loop'.usNRegs <= NREGS
    BY <1>12, ConstantTypes DEF Reset
  <2>3. regs' \in Pairs /\ resets' \in 0 .. MaxResets BY <1>12, ConstantTypes DEF Reset, TypeOK
  <2> QED BY <1>3, <1>12, <2>1, <2>2, <2>3 DEF Reset, TypeOK
<1>13. CASE UNCHANGED vars BY <1>13 DEF vars, TypeOK
<1> QED
  BY <1>4, <1>5, <1>6, <1>7, <1>8, <1>9, <1>10, <1>11, <1>12, <1>13 DEF Next, Thread

\* TypeOK is an invariant: however often a request, a failing flash operation or a reset comes
\* in between, the callback's loop stays inside the registers and iflash_wr_val inside its
\* four half-words and its number of attempts.
THEOREM TypeCorrect == Spec => []TypeOK
<1>1. Init => TypeOK
  <2> SUFFICES ASSUME Init PROVE TypeOK OBVIOUS
  <2>1. page \in [flagL : {PROG_FLAG.flagL, Erased}, flagH : {PROG_FLAG.flagH, Erased},
                  B : Vals, K : Vals]
    BY ConstantTypes DEF Init, Blank
  <2>2. wr \in [data : Pairs, caller : {"none", "init", "request"},
                timeout : 0 .. MaxTries - 1, half : 1 .. 4, ok : {"yes", "no"}]
    BY ConstantTypes DEF Init
  <2>3. loop \in [iRegIndex : 0 .. NREGS, usNRegs : 0 .. NREGS]
        /\ loop.iRegIndex + loop.usNRegs <= NREGS
    BY ConstantTypes DEF Init
  <2>4. regs \in Pairs /\ origin \in [K : Pairs \cup {None}, B : Pairs \cup {None}]
        /\ resets \in 0 .. MaxResets
    BY ConstantTypes DEF Init
  <2> QED BY <2>1, <2>2, <2>3, <2>4 DEF Init, TypeOK
<1>2. TypeOK /\ [Next]_vars => TypeOK' BY TypeStep
<1> QED BY <1>1, <1>2, PTL DEF Spec

-----------------------------------------------------------------------------
(* The order in which iflash_wr_val programs the page.                      *)

\* An erase, finished or not, cannot tear the page.
LEMMA DecaysUntorn ==
    ASSUME TypeOK, Untorn, NEW S \in SUBSET DOMAIN page, Decays(S)
    PROVE  Untorn'
<1>1. FlashType BY DEF TypeOK, FlashType
<1>2. origin'.K \in {origin.K, None} /\ origin'.B \in {origin.B, None} BY <1>1, DecaysLemma
<1> QED BY <1>2 DEF Untorn

\* A blank page has no flag.
LEMMA StoreStart ==
    ASSUME Init
    PROVE  StoreInv
<1>1. page.flagL = Erased /\ page.flagH = Erased /\ pc = "reset" /\ origin = [K |-> None, B |-> None]
  BY DEF Init, Blank
<1>2. ~get_program_flag BY <1>1 DEF get_program_flag
<1> QED BY <1>1, <1>2 DEF StoreInv, Untorn, WriteProgress, FlagProgress, DataProgress, Kept

\* StoreInv is inductive, given the types.
LEMMA StoreStep ==
    ASSUME TypeOK, TypeOK', StoreInv, [Next]_vars
    PROVE  StoreInv'
<1> USE DEF StoreInv
<1>1. FlashType BY DEF TypeOK, FlashType
<1>2. ASSUME UNCHANGED <<page, origin>>, pc' = "erase" => wr'.half = 1, pc' # "program",
             failed' = "never" /\ pc' \in {"idle", "write"} => get_program_flag,
             failed' = "never" /\ cut' = "no" /\ pc' \in {"idle", "write"} => None \notin {origin.K, origin.B},
             pc' # "reset"
      PROVE  StoreInv'
  BY <1>2 DEF Untorn, WriteProgress, FlagProgress, DataProgress, Kept, get_program_flag
<1>3. CASE iflash_init
  <2>1. CASE NotProgrammed BY <1>2, <1>3, <2>1 DEF iflash_init, wr_calc_data
  <2>2. CASE ~ NotProgrammed
    BY <1>2, <1>3, <2>2 DEF iflash_init, mbs_sts_init, NotProgrammed, DataProgress, Kept
  <2> QED BY <2>1, <2>2
<1>4. CASE EraseOk
  <2>1. Decays(DOMAIN page) /\ pc' = "program" /\ wr' = wr BY <1>4 DEF EraseOk
  <2>2. origin'.K = None /\ origin'.B = None BY <1>1, <2>1, DecaysLemma
  <2>3. wr.half = 1 BY <1>4 DEF EraseOk, WriteProgress
  <2> QED BY <2>1, <2>2, <2>3 DEF Untorn, WriteProgress, FlagProgress, DataProgress, Kept
<1>5. CASE EraseFails
  <2>1. Untorn' BY <1>5, DecaysUntorn DEF EraseFails
  <2>2. FlagProgress' /\ DataProgress' BY <1>5 DEF EraseFails, FlagProgress, DataProgress
  <2>3. WriteProgress'
    <3>1. wr.timeout \in 0 .. MaxTries - 1 BY DEF TypeOK
    <3>2. CASE Tried(wr.timeout) < MaxTries
      <4>1. ~ EraseFailed(Tried(wr.timeout))
        BY <3>1, <3>2, ConstantTypes DEF Tried, EraseFailed
      <4>2. wr' = [wr EXCEPT !.timeout = Tried(wr.timeout)] /\ pc' = pc /\ pc = "erase"
        BY <1>5, <3>2, <4>1 DEF EraseFails
      <4>3. wr'.half = wr.half BY <4>2 DEF TypeOK
      <4> QED BY <4>2, <4>3 DEF WriteProgress
    <3>3. CASE ~ (Tried(wr.timeout) < MaxTries)
      <4>1. EraseFailed(Tried(wr.timeout))
        BY <3>1, <3>3, ConstantTypes DEF Tried, EraseFailed
      <4>2. Return BY <1>5, <3>3, <4>1 DEF EraseFails
      <4>3. pc' \in {"idle", "write"} BY <4>2, ReturnLemma DEF TypeOK
      <4> QED BY <4>3 DEF WriteProgress
    <3> QED BY <3>2, <3>3
  <2> QED BY <2>1, <2>2, <2>3
<1>6. CASE ProgramOk
  <2>1. pc = "program" /\ origin.K = None /\ failed' = failed
    BY <1>6 DEF ProgramOk, WriteProgress
  <2>2. wr.half < 4 => wr' = [wr EXCEPT !.half = wr.half + 1] /\ pc' = pc
    BY <1>6 DEF ProgramOk
  <2>3. wr.half < 4 => wr'.half = wr.half + 1 /\ wr'.data = wr.data BY <2>2 DEF TypeOK
  <2>4. wr.half = 4 => pc' \in {"idle", "write"}
    <3>1. wr.half = 4 => Return BY <1>6 DEF ProgramOk
    <3> QED BY <3>1, ReturnLemma DEF TypeOK
  <2>5. CASE wr.half = 1
    <3>1. page'.flagL = PROG_FLAG.flagL /\ origin' = origin
      BY <1>6, <2>5, ProgramLemma DEF TypeOK
    <3>2. origin.B = None BY <2>1, <2>5 DEF WriteProgress
    <3>3. wr'.half = 2 /\ pc' = "program" BY <2>1, <2>2, <2>3, <2>5
    <3> QED BY <2>1, <3>1, <3>2, <3>3 DEF Untorn, WriteProgress, FlagProgress, DataProgress, Kept
  <2>6. CASE wr.half = 2
    <3>1. page'.flagH = PROG_FLAG.flagH /\ page'.flagL = page.flagL /\ origin' = origin
      BY <1>6, <2>6, ProgramLemma DEF TypeOK
    <3>2. origin.B = None BY <2>1, <2>6 DEF WriteProgress
    <3>3. wr'.half = 3 /\ pc' = "program" BY <2>1, <2>2, <2>3, <2>6
    <3>4. failed = "never" => page.flagL = PROG_FLAG.flagL BY <2>1, <2>6 DEF FlagProgress
    <3> QED BY <2>1, <3>1, <3>2, <3>3, <3>4 DEF Untorn, WriteProgress, FlagProgress, DataProgress, Kept
  <2>7. CASE wr.half = 3
    <3>1. page'.flagL = page.flagL /\ page'.flagH = page.flagH
          /\ origin'.K = origin.K /\ origin'.B = wr.data
      BY <1>6, <2>7, ProgramLemma DEF TypeOK
    <3>2. wr'.half = 4 /\ wr'.data = wr.data /\ pc' = "program" BY <2>1, <2>2, <2>3, <2>7
    <3>3. failed = "never" => page.flagL = PROG_FLAG.flagL /\ page.flagH = PROG_FLAG.flagH
      BY <2>1, <2>7 DEF FlagProgress
    <3> QED BY <2>1, <3>1, <3>2, <3>3 DEF Untorn, WriteProgress, FlagProgress, DataProgress, Kept
  <2>8. CASE wr.half = 4
    <3>1. page'.flagL = page.flagL /\ page'.flagH = page.flagH
          /\ origin'.K = wr.data /\ origin'.B = origin.B
      BY <1>6, <2>8, ProgramLemma DEF TypeOK
    <3>2. origin.B = wr.data BY <2>1, <2>8 DEF WriteProgress
    <3>3. failed = "never" => page.flagL = PROG_FLAG.flagL /\ page.flagH = PROG_FLAG.flagH
      BY <2>1, <2>8 DEF FlagProgress
    <3>4. Untorn' /\ WriteProgress' BY <2>4, <2>8, <3>1, <3>2 DEF Untorn, WriteProgress
    <3>5. failed = "never" => get_program_flag' BY <3>1, <3>3 DEF get_program_flag
    <3>6. None \notin {origin'.K, origin'.B} BY <3>1, <3>2, StoreAssumption DEF TypeOK, Pairs
    <3> QED BY <2>1, <2>4, <2>8, <3>4, <3>5, <3>6 DEF FlagProgress, DataProgress
  <2>9. wr.half \in 1 .. 4 BY DEF TypeOK
  <2> QED BY <2>5, <2>6, <2>7, <2>8, <2>9
<1>7. CASE ProgramFails
  <2>1. /\ pc = "program" /\ failed' = "since" /\ UNCHANGED <<page, origin>>
        /\ origin.K = None /\ wr.half \in 1 .. 4
    BY <1>7 DEF ProgramFails, WriteProgress, TypeOK
  <2>2. Untorn' /\ FlagProgress' /\ DataProgress' BY <2>1 DEF Untorn, FlagProgress, DataProgress
  <2>3. CASE wr.half <= 2
    <3>1. AfterFailure(wr.half) = 3 BY <2>3 DEF AfterFailure
    <3>2. wr' = [wr EXCEPT !.half = 3, !.ok = "no"] /\ pc' = pc
      BY <1>7, <3>1 DEF ProgramFails
    <3>3. wr'.half = 3 BY <3>2 DEF TypeOK
    <3>4. origin.B = None BY <2>1, <2>3 DEF WriteProgress
    <3> QED BY <2>1, <2>2, <3>2, <3>3, <3>4 DEF WriteProgress
  <2>4. CASE ~ (wr.half <= 2)
    <3>1. AfterFailure(wr.half) = 5 BY <2>4 DEF AfterFailure
    <3>2. Return BY <1>7, <3>1 DEF ProgramFails
    <3>3. pc' \in {"idle", "write"} BY <2>1, <3>2, ReturnLemma DEF TypeOK
    <3> QED BY <2>2, <3>3 DEF WriteProgress
  <2> QED BY <2>3, <2>4
<1>8. ASSUME NEW v \in Vals, WriteReg(v) PROVE StoreInv'
  <2>1. UNCHANGED <<page, origin, cut, failed>> /\ pc = "write" BY <1>8 DEF WriteReg
  <2>2. /\ failed' = "never" => get_program_flag
        /\ failed' = "never" /\ cut' = "no" => None \notin {origin.K, origin.B}
    BY <2>1 DEF FlagProgress, DataProgress, Kept
  <2>3. CASE loop'.iRegIndex = StoreInd
    <3>1. pc' = "erase" /\ wr'.half = 1 BY <1>8, <2>3 DEF WriteReg, wr_calc_data
    <3> QED BY <1>2, <2>1, <2>2, <3>1
  <2>4. CASE loop'.iRegIndex # StoreInd
    <3>1. pc' \in {"idle", "write"} BY <1>8, <2>4 DEF WriteReg
    <3> QED BY <1>2, <2>1, <2>2, <3>1
  <2> QED BY <2>3, <2>4
<1>9. ASSUME NEW a, NEW n, eMBRegHoldingCB(a, n) PROVE StoreInv'
  <2>1. UNCHANGED <<page, origin, cut, failed>> /\ pc = "idle" /\ pc' = "write"
    BY <1>9 DEF eMBRegHoldingCB
  <2>2. /\ failed' = "never" => get_program_flag
        /\ failed' = "never" /\ cut' = "no" => None \notin {origin.K, origin.B}
    BY <2>1 DEF FlagProgress, DataProgress, Kept
  <2> QED BY <1>2, <2>1, <2>2
<1>10. CASE Reset
  <2>1. pc' = "reset" BY <1>10 DEF Reset
  <2>2. WriteProgress' /\ FlagProgress' BY <2>1 DEF WriteProgress, FlagProgress
  <2>3. CASE pc = "erase"
    <3>1. DataProgress' BY <1>10, <2>3 DEF Reset, DataProgress
    <3> QED BY <1>10, <2>2, <2>3, <3>1, DecaysUntorn DEF Reset
  <2>4. CASE pc # "erase"
    <3>1. /\ UNCHANGED <<page, origin>> /\ (failed' = "never" => failed = "never")
          /\ cut' = IF pc = "program" THEN "yes" ELSE cut
      BY <1>10, <2>4 DEF Reset
    <3>2. pc \in {"reset", "program", "write", "idle"} BY <2>4 DEF TypeOK
    <3>3. DataProgress' BY <2>1, <3>1, <3>2 DEF DataProgress, Kept, get_program_flag
    <3> QED BY <2>2, <3>1, <3>3 DEF Untorn
  <2> QED BY <2>3, <2>4
<1>11. CASE UNCHANGED vars
  BY <1>11 DEF vars, Untorn, WriteProgress, FlagProgress, DataProgress, Kept, get_program_flag
<1> QED
  BY <1>3, <1>4, <1>5, <1>6, <1>7, <1>8, <1>9, <1>10, <1>11
  DEF Next, Thread, eMBFuncWriteHoldingRegister, eMBFuncReadWriteMultipleHoldingRegister

\* The page is never torn: whatever fails and wherever a reset strikes, CALC_K and CALC_B in
\* the flash come from one call of wr_calc_data, or one of them is erased.
THEOREM NeverTorn == Spec => []Untorn
<1>1. Init => StoreInv BY StoreStart
<1>2. TypeOK /\ TypeOK' /\ StoreInv /\ [Next]_vars => StoreInv' BY StoreStep
<1>3. StoreInv => Untorn BY DEF StoreInv
<1> QED BY <1>1, <1>2, <1>3, TypeCorrect, PTL DEF Spec

\* While the flash works, a slave that serves requests has a page that iflash_init accepts with
\* the data of one call of wr_calc_data in it, wherever the resets before came, unless the last
\* of these cut a call short that was not followed by a complete one.
THEOREM DataServed == Spec => []ServesWhole
<1>1. Init => StoreInv BY StoreStart
<1>2. TypeOK /\ TypeOK' /\ StoreInv /\ [Next]_vars => StoreInv' BY StoreStep
<1>3. TypeOK /\ StoreInv => ServesWhole
  BY DEF TypeOK, StoreInv, Untorn, FlagProgress, DataProgress, Kept, ServesWhole
<1> QED BY <1>1, <1>2, <1>3, TypeCorrect, PTL DEF Spec

-----------------------------------------------------------------------------
(* The registers and their copy.                                            *)

\* What makes Persisted and RestoredAtStart inductive: what iflash_wr_val was called with is what
\* the registers hold; a page that was stored without an error has its flag, so that nothing
\* but another request erases it.
Busy == pc \in {"erase", "program"}

CopyInv ==
    /\ Busy \/ wr.caller = "none"
    /\ pc = "program" /\ wr.half = 4 => page.B = wr.data.B
    /\ pc = "program" /\ wr.ok = "yes" => /\ wr.half >= 2 => page.flagL = PROG_FLAG.flagL
                                          /\ wr.half >= 3 => page.flagH = PROG_FLAG.flagH
    /\ failed # "since" =>
         /\ pc \in {"idle", "write"} => regs.B = page.B /\ (konly = "yes" \/ regs.K = page.K)
         /\ Busy /\ wr.caller # "init" => wr.data = regs
    /\ saved # None => ~Busy /\ get_program_flag /\ page.K = saved.K /\ page.B = saved.B

\* CopyInv is inductive, given the types.
LEMMA CopyStep ==
    ASSUME TypeOK, TypeOK', StoreInv, CopyInv, [Next]_vars
    PROVE  CopyInv'
<1>1. CASE iflash_init
  <2>1. pc = "reset" /\ page' = page /\ failed' = failed
    BY <1>1 DEF iflash_init
  <2>2. CASE NotProgrammed
    <3>1. pc' = "erase" /\ wr'.caller = "init" /\ saved' = saved
      BY <1>1, <2>2 DEF iflash_init, wr_calc_data
    <3>2. saved = None
      BY <2>2 DEF CopyInv, NotProgrammed
    <3> QED BY <2>1, <3>1, <3>2 DEF CopyInv, Busy
  <2>3. CASE ~ NotProgrammed
    <3>1. pc' = "idle" /\ wr' = wr /\ regs' = [K |-> page'.K, B |-> page'.B] /\ saved' = saved
      BY <1>1, <2>3 DEF iflash_init, mbs_sts_init
    <3> QED BY <2>1, <3>1 DEF CopyInv, Busy, get_program_flag
  <2> QED BY <2>2, <2>3
<1>2. CASE EraseOk
  <2>1. pc = "erase" /\ pc' = "program" /\ wr' = wr /\ UNCHANGED <<regs, saved, failed>>
    BY <1>2 DEF EraseOk
  <2>2. saved = None /\ wr.half = 1
    BY <2>1 DEF CopyInv, Busy, StoreInv, WriteProgress
  <2> QED BY <2>1, <2>2 DEF CopyInv, Busy
<1>3. CASE EraseFails
  <2>1. pc = "erase" /\ failed' = "since" /\ saved' = saved
    BY <1>3 DEF EraseFails
  <2>2. saved = None
    BY <2>1 DEF CopyInv, Busy
  <2>3. wr.timeout \in 0 .. MaxTries - 1
    BY DEF TypeOK
  <2>4. CASE Tried(wr.timeout) < MaxTries
    <3>1. ~ EraseFailed(Tried(wr.timeout))
      BY <2>3, <2>4, ConstantTypes DEF Tried, EraseFailed
    <3>2. pc' = pc
      BY <1>3, <2>4, <3>1 DEF EraseFails
    <3> QED BY <2>1, <2>2, <3>2 DEF CopyInv, Busy
  <2>5. CASE ~ (Tried(wr.timeout) < MaxTries)
    <3>1. EraseFailed(Tried(wr.timeout))
      BY <2>3, <2>5, ConstantTypes DEF Tried, EraseFailed
    <3>2. Return
      BY <1>3, <2>5, <3>1 DEF EraseFails
    <3>3. wr' = NotWriting /\ pc' \in {"idle", "write"}
      BY <3>2, ReturnLemma DEF TypeOK
    <3> QED BY <2>1, <2>2, <3>3 DEF CopyInv, Busy
  <2> QED BY <2>4, <2>5
<1>4. CASE ProgramOk
  <2>1. pc = "program" /\ failed' = failed /\ wr.half \in 1 .. 4 /\ saved = None
    BY <1>4 DEF ProgramOk, TypeOK, CopyInv, Busy
  <2>2. CASE wr.half < 4
    <3>1. wr' = [wr EXCEPT !.half = wr.half + 1] /\ UNCHANGED <<regs, pc, saved>>
      BY <1>4, <2>2 DEF ProgramOk
    <3>2. /\ wr'.half = wr.half + 1 /\ wr'.data = wr.data
          /\ wr'.caller = wr.caller /\ wr'.ok = wr.ok
      BY <3>1 DEF TypeOK
    <3>3. /\ wr.half = 1 => page'.flagL = PROG_FLAG.flagL
          /\ wr.half = 2 => page'.flagH = PROG_FLAG.flagH /\ page'.flagL = page.flagL
          /\ wr.half = 3 => /\ page'.flagH = page.flagH /\ page'.flagL = page.flagL
                            /\ page'.B = wr.data.B
      BY <1>4, ProgramLemma DEF TypeOK
    <3> QED BY <2>1, <2>2, <3>1, <3>2, <3>3 DEF CopyInv, Busy
  <2>3. CASE wr.half = 4
    <3>1. /\ Return /\ konly' = "no"
          /\ saved' = IF wr.caller = "request" /\ wr.ok = "yes" THEN wr.data ELSE saved
      BY <1>4, <2>3 DEF ProgramOk
    <3>2. wr' = NotWriting /\ pc' \in {"idle", "write"}
      BY <3>1, ReturnLemma DEF TypeOK
    <3>3. /\ page'.flagL = page.flagL /\ page'.flagH = page.flagH
          /\ page'.K = wr.data.K /\ page'.B = wr.data.B
      BY <1>4, <2>1, <2>3, ProgramLemma DEF TypeOK, CopyInv
    <3>4. regs' = IF wr.caller = "init" THEN [K |-> page'.K, B |-> page'.B] ELSE regs
      BY <3>1 DEF Return, mbs_sts_init
    <3>5. failed # "since" => regs'.B = page'.B /\ regs'.K = page'.K
      BY <2>1, <3>3, <3>4 DEF CopyInv, Busy
    <3>6. wr.ok = "yes" => get_program_flag'
      BY <2>1, <2>3, <3>3 DEF CopyInv, get_program_flag
    <3>7. ~Busy' /\ wr'.caller = "none" /\ pc' # "program"
      BY <3>2 DEF Busy
    <3>8. saved' # None => saved' = wr.data /\ wr.ok = "yes"
      BY <2>1, <3>1
    <3> QED BY <2>1, <3>3, <3>5, <3>6, <3>7, <3>8 DEF CopyInv
  <2> QED BY <2>1, <2>2, <2>3
<1>5. CASE ProgramFails
  <2>1. /\ pc = "program" /\ failed' = "since" /\ saved' = saved /\ saved = None
        /\ wr.half \in 1 .. 4
    BY <1>5 DEF ProgramFails, CopyInv, Busy, TypeOK
  <2>2. CASE wr.half <= 2
    <3>1. AfterFailure(wr.half) = 3
      BY <2>2 DEF AfterFailure
    <3>2. wr' = [wr EXCEPT !.half = 3, !.ok = "no"] /\ pc' = pc
      BY <1>5, <3>1 DEF ProgramFails
    <3>3. wr'.half = 3 /\ wr'.ok = "no"
      BY <3>2 DEF TypeOK
    <3> QED BY <2>1, <3>2, <3>3 DEF CopyInv, Busy
  <2>3. CASE ~ (wr.half <= 2)
    <3>1. AfterFailure(wr.half) = 5
      BY <2>3 DEF AfterFailure
    <3>2. Return
      BY <1>5, <3>1 DEF ProgramFails
    <3>3. wr' = NotWriting /\ pc' \in {"idle", "write"}
      BY <3>2, ReturnLemma DEF TypeOK
    <3> QED BY <2>1, <3>3 DEF CopyInv, Busy
  <2> QED BY <2>2, <2>3
<1>6. ASSUME NEW v \in Vals, WriteReg(v) PROVE CopyInv'
  <2>1. UNCHANGED <<page, failed>> /\ pc = "write"
    BY <1>6 DEF WriteReg
  <2>2. CASE loop'.iRegIndex = StoreInd
    <3>1. pc' = "erase" /\ wr' = Writing(regs', "request") /\ saved' = None
      BY <1>6, <2>2 DEF WriteReg, wr_calc_data
    <3> QED BY <2>1, <3>1 DEF CopyInv, Busy
  <2>3. CASE loop'.iRegIndex # StoreInd
    <3>1. pc' \in {"idle", "write"} /\ UNCHANGED <<wr, saved>>
      BY <1>6, <2>3 DEF WriteReg
    <3>2. loop' = [iRegIndex |-> loop.iRegIndex + 1, usNRegs |-> loop.usNRegs - 1]
      BY <1>6 DEF WriteReg
    <3>3. loop.iRegIndex # CALC_B_IND
      BY <2>3, <3>2 DEF StoreInd
    <3>4. regs' = IF loop.iRegIndex = CALC_K_IND THEN [regs EXCEPT !.K = v] ELSE regs
      BY <1>6, <3>3, ConstantTypes DEF WriteReg
    <3>5. regs'.B = regs.B /\ (konly' = "yes" \/ (regs'.K = regs.K /\ konly' = konly))
      <4>1. regs \in Pairs /\ konly' = IF loop.iRegIndex = CALC_K_IND THEN "yes" ELSE konly
        BY <1>6 DEF WriteReg, TypeOK
      <4>2. regs'.B = regs.B
        BY <3>4, <4>1
      <4> QED BY <3>4, <4>1, <4>2
    <3> QED BY <2>1, <3>1, <3>5 DEF CopyInv, Busy, get_program_flag
  <2> QED BY <2>2, <2>3
<1>7. ASSUME NEW a, NEW n, eMBRegHoldingCB(a, n) PROVE CopyInv'
  BY <1>7 DEF eMBRegHoldingCB, CopyInv, Busy, get_program_flag
<1>8. CASE Reset
  <2>1. pc' = "reset" /\ wr' = NotWriting /\ saved' = saved
    BY <1>8 DEF Reset
  <2>2. saved # None => page' = page
    BY <1>8 DEF Reset, CopyInv, Busy
  <2> QED BY <2>1, <2>2 DEF CopyInv, Busy, get_program_flag
<1>9. CASE UNCHANGED vars
  BY <1>9 DEF vars, CopyInv, Busy, get_program_flag
<1> QED
  BY <1>1, <1>2, <1>3, <1>4, <1>5, <1>6, <1>7, <1>8, <1>9
  DEF Next, Thread, eMBFuncWriteHoldingRegister, eMBFuncReadWriteMultipleHoldingRegister

LEMMA CopyInvariant == Spec => [](TypeOK /\ CopyInv)
<1>1. Init => StoreInv /\ CopyInv
  BY StoreStart DEF Init, CopyInv, Busy
<1>2. TypeOK /\ TypeOK' /\ StoreInv /\ [Next]_vars => StoreInv' BY StoreStep
<1>3. TypeOK /\ TypeOK' /\ StoreInv /\ CopyInv /\ [Next]_vars => CopyInv' BY CopyStep
<1> QED BY <1>1, <1>2, <1>3, TypeCorrect, PTL DEF Spec

\* While the slave waits for requests and the flash has worked since the last start, CALC_B is in
\* the flash as it is in the registers, and so is CALC_K unless it was written alone.
THEOREM CopyPersisted == Spec => []Persisted
<1>1. CopyInv => Persisted
  BY DEF CopyInv, Persisted
<1> QED BY <1>1, CopyInvariant, PTL

\* The body of RestoredAtStart.
Restores ==
    pc' = "idle" /\ (pc = "reset" \/ wr.caller = "init") /\ saved # None => regs' = saved

\* A start does not write the page that a request has stored, and reads it.
LEMMA StartRestores ==
    ASSUME TypeOK, CopyInv, Next
    PROVE  Restores
<1> SUFFICES ASSUME pc' = "idle", pc = "reset" \/ wr.caller = "init", saved # None
             PROVE  regs' = saved
  BY DEF Restores
<1>1. /\ ~Busy /\ pc = "reset" /\ get_program_flag
      /\ page.K = saved.K /\ page.B = saved.B /\ saved \in Pairs
  BY DEF CopyInv, TypeOK
<1>2. iflash_init
  BY <1>1 DEF Next, Thread, EraseOk, EraseFails, ProgramOk, ProgramFails, WriteReg, Reset,
              eMBFuncWriteHoldingRegister, eMBFuncReadWriteMultipleHoldingRegister, eMBRegHoldingCB
<1>3. regs' = [K |-> page.K, B |-> page.B]
  BY <1>1, <1>2 DEF iflash_init, NotProgrammed, mbs_sts_init
<1>4. saved = [K |-> saved.K, B |-> saved.B]
  BY <1>1
<1> QED BY <1>1, <1>3, <1>4

\* A calibration that a request stored without an error is what the registers hold after every
\* later start, however many resets come, in whatever step, and whatever fails, until a request
\* begins to store another.
THEOREM CalibrationRestored == Spec => RestoredAtStart
<1>1. TypeOK /\ CopyInv /\ [Next]_vars => [Restores]_vars
  BY StartRestores
<1>2. [][Restores]_vars => RestoredAtStart
  BY DEF Restores, RestoredAtStart
<1> QED BY <1>1, <1>2, CopyInvariant, PTL DEF Spec
=============================================================================
