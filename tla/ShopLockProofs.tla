---------------------------- MODULE ShopLockProofs ----------------------------
(***************************************************************************)
(* Proofs about ShopLock, for any number of runs, any lease, cache and     *)
(* grace, any number of heartbeats in flight and of misfortunes.           *)
(***************************************************************************)
EXTENDS ShopLock, TLAPS

-----------------------------------------------------------------------------
(* Steps that only change the memory of one run *)

\* The misfortune of a step stays within its budget.
LEMMA FaultsBounded ==
  ASSUME TypeOK, Misfortune \/ UNCHANGED faults
  PROVE  faults' \in 0 .. MaxFaults
  BY ConstantsAssumption DEF TypeOK, Misfortune

\* A memory of which one field gets another value of its type is a memory.
LEMMA MemoryTypes ==
  ASSUME NEW m \in RunType
  PROVE  /\ \A p \in PCs : [m EXCEPT !.pc = p] \in RunType
         /\ \A t \in Time : [m EXCEPT !.asked = t] \in RunType
         /\ \A t \in Time : [m EXCEPT !.checked = t] \in RunType
         /\ \A k \in Nat : [m EXCEPT !.token = k] \in RunType
         /\ \A g \in Nat \cup {Never} : [m EXCEPT !.generation = g] \in RunType
         /\ \A b \in BOOLEAN : [m EXCEPT !.halted = b] \in RunType
<1>1. \A p \in PCs : [m EXCEPT !.pc = p] \in RunType
  BY DEF RunType
<1>2. \A t \in Time : [m EXCEPT !.asked = t] \in RunType
  BY DEF RunType
<1>3. \A t \in Time : [m EXCEPT !.checked = t] \in RunType
  BY DEF RunType, Time
<1>4. \A k \in Nat : [m EXCEPT !.token = k] \in RunType
  BY DEF RunType
<1>5. \A g \in Nat \cup {Never} : [m EXCEPT !.generation = g] \in RunType
  BY DEF RunType
<1>6. \A b \in BOOLEAN : [m EXCEPT !.halted = b] \in RunType
  BY Zenon DEF RunType
<1> QED
  BY <1>1, <1>2, <1>3, <1>4, <1>5, <1>6

\* So the moves the actions are made of keep the type of the memories.
LEMMA MoveTypes ==
  ASSUME TypeOK, NEW x \in Runs
  PROVE  /\ \A pc \in PCs : Goes(x, pc) => run' \in [Runs -> RunType]
         /\ \A h \in BOOLEAN :
              x \notin Erasers /\ Throws(x, h) => run' \in [Runs -> RunType]
<1>1. run[x] \in RunType
  BY DEF TypeOK
<1>2. ASSUME NEW pc \in PCs, Goes(x, pc)
      PROVE  run' \in [Runs -> RunType]
  BY <1>1, <1>2, MemoryTypes DEF Goes, TypeOK
<1>3. ASSUME NEW h \in BOOLEAN, x \notin Erasers, Throws(x, h)
      PROVE  run' \in [Runs -> RunType]
  <2>1. (run[x].halted \/ h) \in BOOLEAN /\ "working" \in PCs
    BY DEF PCs
  <2> DEFINE b == run[x].halted \/ h
  <2>2. run' = [run EXCEPT ![x] = [[run[x] EXCEPT !.pc = "working"] EXCEPT !.halted = b]]
    BY <1>3 DEF Throws, TypeOK
  <2>3. b \in BOOLEAN
    BY <2>1
  <2> HIDE DEF b
  <2> QED
    BY <1>1, <2>1, <2>2, <2>3, MemoryTypes DEF TypeOK
<1> QED
  BY <1>2, <1>3

\* Only the memory of x changes, and stays of its type.
OnlyMemory(x) ==
  /\ run' \in [Runs -> RunType]
  /\ \A y \in Runs : y # x => run'[y] = run[y]
  /\ UNCHANGED <<now, lock, shop, beats, lostAt, markedAt>>
  /\ UNCHANGED endedAt \/ Ends(x)
  /\ UNCHANGED faults \/ Misfortune

\* What the memory m that run x goes on with must respect.
Fits(x, m) ==
  /\ m.asked <= now /\ m.checked <= now
  /\ m.pc \in {"idle", "asking", "orphan"} =>
       run[x].pc \in {"idle", "asking"} /\ m.checked = run[x].checked
  /\ m.pc \in {"orphan", "ended"} => endedAt'[x] = now
  /\ lostAt[x] # Never =>
       /\ m.checked <= lostAt[x]
       /\ m.pc \in {"checkingShop", "verified"} => m.asked <= lostAt[x]
  /\ m.pc = "checkingShop" => x \notin Erasers /\ m.generation # Never
  /\ m.pc = "marked" => run[x].pc = "marked"
  /\ x \notin Erasers /\ markedAt # Never /\ m.generation # Never =>
       m.checked <= markedAt /\ (m.pc = "verified" => m.asked <= markedAt)

\* A step that gives one run another memory and touches neither the lock, nor the
\* shop, nor a message keeps the invariant, if the memory fits: every action of a
\* run that only reads the tables or sends a statement is of this kind.
LEMMA MemoryStep ==
  ASSUME IInv, NEW x \in Runs, OnlyMemory(x), Fits(x, run'[x])
  PROVE  IInv'
<1> DEFINE m == run'[x]
<1>1. \A y \in Runs : run'[y] = IF y = x THEN m ELSE run[y]
  BY DEF OnlyMemory
<1>2. Fits(x, m)
  OBVIOUS
<1> HIDE DEF m
<1>3. TypeOK'
  BY FaultsBounded DEF IInv, TypeOK, OnlyMemory, Ends, Time, Never
<1>4. \A y \in Runs : endedAt'[y] = endedAt[y] \/ (y = x /\ endedAt'[y] = now)
  BY DEF IInv, TypeOK, OnlyMemory, Ends
<1>5. PastIsPast'
  BY <1>1, <1>2, <1>4 DEF IInv, TypeOK, PastIsPast, OnlyMemory, Fits, Time
<1>6. NotYet'
  BY <1>1, <1>2 DEF IInv, NotYet, OnlyMemory, Fits
<1>7. LeaseIsShort'
  BY <1>1, <1>2, <1>4 DEF IInv, TypeOK, LeaseIsShort, PastIsPast, OnlyMemory, Fits
<1>8. DeadHolderLetsGo'
  BY <1>1, <1>2, <1>4, ConstantsAssumption
     DEF IInv, TypeOK, DeadHolderLetsGo, LeaseIsShort, LockType, OnlyMemory, Fits
<1>9. VerifiedBeforeLoss'
  BY <1>1, <1>2 DEF IInv, VerifiedBeforeLoss, OnlyMemory, Fits
<1>10. VerifiedBeforeErasure'
  BY <1>1, <1>2 DEF IInv, VerifiedBeforeErasure, OnlyMemory, Fits
<1> QED
  BY <1>3, <1>5, <1>6, <1>7, <1>8, <1>9, <1>10 DEF IInv

\* Leaving the callback, or ending, is such a step, from any point.
LEMMA ClosingStep ==
  ASSUME IInv, NEW x \in Runs, NEW pc \in {"releasing", "ended"}, Closes(x, pc),
         UNCHANGED <<now, lock, shop, beats, lostAt, markedAt>>,
         UNCHANGED faults \/ Misfortune,
         (pc = "releasing" /\ UNCHANGED endedAt) \/ Ends(x)
  PROVE  IInv'
<1>1. Blank(pc, run[x].token) \in RunType
  BY ConstantsAssumption DEF IInv, TypeOK, RunType, PCs, Blank, Never, Time
<1>2. OnlyMemory(x)
  BY <1>1 DEF IInv, TypeOK, Closes, OnlyMemory
<1>3. /\ run'[x].pc = pc /\ run'[x].asked = 0 /\ run'[x].checked = -Cache
      /\ run'[x].generation = Never
  BY DEF IInv, TypeOK, Closes, Blank
<1>4. -Cache <= now /\ 0 <= now /\ (lostAt[x] # Never => -Cache <= lostAt[x])
  BY ConstantsAssumption DEF IInv, TypeOK, Time, Never
<1>5. pc = "ended" => endedAt'[x] = now
  BY DEF Ends, IInv, TypeOK
<1> QED
  BY <1>2, <1>3, <1>4, <1>5, MemoryStep DEF Fits

\* Asking for the lock keeps the invariant.
LEMMA AskKeeps ==
  ASSUME IInv, NEW x \in Runs, Ask(x)
  PROVE  IInv'
<1>1. run' \in [Runs -> RunType]
  BY MemoryTypes DEF Ask, IInv, TypeOK, PCs
<1>2. OnlyMemory(x)
  BY <1>1 DEF Ask, OnlyMemory, past, IInv, TypeOK
<1>3. Fits(x, run'[x])
  BY DEF Ask, Fits, IInv, TypeOK, RunType, PastIsPast, NotYet, Time, Never,
         AtWork, VerifiedBeforeLoss, VerifiedBeforeErasure
<1> QED
  BY <1>2, <1>3, MemoryStep

\* Not hearing the answer keeps the invariant.
LEMMA AskLostKeeps ==
  ASSUME IInv, NEW x \in Runs, AskLost(x)
  PROVE  IInv'
<1>1. run' \in [Runs -> RunType]
  BY MemoryTypes DEF AskLost, Goes, Ends, IInv, TypeOK, PCs
<1>2. OnlyMemory(x)
  BY <1>1 DEF AskLost, Goes, Ends, OnlyMemory, past, IInv, TypeOK
<1>3. Fits(x, run'[x])
  BY DEF AskLost, Goes, Ends, Fits, IInv, TypeOK, RunType, PastIsPast, NotYet, Time, Never,
         AtWork, VerifiedBeforeLoss, VerifiedBeforeErasure
<1> QED
  BY <1>2, <1>3, MemoryStep

\* Being told that the shop is taken keeps the invariant.
LEMMA BusyKeeps ==
  ASSUME IInv, NEW x \in Runs, Busy(x)
  PROVE  IInv'
  BY ClosingStep DEF Busy, past

\* Reading the state of the shop keeps the invariant.
LEMMA ReadShopKeeps ==
  ASSUME IInv, NEW x \in Runs, ReadShop(x)
  PROVE  IInv'
<1>1. CASE shop.life = "erasing" \/ run[x].halted
  BY <1>1, ClosingStep DEF ReadShop, past
<1>2. CASE ~(shop.life = "erasing" \/ run[x].halted)
  <2> DEFINE g == IF shop.life = "active" THEN shop.generation ELSE Never
  <2>0. g \in Nat \cup {Never}
    BY DEF IInv, TypeOK
  <2> HIDE DEF g
  <2>1. run' \in [Runs -> RunType]
    <3>1. run' = [run EXCEPT ![x] =
                    [[run[x] EXCEPT !.pc = "working"] EXCEPT !.generation = g]]
      BY <1>2 DEF ReadShop, IInv, TypeOK, g
    <3> QED
      BY <2>0, <3>1, MemoryTypes DEF IInv, TypeOK, PCs
  <2>2. OnlyMemory(x)
    BY <1>2, <2>1 DEF ReadShop, OnlyMemory, past, IInv, TypeOK
  <2>3. Fits(x, run'[x])
    BY <1>2 DEF ReadShop, Fits, IInv, TypeOK, RunType, PastIsPast, NotYet, Time, Never,
         AtWork, VerifiedBeforeLoss, VerifiedBeforeErasure
  <2> QED
    BY <2>2, <2>3, MemoryStep
<1> QED
  BY <1>1, <1>2

\* Starting an erasure keeps the invariant.
LEMMA EraserStartsKeeps ==
  ASSUME IInv, NEW x \in Runs, EraserStarts(x)
  PROVE  IInv'
<1>1. CASE run[x].halted
  BY <1>1, ClosingStep DEF EraserStarts, past
<1>2. CASE ~run[x].halted
  <2>1. run' \in [Runs -> RunType]
    BY <1>2, MoveTypes, MemoryTypes DEF EraserStarts, IInv, PCs
  <2>2. OnlyMemory(x)
    BY <1>2, <2>1 DEF EraserStarts, Goes, OnlyMemory, past, IInv, TypeOK
  <2>3. Fits(x, run'[x])
    BY <1>2 DEF EraserStarts, Goes, Fits, IInv, TypeOK, RunType, PastIsPast, NotYet, Time, Never,
         AtWork, VerifiedBeforeLoss, VerifiedBeforeErasure
  <2> QED
    BY <2>2, <2>3, MemoryStep
<1> QED
  BY <1>1, <1>2

\* Failing to read the state of the shop keeps the invariant.
LEMMA ReadShopFailsKeeps ==
  ASSUME IInv, NEW x \in Runs, ReadShopFails(x)
  PROVE  IInv'
  BY ClosingStep DEF ReadShopFails, past

\* A signal keeps the invariant.
LEMMA InterruptKeeps ==
  ASSUME IInv, NEW x \in Runs, Interrupt(x)
  PROVE  IInv'
<1>1. run' \in [Runs -> RunType]
  BY MemoryTypes DEF Interrupt, Halts, IInv, TypeOK, PCs
<1>2. OnlyMemory(x)
  BY <1>1 DEF Interrupt, Halts, OnlyMemory, past, IInv, TypeOK
<1>3. Fits(x, run'[x])
  BY DEF Interrupt, Halts, Fits, IInv, TypeOK, RunType, PastIsPast, NotYet, Time, Never,
         AtWork, VerifiedBeforeLoss, VerifiedBeforeErasure
<1> QED
  BY <1>2, <1>3, MemoryStep

\* A permit out of the cache keeps the invariant.
LEMMA AssertCachedKeeps ==
  ASSUME IInv, NEW x \in Runs, AssertCached(x)
  PROVE  IInv'
<1>1. run' \in [Runs -> RunType]
  BY MemoryTypes DEF AssertCached, Goes, IInv, TypeOK, PCs
<1>2. OnlyMemory(x)
  BY <1>1 DEF AssertCached, Goes, OnlyMemory, past, IInv, TypeOK
<1>3. Fits(x, run'[x])
  BY DEF AssertCached, Goes, Fits, IInv, TypeOK, RunType, PastIsPast, NotYet, Time, Never,
         AtWork, VerifiedBeforeLoss, VerifiedBeforeErasure
<1> QED
  BY <1>2, <1>3, MemoryStep

\* Sending the read of the lock keeps the invariant.
LEMMA AssertAsksKeeps ==
  ASSUME IInv, NEW x \in Runs, AssertAsks(x)
  PROVE  IInv'
<1>1. run' \in [Runs -> RunType]
  BY MemoryTypes DEF AssertAsks, IInv, TypeOK, PCs
<1>2. OnlyMemory(x)
  BY <1>1 DEF AssertAsks, OnlyMemory, past, IInv, TypeOK
<1>3. Fits(x, run'[x])
  BY DEF AssertAsks, Fits, IInv, TypeOK, RunType, PastIsPast, NotYet, Time, Never,
         AtWork, VerifiedBeforeLoss, VerifiedBeforeErasure
<1> QED
  BY <1>2, <1>3, MemoryStep

\* Reading the lock keeps the invariant.
LEMMA AssertReadsLockKeeps ==
  ASSUME IInv, NEW x \in Runs, AssertReadsLock(x)
  PROVE  IInv'
<1>1. CASE ~(Mine(x) /\ lock.expires > run[x].asked) /\ x \in Erasers
  BY <1>1, ClosingStep DEF AssertReadsLock, past, Throws
<1>2. CASE ~(Mine(x) /\ lock.expires > run[x].asked) /\ x \notin Erasers
  <2>1. run' \in [Runs -> RunType]
    BY <1>2, MoveTypes, MemoryTypes DEF AssertReadsLock, IInv, PCs
  <2>2. OnlyMemory(x)
    BY <1>2, <2>1 DEF AssertReadsLock, Throws, OnlyMemory, past, IInv, TypeOK
  <2>3. Fits(x, run'[x])
    BY <1>2 DEF AssertReadsLock, Throws, Fits, IInv, TypeOK, RunType, PastIsPast, NotYet, Time, Never,
         AtWork, VerifiedBeforeLoss, VerifiedBeforeErasure
  <2> QED
    BY <2>2, <2>3, MemoryStep
<1>3. CASE /\ Mine(x) /\ lock.expires > run[x].asked
            /\ x \notin Erasers /\ run[x].generation # Never
  <2>1. run' \in [Runs -> RunType]
    BY <1>3, MoveTypes, MemoryTypes DEF AssertReadsLock, Mine, IInv, PCs
  <2>2. OnlyMemory(x)
    BY <1>3, <2>1 DEF AssertReadsLock, Mine, Goes, OnlyMemory, past, IInv, TypeOK
  <2>3. Fits(x, run'[x])
    BY <1>3 DEF AssertReadsLock, Mine, Goes, Fits, IInv, TypeOK, RunType, PastIsPast, NotYet, Time, Never,
         AtWork, VerifiedBeforeLoss, VerifiedBeforeErasure
  <2> QED
    BY <2>2, <2>3, MemoryStep
<1>4. CASE /\ Mine(x) /\ lock.expires > run[x].asked
            /\ ~(x \notin Erasers /\ run[x].generation # Never)
  <2>1. run' \in [Runs -> RunType]
    BY <1>4, MoveTypes, MemoryTypes DEF AssertReadsLock, Mine, IInv, PCs
  <2>2. OnlyMemory(x)
    BY <1>4, <2>1 DEF AssertReadsLock, Mine, Goes, OnlyMemory, past, IInv, TypeOK
  <2>3. Fits(x, run'[x])
    BY <1>4 DEF AssertReadsLock, Mine, Goes, Fits, IInv, TypeOK, RunType, PastIsPast, NotYet, Time, Never,
         AtWork, VerifiedBeforeLoss, VerifiedBeforeErasure
  <2> QED
    BY <2>2, <2>3, MemoryStep
<1> QED
  BY <1>1, <1>2, <1>3, <1>4

\* Reading the shop keeps the invariant.
LEMMA AssertReadsShopKeeps ==
  ASSUME IInv, NEW x \in Runs, AssertReadsShop(x)
  PROVE  IInv'
<1>1. CASE ~(shop.life = "active" /\ shop.generation = run[x].generation) /\ x \in Erasers
  BY <1>1, ClosingStep DEF AssertReadsShop, past, Throws
<1>2. CASE ~(shop.life = "active" /\ shop.generation = run[x].generation) /\ x \notin Erasers
  <2>1. run' \in [Runs -> RunType]
    BY <1>2, MoveTypes, MemoryTypes DEF AssertReadsShop, IInv, PCs
  <2>2. OnlyMemory(x)
    BY <1>2, <2>1 DEF AssertReadsShop, Throws, OnlyMemory, past, IInv, TypeOK
  <2>3. Fits(x, run'[x])
    BY <1>2 DEF AssertReadsShop, Throws, Fits, IInv, TypeOK, RunType, PastIsPast, NotYet, Time, Never,
         AtWork, VerifiedBeforeLoss, VerifiedBeforeErasure
  <2> QED
    BY <2>2, <2>3, MemoryStep
<1>3. CASE shop.life = "active" /\ shop.generation = run[x].generation
  <2>1. run' \in [Runs -> RunType]
    BY <1>3, MoveTypes, MemoryTypes DEF AssertReadsShop, IInv, PCs
  <2>2. OnlyMemory(x)
    BY <1>3, <2>1 DEF AssertReadsShop, Goes, OnlyMemory, past, IInv, TypeOK
  <2>3. Fits(x, run'[x])
    BY <1>3 DEF AssertReadsShop, Goes, Fits, IInv, TypeOK, RunType, PastIsPast, NotYet, Time, Never,
         AtWork, VerifiedBeforeLoss, VerifiedBeforeErasure
  <2> QED
    BY <2>2, <2>3, MemoryStep
<1> QED
  BY <1>1, <1>2, <1>3

\* The answer that makes assertHeld return keeps the invariant.
LEMMA AssertReturnsKeeps ==
  ASSUME IInv, NEW x \in Runs, AssertReturns(x)
  PROVE  IInv'
<1>1. run' \in [Runs -> RunType]
  <2>1. run[x] \in RunType /\ run[x].asked \in Time /\ "permitted" \in PCs
    BY DEF IInv, TypeOK, RunType, PCs
  <2>2. run' = [run EXCEPT ![x] =
                  [[run[x] EXCEPT !.pc = "permitted"] EXCEPT !.checked = run[x].asked]]
    BY DEF AssertReturns, IInv, TypeOK
  <2> QED
    BY <2>1, <2>2, MemoryTypes DEF IInv, TypeOK
<1>2. OnlyMemory(x)
  BY <1>1 DEF AssertReturns, OnlyMemory, past, IInv, TypeOK
<1>3. Fits(x, run'[x])
  BY DEF AssertReturns, Fits, IInv, TypeOK, RunType, PastIsPast, NotYet, Time, Never,
         AtWork, VerifiedBeforeLoss, VerifiedBeforeErasure
<1> QED
  BY <1>2, <1>3, MemoryStep

\* Failing to read either keeps the invariant.
LEMMA AssertFailsKeeps ==
  ASSUME IInv, NEW x \in Runs, AssertFails(x)
  PROVE  IInv'
<1>1. CASE x \in Erasers
  BY <1>1, ClosingStep DEF AssertFails, past, Throws
<1>2. CASE x \notin Erasers
  <2>1. run' \in [Runs -> RunType]
    BY <1>2, MoveTypes, MemoryTypes DEF AssertFails, IInv, PCs
  <2>2. OnlyMemory(x)
    BY <1>2, <2>1 DEF AssertFails, Throws, OnlyMemory, past, IInv, TypeOK
  <2>3. Fits(x, run'[x])
    BY <1>2 DEF AssertFails, Throws, Fits, IInv, TypeOK, RunType, PastIsPast, NotYet, Time, Never,
         AtWork, VerifiedBeforeLoss, VerifiedBeforeErasure
  <2> QED
    BY <2>2, <2>3, MemoryStep
<1> QED
  BY <1>1, <1>2

\* A write keeps the invariant.
LEMMA WriteKeeps ==
  ASSUME IInv, NEW x \in Runs, Write(x)
  PROVE  IInv'
<1>1. run' \in [Runs -> RunType]
  BY MemoryTypes DEF Write, Goes, IInv, TypeOK, PCs
<1>2. OnlyMemory(x)
  BY <1>1 DEF Write, Goes, OnlyMemory, past, IInv, TypeOK
<1>3. Fits(x, run'[x])
  BY DEF Write, Goes, Fits, IInv, TypeOK, RunType, PastIsPast, NotYet, Time, Never,
         AtWork, VerifiedBeforeLoss, VerifiedBeforeErasure
<1> QED
  BY <1>2, <1>3, MemoryStep

\* A failed erasure keeps the invariant.
LEMMA EraseFailsKeeps ==
  ASSUME IInv, NEW x \in Runs, EraseFails(x)
  PROVE  IInv'
  BY ClosingStep DEF EraseFails, past

\* The end of the callback keeps the invariant.
LEMMA FinishKeeps ==
  ASSUME IInv, NEW x \in Runs, Finish(x)
  PROVE  IInv'
  BY ClosingStep DEF Finish, past

\* A failed release keeps the invariant.
LEMMA ReleaseFailsKeeps ==
  ASSUME IInv, NEW x \in Runs, ReleaseFails(x)
  PROVE  IInv'
  BY ClosingStep DEF ReleaseFails, past

\* The death of the process keeps the invariant.
LEMMA CrashKeeps ==
  ASSUME IInv, NEW x \in Runs, Crash(x)
  PROVE  IInv'
  BY ClosingStep DEF Crash, past

-----------------------------------------------------------------------------
(* Steps that touch the tables or the messages *)

\* Taking the lock keeps its row and the time of a loss of their types.
LEMMA TakingTypes ==
  ASSUME TypeOK, NEW x \in Runs, lock' = TakenBy(x), Loses, UNCHANGED now
  PROVE  lock' \in LockType /\ lostAt' \in [Runs -> Time \cup {Never}]
<1>1. lock.token + 1 \in Nat /\ run[x].asked + Ttl \in Nat
  BY ConstantsAssumption DEF TypeOK, LockType, RunType, Time
<1>2. lock' \in LockType
  BY <1>1 DEF TakenBy, LockType
<1> QED
  BY <1>2 DEF Loses, TypeOK

\* A take keeps the invariant.
LEMMA AcquireKeeps ==
  ASSUME IInv, NEW x \in Runs, Acquire(x)
  PROVE  IInv'
<1>1. TypeOK'
  <2> DEFINE k == lock.token + 1
  <2>0. k \in Nat
    BY DEF IInv, TypeOK, LockType
  <2>1. run' \in [Runs -> RunType]
    <3>1. run' = [run EXCEPT ![x] =
                    [[run[x] EXCEPT !.pc = "granted"] EXCEPT !.token = k]]
      BY DEF Acquire, IInv, TypeOK
    <3> HIDE DEF k
    <3> QED
      BY <2>0, <3>1, MemoryTypes DEF IInv, TypeOK, PCs
  <2> QED
    BY <2>1, TakingTypes DEF Acquire, IInv, TypeOK
<1>2. PastIsPast'
  BY DEF Acquire, Takeable, TakenBy, Loses, past, IInv, TypeOK, PastIsPast, Time, Never
<1>3. NotYet'
  BY DEF Acquire, Takeable, TakenBy, Loses, past, IInv, TypeOK, NotYet, Never
<1>4. LeaseIsShort'
  BY ConstantsAssumption DEF Acquire, Takeable, TakenBy, Loses, past, IInv, TypeOK,
         PastIsPast, LeaseIsShort, RunType, Time, Never
<1>5. DeadHolderLetsGo'
  BY DEF Acquire, Takeable, TakenBy, Loses, past, IInv, TypeOK, DeadHolderLetsGo, Never
<1>6. VerifiedBeforeLoss'
  BY DEF Acquire, Takeable, TakenBy, Loses, past, IInv, TypeOK, PastIsPast, NotYet,
         VerifiedBeforeLoss, Never
<1>7. VerifiedBeforeErasure'
  BY DEF Acquire, Takeable, TakenBy, Loses, past, IInv, TypeOK, VerifiedBeforeErasure,
         Never
<1> QED
  BY <1>1, <1>2, <1>3, <1>4, <1>5, <1>6, <1>7 DEF IInv

\* A take nobody waits for keeps the invariant.
LEMMA OrphanLandsKeeps ==
  ASSUME IInv, NEW x \in Runs, OrphanLands(x)
  PROVE  IInv'
<1>1. TypeOK'
  <2>1. Blank("ended", run[x].token) \in RunType
    BY ConstantsAssumption DEF IInv, TypeOK, RunType, PCs, Blank, Never, Time
  <2>2. run' \in [Runs -> RunType]
    BY <2>1 DEF OrphanLands, Closes, IInv, TypeOK
  <2> QED
    BY <2>2, TakingTypes DEF OrphanLands, IInv, TypeOK
<1>2. PastIsPast'
  BY DEF OrphanLands, Takeable, TakenBy, Closes, Blank, Loses, past, IInv, TypeOK,
         PastIsPast, NotYet, Time, Never
<1>3. NotYet'
  BY DEF OrphanLands, Takeable, TakenBy, Closes, Blank, Loses, past, IInv, TypeOK,
         NotYet, Never
<1>4. LeaseIsShort'
  BY ConstantsAssumption DEF OrphanLands, Takeable, TakenBy, Closes, Blank, Loses,
         past, IInv, TypeOK, PastIsPast, NotYet, LeaseIsShort, RunType, Time, Never
<1>5. DeadHolderLetsGo'
  BY ConstantsAssumption DEF OrphanLands, Takeable, TakenBy, Closes, Blank, Loses,
         past, IInv, TypeOK, LeaseIsShort, DeadHolderLetsGo, RunType, Time, Never
<1>6. VerifiedBeforeLoss'
  BY DEF OrphanLands, Takeable, TakenBy, Closes, Blank, Loses, past, IInv, TypeOK,
         PastIsPast, NotYet, VerifiedBeforeLoss, Never
<1>7. VerifiedBeforeErasure'
  BY DEF OrphanLands, Takeable, TakenBy, Closes, Blank, Loses, past, IInv, TypeOK,
         VerifiedBeforeErasure, Never
<1> QED
  BY <1>1, <1>2, <1>3, <1>4, <1>5, <1>6, <1>7 DEF IInv

\* A heartbeat that is sent keeps the invariant.
LEMMA BeatKeeps ==
  ASSUME IInv, NEW x \in Runs, Beat(x)
  PROVE  IInv'
<1>1. TypeOK'
  BY DEF Beat, past, IInv, TypeOK
<1>2. PastIsPast'
  BY DEF Beat, past, IInv, TypeOK, PastIsPast, Time, Never
<1>3. NotYet'
  BY DEF Beat, past, IInv, TypeOK, NotYet, Never, AtWork
<1>4. LeaseIsShort'
  BY DEF Beat, past, IInv, TypeOK, LeaseIsShort, Never, AtWork
<1>5. DeadHolderLetsGo'
  BY DEF Beat, past, IInv, TypeOK, DeadHolderLetsGo, Never
<1>6. VerifiedBeforeLoss'
  BY DEF Beat, past, IInv, TypeOK, VerifiedBeforeLoss, Never
<1>7. VerifiedBeforeErasure'
  BY DEF Beat, past, IInv, TypeOK, VerifiedBeforeErasure, Never
<1> QED
  BY <1>1, <1>2, <1>3, <1>4, <1>5, <1>6, <1>7 DEF IInv

\* A heartbeat that is executed keeps the invariant.
LEMMA BeatLandsKeeps ==
  ASSUME IInv, NEW x \in Runs, NEW t \in beats[x], BeatLands(x, t)
  PROVE  IInv'
<1>1. TypeOK'
  <2>1. t \in Nat /\ t + Ttl \in Nat
    BY ConstantsAssumption DEF IInv, TypeOK, Time
  <2>2. lock' \in LockType
    BY <2>1 DEF BeatLands, IInv, TypeOK, LockType
  <2>3. run' \in [Runs -> RunType]
    <3>1. CASE UNCHANGED run
      BY <3>1 DEF IInv, TypeOK
    <3>2. CASE Halts(x)
      BY <3>2, MemoryTypes DEF Halts, IInv, TypeOK
    <3> QED
      BY <3>1, <3>2 DEF BeatLands
  <2> QED
    BY <2>2, <2>3 DEF BeatLands, past, IInv, TypeOK
<1>0. /\ \A y \in Runs :
           /\ run'[y].pc = run[y].pc /\ run'[y].asked = run[y].asked
           /\ run'[y].checked = run[y].checked /\ run'[y].generation = run[y].generation
      /\ lock'.owner = lock.owner
  BY DEF BeatLands, Halts, IInv, TypeOK, RunType, LockType
<1>2. PastIsPast'
  BY DEF BeatLands, Mine, Halts, past, IInv, TypeOK, PastIsPast, RunType, Never
<1>3. NotYet'
  BY DEF BeatLands, Mine, Halts, past, IInv, TypeOK, NotYet, LockType, RunType, Never
<1>4. LeaseIsShort'
  BY ConstantsAssumption DEF BeatLands, Mine, Halts, past, IInv, TypeOK, PastIsPast,
         LeaseIsShort, LockType, RunType, Time, Never
<1>5. DeadHolderLetsGo'
  BY ConstantsAssumption DEF BeatLands, Mine, Halts, past, IInv, TypeOK, LeaseIsShort,
         DeadHolderLetsGo, LockType, RunType, Time, Never
<1>6. VerifiedBeforeLoss'
  BY <1>0 DEF BeatLands, past, IInv, VerifiedBeforeLoss
<1>7. VerifiedBeforeErasure'
  BY <1>0 DEF BeatLands, past, IInv, VerifiedBeforeErasure
<1> QED
  BY <1>1, <1>2, <1>3, <1>4, <1>5, <1>6, <1>7 DEF IInv

\* A heartbeat that fails keeps the invariant.
LEMMA BeatFailsKeeps ==
  ASSUME IInv, NEW x \in Runs, NEW t \in beats[x], BeatFails(x, t)
  PROVE  IInv'
<1>1. TypeOK'
  BY FaultsBounded DEF BeatFails, past, IInv, TypeOK
<1>2. PastIsPast'
  BY DEF BeatFails, Misfortune, past, IInv, TypeOK, PastIsPast, Never
<1>3. NotYet'
  BY DEF BeatFails, Misfortune, past, IInv, TypeOK, NotYet, Never
<1>4. LeaseIsShort'
  BY DEF BeatFails, Misfortune, past, IInv, TypeOK, LeaseIsShort, Never
<1>5. DeadHolderLetsGo'
  BY DEF BeatFails, Misfortune, past, IInv, TypeOK, DeadHolderLetsGo, Never
<1>6. VerifiedBeforeLoss'
  BY DEF BeatFails, Misfortune, past, IInv, TypeOK, VerifiedBeforeLoss, Never
<1>7. VerifiedBeforeErasure'
  BY DEF BeatFails, Misfortune, past, IInv, TypeOK, VerifiedBeforeErasure, Never
<1> QED
  BY <1>1, <1>2, <1>3, <1>4, <1>5, <1>6, <1>7 DEF IInv

\* An erasure keeps the invariant.
LEMMA EraseKeeps ==
  ASSUME IInv, NEW x \in Runs, Erase(x)
  PROVE  IInv'
<1>1. TypeOK'
  <2>1. Blank("releasing", run[x].token) \in RunType
    BY ConstantsAssumption DEF IInv, TypeOK, RunType, PCs, Blank, Never, Time
  <2> QED
    BY <2>1 DEF Erase, Closes, past, IInv, TypeOK
<1>2. PastIsPast'
  BY ConstantsAssumption DEF Erase, Closes, Blank, past, IInv, TypeOK, PastIsPast,
         Time, Never
<1>3. NotYet'
  BY DEF Erase, Closes, Blank, past, IInv, TypeOK, NotYet, Never
<1>4. LeaseIsShort'
  BY DEF Erase, Closes, Blank, past, IInv, TypeOK, LeaseIsShort, Never
<1>5. DeadHolderLetsGo'
  BY DEF Erase, Closes, Blank, past, IInv, TypeOK, DeadHolderLetsGo, Never
<1>6. VerifiedBeforeLoss'
  BY ConstantsAssumption DEF Erase, Closes, Blank, past, IInv, TypeOK,
         VerifiedBeforeLoss, Time, Never
<1>7. VerifiedBeforeErasure'
  BY DEF Erase, Closes, Blank, past, IInv, TypeOK, VerifiedBeforeErasure, Never
<1> QED
  BY <1>1, <1>2, <1>3, <1>4, <1>5, <1>6, <1>7 DEF IInv

\* A release keeps the invariant.
LEMMA ReleaseKeeps ==
  ASSUME IInv, NEW x \in Runs, Release(x)
  PROVE  IInv'
<1>1. TypeOK'
  <2>1. Blank("ended", run[x].token) \in RunType
    BY ConstantsAssumption DEF IInv, TypeOK, RunType, PCs, Blank, Never, Time
  <2>2. lock' \in LockType
    BY DEF Release, AfterRelease, Free, IInv, TypeOK, LockType
  <2> QED
    BY <2>1, <2>2 DEF Release, Closes, Ends, Loses, IInv, TypeOK
<1>2. PastIsPast'
  BY ConstantsAssumption DEF Release, Mine, AfterRelease, Closes, Blank, Ends, Loses,
         past, IInv, TypeOK, PastIsPast, Time, Never
<1>3. NotYet'
  BY ConstantsAssumption DEF Release, Mine, AfterRelease, Closes, Blank, Ends, Loses,
         past, IInv, TypeOK, NotYet, Never, Free
<1>4. LeaseIsShort'
  BY DEF Release, Mine, AfterRelease, Closes, Blank, Ends, Loses, past, IInv, TypeOK,
         PastIsPast, LeaseIsShort, Never, Free
<1>5. DeadHolderLetsGo'
  BY ConstantsAssumption DEF Release, Mine, AfterRelease, Closes, Blank, Ends, Loses,
         past, IInv, TypeOK, LeaseIsShort, DeadHolderLetsGo, Never, Free
<1>6. VerifiedBeforeLoss'
  BY ConstantsAssumption DEF Release, Mine, AfterRelease, Closes, Blank, Ends, Loses,
         past, IInv, TypeOK, VerifiedBeforeLoss, Time, Never, Free
<1>7. VerifiedBeforeErasure'
  BY DEF Release, Mine, AfterRelease, Closes, Blank, Ends, Loses, past, IInv, TypeOK,
         VerifiedBeforeErasure, Never
<1> QED
  BY <1>1, <1>2, <1>3, <1>4, <1>5, <1>6, <1>7 DEF IInv

\* The cron keeps the invariant.
LEMMA PruneKeeps ==
  ASSUME IInv, PruneExpired
  PROVE  IInv'
<1>1. TypeOK'
  BY DEF PruneExpired, Loses, Free, LockType, IInv, TypeOK
<1>2. PastIsPast'
  BY DEF PruneExpired, Loses, past, IInv, TypeOK, PastIsPast, Time, Never
<1>3. NotYet'
  BY ConstantsAssumption DEF PruneExpired, Loses, past, IInv, TypeOK, NotYet, Never,
         Free
<1>4. LeaseIsShort'
  BY DEF PruneExpired, Loses, past, IInv, TypeOK, LeaseIsShort, Never, Free
<1>5. DeadHolderLetsGo'
  BY ConstantsAssumption DEF PruneExpired, Loses, past, IInv, TypeOK, DeadHolderLetsGo,
         Never, Free
<1>6. VerifiedBeforeLoss'
  BY ConstantsAssumption DEF PruneExpired, Loses, past, IInv, TypeOK, PastIsPast,
         VerifiedBeforeLoss, Never, Free
<1>7. VerifiedBeforeErasure'
  BY DEF PruneExpired, Loses, past, IInv, TypeOK, VerifiedBeforeErasure, Never
<1> QED
  BY <1>1, <1>2, <1>3, <1>4, <1>5, <1>6, <1>7 DEF IInv

\* Time keeps the invariant.
LEMMA TickKeeps ==
  ASSUME IInv, Tick
  PROVE  IInv'
<1>1. TypeOK'
  BY ConstantsAssumption DEF Tick, past, IInv, TypeOK, Time
<1>2. PastIsPast'
  BY DEF Tick, past, IInv, TypeOK, PastIsPast, RunType, Time, Never
<1>3. NotYet'
  BY DEF Tick, past, IInv, TypeOK, NotYet, Never
<1>4. LeaseIsShort'
  BY ConstantsAssumption DEF Tick, past, IInv, TypeOK, LeaseIsShort, LockType, Time,
         Never
<1>5. DeadHolderLetsGo'
  BY DEF Tick, past, IInv, TypeOK, DeadHolderLetsGo, Never
<1>6. VerifiedBeforeLoss'
  BY DEF Tick, past, IInv, TypeOK, VerifiedBeforeLoss, Never
<1>7. VerifiedBeforeErasure'
  BY DEF Tick, past, IInv, TypeOK, VerifiedBeforeErasure, Never
<1> QED
  BY <1>1, <1>2, <1>3, <1>4, <1>5, <1>6, <1>7 DEF IInv

\* Closing the shop to the writes keeps the invariant.
LEMMA MarkKeeps ==
  ASSUME IInv, NEW x \in Runs, Mark(x)
  PROVE  IInv'
<1>1. CASE shop.life = "gone"
  BY <1>1, ClosingStep DEF Mark, past
<1>2. CASE shop.life # "gone"
  <2>1. TypeOK'
    <3>1. run' \in [Runs -> RunType]
      BY <1>2, MoveTypes DEF Mark, IInv, PCs
    <3> QED
      BY <1>2, <3>1 DEF Mark, IInv, TypeOK
  <2>2. /\ \A y \in Runs :
             /\ run'[y].pc = IF y = x THEN "marked" ELSE run[y].pc
             /\ run'[y].asked = run[y].asked /\ run'[y].checked = run[y].checked
             /\ run'[y].generation = run[y].generation
        /\ markedAt' = (IF markedAt = Never THEN now ELSE markedAt)
        /\ shop'.life = "erasing" /\ markedAt' # Never
        /\ run[x].pc = "permitted"
        /\ UNCHANGED <<now, lock, beats, lostAt, endedAt>>
    BY <1>2 DEF Mark, Goes, IInv, TypeOK, RunType, Time, Never
  <2>3. PastIsPast'
    BY <2>2 DEF IInv, TypeOK, PastIsPast, Time
  <2>4. NotYet' /\ LeaseIsShort' /\ DeadHolderLetsGo'
    BY <2>2 DEF IInv, NotYet, LeaseIsShort, DeadHolderLetsGo
  <2>5. VerifiedBeforeLoss'
    BY <2>2 DEF IInv, VerifiedBeforeLoss
  <2>6. VerifiedBeforeErasure'
    BY <2>2 DEF IInv, VerifiedBeforeErasure, PastIsPast
  <2> QED
    BY <2>1, <2>3, <2>4, <2>5, <2>6 DEF IInv
<1> QED
  BY <1>1, <1>2

-----------------------------------------------------------------------------
(* The invariant *)

\* The initial state satisfies the invariant.
LEMMA InitIInv == Init => IInv
<1> SUFFICES ASSUME Init PROVE IInv
  OBVIOUS
<1>1. Blank("idle", 0) \in RunType
  BY ConstantsAssumption DEF RunType, PCs, Blank, Never, Time
<1>2. TypeOK
  BY <1>1, ConstantsAssumption DEF Init, TypeOK, LockType, Free, Time, Never
<1>3. /\ \A x \in Runs : run[x].pc = "idle" /\ run[x].asked = 0 /\ run[x].checked = -Cache
      /\ \A x \in Runs : run[x].generation = Never
      /\ \A x \in Runs : lock.owner # x /\ lostAt[x] = Never /\ endedAt[x] = Never
      /\ \A x \in Runs : beats[x] = {}
      /\ lock.owner = NoRun /\ now = 0 /\ markedAt = Never /\ shop.life = "active"
  BY ConstantsAssumption DEF Init, Blank, Free
<1>4. PastIsPast /\ NotYet
  BY <1>3, ConstantsAssumption DEF PastIsPast, NotYet, Never
<1>5. LeaseIsShort /\ DeadHolderLetsGo /\ VerifiedBeforeLoss /\ VerifiedBeforeErasure
  BY <1>3 DEF LeaseIsShort, DeadHolderLetsGo, VerifiedBeforeLoss, VerifiedBeforeErasure
<1> QED
  BY <1>2, <1>4, <1>5 DEF IInv

\* Every step keeps the invariant: one lemma per action.
LEMMA StepIInv == IInv /\ [Next]_vars => IInv'
<1> SUFFICES ASSUME IInv, [Next]_vars PROVE IInv'
  OBVIOUS
<1>1. ASSUME NEW x \in Runs, Taking(x) PROVE IInv'
  BY <1>1, AskKeeps, AcquireKeeps, BusyKeeps, AskLostKeeps, OrphanLandsKeeps,
     ReadShopKeeps, EraserStartsKeeps, ReadShopFailsKeeps DEF Taking
<1>2. ASSUME NEW x \in Runs, Renewing(x) PROVE IInv'
  BY <1>2, BeatKeeps, InterruptKeeps, BeatLandsKeeps, BeatFailsKeeps DEF Renewing
<1>3. ASSUME NEW x \in Runs, Asserting(x) PROVE IInv'
  BY <1>3, AssertCachedKeeps, AssertAsksKeeps, AssertReadsLockKeeps,
     AssertReadsShopKeeps, AssertReturnsKeeps, AssertFailsKeeps DEF Asserting
<1>4. ASSUME NEW x \in Runs, Working(x) PROVE IInv'
  BY <1>4, WriteKeeps, MarkKeeps, EraseKeeps, EraseFailsKeeps, FinishKeeps,
     ReleaseKeeps, ReleaseFailsKeeps, CrashKeeps DEF Working
<1>5. CASE UNCHANGED vars
  BY <1>5 DEF vars, past, IInv, TypeOK, PastIsPast, NotYet, LeaseIsShort,
     DeadHolderLetsGo, VerifiedBeforeLoss, VerifiedBeforeErasure
<1> QED
  BY <1>1, <1>2, <1>3, <1>4, <1>5, PruneKeeps, TickKeeps DEF Next

\* The inductive invariant holds in every reachable state.
THEOREM LockInvariant == Spec => []IInv
<1> QED
  BY InitIInv, StepIInv, PTL DEF Spec

\* Every variable stays in its type.
THEOREM LockTypeCorrect == Spec => []TypeOK
<1>1. IInv => TypeOK
  BY DEF IInv
<1> QED
  BY <1>1, LockInvariant, PTL

\* An invocation that is over blocks the shop for one TTL at most.
THEOREM DeadHoldersLetGo == Spec => []DeadHolderLetsGo
<1>1. IInv => DeadHolderLetsGo
  BY DEF IInv
<1> QED
  BY <1>1, LockInvariant, PTL

-----------------------------------------------------------------------------
(* The lease *)

\* Only the run itself takes its row away while its lease is alive.
LEMMA LiveStep ==
  ASSUME IInv, [Next]_vars, NEW x \in Runs,
         lock.owner = x, lock.expires > now, lock'.owner # x
  PROVE  run[x].pc = "releasing" /\ run'[x].pc = "ended"
<1>1. ASSUME NEW y \in Runs, Acquire(y) \/ OrphanLands(y) PROVE FALSE
  BY <1>1, ConstantsAssumption
     DEF Acquire, OrphanLands, Takeable, IInv, TypeOK, LockType, RunType, PastIsPast, Time
<1>2. ASSUME NEW y \in Runs, Release(y)
      PROVE  run[x].pc = "releasing" /\ run'[x].pc = "ended"
  BY <1>2 DEF Release, AfterRelease, Mine, Closes, Blank, IInv, TypeOK
<1>3. ASSUME PruneExpired PROVE FALSE
  BY <1>3, ConstantsAssumption DEF PruneExpired, IInv, TypeOK, LockType, Time
<1>4. ASSUME NEW y \in Runs, NEW t \in beats[y], BeatLands(y, t) PROVE FALSE
  BY <1>4 DEF BeatLands, IInv, TypeOK, LockType
<1>5. ASSUME NEW y \in Runs,
             \/ Ask(y) \/ Busy(y) \/ AskLost(y)
             \/ ReadShop(y) \/ EraserStarts(y) \/ ReadShopFails(y)
             \/ Beat(y) \/ Interrupt(y) \/ \E t \in beats[y] : BeatFails(y, t)
             \/ Asserting(y)
             \/ Write(y) \/ Mark(y) \/ Erase(y) \/ EraseFails(y)
             \/ Finish(y) \/ ReleaseFails(y) \/ Crash(y)
      PROVE  FALSE
  <2>1. lock' = lock
    BY <1>5 DEF Ask, Busy, AskLost, ReadShop, EraserStarts, ReadShopFails, Beat,
                Interrupt, BeatFails, Asserting, AssertCached, AssertAsks,
                AssertReadsLock, AssertReadsShop, AssertReturns, AssertFails, Write,
                Mark, Erase, EraseFails, Finish, ReleaseFails, Crash
  <2> QED
    BY <2>1
<1>6. CASE Tick \/ UNCHANGED vars
  BY <1>6 DEF Tick, vars
<1> QED
  BY <1>1, <1>2, <1>3, <1>4, <1>5, <1>6 DEF Next, Taking, Renewing, Working

\* A live lease is never taken away by anybody but its owner.
THEOREM LiveLeasesAreSafe == Spec => LiveLeaseIsSafe
<1>1. IInv /\ [Next]_vars =>
        [\A x \in Runs :
           lock.owner = x /\ lock.expires > now /\ lock'.owner # x
           => run[x].pc = "releasing" /\ run'[x].pc = "ended"]_vars
  BY LiveStep
<1> QED
  BY <1>1, LockInvariant, PTL DEF Spec, LiveLeaseIsSafe

-----------------------------------------------------------------------------
(* The permits *)

\* A permit is given by assertHeld, out of its cache or after its reads.
LEMMA PermitSource ==
  ASSUME IInv, [Next]_vars, NEW x \in Runs, Permits(x)
  PROVE  AssertCached(x) \/ AssertReturns(x)
<1>1. ASSUME NEW y \in Runs, Taking(y) PROVE FALSE
  BY <1>1 DEF Taking, Ask, Acquire, Busy, AskLost, OrphanLands, ReadShop, EraserStarts,
              ReadShopFails, Goes, Closes, Blank, Permits, IInv, TypeOK, RunType
<1>2. ASSUME NEW y \in Runs, Renewing(y) PROVE FALSE
  BY <1>2 DEF Renewing, Beat, Interrupt, BeatLands, BeatFails, Halts, Permits, IInv,
              TypeOK, RunType
<1>3. ASSUME NEW y \in Runs, Working(y) PROVE FALSE
  BY <1>3 DEF Working, Write, Mark, Erase, EraseFails, Finish, Release, ReleaseFails,
              Crash, Goes, Closes, Blank, Permits, IInv, TypeOK, RunType
<1>4. ASSUME NEW y \in Runs,
             AssertAsks(y) \/ AssertReadsLock(y) \/ AssertReadsShop(y) \/ AssertFails(y)
      PROVE  FALSE
  BY <1>4 DEF AssertAsks, AssertReadsLock, AssertReadsShop, AssertFails, Throws, Goes,
              Closes, Blank, Permits, IInv, TypeOK, RunType
<1>5. ASSUME NEW y \in Runs, AssertCached(y) \/ AssertReturns(y)
      PROVE  y = x
  BY <1>5 DEF AssertCached, AssertReturns, Goes, Permits, IInv, TypeOK
<1>6. CASE PruneExpired \/ Tick \/ UNCHANGED vars
  BY <1>6 DEF PruneExpired, Tick, vars, Permits
<1> QED
  BY <1>1, <1>2, <1>3, <1>4, <1>5, <1>6 DEF Next, Asserting

\* Whoever lost the lock gets permits from verifications before the loss only.
THEOREM PermitsFollowLock == Spec => PermitFollowsLock
<1>1. ASSUME IInv, [Next]_vars, NEW x \in Runs, Permits(x)
      PROVE  \/ lostAt[x] = Never
             \/ run[x].pc # "working" /\ lostAt[x] >= run[x].asked
             \/ now < lostAt[x] + Cache
  <2>1. CASE AssertCached(x)
    BY <1>1, <2>1, ConstantsAssumption
       DEF AssertCached, IInv, TypeOK, RunType, Time, Never, VerifiedBeforeLoss
  <2>2. CASE AssertReturns(x)
    BY <1>1, <2>2 DEF AssertReturns, IInv, TypeOK, RunType, Time, VerifiedBeforeLoss
  <2> QED
    BY <1>1, <2>1, <2>2, PermitSource
<1>2. IInv /\ [Next]_vars =>
        [\A x \in Runs : Permits(x) =>
           \/ lostAt[x] = Never
           \/ run[x].pc # "working" /\ lostAt[x] >= run[x].asked
           \/ now < lostAt[x] + Cache]_vars
  BY <1>1
<1> QED
  BY <1>2, LockInvariant, PTL DEF Spec, PermitFollowsLock

\* And so for whoever found the shop open, when it is being erased.
THEOREM PermitsFollowErasure == Spec => PermitFollowsErasure
<1>1. ASSUME IInv, [Next]_vars, NEW x \in Runs \ Erasers, Permits(x),
             run[x].generation # Never
      PROVE  \/ markedAt = Never
             \/ run[x].pc # "working" /\ markedAt >= run[x].asked
             \/ now < markedAt + Cache
  <2>1. CASE AssertCached(x)
    BY <1>1, <2>1, ConstantsAssumption
       DEF AssertCached, IInv, TypeOK, RunType, Time, Never, VerifiedBeforeErasure
  <2>2. CASE AssertReturns(x)
    BY <1>1, <2>2 DEF AssertReturns, IInv, TypeOK, RunType, Time, VerifiedBeforeErasure
  <2> QED
    BY <1>1, <2>1, <2>2, PermitSource
<1>2. IInv /\ [Next]_vars =>
        [\A x \in Runs \ Erasers : Permits(x) /\ run[x].generation # Never =>
           \/ markedAt = Never
           \/ run[x].pc # "working" /\ markedAt >= run[x].asked
           \/ now < markedAt + Cache]_vars
  BY <1>1
<1> QED
  BY <1>2, LockInvariant, PTL DEF Spec, PermitFollowsErasure

-----------------------------------------------------------------------------
(* The lock implements ShopLease *)

\* Inside: between the answer that grants the lock and the end of the run.
Inside == PCs \ {"idle", "asking", "orphan", "ended"}

LEMMA Stages ==
  /\ \A pc \in Inside : Stage(pc) = "inside"
  /\ \A pc \in {"idle", "asking", "orphan"} : Stage(pc) = "waiting"
  /\ Stage("ended") = "over"
  BY DEF Inside, PCs, Stage

\* The stages after a step that gives one run another memory.
LEMMA StageStep ==
  ASSUME TypeOK, NEW x \in Runs, NEW m, run' = [run EXCEPT ![x] = m]
  PROVE  /\ Lease!MovesTo(x, Stage(m.pc))
         /\ Stage(m.pc) = Stage(run[x].pc) => UNCHANGED [y \in Runs |-> Stage(run[y].pc)]
<1>1. \A y \in Runs : run'[y] = IF y = x THEN m ELSE run[y]
  BY DEF TypeOK
<1>2. [y \in Runs |-> Stage(run'[y].pc)]
        = [[y \in Runs |-> Stage(run[y].pc)] EXCEPT ![x] = Stage(m.pc)]
  <2>1. \A y \in Runs :
          Stage(run'[y].pc) = IF y = x THEN Stage(m.pc) ELSE Stage(run[y].pc)
    BY <1>1
  <2> DEFINE after(y)  == Stage(run'[y].pc)
             before(y) == Stage(run[y].pc)
             s         == Stage(m.pc)
  <2>2. \A y \in Runs : after(y) = IF y = x THEN s ELSE before(y)
    BY <2>1
  <2> HIDE DEF after, before, s
  <2>3. [y \in Runs |-> after(y)] = [[y \in Runs |-> before(y)] EXCEPT ![x] = s]
    BY <2>2
  <2> QED
    BY <2>3 DEF after, before, s
<1>3. Lease!MovesTo(x, Stage(m.pc))
  BY <1>2 DEF Lease!MovesTo
<1>4. ASSUME Stage(m.pc) = Stage(run[x].pc)
      PROVE  UNCHANGED [y \in Runs |-> Stage(run[y].pc)]
  BY <1>1, <1>4
<1> QED
  BY <1>3, <1>4

\* The stages after the moves the actions are made of.
LEMMA MoveStage ==
  ASSUME TypeOK, NEW x \in Runs
  PROVE  /\ \A pc \in PCs : Goes(x, pc) \/ Closes(x, pc) => Lease!MovesTo(x, Stage(pc))
         /\ \A pc \in PCs : (Goes(x, pc) \/ Closes(x, pc)) /\ Stage(pc) = Stage(run[x].pc)
              => UNCHANGED [y \in Runs |-> Stage(run[y].pc)]
<1>1. ASSUME NEW pc \in PCs, Goes(x, pc)
      PROVE  /\ Lease!MovesTo(x, Stage(pc))
             /\ Stage(pc) = Stage(run[x].pc) => UNCHANGED [y \in Runs |-> Stage(run[y].pc)]
  <2> DEFINE m == [run[x] EXCEPT !.pc = pc]
  <2>1. run' = [run EXCEPT ![x] = m] /\ m.pc = pc
    BY <1>1 DEF Goes, TypeOK, RunType
  <2> HIDE DEF m
  <2> QED
    BY <2>1, StageStep
<1>2. ASSUME NEW pc \in PCs, Closes(x, pc)
      PROVE  /\ Lease!MovesTo(x, Stage(pc))
             /\ Stage(pc) = Stage(run[x].pc) => UNCHANGED [y \in Runs |-> Stage(run[y].pc)]
  <2> DEFINE m == Blank(pc, run[x].token)
  <2>1. run' = [run EXCEPT ![x] = m] /\ m.pc = pc
    BY <1>2 DEF Closes, Blank
  <2> HIDE DEF m
  <2> QED
    BY <2>1, StageStep
<1> QED
  BY <1>1, <1>2

\* A run that is inside, or one that waits, stays what it is under the other moves.
LEMMA StayStage ==
  ASSUME TypeOK, NEW x \in Runs,
         \A y \in Runs : y # x => run'[y] = run[y],
         Stage(run'[x].pc) = Stage(run[x].pc)
  PROVE  UNCHANGED [y \in Runs |-> Stage(run[y].pc)]
  OBVIOUS

\* A step that leaves clock, row and stages alone is none of the lease.
LEMMA Stutters ==
  ASSUME UNCHANGED <<now, lock>>, UNCHANGED [y \in Runs |-> Stage(run[y].pc)]
  PROVE  UNCHANGED Lease!vars
  BY DEF Lease!vars, Standing

\* Asking and being answered: the INSERT finds no lease that stands, whatever the
\* instant it carries, since that instant has passed.
LEMMA TakingLeases ==
  ASSUME IInv, NEW x \in Runs, Taking(x)
  PROVE  Lease!Next \/ UNCHANGED Lease!vars
<1>1. CASE Ask(x)
  <2>1. Stage(run'[x].pc) = Stage(run[x].pc)
    BY <1>1, Stages DEF Ask, IInv, TypeOK, RunType
  <2> QED
    BY <1>1, <2>1, StayStage, Stutters DEF Ask, IInv, TypeOK
<1>2. ASSUME Takeable(run[x].asked), run[x].pc \in {"asking", "orphan"}, UNCHANGED now,
             lock' = TakenBy(x)
      PROVE  /\ ~Standing /\ Standing' \in BOOLEAN /\ lock'.owner = x
             /\ Stage(run[x].pc) = "waiting"
  BY <1>2, Stages DEF Takeable, Standing, TakenBy, IInv, TypeOK, PastIsPast, LockType,
                     RunType, Time
<1>3. CASE Acquire(x)
  <2>1. Lease!MovesTo(x, "inside")
    <3> DEFINE m == [run[x] EXCEPT !.pc = "granted", !.token = lock.token + 1]
    <3>1. run' = [run EXCEPT ![x] = m] /\ m.pc = "granted"
      BY <1>3 DEF Acquire, IInv, TypeOK, RunType
    <3> HIDE DEF m
    <3> QED
      BY <3>1, StageStep, Stages DEF IInv, Inside, PCs
  <2>2. Lease!Take(x)
    BY <1>2, <1>3, <2>1 DEF Acquire, Lease!Take
  <2> QED
    BY <2>2 DEF Lease!Next
<1>4. CASE OrphanLands(x)
  <2>1. Lease!MovesTo(x, "over")
    BY <1>4, MoveStage, Stages DEF OrphanLands, IInv, PCs
  <2>2. Lease!Take(x)
    BY <1>2, <1>4, <2>1 DEF OrphanLands, Lease!Take
  <2> QED
    BY <2>2 DEF Lease!Next
<1>5. CASE Busy(x)
  <2>1. Lease!MovesTo(x, "over") /\ Stage(run[x].pc) = "waiting"
    BY <1>5, MoveStage, Stages DEF Busy, IInv, PCs
  <2>2. Lease!TurnedAway(x)
    BY <1>5, <2>1 DEF Busy, Takeable, Lease!TurnedAway, Standing
  <2> QED
    BY <2>2 DEF Lease!Next
<1>6. CASE AskLost(x)
  BY <1>6, MoveStage, Stages, Stutters DEF AskLost, IInv, PCs
<1>7. CASE ReadShop(x) \/ EraserStarts(x) \/ ReadShopFails(x)
  <2>1. /\ \A y \in Runs : y # x => run'[y] = run[y]
        /\ run[x].pc = "granted" /\ run'[x].pc \in {"working", "releasing"}
    BY <1>7 DEF ReadShop, EraserStarts, ReadShopFails, Closes, Goes, Blank, IInv, TypeOK,
                RunType
  <2>2. Stage(run'[x].pc) = Stage(run[x].pc)
    BY <2>1, Stages DEF Inside, PCs
  <2>3. UNCHANGED <<now, lock>>
    BY <1>7 DEF ReadShop, EraserStarts, ReadShopFails
  <2> QED
    BY <2>1, <2>2, <2>3, StayStage, Stutters DEF IInv
<1> QED
  BY <1>1, <1>3, <1>4, <1>5, <1>6, <1>7 DEF Taking

\* A heartbeat only renews the lease of its sender; that of a former holder finds no
\* row of its own.  A late one may carry an expiry that has passed.
LEMMA RenewingLeases ==
  ASSUME IInv, NEW x \in Runs, Renewing(x)
  PROVE  Lease!Next \/ UNCHANGED Lease!vars
<1>1. CASE Beat(x) \/ \E t \in beats[x] : BeatFails(x, t)
  BY <1>1, Stutters DEF Beat, BeatFails
<1>2. ASSUME Halts(x)
      PROVE  UNCHANGED [y \in Runs |-> Stage(run[y].pc)]
  <2>1. /\ \A y \in Runs : y # x => run'[y] = run[y]
        /\ run'[x].pc = run[x].pc
    BY <1>2 DEF Halts, IInv, TypeOK, RunType
  <2> QED
    BY <2>1, StayStage DEF IInv
<1>3. CASE Interrupt(x)
  BY <1>2, <1>3, Stutters DEF Interrupt
<1>4. ASSUME NEW t \in beats[x], BeatLands(x, t), Mine(x)
      PROVE  Lease!Next \/ UNCHANGED Lease!vars
  <2>1. /\ lock.owner = x /\ lock'.owner = x
        /\ UNCHANGED [y \in Runs |-> Stage(run[y].pc)]
    BY <1>4 DEF BeatLands, Mine, IInv, TypeOK, LockType
  <2>2. Stage(run[x].pc) # "waiting"
    <3>1. run[x].pc \in Inside \cup {"ended"}
      BY <2>1 DEF IInv, NotYet, TypeOK, RunType, Inside
    <3> QED
      BY <3>1, Stages
  <2>3. CASE Standing'
    <3>1. Lease!Renew(x)
      BY <2>1, <2>2, <2>3 DEF Lease!Renew
    <3> QED
      BY <3>1 DEF Lease!Next
  <2>4. CASE ~Standing'
    <3>1. Lease!Lapse
      BY <2>1, <2>4 DEF Lease!Lapse, Standing
    <3> QED
      BY <3>1 DEF Lease!Next
  <2> QED
    BY <2>3, <2>4
<1>5. ASSUME NEW t \in beats[x], BeatLands(x, t), ~Mine(x)
      PROVE  UNCHANGED Lease!vars
  <2>1. UNCHANGED <<now, lock>> /\ (UNCHANGED run \/ Halts(x))
    BY <1>5 DEF BeatLands
  <2> QED
    BY <1>2, <2>1, Stutters
<1> QED
  BY <1>1, <1>3, <1>4, <1>5 DEF Renewing

\* assertHeld reads, and gives nothing back, even when it throws.
LEMMA AssertingLeases ==
  ASSUME IInv, NEW x \in Runs, Asserting(x)
  PROVE  UNCHANGED Lease!vars
<1>1. UNCHANGED <<now, lock>>
  BY DEF Asserting, AssertCached, AssertAsks, AssertReadsLock, AssertReadsShop,
         AssertReturns, AssertFails
<1>2. /\ \A y \in Runs : y # x => run'[y] = run[y]
      /\ run[x].pc \in {"working", "checkingLock", "checkingShop", "verified"}
      /\ run'[x].pc \in {"working", "checkingLock", "checkingShop", "verified",
                          "permitted", "releasing"}
  BY DEF Asserting, AssertCached, AssertAsks, AssertReadsLock, AssertReadsShop,
         AssertReturns, AssertFails, Throws, Goes, Closes, Blank, IInv, TypeOK, RunType
<1>3. Stage(run'[x].pc) = Stage(run[x].pc)
  BY <1>2, Stages DEF Inside, PCs
<1> QED
  BY <1>1, <1>2, <1>3, StayStage, Stutters DEF IInv

\* A run at work changes nothing of the lease until it ends, and then only its own.
LEMMA WorkingLeases ==
  ASSUME IInv, NEW x \in Runs, Working(x)
  PROVE  Lease!Next \/ UNCHANGED Lease!vars
<1>1. CASE Write(x) \/ Mark(x) \/ Erase(x) \/ EraseFails(x) \/ Finish(x)
  <2>1. UNCHANGED <<now, lock>>
    BY <1>1 DEF Write, Mark, Erase, EraseFails, Finish
  <2>2. /\ \A y \in Runs : y # x => run'[y] = run[y]
        /\ run[x].pc \in {"permitted", "marked", "working"}
        /\ run'[x].pc \in {"working", "marked", "releasing"}
    BY <1>1 DEF Write, Mark, Erase, EraseFails, Finish, Goes, Closes, Blank, IInv, TypeOK,
                RunType
  <2>3. Stage(run'[x].pc) = Stage(run[x].pc)
    BY <2>2, Stages DEF Inside, PCs
  <2> QED
    BY <2>1, <2>2, <2>3, StayStage, Stutters DEF IInv
<1>2. ASSUME Closes(x, "ended"), run[x].pc \in Inside
      PROVE  Lease!MovesTo(x, "over") /\ Stage(run[x].pc) = "inside"
  BY <1>2, MoveStage, Stages DEF IInv, PCs
<1>3. CASE ReleaseFails(x) \/ Crash(x)
  <2>1. /\ UNCHANGED <<now, lock>> /\ Closes(x, "ended")
        /\ run[x].pc \in Inside
    BY <1>3 DEF ReleaseFails, Crash, Inside, IInv, TypeOK, RunType, PCs
  <2>2. Lease!Leave(x)
    BY <1>2, <2>1 DEF Lease!Leave, Standing
  <2> QED
    BY <2>2 DEF Lease!Next
<1>4. CASE Release(x)
  <2>1. /\ UNCHANGED now /\ Closes(x, "ended")
        /\ run[x].pc \in Inside /\ lock' = AfterRelease(x)
    BY <1>4 DEF Release, Inside, PCs
  <2>2. CASE Mine(x)
    <3>1. lock.owner = x /\ lock'.owner = NoRun /\ ~Standing'
      BY <2>1, <2>2 DEF Mine, AfterRelease, Free, Standing
    <3>2. Lease!Release(x)
      BY <1>2, <2>1, <3>1 DEF Lease!Release
    <3> QED
      BY <3>2 DEF Lease!Next
  <2>3. CASE ~Mine(x)
    <3>1. Lease!Leave(x)
      BY <1>2, <2>1, <2>3 DEF Lease!Leave, AfterRelease, Standing
    <3> QED
      BY <3>1 DEF Lease!Next
  <2> QED
    BY <2>2, <2>3
<1> QED
  BY <1>1, <1>3, <1>4 DEF Working

\* The cron only removes what has run out, and time only makes a lease run out.
LEMMA CronLeases ==
  ASSUME IInv, PruneExpired \/ Tick
  PROVE  Lease!Next \/ UNCHANGED Lease!vars
<1>1. UNCHANGED [y \in Runs |-> Stage(run[y].pc)]
  BY DEF PruneExpired, Tick
<1>2. CASE PruneExpired
  <2>1. Standing = FALSE /\ Standing' = FALSE /\ lock'.owner = NoRun
    BY <1>2, ConstantsAssumption
       DEF PruneExpired, Standing, Free, IInv, TypeOK, LockType, Time
  <2>2. Lease!Prune
    BY <1>1, <2>1 DEF Lease!Prune
  <2> QED
    BY <2>2 DEF Lease!Next
<1>3. CASE Tick
  <2>1. UNCHANGED lock /\ (Standing' => Standing)
    BY <1>3 DEF Tick, Standing, IInv, TypeOK, LockType, Time
  <2>2. CASE Standing' = Standing
    BY <1>1, <2>1, <2>2 DEF Lease!vars
  <2>3. CASE ~Standing'
    BY <1>1, <2>1, <2>3 DEF Lease!Lapse, Lease!Next
  <2> QED
    BY <2>1, <2>2, <2>3
<1> QED
  BY <1>2, <1>3

\* Every step of the lock is one of the lease, or none of its.
LEMMA LeaseStep ==
  ASSUME IInv, [Next]_vars
  PROVE  Lease!Next \/ UNCHANGED Lease!vars
<1>1. CASE UNCHANGED vars
  BY <1>1, Stutters DEF vars
<1> QED
  BY <1>1, TakingLeases, RenewingLeases, AssertingLeases, WorkingLeases, CronLeases
     DEF Next

\* Every behaviour of the lock is one of ShopLease.
THEOREM LockImplementsLease == Spec => ImplementsShopLease
<1>1. Init => Lease!Init
  <2> SUFFICES ASSUME Init PROVE Lease!Init
    OBVIOUS
  <2>1. lock.owner = NoRun /\ Standing = FALSE
    BY DEF Init, Free, Standing
  <2>2. [y \in Runs |-> Stage(run[y].pc)] = [y \in Runs |-> "waiting"]
    BY Stages DEF Init, Blank
  <2> QED
    BY <2>1, <2>2 DEF Lease!Init
<1>2. IInv /\ [Next]_vars => [Lease!Next]_(Lease!vars)
  BY LeaseStep
<1> QED
  BY <1>1, <1>2, LockInvariant, PTL DEF Spec, ImplementsShopLease, Lease!Spec

\* Whoever lost the lock never has it again: as steps of ShopLease, only that of a
\* run that waits gives the shop to anybody.
THEOREM LostLocksAreLost == Spec => LostIsLost
<1>1. ASSUME IInv, [Next]_vars, NEW x \in Runs,
             Stage(run[x].pc) # "waiting", lock.owner # x
      PROVE  lock'.owner # x
  <2>1. [y \in Runs |-> Stage(run[y].pc)][x] # "waiting"
    BY <1>1
  <2>2. x # NoRun
    BY ConstantsAssumption
  <2>3. ASSUME NEW y \in Runs, Lease!Take(y) PROVE lock'.owner # x
    BY <2>1, <2>3 DEF Lease!Take
  <2>4. ASSUME NEW y \in Runs,
               Lease!TurnedAway(y) \/ Lease!Renew(y) \/ Lease!Release(y) \/ Lease!Leave(y)
        PROVE  lock'.owner # x
    BY <1>1, <2>2, <2>4 DEF Lease!TurnedAway, Lease!Renew, Lease!Release, Lease!Leave
  <2>5. CASE Lease!Lapse \/ Lease!Prune \/ UNCHANGED Lease!vars
    BY <1>1, <2>2, <2>5 DEF Lease!Lapse, Lease!Prune, Lease!vars
  <2> QED
    BY <1>1, <2>3, <2>4, <2>5, LeaseStep DEF Lease!Next
<1>2. IInv /\ [Next]_vars =>
        [\A x \in Runs :
           Stage(run[x].pc) # "waiting" /\ lock.owner # x => lock'.owner # x]_vars
  BY <1>1
<1> QED
  BY <1>2, LockInvariant, PTL DEF Spec, LostIsLost
=============================================================================
