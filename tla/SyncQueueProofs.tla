--------------------------- MODULE SyncQueueProofs ---------------------------
(***************************************************************************)
(* Theorems about SyncQueue, for any requests, drains, shops and bounds.   *)
(***************************************************************************)
EXTENDS SyncQueue, TLAPS

\* The initial state satisfies the inductive invariant.
LEMMA InitIInv == Init => IInv
  BY ConstantsAssumption
  DEF Init, IInv, TypeOK, LeaseShape, MemoryIsSound, Current, Earned, CompletedWasRun,
      DeadLetterEarned, NewRow, Off, RowType, DrainType, Statuses, PCs, Plans

\* The next token of a row is a token.
LEMMA FreshIsToken ==
  ASSUME TypeOK, NEW r \in Requests
  PROVE  Fresh(r) \in Tokens
<1> DEFINE f == [d \in Drains |-> IF drain[d].job = r THEN drain[d].token ELSE NoToken]
<1>1. f \in [Drains -> Tokens \cup {NoToken}]
  BY DEF TypeOK, DrainType
<1>2. PICK t \in Tokens : \A d \in Drains : f[d] # t
  BY <1>1, TokensAssumption
<1>3. \A d \in Drains : drain[d].job = r => drain[d].token # t
  BY <1>2
<1> QED
  BY <1>3 DEF Fresh

\* A claim leaves a row of the right type.
LEMMA TakenType ==
  ASSUME TypeOK, NEW d \in Drains, NEW r \in Requests
  PROVE  /\ Taken(d, r) \in RowType
         /\ Taken(d, r).status = "processing"
         /\ Taken(d, r).owner = d
         /\ Taken(d, r).token = Fresh(r)
         /\ Taken(d, r).attempts = row[r].attempts + 1
  BY FreshIsToken DEF TypeOK, RowType, Taken, Statuses

\* A closing statement leaves a row of the right type, without a lease, with the
\* attempts it had, or one less when it was given back.
LEMMA ClosedType ==
  ASSUME TypeOK, NEW r \in Requests, NEW plan \in Plans \ {"none"}, row[r].attempts > 0
  PROVE  /\ Closed(r, plan) \in RowType
         /\ Closed(r, plan).owner = NoDrain
         /\ Closed(r, plan).status # "processing"
         /\ Closed(r, plan).status = "completed" => plan = "complete"
         /\ Closed(r, plan).status = "dead_letter" =>
              plan = "deadLetter" /\ Closed(r, plan).attempts = row[r].attempts
  BY DEF TypeOK, RowType, Closed, StatusAfter, Releases, Statuses, Plans

\* What a step that claims nothing may do to a row: it takes a lease away or
\* leaves it as it is, and closes the row only with an outcome that is deserved.
RowKept(r) ==
  /\ row'[r].owner # NoDrain <=> row'[r].status = "processing"
  /\ row'[r].owner # NoDrain =>
       /\ row'[r].owner = row[r].owner
       /\ row'[r].token = row[r].token
       /\ row'[r].attempts = row[r].attempts
  /\ row'[r].status = "completed" => ran[r]
  /\ row'[r].status = "dead_letter" => Refused(r) \/ Exhausted(row'[r].attempts)

\* A step that claims nothing, gives every row a deserved state and leaves every
\* drain with a sound memory keeps the invariant.
LEMMA KeptStep ==
  ASSUME IInv, TypeOK', UNCHANGED ran,
         \A r \in Requests : RowKept(r),
         \A e \in Drains :
           drain'[e] = drain[e] \/ (Current(e, drain'[e]) /\ Earned(e, drain'[e]))
  PROVE  IInv'
<1>1. ASSUME NEW e \in Drains PROVE (Current(e, drain[e]) /\ Earned(e, drain[e]))'
  <2>1. Current(e, drain'[e]) /\ Earned(e, drain'[e])
    BY <1>1 DEF IInv, MemoryIsSound
  <2>2. drain'[e].job \in Requests \cup {NoRequest}
    BY <1>1 DEF TypeOK, DrainType
  <2>3. CASE drain'[e].job = NoRequest
    BY <2>1, <2>3, ConstantsAssumption DEF Current, Earned
  <2>4. CASE drain'[e].job \in Requests
    <3>1. RowKept(drain'[e].job)
      BY <2>4
    <3>2. Holds(e, drain[e])' => Holds(e, drain'[e])
      BY <3>1, <1>1, ConstantsAssumption DEF RowKept, Holds
    <3>3. Holds(e, drain[e])' => row'[drain'[e].job].attempts = row[drain'[e].job].attempts
      BY <3>1, <1>1, ConstantsAssumption DEF RowKept, Holds
    <3> QED
      BY <2>1, <3>2, <3>3 DEF Current, Earned
  <2> QED
    BY <2>2, <2>3, <2>4
<1>2. MemoryIsSound'
  BY <1>1 DEF MemoryIsSound
<1>3. LeaseShape' /\ CompletedWasRun' /\ DeadLetterEarned'
  BY DEF LeaseShape, CompletedWasRun, DeadLetterEarned, RowKept
<1> QED
  BY <1>2, <1>3 DEF IInv

\* The special case of a step that only changes the memory of one drain.
LEMMA DrainStep ==
  ASSUME IInv, NEW d \in Drains, NEW m \in DrainType, Current(d, m), Earned(d, m),
         drain' = [drain EXCEPT ![d] = m], UNCHANGED <<row, shops, ran>>,
         faults' \in 0 .. MaxFaults
  PROVE  IInv'
<1>1. TypeOK'
  BY DEF IInv, TypeOK
<1>2. \A r \in Requests : RowKept(r)
  BY DEF IInv, RowKept, LeaseShape, CompletedWasRun, DeadLetterEarned
<1>3. \A e \in Drains :
        drain'[e] = drain[e] \/ (Current(e, drain'[e]) /\ Earned(e, drain'[e]))
  BY DEF IInv, TypeOK
<1> QED
  BY <1>1, <1>2, <1>3, KeptStep

\* The special case of a step that leaves the drains alone.
LEMMA TableStep ==
  ASSUME IInv, row' \in [Requests -> RowType], UNCHANGED <<drain, ran>>,
         shops' \subseteq Shops, faults' \in 0 .. MaxFaults,
         \A r \in Requests : RowKept(r)
  PROVE  IInv'
<1>1. TypeOK'
  BY DEF IInv, TypeOK
<1> QED
  BY <1>1, KeptStep

\* A misfortune stays within its bound.
LEMMA MisfortuneType == ASSUME TypeOK, Misfortune PROVE faults' \in 0 .. MaxFaults
  BY ConstantsAssumption DEF TypeOK, Misfortune

\* The memories that the steps of a drain leave behind have their type.
LEMMA OffType == Off \in DrainType
  BY ConstantsAssumption DEF DrainType, Off, PCs, Plans

\* A drain that goes back to its loop keeps nothing of the row it worked.
LEMMA LoopType ==
  ASSUME NEW stop \in BOOLEAN, NEW taken \in 0 .. ClaimBatch
  PROVE  [Off EXCEPT !.pc = "loop", !.stop = stop, !.taken = taken] \in DrainType
  BY ConstantsAssumption DEF DrainType, Off, PCs, Plans

\* The memory of a drain that has just claimed a row has its type.
LEMMA ClaimedType ==
  ASSUME NEW r \in Requests, NEW token \in Tokens, NEW seen \in Nat,
         NEW taken \in 0 .. ClaimBatch
  PROVE  [Off EXCEPT !.pc = "claimed", !.job = r, !.token = token, !.seen = seen,
                     !.taken = taken] \in DrainType
  BY DEF DrainType, Off, PCs, Plans

\* So has a memory that only moves on.
LEMMA PcType ==
  ASSUME NEW m \in DrainType, NEW pc \in PCs
  PROVE  [m EXCEPT !.pc = pc] \in DrainType
  BY DEF DrainType

\* And one that plans a statement too.
LEMMA PlanType ==
  ASSUME NEW m \in DrainType, NEW pc \in PCs, NEW plan \in Plans
  PROVE  [m EXCEPT !.pc = pc, !.plan = plan] \in DrainType
  BY DEF DrainType

-----------------------------------------------------------------------------
(* The steps that only touch the table *)

\* The producers only add rows nobody holds.
LEMMA ArrivalKeeps ==
  ASSUME IInv, NEW r \in Requests, Enqueue(r) \/ ForeignRow(r)
  PROVE  IInv'
<1>1. row' \in [Requests -> RowType] /\ \A q \in Requests : RowKept(q)
  BY DEF IInv, TypeOK, RowType, Statuses, LeaseShape, CompletedWasRun, DeadLetterEarned,
         RowKept, Enqueue, ForeignRow
<1> QED
  BY <1>1, TableStep DEF IInv, TypeOK, Enqueue, ForeignRow

\* Time only raises a flag of a row.
LEMMA TimeKeeps ==
  ASSUME IInv, NEW r \in Requests, BecomeDue(r) \/ ExpireOrphan(r) \/ ExpireHeld(r)
  PROVE  IInv'
<1>1. row' \in [Requests -> RowType] /\ \A q \in Requests : RowKept(q)
  <2>1. ASSUME row' = [row EXCEPT ![r].due = TRUE] \/ row' = [row EXCEPT ![r].expired = TRUE]
        PROVE  row' \in [Requests -> RowType] /\ \A q \in Requests : RowKept(q)
    <3>1. row' \in [Requests -> RowType]
      <4>1. row[r] \in RowType
        BY DEF IInv, TypeOK
      <4>2. [row[r] EXCEPT !.due = TRUE] \in RowType /\ [row[r] EXCEPT !.expired = TRUE] \in RowType
        BY <4>1 DEF RowType
      <4> QED
        BY <2>1, <4>2 DEF IInv, TypeOK
    <3>2. ASSUME NEW q \in Requests
          PROVE  /\ row'[q].status = row[q].status /\ row'[q].owner = row[q].owner
                 /\ row'[q].token = row[q].token /\ row'[q].attempts = row[q].attempts
      BY <2>1 DEF IInv, TypeOK, RowType
    <3> QED
      BY <3>1, <3>2 DEF IInv, LeaseShape, CompletedWasRun, DeadLetterEarned, RowKept
  <2> QED
    BY <2>1 DEF BecomeDue, ExpireOrphan, ExpireHeld
<1>2. faults' \in 0 .. MaxFaults
  BY MisfortuneType DEF IInv, TypeOK, BecomeDue, ExpireOrphan, ExpireHeld
<1> QED
  BY <1>1, <1>2, TableStep DEF IInv, TypeOK, BecomeDue, ExpireOrphan, ExpireHeld

\* Replay, retention and erasure take no lease and leave none behind.
LEMMA UpkeepKeeps ==
  ASSUME IInv,
         \/ \E S \in SUBSET Requests : Replay(S) \/ Prune(S)
         \/ \E s \in Shops : EraseShop(s)
  PROVE  IInv'
<1>1. CASE \E S \in SUBSET Requests : Replay(S)
  <2>1. PICK S \in SUBSET Requests : Replay(S)
    BY <1>1
  <2>2. ASSUME NEW q \in Requests PROVE row'[q] \in RowType /\ RowKept(q)
    <3>1. row[q] \in RowType
      BY DEF IInv, TypeOK
    <3>2. CASE q \in S
      BY <2>1, <3>1, <3>2 DEF RowType, Statuses, Replay, RowKept
    <3>3. CASE ~(q \in S)
      BY <2>1, <3>1, <3>3
      DEF Replay, RowKept, IInv, LeaseShape, CompletedWasRun, DeadLetterEarned
    <3> QED
      BY <3>2, <3>3
  <2>3. row' \in [Requests -> RowType] /\ \A q \in Requests : RowKept(q)
    BY <2>1, <2>2 DEF Replay
  <2> QED
    BY <2>1, <2>3, TableStep, MisfortuneType DEF IInv, TypeOK, Replay
<1>2. CASE \E S \in SUBSET Requests : Prune(S)
  <2>1. PICK S \in SUBSET Requests : Prune(S)
    BY <1>2
  <2>2. row' \in [Requests -> RowType]
    BY <2>1 DEF IInv, TypeOK, RowType, Statuses, Prune
  <2>3. \A q \in Requests : RowKept(q)
    BY <2>1 DEF IInv, TypeOK, RowType, LeaseShape, CompletedWasRun, DeadLetterEarned,
                RowKept, Prune
  <2> QED
    BY <2>1, <2>2, <2>3, TableStep DEF IInv, TypeOK, Prune
<1>3. CASE \E s \in Shops : EraseShop(s)
  <2>1. PICK s \in Shops : EraseShop(s)
    BY <1>3
  <2>2. ASSUME NEW q \in Requests PROVE row'[q] \in RowType /\ RowKept(q)
    <3>1. row[q] \in RowType
      BY DEF IInv, TypeOK
    <3>2. CASE ShopOf[q] = s /\ row[q].status \in InTable
      BY <2>1, <3>1, <3>2 DEF RowType, Statuses, EraseShop, RowKept
    <3>3. CASE ~(ShopOf[q] = s /\ row[q].status \in InTable)
      BY <2>1, <3>1, <3>3
      DEF EraseShop, RowKept, IInv, LeaseShape, CompletedWasRun, DeadLetterEarned
    <3> QED
      BY <3>2, <3>3
  <2>3. row' \in [Requests -> RowType] /\ \A q \in Requests : RowKept(q)
    BY <2>1, <2>2 DEF EraseShop
  <2> QED
    BY <2>1, <2>3, TableStep DEF IInv, TypeOK, EraseShop
<1> QED
  BY <1>1, <1>2, <1>3

-----------------------------------------------------------------------------
(* The steps that only touch the memory of a drain *)

\* Starting, ending and dying leave an idle memory.
LEMMA IdleKeeps ==
  ASSUME IInv, NEW d \in Drains, Start(d) \/ EndDrain(d) \/ Crash(d)
  PROVE  IInv'
<1>1. Current(d, Off) /\ Earned(d, Off)
  BY DEF Current, Earned, Off
<1>2. Current(d, [Off EXCEPT !.pc = "loop"]) /\ Earned(d, [Off EXCEPT !.pc = "loop"])
  BY DEF Current, Earned, Off
<1>3. [Off EXCEPT !.pc = "loop"] \in DrainType
  BY OffType, PcType DEF PCs
<1>4. CASE Start(d)
  BY <1>2, <1>3, <1>4, DrainStep DEF Start, IInv, TypeOK
<1>5. CASE EndDrain(d)
  BY <1>1, <1>5, OffType, DrainStep DEF EndDrain, IInv, TypeOK
<1>6. CASE Crash(d)
  BY <1>1, <1>6, OffType, DrainStep, MisfortuneType DEF Crash, IInv, TypeOK
<1> QED
  BY <1>4, <1>5, <1>6

\* A shutdown or the time limit only raise a flag.
LEMMA FlagKeeps ==
  ASSUME IInv, NEW d \in Drains, Shutdown(d) \/ TimeUp(d)
  PROVE  IInv'
<1> DEFINE s == [drain[d] EXCEPT !.stop = TRUE]
           t == [drain[d] EXCEPT !.timedOut = TRUE]
<1>1. drain[d] \in DrainType /\ Current(d, drain[d]) /\ Earned(d, drain[d])
  BY DEF IInv, TypeOK, MemoryIsSound
<1>2. s \in DrainType /\ t \in DrainType
  BY <1>1 DEF DrainType
<1>3. Current(d, s) /\ Earned(d, s) /\ Current(d, t) /\ Earned(d, t)
  BY <1>1 DEF DrainType, Current, Earned, Holds
<1>4. CASE Shutdown(d)
  BY <1>2, <1>3, <1>4, DrainStep, MisfortuneType DEF Shutdown, IInv
<1>5. CASE TimeUp(d)
  <2>1. faults' \in 0 .. MaxFaults
    BY <1>5, MisfortuneType DEF TimeUp, IInv, TypeOK
  <2> QED
    BY <1>2, <1>3, <1>5, <2>1, DrainStep DEF TimeUp
<1> QED
  BY <1>4, <1>5

\* Beginning the work only moves the drain on.
LEMMA MoveKeeps ==
  ASSUME IInv, NEW d \in Drains, Begin(d) \/ LockGranted(d)
  PROVE  IInv'
<1>1. drain[d] \in DrainType /\ Current(d, drain[d])
  BY DEF IInv, TypeOK, MemoryIsSound
<1>2. ASSUME NEW pc \in {"locking", "running"}, drain[d].pc \in {"claimed", "locking"},
             drain' = [drain EXCEPT ![d].pc = pc], UNCHANGED <<row, shops, ran, faults>>
      PROVE  IInv'
  <2> DEFINE m == [drain[d] EXCEPT !.pc = pc]
  <2>1. m \in DrainType
    BY <1>1, PcType DEF PCs
  <2>2. Current(d, m) /\ Earned(d, m)
    BY <1>1, <1>2 DEF DrainType, Current, Earned, Holds
  <2>3. faults' \in 0 .. MaxFaults
    BY <1>2 DEF IInv, TypeOK
  <2> QED
    BY <1>2, <2>1, <2>2, <2>3, DrainStep
<1> QED
  BY <1>2 DEF Begin, LockGranted

\* A plan that is neither "complete" nor an undeserved dead letter may be made.
LEMMA PlanKeeps ==
  ASSUME IInv, NEW d \in Drains, NEW pc \in {"settling", "lastWord"},
         NEW plan \in {"releaseNow", "releaseLater", "reschedule", "deadLetter"},
         drain[d].pc \notin {"off", "loop"}, PlanNext(d, pc, plan),
         plan = "deadLetter" => Refused(drain[d].job) \/ Exhausted(drain[d].seen),
         UNCHANGED <<row, shops, ran>>, faults' \in 0 .. MaxFaults
  PROVE  IInv'
<1> DEFINE m == [drain[d] EXCEPT !.pc = pc, !.plan = plan]
<1>1. drain[d] \in DrainType /\ Current(d, drain[d])
  BY DEF IInv, TypeOK, MemoryIsSound
<1>2. m \in DrainType
  BY <1>1, PlanType DEF PCs, Plans
<1>3. Current(d, m) /\ Earned(d, m)
  BY <1>1 DEF DrainType, Current, Earned, Holds
<1> QED
  BY <1>2, <1>3, DrainStep DEF PlanNext

\* The refusals and the failures plan what is deserved.
LEMMA PlanningKeeps ==
  ASSUME IInv, NEW d \in Drains,
         \/ TurnBack(d) \/ Refuse(d) \/ LockBusy(d) \/ LockUnavailable(d) \/ LockAborted(d)
         \/ HandlerFails(d) \/ HandlerObeys(d)
  PROVE  IInv'
<1>1. faults' \in 0 .. MaxFaults
  BY MisfortuneType
  DEF IInv, TypeOK, TurnBack, Refuse, LockBusy, LockUnavailable, LockAborted, HandlerFails, HandlerObeys
<1> QED
  BY <1>1, PlanKeeps
  DEF TurnBack, Refuse, LockBusy, LockUnavailable, LockAborted, HandlerFails, HandlerObeys, PlanAfterFailure

-----------------------------------------------------------------------------
(* The claims, the end of a handler, the heartbeat and the statements *)

\* A claim takes every memory of the row away from the other drains, and gives
\* its own drain a memory that agrees with the row.
LEMMA TakingKeeps ==
  ASSUME IInv, NEW d \in Drains, NEW r \in Requests, NEW m \in DrainType,
         row' = [row EXCEPT ![r] = Taken(d, r)], ran' = [ran EXCEPT ![r] = FALSE],
         drain' = [drain EXCEPT ![d] = m],
         \/ m.pc = "off" /\ m.job = NoRequest
         \/ /\ m.pc = "claimed" /\ m.job = r
            /\ m.seen = row[r].attempts + 1,
         UNCHANGED shops, faults' \in 0 .. MaxFaults
  PROVE  IInv'
<1>1. row[r] \in RowType /\ row \in [Requests -> RowType]
  BY DEF IInv, TypeOK
<1>2. TypeOK'
  BY TakenType DEF IInv, TypeOK
<1>3. LeaseShape' /\ CompletedWasRun' /\ DeadLetterEarned'
  BY <1>1, TakenType, ConstantsAssumption
  DEF IInv, TypeOK, LeaseShape, CompletedWasRun, DeadLetterEarned
<1>4. ASSUME NEW e \in Drains PROVE (Current(e, drain[e]) /\ Earned(e, drain[e]))'
  <2>1. CASE e = d
    <3>1. drain'[e] = m
      BY <2>1 DEF IInv, TypeOK
    <3>2. Current(e, m)'
      BY <2>1, <1>1, ConstantsAssumption DEF Current, Holds, Taken, RowType
    <3>3. Earned(e, m)'
      BY DEF Earned
    <3> QED
      BY <3>1, <3>2, <3>3 DEF Current, Earned, Holds
  <2>2. CASE e # d
    <3>1. drain'[e] = drain[e] /\ Current(e, drain[e]) /\ Earned(e, drain[e])
      BY <2>2 DEF IInv, TypeOK, MemoryIsSound
    <3>2. drain[e].job \in Requests \cup {NoRequest}
      BY DEF IInv, TypeOK, DrainType
    <3>3. CASE drain[e].job = r
      <4>1. ~Holds(e, drain[e])'
        BY <1>1, <2>2, <3>1, <3>3 DEF Holds, Taken
      <4> QED
        BY <3>1, <3>3, <4>1, ConstantsAssumption DEF Current, Earned
    <3>4. CASE drain[e].job = NoRequest
      BY <3>1, <3>4 DEF Current, Earned
    <3>5. CASE drain[e].job \in Requests \ {r}
      <4>1. row'[drain[e].job] = row[drain[e].job] /\ ran'[drain[e].job] = ran[drain[e].job]
        BY <3>5 DEF IInv, TypeOK
      <4> QED
        BY <3>1, <4>1 DEF Current, Earned, Holds
    <3> QED
      BY <3>2, <3>3, <3>4, <3>5
  <2> QED
    BY <2>1, <2>2
<1> QED
  BY <1>2, <1>3, <1>4 DEF IInv, MemoryIsSound

\* A claim, as the drain that sent it sees it.
LEMMA ClaimKeeps ==
  ASSUME IInv, NEW d \in Drains, NEW r \in Requests, Claim(d, r)
  PROVE  IInv'
<1> DEFINE m == [Off EXCEPT !.pc = "claimed", !.job = r, !.token = Fresh(r),
                            !.seen = row[r].attempts + 1, !.taken = drain[d].taken + 1]
<1>1. row[r] \in RowType /\ drain[d] \in DrainType /\ faults' \in 0 .. MaxFaults
  BY DEF IInv, TypeOK, Claim
<1>2. Fresh(r) \in Tokens /\ row[r].attempts + 1 \in Nat
  BY <1>1, FreshIsToken DEF IInv, RowType
<1>3. drain[d].taken + 1 \in 0 .. ClaimBatch
  BY <1>1, ConstantsAssumption DEF Claim, DrainType
<1>4. m \in DrainType
  BY <1>2, <1>3, ClaimedType
<1>5. m.pc = "claimed" /\ m.job = r /\ m.seen = row[r].attempts + 1
  BY DEF Off
<1> QED
  BY <1>1, <1>4, <1>5, TakingKeeps DEF Claim

\* A claim whose answer is lost takes the row too, but nobody remembers it.
LEMMA ClaimFailsKeeps ==
  ASSUME IInv, NEW d \in Drains, ClaimFails(d)
  PROVE  IInv'
<1>1. faults' \in 0 .. MaxFaults /\ shops' = shops /\ drain' = [drain EXCEPT ![d] = Off]
  BY MisfortuneType DEF IInv, ClaimFails
<1>2. Off.pc = "off" /\ Off.job = NoRequest /\ Current(d, Off) /\ Earned(d, Off)
  BY DEF Off, Current, Earned
<1>3. CASE UNCHANGED <<row, ran>>
  BY <1>1, <1>2, <1>3, OffType, DrainStep
<1>4. ASSUME NEW r \in Requests, row' = [row EXCEPT ![r] = Taken(d, r)],
             ran' = [ran EXCEPT ![r] = FALSE]
      PROVE  IInv'
  BY <1>1, <1>2, <1>4, OffType, TakingKeeps
<1> QED
  BY <1>3, <1>4 DEF ClaimFails

\* When the handler returns, "complete" is planned only by a drain whose claim
\* is marked as run, if the drain still has the latest claim.
LEMMA ReturnKeeps ==
  ASSUME IInv, NEW d \in Drains, HandlerReturns(d)
  PROVE  IInv'
<1> DEFINE r == drain[d].job
           plan == PlanAfterReturn(d)
           planned == [drain[d] EXCEPT !.pc = "settling", !.plan = plan]
           next == [Off EXCEPT !.pc = "loop", !.stop = drain[d].stop,
                               !.taken = drain[d].taken]
           m == IF plan = "none" THEN next ELSE planned
<1>1. drain[d] \in DrainType /\ Current(d, drain[d]) /\ r \in Requests
  BY ConstantsAssumption DEF IInv, TypeOK, MemoryIsSound, Current, HandlerReturns, DrainType
<1>2. plan \in Plans /\ (plan = "deadLetter" => Exhausted(drain[d].seen))
  BY DEF PlanAfterReturn, PlanAfterFailure, Plans
<1>3. m \in DrainType
  <2>1. planned \in DrainType
    BY <1>1, <1>2, PlanType DEF PCs
  <2>2. next \in DrainType
    BY <1>1, LoopType DEF DrainType
  <2> QED
    BY <2>1, <2>2
<1>4. drain' = [drain EXCEPT ![d] = m]
  BY DEF HandlerReturns, NextTurn, PlanNext
<1>5. /\ ran' \in [Requests -> BOOLEAN]
      /\ \A q \in Requests : ran[q] => ran'[q]
      /\ drain[d].token = row[r].token => ran'[r]
  BY <1>1 DEF IInv, TypeOK, HandlerReturns
<1>6. UNCHANGED <<row, shops, faults>>
  BY DEF HandlerReturns
<1>7. TypeOK'
  BY <1>3, <1>4, <1>5, <1>6 DEF IInv, TypeOK
<1>8. ASSUME NEW e \in Drains PROVE (Current(e, drain[e]) /\ Earned(e, drain[e]))'
  <2>1. CASE e = d
    <3>1. drain'[e] = m
      BY <1>4, <2>1 DEF IInv, TypeOK
    <3>2. CASE plan = "none"
      <4>1. drain'[e].pc = "loop" /\ drain'[e].job = NoRequest
        BY <3>1, <3>2 DEF Off
      <4> QED
        BY <4>1 DEF Current, Earned
    <3>3. CASE plan # "none"
      <4>1. /\ drain'[e].pc = "settling" /\ drain'[e].plan = plan /\ drain'[e].job = r
            /\ drain'[e].token = drain[d].token /\ drain'[e].seen = drain[d].seen
        BY <1>1, <3>1, <3>3 DEF DrainType
      <4>2. Current(e, drain[e])'
        BY <1>1, <1>6, <2>1, <4>1 DEF Current, Holds, HandlerReturns
      <4>3. Earned(e, drain[e])'
        BY <1>2, <1>5, <1>6, <2>1, <3>3, <4>1 DEF Earned, Holds
      <4> QED
        BY <4>2, <4>3
    <3> QED
      BY <3>2, <3>3
  <2>2. CASE e # d
    <3>1. drain'[e] = drain[e] /\ Current(e, drain[e]) /\ Earned(e, drain[e])
      BY <1>4, <2>2 DEF IInv, TypeOK, MemoryIsSound
    <3>2. Current(e, drain[e])'
      BY <1>6, <3>1 DEF Current, Holds
    <3>3. Earned(e, drain[e])'
      <4>1. drain[e].job \in Requests \cup {NoRequest}
        BY DEF IInv, TypeOK, DrainType
      <4>2. drain[e].pc \in {"settling", "lastWord"} => drain[e].job \in Requests
        BY <3>1, <4>1 DEF Current
      <4> QED
        BY <1>5, <1>6, <3>1, <4>2 DEF Earned, Holds
    <3> QED
      BY <3>2, <3>3
  <2> QED
    BY <2>1, <2>2
<1>9. LeaseShape' /\ CompletedWasRun' /\ DeadLetterEarned'
  BY <1>5, <1>6 DEF IInv, LeaseShape, CompletedWasRun, DeadLetterEarned
<1> QED
  BY <1>7, <1>8, <1>9 DEF IInv, MemoryIsSound

\* A heartbeat renews a lease or tells the drain that it lost it.
LEMMA HeartbeatKeeps ==
  ASSUME IInv, NEW d \in Drains, Heartbeat(d)
  PROVE  IInv'
<1> DEFINE r == drain[d].job
           b == drain[d].lost \/ drain[d].pc \in {"locking", "running"}
           m == [drain[d] EXCEPT !.lost = b]
<1>1. drain[d] \in DrainType /\ Current(d, drain[d]) /\ Earned(d, drain[d])
  BY DEF IInv, TypeOK, MemoryIsSound
<1>2. r \in Requests
  BY <1>1, ConstantsAssumption DEF Heartbeat, Beating, Current, DrainType
<1>3. UNCHANGED <<shops, ran, faults>>
  BY DEF Heartbeat
<1>4. CASE drain' = [drain EXCEPT ![d] = m] /\ UNCHANGED row
  <2>1. m \in DrainType
    BY <1>1 DEF DrainType
  <2>2. Current(d, m) /\ Earned(d, m)
    BY <1>1 DEF DrainType, Current, Earned, Holds
  <2> QED
    BY <1>3, <1>4, <2>1, <2>2, DrainStep DEF IInv, TypeOK
<1>5. CASE row' = [row EXCEPT ![r].expired = FALSE] /\ UNCHANGED drain
  <2>1. row[r] \in RowType
    BY <1>2 DEF IInv, TypeOK
  <2>2. [row[r] EXCEPT !.expired = FALSE] \in RowType
    BY <2>1 DEF RowType
  <2>3. row' \in [Requests -> RowType]
    BY <1>5, <2>2 DEF IInv, TypeOK
  <2>4. ASSUME NEW q \in Requests
        PROVE  /\ row'[q].status = row[q].status /\ row'[q].owner = row[q].owner
               /\ row'[q].token = row[q].token /\ row'[q].attempts = row[q].attempts
    BY <1>5 DEF IInv, TypeOK, RowType
  <2>5. \A q \in Requests : RowKept(q)
    BY <2>4 DEF IInv, LeaseShape, CompletedWasRun, DeadLetterEarned, RowKept
  <2> QED
    BY <1>3, <1>5, <2>3, <2>5, TableStep DEF IInv, TypeOK
<1> QED
  BY <1>4, <1>5 DEF Heartbeat

\* A statement closes the row only if the drain still holds it, to the outcome
\* that was planned; the drain that sent it may keep a memory of the row only
\* for a plan of its own.
LEMMA StatementKeeps ==
  ASSUME IInv, NEW d \in Drains, drain[d].pc \in {"settling", "lastWord"}, Statement(d),
         NEW m \in DrainType, drain' = [drain EXCEPT ![d] = m],
         Current(d, m) /\ Earned(d, m), UNCHANGED <<shops, ran>>,
         faults' \in 0 .. MaxFaults
  PROVE  IInv'
<1> DEFINE r == drain[d].job
           plan == drain[d].plan
<1>1. drain[d] \in DrainType /\ Current(d, drain[d]) /\ Earned(d, drain[d])
  BY DEF IInv, TypeOK, MemoryIsSound
<1>2. r \in Requests /\ row[r] \in RowType /\ plan \in Plans \ {"none"}
  BY <1>1, ConstantsAssumption DEF IInv, TypeOK, Current, Earned, DrainType
<1>3. \A q \in Requests : row'[q] = row[q] => RowKept(q)
  BY DEF IInv, LeaseShape, CompletedWasRun, DeadLetterEarned, RowKept
<1>4. row' \in [Requests -> RowType] /\ \A q \in Requests : RowKept(q)
  <2>1. CASE ~Guardia(d, r)
    BY <1>3, <2>1 DEF Statement, IInv, TypeOK
  <2>2. CASE Guardia(d, r)
    <3>1. drain[d].seen = row[r].attempts /\ row[r].attempts > 0
      BY <1>1, <1>2, <2>2, ConstantsAssumption DEF Current, Holds, Guardia
    <3>2. row' = [row EXCEPT ![r] = Closed(r, plan)]
      BY <2>2 DEF Statement
    <3>3. /\ Closed(r, plan) \in RowType
          /\ Closed(r, plan).owner = NoDrain
          /\ Closed(r, plan).status # "processing"
          /\ Closed(r, plan).status = "completed" => plan = "complete"
          /\ Closed(r, plan).status = "dead_letter" =>
               plan = "deadLetter" /\ Closed(r, plan).attempts = row[r].attempts
      BY <1>2, <3>1, ClosedType DEF IInv
    <3>4. row'[r] = Closed(r, plan)
      BY <1>2, <3>2 DEF IInv, TypeOK
    <3>5. /\ plan = "complete" => ran[r]
          /\ plan = "deadLetter" => Refused(r) \/ Exhausted(row[r].attempts)
      BY <1>1, <2>2, <3>1 DEF Earned, Holds, Guardia
    <3>6. RowKept(r)
      BY <3>3, <3>4, <3>5 DEF RowKept
    <3>7. \A q \in Requests \ {r} : row'[q] = row[q]
      BY <3>2 DEF IInv, TypeOK
    <3> QED
      BY <1>2, <1>3, <3>2, <3>3, <3>6, <3>7 DEF IInv, TypeOK
  <2> QED
    BY <2>1, <2>2
<1>5. TypeOK'
  BY <1>4 DEF IInv, TypeOK
<1>6. \A e \in Drains :
        drain'[e] = drain[e] \/ (Current(e, drain'[e]) /\ Earned(e, drain'[e]))
  BY DEF IInv, TypeOK
<1> QED
  BY <1>4, <1>5, <1>6, KeptStep

\* The closing statement, whether or not its answer arrives.
LEMMA SettleKeeps ==
  ASSUME IInv, NEW d \in Drains, Settle(d) \/ SettleFails(d)
  PROVE  IInv'
<1> DEFINE next == [Off EXCEPT !.pc = "loop", !.stop = drain[d].stop,
                               !.taken = drain[d].taken]
           replan == [drain[d] EXCEPT !.pc = "lastWord", !.plan = PlanAfterFailure(d)]
<1>1. /\ drain[d] \in DrainType /\ Current(d, drain[d])
      /\ drain[d].pc \in {"settling", "lastWord"}
  BY DEF IInv, TypeOK, MemoryIsSound, Settle, SettleFails
<1>2. next \in DrainType /\ Current(d, next) /\ Earned(d, next)
  <2>1. next \in DrainType
    BY <1>1, LoopType DEF DrainType
  <2>2. next.pc = "loop" /\ next.job = NoRequest
    BY DEF Off
  <2> QED
    BY <2>1, <2>2 DEF Current, Earned
<1>3. Current(d, Off) /\ Earned(d, Off)
  BY DEF Current, Earned, Off
<1>4. replan \in DrainType /\ Current(d, replan) /\ Earned(d, replan)
  <2>1. PlanAfterFailure(d) \in Plans \ {"none", "complete"}
    BY DEF PlanAfterFailure, Plans
  <2>2. replan \in DrainType
    BY <1>1, <2>1, PlanType DEF PCs
  <2>3. /\ replan.pc = "lastWord" /\ replan.plan = PlanAfterFailure(d)
        /\ replan.job = drain[d].job /\ replan.token = drain[d].token
        /\ replan.seen = drain[d].seen
    BY <1>1 DEF DrainType
  <2>4. Current(d, replan)
    BY <1>1, <2>3 DEF Current, Holds
  <2>5. Earned(d, replan)
    BY <2>1, <2>3 DEF Earned, PlanAfterFailure
  <2> QED
    BY <2>2, <2>4, <2>5
<1>5. faults' \in 0 .. MaxFaults /\ UNCHANGED <<shops, ran>>
  BY MisfortuneType DEF IInv, TypeOK, Settle, SettleFails
<1>6. CASE Settle(d)
  BY <1>1, <1>2, <1>5, <1>6, StatementKeeps DEF Settle, NextTurn
<1>7. CASE SettleFails(d)
  <2>1. \/ drain' = [drain EXCEPT ![d] = replan]
        \/ drain' = [drain EXCEPT ![d] = Off]
    BY <1>7 DEF SettleFails, PlanNext
  <2>2. CASE Statement(d)
    BY <1>1, <1>3, <1>4, <1>5, <2>1, <2>2, OffType, StatementKeeps
  <2>3. CASE UNCHANGED row
    BY <1>3, <1>4, <1>5, <2>1, <2>3, OffType, DrainStep
  <2> QED
    BY <1>7, <2>2, <2>3 DEF SettleFails
<1> QED
  BY <1>6, <1>7

-----------------------------------------------------------------------------
(* The theorems *)

\* Every step keeps the invariant.
LEMMA StepIInv == IInv /\ [Next]_vars => IInv'
<1> SUFFICES ASSUME IInv, [Next]_vars PROVE IInv'
  OBVIOUS
<1>1. CASE Table
  BY <1>1, ArrivalKeeps, TimeKeeps, UpkeepKeeps DEF Table
<1>2. ASSUME NEW d \in Drains, Start(d) \/ Progress(d) \/ Heartbeat(d) \/ TimeUp(d) \/ Mishap(d)
      PROVE  IInv'
  BY <1>2, IdleKeeps, FlagKeeps, MoveKeeps, PlanningKeeps, ClaimKeeps, ClaimFailsKeeps,
     ReturnKeeps, HeartbeatKeeps, SettleKeeps
  DEF Progress, Mishap
<1>3. CASE UNCHANGED vars
  BY <1>3
  DEF vars, IInv, TypeOK, LeaseShape, MemoryIsSound, Current, Earned, Holds,
      CompletedWasRun, DeadLetterEarned
<1> QED
  BY <1>1, <1>2, <1>3 DEF Next

\* The inductive invariant holds of every state of the queue.
THEOREM QueueInvariant == Spec => []IInv
  BY InitIInv, StepIInv, PTL DEF Spec

\* Every state of the table and of the drains has its type; in particular no
\* release ever brings the attempts of a row below zero.
THEOREM TypeCorrect == Spec => []TypeOK
<1>1. IInv => TypeOK
  BY DEF IInv
<1> QED
  BY <1>1, QueueInvariant, PTL

\* A completed row was run under its latest claim.
THEOREM CompletedMeansRun == Spec => []CompletedWasRun
<1>1. IInv => CompletedWasRun
  BY DEF IInv
<1> QED
  BY <1>1, QueueInvariant, PTL

\* A dead letter of a known type has used up its attempts.
THEOREM DeadLetterMeansExhausted == Spec => []DeadLetterEarned
<1>1. IInv => DeadLetterEarned
  BY DEF IInv
<1> QED
  BY <1>1, QueueInvariant, PTL

-----------------------------------------------------------------------------
(* Who closes a row *)

\* The only steps that close a row are statements of the drain that holds it.
LEMMA CloserStep ==
  ASSUME IInv, [Next]_vars, NEW r \in Requests,
         row[r].status = "processing", row'[r].status \notin {"processing", "gone"}
  PROVE  \E d \in Drains :
           /\ drain[d].job = r /\ drain[d].token = row[r].token
           /\ drain[d].pc \in {"settling", "lastWord"}
           /\ drain'[d] # drain[d]
<1> USE DEF IInv, TypeOK
<1>1. row'[r] # row[r]
  OBVIOUS
<1>2. PICK d \in Drains : Settle(d) \/ SettleFails(d)
  <2>1. ~ \E q \in Requests :
            Enqueue(q) \/ ForeignRow(q) \/ BecomeDue(q) \/ ExpireOrphan(q) \/ ExpireHeld(q)
    BY DEF Enqueue, ForeignRow, BecomeDue, ExpireOrphan, ExpireHeld, RowType
  <2>2. ~ \E S \in SUBSET Requests : Replay(S) \/ Prune(S)
    BY DEF Replay, Prune
  <2>3. ASSUME NEW s \in Shops, EraseShop(s) PROVE FALSE
    <3>1. row[r] \in RowType
      OBVIOUS
    <3>2. row'[r] = IF ShopOf[r] = s /\ row[r].status \in InTable
                    THEN [row[r] EXCEPT !.status = "gone", !.owner = NoDrain]
                    ELSE row[r]
      BY <2>3 DEF EraseShop
    <3> QED
      BY <1>1, <3>1, <3>2 DEF RowType
  <2>4. ~ \E d \in Drains, q \in Requests :
            row' = [row EXCEPT ![q] = Taken(d, q)]
    BY TakenType
  <2>5. ~ \E d \in Drains : Heartbeat(d)
    BY DEF Heartbeat, RowType
  <2>6. ASSUME NEW d \in Drains,
               \/ Start(d) \/ EndDrain(d) \/ TurnBack(d) \/ Refuse(d) \/ Begin(d)
               \/ LockGranted(d) \/ LockAborted(d) \/ HandlerReturns(d) \/ HandlerObeys(d)
               \/ HandlerFails(d) \/ TimeUp(d) \/ Shutdown(d) \/ Crash(d) \/ LockBusy(d) \/ LockUnavailable(d)
        PROVE  FALSE
    BY <1>1, <2>6
    DEF Start, EndDrain, TurnBack, Refuse, Begin, LockGranted, LockAborted, HandlerReturns,
        HandlerObeys, HandlerFails, TimeUp, Shutdown, Crash, LockBusy, LockUnavailable
  <2>7. \A d \in Drains : ~ \E q \in Requests : Claim(d, q)
    BY <2>4 DEF Claim
  <2>8. \A d \in Drains : ~ ClaimFails(d)
    BY <1>1, <2>4 DEF ClaimFails
  <2> QED
    BY <1>1, <2>1, <2>2, <2>3, <2>5, <2>6, <2>7, <2>8 DEF Next, Table, Progress, Mishap, vars
<1>3. row' = [row EXCEPT ![drain[d].job] = Closed(drain[d].job, drain[d].plan)] /\ Guardia(d, drain[d].job)
  BY <1>1, <1>2 DEF Settle, SettleFails, Statement
<1>4. drain[d].job = r /\ drain[d].token = row[r].token
  BY <1>1, <1>3 DEF Guardia
<1>5. drain[d].pc \in {"settling", "lastWord"} /\ drain'[d].pc # drain[d].pc
  <2>1. drain[d] \in DrainType /\ drain \in [Drains -> DrainType]
    OBVIOUS
  <2>2. CASE Settle(d)
    <3>1. drain'[d].pc = "loop"
      BY <2>1, <2>2 DEF Settle, NextTurn, Off
    <3> QED
      BY <2>2, <3>1 DEF Settle
  <2>3. CASE SettleFails(d)
    <3>1. drain[d].pc = "settling" => drain'[d].pc = "lastWord"
      BY <2>1, <2>3 DEF SettleFails, PlanNext, DrainType
    <3>2. drain[d].pc = "lastWord" => drain'[d].pc = "off"
      BY <2>1, <2>3 DEF SettleFails, Off
    <3> QED
      BY <2>3, <3>1, <3>2 DEF SettleFails
  <2> QED
    BY <1>2, <2>2, <2>3
<1> QED
  BY <1>4, <1>5

\* Nobody but the drain with the latest claim of a row closes it.
THEOREM ClosedOnlyByHolder == Spec => ClosedByItsHolder
<1>1. IInv /\ [Next]_vars =>
        [\A r \in Requests :
           row[r].status = "processing" /\ row'[r].status \notin {"processing", "gone"}
           => \E d \in Drains :
                /\ drain[d].job = r /\ drain[d].token = row[r].token
                /\ drain[d].pc \in {"settling", "lastWord"}
                /\ drain'[d] # drain[d]]_vars
  BY CloserStep
<1> QED
  BY <1>1, QueueInvariant, PTL DEF Spec, ClosedByItsHolder

-----------------------------------------------------------------------------
(* What an attempt costs *)

\* No step gives the lease of a row to a drain that works one already.
Fenced(r) ==
  \/ row'[r].owner = NoDrain
  \/ row'[r].owner = row[r].owner /\ row'[r].token = row[r].token
  \/ drain[row'[r].owner].job = NoRequest

\* What a step may do to the memory of a drain.
Follows(e, m) ==
  /\ PlanSpares(m)
  /\ \/ m.job = NoRequest
     \/ /\ m.job = drain[e].job /\ m.token = drain[e].token
        /\ m.lost => drain[e].lost \/ ~Holds(e, drain[e])
     \/ ~m.lost

\* The counts are numbers.
LEMMA Counts ==
  ASSUME TypeOK
  PROVE  /\ \A r \in Requests : row[r].attempts \in Nat
         /\ \A d \in Drains : /\ drain[d].seen \in Nat
                              /\ drain[d].job \in Requests \cup {NoRequest}
         /\ faults \in Nat
<1>1. \A r \in Requests : row[r] \in RowType
  BY DEF TypeOK
<1>2. \A d \in Drains : drain[d] \in DrainType
  BY DEF TypeOK
<1>3. faults \in Nat
  BY ConstantsAssumption DEF TypeOK
<1> QED
  BY <1>1, <1>2, <1>3 DEF RowType, DrainType

\* A step that fences every row, and of which every memory and every count follow,
\* keeps the invariant.
LEMMA PaidStep ==
  ASSUME PInv, IInv',
         \A r \in Requests : Fenced(r),
         \A e \in Drains : Follows(e, drain'[e]),
         \A r \in Requests : Spare(r)' /\ row'[r].attempts <= MaxAttempts + faults'
  PROVE  PInv'
<1>1. ASSUME NEW e \in Drains PROVE (LostIsLost(e, drain[e]) /\ PlanSpares(drain[e]))'
  <2>1. PICK m : m = drain'[e]
    OBVIOUS
  <2>2. m.job \in Requests \cup {NoRequest}
    BY <1>1, <2>1 DEF IInv, TypeOK, DrainType
  <2>3. CASE m.job = NoRequest \/ ~m.lost
    BY <1>1, <2>1, <2>3 DEF LostIsLost, Follows, PlanSpares
  <2>4. CASE /\ m.job \in Requests /\ m.job # NoRequest
             /\ m.job = drain[e].job /\ m.token = drain[e].token
             /\ m.lost => drain[e].lost \/ ~Holds(e, drain[e])
    <3>1. Fenced(m.job) /\ LostIsLost(e, drain[e]) /\ e # NoDrain
      BY <1>1, <2>4, ConstantsAssumption DEF PInv
    <3>2. ASSUME m.lost, row'[m.job].owner = e, row'[m.job].token = m.token PROVE FALSE
      <4>1. ~Holds(e, drain[e])
        BY <2>4, <3>1, <3>2 DEF LostIsLost
      <4>2. row[m.job].owner = e /\ row[m.job].token = m.token
        BY <2>4, <3>1, <3>2 DEF Fenced
      <4> QED
        BY <2>4, <4>1, <4>2 DEF Holds
    <3> QED
      BY <1>1, <2>1, <3>2 DEF LostIsLost, Holds, Follows, PlanSpares
  <2> QED
    BY <1>1, <2>1, <2>2, <2>3, <2>4 DEF Follows
<1> QED
  BY <1>1 DEF PInv, AttemptsArePaid

\* A row whose count does not move stays paid for, if a misfortune happened or its
\* holder and its lease stay.
LEMMA SpareKept ==
  ASSUME PInv, IInv', faults <= faults', NEW r \in Requests,
         row'[r].attempts = row[r].attempts,
         \/ row'[r].status = row[r].status
         \/ row'[r].status \in {"completed", "dead_letter", "gone"},
         \/ row'[r].status # "processing"
         \/ faults < faults'
         \/ /\ row'[r].expired => row[r].expired \/ ~HeldInMemory(r)
            /\ HeldInMemory(r) => HeldInMemory(r)'
  PROVE  Spare(r)' /\ row'[r].attempts <= MaxAttempts + faults'
<1>1. row[r].attempts \in Nat /\ faults \in Nat /\ faults' \in Nat /\ MaxAttempts \in Nat
  BY Counts, ConstantsAssumption DEF PInv, IInv, TypeOK
<1>2. row[r].attempts <= MaxAttempts + faults /\ Spare(r)
  BY DEF PInv, AttemptsArePaid
<1>3. row'[r].attempts <= MaxAttempts + faults'
  BY <1>1, <1>2
<1>4. faults < faults' => row[r].attempts < MaxAttempts + faults'
  BY <1>1, <1>2
<1>5. row[r].attempts < MaxAttempts + faults => row[r].attempts < MaxAttempts + faults'
  BY <1>1
<1> QED
  BY <1>2, <1>3, <1>4, <1>5 DEF Spare

\* A holder that remembers its row goes on holding it, as long as the row does not
\* change hands.
LEMMA HeldKept ==
  ASSUME NEW r \in Requests, HeldInMemory(r),
         row'[r].owner = row[r].owner, row'[r].token = row[r].token,
         \A e \in Drains :
           drain[e].job = r /\ Holds(e, drain[e]) =>
             drain'[e].job = r /\ drain'[e].token = drain[e].token
  PROVE  HeldInMemory(r)'
<1>1. PICK e \in Drains :
        drain[e].job = r /\ row[r].owner = e /\ row[r].token = drain[e].token
  BY DEF HeldInMemory
<1>2. drain'[e].job = r /\ drain'[e].token = drain[e].token
  BY <1>1 DEF Holds
<1> QED
  BY <1>1, <1>2 DEF HeldInMemory

\* A misfortune counts.
LEMMA MisfortuneCounts == ASSUME TypeOK, Misfortune PROVE faults < faults' /\ faults <= faults'
  BY Counts DEF Misfortune

\* The memory of a drain whose row does not change may follow.
LEMMA SameMemory ==
  ASSUME PInv, NEW e \in Drains, drain'[e] = drain[e]
  PROVE  Follows(e, drain'[e])
  BY DEF PInv, Follows

-----------------------------------------------------------------------------

\* A step of one drain that leaves the table alone: it keeps its row in memory, or
\* did not hold it, or a misfortune took it away.
LEMMA MemoryPaid ==
  ASSUME PInv, IInv', NEW d \in Drains, NEW m, drain' = [drain EXCEPT ![d] = m],
         UNCHANGED row, faults <= faults', PlanSpares(m),
         \/ /\ m.job = drain[d].job /\ m.token = drain[d].token
            /\ m.lost => drain[d].lost \/ ~Holds(d, drain[d])
         \/ /\ m.job = NoRequest
            /\ faults < faults' \/ drain[d].job = NoRequest \/ ~Holds(d, drain[d])
  PROVE  PInv'
<1>1. \A e \in Drains : drain'[e] = IF e = d THEN m ELSE drain[e]
  BY DEF PInv, IInv, TypeOK
<1>2. \A r \in Requests : Fenced(r)
  BY Counts DEF PInv, IInv, Fenced
<1>3. \A e \in Drains : Follows(e, drain'[e])
  BY <1>1, SameMemory DEF Follows
<1>4. ASSUME NEW r \in Requests PROVE Spare(r)' /\ row'[r].attempts <= MaxAttempts + faults'
  <2>1. CASE faults < faults'
    BY <1>4, <2>1, SpareKept
  <2>2. CASE ~(faults < faults')
    <3>1. r # NoRequest
      BY ConstantsAssumption
    <3>2. \A e \in Drains :
            drain[e].job = r /\ Holds(e, drain[e]) =>
              drain'[e].job = r /\ drain'[e].token = drain[e].token
      BY <1>1, <2>2, <3>1
    <3>3. HeldInMemory(r) => HeldInMemory(r)'
      BY <3>2, HeldKept
    <3> QED
      BY <1>4, <3>3, SpareKept
  <2> QED
    BY <2>1, <2>2
<1> QED
  BY <1>2, <1>3, <1>4, PaidStep

\* A step that leaves the drains alone.
LEMMA TablePaid ==
  ASSUME PInv, IInv', UNCHANGED drain,
         \A r \in Requests : Fenced(r),
         \A r \in Requests : Spare(r)' /\ row'[r].attempts <= MaxAttempts + faults'
  PROVE  PInv'
<1>1. \A e \in Drains : Follows(e, drain'[e])
  BY SameMemory
<1> QED
  BY <1>1, PaidStep

\* A drain that starts, ends, is told to stop, moves on or plans: it keeps its row.
LEMMA MovePaid ==
  ASSUME PInv, IInv', NEW d \in Drains,
         \/ Start(d) \/ EndDrain(d) \/ Crash(d) \/ Shutdown(d) \/ TimeUp(d) \/ Begin(d)
         \/ LockGranted(d) \/ TurnBack(d) \/ Refuse(d) \/ LockBusy(d) \/ LockUnavailable(d) \/ LockAborted(d)
         \/ HandlerFails(d) \/ HandlerObeys(d)
  PROVE  PInv'
<1>1. drain[d] \in DrainType /\ PlanSpares(drain[d]) /\ Current(d, drain[d])
  BY DEF PInv, IInv, TypeOK, MemoryIsSound
<1>2. faults <= faults'
  BY MisfortuneCounts, Counts
  DEF PInv, IInv, Start, EndDrain, Crash, Shutdown, TimeUp, Begin, LockGranted, TurnBack,
      Refuse, LockBusy, LockUnavailable, LockAborted, HandlerFails, HandlerObeys
<1>3. CASE Start(d) \/ EndDrain(d) \/ Crash(d)
  <2>1. PICK m : m = IF Start(d) THEN [Off EXCEPT !.pc = "loop"] ELSE Off
    OBVIOUS
  <2>2. drain' = [drain EXCEPT ![d] = m] /\ UNCHANGED row
    <3>1. EndDrain(d) \/ Crash(d) => ~Start(d)
      BY DEF Start, EndDrain, Crash
    <3> QED
      BY <1>3, <2>1, <3>1 DEF Start, EndDrain, Crash
  <2>3. m.job = NoRequest /\ PlanSpares(m)
    BY <2>1 DEF Off, PlanSpares
  <2>4. Crash(d) => faults < faults'
    BY MisfortuneCounts DEF Crash, PInv, IInv
  <2>5. Start(d) \/ EndDrain(d) => drain[d].job = NoRequest
    BY <1>1 DEF Current, Start, EndDrain
  <2> QED
    BY <1>2, <1>3, <2>2, <2>3, <2>4, <2>5, MemoryPaid
<1>4. CASE Shutdown(d) \/ TimeUp(d) \/ Begin(d) \/ LockGranted(d)
  <2>1. PICK m :
          /\ m \in {[drain[d] EXCEPT !.stop = TRUE], [drain[d] EXCEPT !.timedOut = TRUE],
                    [drain[d] EXCEPT !.pc = "locking"], [drain[d] EXCEPT !.pc = "running"]}
          /\ drain' = [drain EXCEPT ![d] = m]
    BY <1>4 DEF Shutdown, TimeUp, Begin, LockGranted
  <2>2. /\ m.job = drain[d].job /\ m.token = drain[d].token /\ m.lost = drain[d].lost
        /\ m.plan = drain[d].plan /\ m.seen = drain[d].seen
    BY <1>1, <2>1 DEF DrainType
  <2>3. PlanSpares(m) /\ UNCHANGED row
    BY <1>1, <1>4, <2>2 DEF PlanSpares, Shutdown, TimeUp, Begin, LockGranted
  <2> QED
    BY <1>2, <2>1, <2>2, <2>3, MemoryPaid
<1>5. CASE \/ TurnBack(d) \/ Refuse(d) \/ LockBusy(d) \/ LockUnavailable(d) \/ LockAborted(d)
           \/ HandlerFails(d) \/ HandlerObeys(d)
  <2>1. PICK pc, plan :
          /\ PlanNext(d, pc, plan)
          /\ plan = "reschedule" => plan = PlanAfterFailure(d)
    BY <1>5 DEF TurnBack, Refuse, LockBusy, LockUnavailable, LockAborted, HandlerFails, HandlerObeys
  <2>2. PICK m : m = [drain[d] EXCEPT !.pc = pc, !.plan = plan]
    OBVIOUS
  <2>3. drain' = [drain EXCEPT ![d] = m]
    BY <2>1, <2>2 DEF PlanNext
  <2>4. /\ m.job = drain[d].job /\ m.token = drain[d].token /\ m.lost = drain[d].lost
        /\ m.plan = plan /\ m.seen = drain[d].seen
    BY <1>1, <2>2 DEF DrainType
  <2>5. PlanSpares(m)
    <3>1. drain[d].seen \in Nat /\ MaxAttempts \in Nat
      BY <1>1, ConstantsAssumption DEF DrainType
    <3> QED
      BY <2>1, <2>4, <3>1 DEF PlanSpares, PlanAfterFailure, Exhausted
  <2>6. UNCHANGED row
    BY <1>5 DEF TurnBack, Refuse, LockBusy, LockUnavailable, LockAborted, HandlerFails, HandlerObeys
  <2> QED
    BY <1>2, <2>3, <2>4, <2>5, <2>6, MemoryPaid
<1> QED
  BY <1>3, <1>4, <1>5

\* A drain whose handler returned lets the row go only if it lost it.
LEMMA ReturnPaid ==
  ASSUME PInv, IInv', NEW d \in Drains, HandlerReturns(d)
  PROVE  PInv'
<1>1. drain[d] \in DrainType /\ LostIsLost(d, drain[d])
  BY DEF PInv, IInv, TypeOK
<1>2. UNCHANGED row /\ faults <= faults'
  BY Counts DEF HandlerReturns, PInv, IInv
<1>3. CASE PlanAfterReturn(d) = "none"
  <2>1. PICK m : m = [Off EXCEPT !.pc = "loop", !.stop = drain[d].stop,
                                 !.taken = drain[d].taken]
    OBVIOUS
  <2>2. drain' = [drain EXCEPT ![d] = m]
    BY <1>3, <2>1 DEF HandlerReturns, NextTurn
  <2>3. m.job = NoRequest /\ PlanSpares(m)
    BY <2>1 DEF Off, PlanSpares
  <2>4. drain[d].lost
    BY <1>3 DEF PlanAfterReturn, PlanAfterFailure
  <2> QED
    BY <1>1, <1>2, <2>2, <2>3, <2>4, MemoryPaid DEF LostIsLost
<1>4. CASE PlanAfterReturn(d) # "none"
  <2>1. PICK m : m = [drain[d] EXCEPT !.pc = "settling", !.plan = PlanAfterReturn(d)]
    OBVIOUS
  <2>2. drain' = [drain EXCEPT ![d] = m]
    BY <1>4, <2>1 DEF HandlerReturns, PlanNext
  <2>3. /\ m.job = drain[d].job /\ m.token = drain[d].token /\ m.lost = drain[d].lost
        /\ m.plan = PlanAfterReturn(d) /\ m.seen = drain[d].seen
    BY <1>1, <2>1 DEF DrainType
  <2>4. PlanSpares(m)
    <3>1. drain[d].seen \in Nat /\ MaxAttempts \in Nat
      BY <1>1, ConstantsAssumption DEF DrainType
    <3> QED
      BY <2>3, <3>1 DEF PlanSpares, PlanAfterReturn, PlanAfterFailure, Exhausted
  <2> QED
    BY <1>2, <2>2, <2>3, <2>4, MemoryPaid
<1> QED
  BY <1>3, <1>4

\* A heartbeat renews a lease, or tells a drain what is true: it has none.
LEMMA HeartbeatPaid ==
  ASSUME PInv, IInv', NEW d \in Drains, Heartbeat(d)
  PROVE  PInv'
<1>1. PICK r : r = drain[d].job
  OBVIOUS
<1>2. drain[d] \in DrainType /\ r \in Requests /\ PlanSpares(drain[d]) /\ row[r] \in RowType
  BY <1>1, ConstantsAssumption
  DEF PInv, IInv, TypeOK, MemoryIsSound, Current, Heartbeat, Beating, DrainType
<1>3. faults' = faults /\ faults <= faults'
  BY Counts DEF Heartbeat, PInv, IInv
<1>4. CASE Guardia(d, r) /\ row[r].status = "processing"
  <2>1. row' = [row EXCEPT ![r].expired = FALSE] /\ UNCHANGED drain
    BY <1>1, <1>4 DEF Heartbeat
  <2>2. \A q \in Requests :
          /\ row'[q].attempts = row[q].attempts /\ row'[q].status = row[q].status
          /\ row'[q].owner = row[q].owner /\ row'[q].token = row[q].token
          /\ row'[q].expired => row[q].expired
    BY <1>2, <2>1 DEF PInv, IInv, TypeOK, RowType
  <2>3. \A q \in Requests : Fenced(q)
    BY <2>2, Counts DEF PInv, IInv, Fenced
  <2>4. ASSUME NEW q \in Requests PROVE HeldInMemory(q) => HeldInMemory(q)'
    BY <2>1, <2>2, <2>4, HeldKept
  <2>5. \A q \in Requests : Spare(q)' /\ row'[q].attempts <= MaxAttempts + faults'
    BY <1>3, <2>2, <2>4, SpareKept
  <2> QED
    BY <2>1, <2>3, <2>5, TablePaid
<1>5. CASE ~(Guardia(d, r) /\ row[r].status = "processing")
  <2>1. PICK b : b = (drain[d].lost \/ drain[d].pc \in {"locking", "running"})
    OBVIOUS
  <2>2. PICK m : m = [drain[d] EXCEPT !.lost = b]
    OBVIOUS
  <2>3. drain' = [drain EXCEPT ![d] = m] /\ UNCHANGED row
    BY <1>1, <1>5, <2>1, <2>2 DEF Heartbeat
  <2>4. /\ m.job = drain[d].job /\ m.token = drain[d].token
        /\ m.plan = drain[d].plan /\ m.seen = drain[d].seen
    BY <1>2, <2>2 DEF DrainType
  <2>5. ~Holds(d, drain[d])
    <3>1. Guardia(d, r) => row[r].status = "processing"
      BY <1>2, ConstantsAssumption DEF Guardia, PInv, IInv, LeaseShape
    <3> QED
      BY <1>1, <1>5, <3>1 DEF Guardia, Holds
  <2>6. PlanSpares(m)
    BY <1>2, <2>4 DEF PlanSpares
  <2> QED
    BY <1>3, <2>3, <2>4, <2>5, <2>6, MemoryPaid
<1> QED
  BY <1>4, <1>5

-----------------------------------------------------------------------------

\* A row that arrives has no attempts yet.
LEMMA ArrivalPaid ==
  ASSUME PInv, IInv', NEW r \in Requests, Enqueue(r) \/ ForeignRow(r)
  PROVE  PInv'
<1>1. /\ row[r].status = "absent" /\ UNCHANGED <<drain, faults>>
      /\ row' = [row EXCEPT ![r].status = "queued", ![r].due = TRUE]
  BY DEF Enqueue, ForeignRow
<1>2. row \in [Requests -> RowType] /\ faults \in Nat
  BY Counts DEF PInv, IInv, TypeOK
<1>3. /\ row'[r].status = "queued" /\ row'[r].attempts = row[r].attempts
      /\ row'[r].owner = row[r].owner /\ row'[r].token = row[r].token
      /\ \A q \in Requests \ {r} : row'[q] = row[q]
  BY <1>1, <1>2 DEF RowType
<1>4. \A q \in Requests : Fenced(q)
  BY <1>3, Counts DEF PInv, IInv, Fenced
<1>5. ASSUME NEW q \in Requests PROVE Spare(q)' /\ row'[q].attempts <= MaxAttempts + faults'
  <2>1. CASE q = r
    <3>1. row'[r].attempts = 0
      BY <1>1, <1>3 DEF PInv, Spare
    <3> QED
      BY <1>1, <1>2, <1>3, <2>1, <3>1, ConstantsAssumption DEF Spare
  <2>2. CASE q # r
    <3>1. HeldInMemory(q) => HeldInMemory(q)'
      BY <1>1, <1>3, <1>5, <2>2, HeldKept
    <3> QED
      BY <1>1, <1>2, <1>3, <1>5, <2>2, <3>1, SpareKept
  <2> QED
    BY <2>1, <2>2
<1> QED
  BY <1>1, <1>4, <1>5, TablePaid

\* Time passes over a row, and it is removed with its shop or by the retention.
LEMMA TimePaid ==
  ASSUME PInv, IInv',
         \/ \E r \in Requests : BecomeDue(r) \/ ExpireOrphan(r) \/ ExpireHeld(r)
         \/ \E S \in SUBSET Requests : Prune(S)
         \/ \E s \in Shops : EraseShop(s)
  PROVE  PInv'
<1>1. row \in [Requests -> RowType] /\ faults \in Nat
  BY Counts DEF PInv, IInv, TypeOK
<1>2. UNCHANGED drain /\ faults <= faults'
  <2>1. UNCHANGED drain /\ (faults' = faults \/ Misfortune)
    BY DEF BecomeDue, ExpireOrphan, ExpireHeld, Prune, EraseShop
  <2> QED
    BY <1>1, <2>1 DEF Misfortune
<1>3. ASSUME NEW q \in Requests
      PROVE  /\ row'[q].attempts = row[q].attempts /\ row'[q].token = row[q].token
             /\ \/ row'[q].owner = row[q].owner
                \/ row'[q].owner = NoDrain /\ row'[q].status # "processing"
             /\ row'[q].status = row[q].status \/ row'[q].status = "gone"
             /\ faults < faults' \/ (row'[q].expired => row[q].expired \/ ~HeldInMemory(q))
  <2>1. ASSUME NEW r \in Requests, BecomeDue(r) \/ ExpireOrphan(r)
        PROVE  /\ row'[q].attempts = row[q].attempts /\ row'[q].token = row[q].token
               /\ row'[q].owner = row[q].owner /\ row'[q].status = row[q].status
               /\ row'[q].expired => row[q].expired \/ ~HeldInMemory(q)
    BY <1>1, <1>3, <2>1 DEF BecomeDue, ExpireOrphan, RowType
  <2>2. ASSUME NEW r \in Requests, ExpireHeld(r)
        PROVE  /\ row'[q].attempts = row[q].attempts /\ row'[q].token = row[q].token
               /\ row'[q].owner = row[q].owner /\ row'[q].status = row[q].status
               /\ faults < faults'
    BY <1>1, <1>3, <2>2, MisfortuneCounts DEF ExpireHeld, RowType, PInv, IInv
  <2>3. ASSUME NEW S \in SUBSET Requests, Prune(S)
        PROVE  /\ row'[q].attempts = row[q].attempts /\ row'[q].token = row[q].token
               /\ row'[q].owner = row[q].owner
               /\ row'[q].status = row[q].status \/ row'[q].status = "gone"
               /\ row'[q].expired => row[q].expired
    <3>1. row'[q] = IF q \in S THEN [row[q] EXCEPT !.status = "gone"] ELSE row[q]
      BY <1>3, <2>3 DEF Prune
    <3> QED
      BY <1>1, <1>3, <3>1 DEF RowType
  <2>4. ASSUME NEW s \in Shops, EraseShop(s)
        PROVE  /\ row'[q].attempts = row[q].attempts /\ row'[q].token = row[q].token
               /\ \/ row'[q].owner = row[q].owner /\ row'[q].status = row[q].status
                  \/ row'[q].owner = NoDrain /\ row'[q].status = "gone"
               /\ row'[q].expired => row[q].expired
    <3>1. row'[q] = IF ShopOf[q] = s /\ row[q].status \in InTable
                    THEN [row[q] EXCEPT !.status = "gone", !.owner = NoDrain] ELSE row[q]
      BY <1>3, <2>4 DEF EraseShop
    <3> QED
      BY <1>1, <1>3, <3>1 DEF RowType
  <2> QED
    BY <2>1, <2>2, <2>3, <2>4
<1>4. \A q \in Requests : Fenced(q)
  BY <1>3, Counts DEF PInv, IInv, Fenced
<1>5. ASSUME NEW q \in Requests PROVE Spare(q)' /\ row'[q].attempts <= MaxAttempts + faults'
  <2>1. CASE row'[q].status = "processing"
    <3>1. row'[q].owner = row[q].owner /\ row'[q].token = row[q].token
      BY <1>3, <1>5, <2>1
    <3>2. HeldInMemory(q) => HeldInMemory(q)'
      BY <1>2, <1>5, <3>1, HeldKept
    <3> QED
      BY <1>2, <1>3, <1>5, <3>2, SpareKept
  <2>2. CASE row'[q].status # "processing"
    BY <1>2, <1>3, <1>5, <2>2, SpareKept
  <2> QED
    BY <2>1, <2>2
<1> QED
  BY <1>2, <1>4, <1>5, TablePaid

\* A row that is put back starts again from zero.
LEMMA ReplayPaid ==
  ASSUME PInv, IInv', NEW S \in SUBSET Requests, Replay(S)
  PROVE  PInv'
<1>1. /\ UNCHANGED drain /\ faults < faults' /\ faults <= faults'
      /\ faults \in Nat /\ faults' \in Nat
  <2>1. faults \in Nat /\ UNCHANGED drain /\ Misfortune
    BY Counts DEF PInv, IInv, Replay
  <2> QED
    BY <2>1 DEF Misfortune
<1>2. \A q \in Requests :
        \/ row'[q] = row[q]
        \/ /\ row'[q].status = "queued" /\ row'[q].attempts = 0
           /\ row'[q].owner = NoDrain /\ row'[q].token = row[q].token
  BY DEF Replay
<1>3. \A q \in Requests : Fenced(q)
  BY <1>2, Counts DEF PInv, IInv, Fenced
<1>4. ASSUME NEW q \in Requests PROVE Spare(q)' /\ row'[q].attempts <= MaxAttempts + faults'
  <2>1. CASE row'[q] = row[q]
    BY <1>1, <1>4, <2>1, SpareKept
  <2>2. CASE row'[q].status = "queued" /\ row'[q].attempts = 0
    BY <1>1, <2>2, ConstantsAssumption DEF Spare
  <2> QED
    BY <1>2, <1>4, <2>1, <2>2
<1> QED
  BY <1>1, <1>3, <1>4, TablePaid

\* A claim spends the attempt its row has to spare; when the answer is lost, the
\* misfortune brings another.
LEMMA TakingPaid ==
  ASSUME PInv, IInv', NEW d \in Drains, NEW r \in Requests, drain[d].job = NoRequest,
         Claimable(d, r), row' = [row EXCEPT ![r] = Taken(d, r)], faults <= faults',
         NEW m, drain' = [drain EXCEPT ![d] = m], PlanSpares(m),
         \/ m.job = NoRequest /\ faults < faults'
         \/ m.job = r /\ m.token = Fresh(r) /\ ~m.lost
  PROVE  PInv'
<1>1. row \in [Requests -> RowType] /\ faults \in Nat /\ faults' \in Nat /\ row[r] \in RowType
  BY Counts DEF PInv, IInv, TypeOK
<1>2. /\ row'[r].status = "processing" /\ row'[r].attempts = row[r].attempts + 1
      /\ row'[r].owner = d /\ row'[r].token = Fresh(r) /\ ~row'[r].expired
      /\ \A q \in Requests \ {r} : row'[q] = row[q]
  BY <1>1 DEF Taken
<1>3. /\ \A e \in Drains : drain'[e] = IF e = d THEN m ELSE drain[e]
      /\ row[r].attempts \in Nat
  BY Counts DEF PInv, IInv, TypeOK
<1>4. \A q \in Requests : Fenced(q)
  BY <1>2, Counts DEF PInv, IInv, Fenced
<1>5. \A e \in Drains : Follows(e, drain'[e])
  BY <1>2, <1>3, SameMemory DEF Follows
<1>6. ASSUME NEW q \in Requests PROVE Spare(q)' /\ row'[q].attempts <= MaxAttempts + faults'
  <2>1. CASE q = r
    <3>1. row[r].attempts < MaxAttempts + faults
      BY DEF PInv, Spare, Claimable
    <3>2. row'[r].attempts <= MaxAttempts + faults
      BY <1>1, <1>2, <1>3, <3>1, ConstantsAssumption
    <3>3. HeldInMemory(r)' \/ faults < faults'
      BY <1>2, <1>3 DEF HeldInMemory
    <3>4. faults < faults' => row'[r].attempts < MaxAttempts + faults'
      BY <1>1, <1>2, <1>3, <3>2, ConstantsAssumption
    <3>5. row'[r].attempts <= MaxAttempts + faults'
      BY <1>1, <1>2, <1>3, <3>2, ConstantsAssumption
    <3> QED
      BY <1>2, <2>1, <3>3, <3>4, <3>5 DEF Spare
  <2>2. CASE q # r
    <3>1. row'[q] = row[q] /\ q # NoRequest
      BY <1>2, <1>6, <2>2, ConstantsAssumption
    <3>2. HeldInMemory(q) => HeldInMemory(q)'
      BY <1>3, <1>6, <3>1, HeldKept
    <3> QED
      BY <1>6, <3>1, <3>2, SpareKept
  <2> QED
    BY <2>1, <2>2
<1> QED
  BY <1>4, <1>5, <1>6, PaidStep

\* A claim and its loss.
LEMMA ClaimPaid ==
  ASSUME PInv, IInv', NEW d \in Drains, ClaimFails(d) \/ \E r \in Requests : Claim(d, r)
  PROVE  PInv'
<1>1. drain[d].job = NoRequest
  BY DEF PInv, IInv, MemoryIsSound, Current, ClaimFails, Claim
<1>2. Off.job = NoRequest /\ PlanSpares(Off)
  BY DEF Off, PlanSpares
<1>3. CASE ClaimFails(d)
  <2>1. faults < faults' /\ faults <= faults' /\ drain' = [drain EXCEPT ![d] = Off]
    BY <1>3, MisfortuneCounts DEF ClaimFails, PInv, IInv
  <2>2. CASE UNCHANGED row
    BY <1>2, <2>1, <2>2, MemoryPaid
  <2>3. ASSUME NEW r \in Requests, Claimable(d, r), row' = [row EXCEPT ![r] = Taken(d, r)]
        PROVE  PInv'
    BY <1>1, <1>2, <2>1, <2>3, TakingPaid
  <2> QED
    BY <1>3, <2>2, <2>3 DEF ClaimFails
<1>4. ASSUME NEW r \in Requests, Claim(d, r) PROVE PInv'
  <2>1. PICK m : m = [Off EXCEPT !.pc = "claimed", !.job = r, !.token = Fresh(r),
                        !.seen = row[r].attempts + 1, !.taken = drain[d].taken + 1]
    OBVIOUS
  <2>2. m.job = r /\ m.token = Fresh(r) /\ ~m.lost /\ PlanSpares(m)
    BY <2>1 DEF Off, PlanSpares
  <2>3. /\ Claimable(d, r) /\ row' = [row EXCEPT ![r] = Taken(d, r)] /\ faults' = faults
        /\ drain' = [drain EXCEPT ![d] = m]
    BY <1>4, <2>1 DEF Claim
  <2>4. faults <= faults'
    BY <2>3, Counts DEF PInv, IInv
  <2> QED
    BY <1>1, <1>4, <2>2, <2>3, <2>4, TakingPaid
<1> QED
  BY <1>3, <1>4

\* A statement closes a row with the count of its holder, or gives one back.
LEMMA SettlePaid ==
  ASSUME PInv, IInv', NEW d \in Drains, Settle(d) \/ SettleFails(d)
  PROVE  PInv'
<1>1. PICK r : r = drain[d].job
  OBVIOUS
<1>2. /\ drain[d] \in DrainType /\ Current(d, drain[d]) /\ Earned(d, drain[d])
      /\ PlanSpares(drain[d]) /\ drain[d].pc \in {"settling", "lastWord"}
  BY DEF PInv, IInv, TypeOK, MemoryIsSound, Settle, SettleFails
<1>3. r \in Requests /\ row[r] \in RowType /\ row \in [Requests -> RowType]
  BY <1>1, <1>2, ConstantsAssumption DEF PInv, IInv, TypeOK, Current, DrainType
<1>4. faults <= faults' /\ (SettleFails(d) => faults < faults')
  BY Counts, MisfortuneCounts DEF PInv, IInv, Settle, SettleFails
\* The memory it leaves.
<1>5. PICK m :
        /\ drain' = [drain EXCEPT ![d] = m]
        /\ PlanSpares(m)
        /\ \/ m.job = NoRequest
           \/ m.job = r /\ m.token = drain[d].token /\ m.lost = drain[d].lost
  <2>1. ASSUME drain' = [drain EXCEPT ![d] = Off] PROVE
          \E m : /\ drain' = [drain EXCEPT ![d] = m] /\ PlanSpares(m) /\ m.job = NoRequest
    <3>1. PlanSpares(Off) /\ Off.job = NoRequest
      BY DEF Off, PlanSpares
    <3> QED
      BY <2>1, <3>1
  <2>2. CASE Settle(d)
    <3>1. PICK m : m = [Off EXCEPT !.pc = "loop", !.stop = drain[d].stop,
                                   !.taken = drain[d].taken]
      OBVIOUS
    <3>2. m.job = NoRequest /\ PlanSpares(m)
      BY <3>1 DEF Off, PlanSpares
    <3> QED
      BY <2>2, <3>1, <3>2 DEF Settle, NextTurn
  <2>3. CASE SettleFails(d) /\ drain[d].pc = "settling"
    <3>1. PICK m : m = [drain[d] EXCEPT !.pc = "lastWord", !.plan = PlanAfterFailure(d)]
      OBVIOUS
    <3>2. /\ m.job = r /\ m.token = drain[d].token /\ m.lost = drain[d].lost
          /\ m.plan = PlanAfterFailure(d) /\ m.seen = drain[d].seen
      BY <1>1, <1>2, <3>1 DEF DrainType
    <3>3. PlanSpares(m)
      <4>1. drain[d].seen \in Nat /\ MaxAttempts \in Nat
        BY <1>2, ConstantsAssumption DEF DrainType
      <4> QED
        BY <3>2, <4>1 DEF PlanSpares, PlanAfterFailure, Exhausted
    <3> QED
      BY <2>3, <3>1, <3>2, <3>3 DEF SettleFails, PlanNext
  <2>4. CASE SettleFails(d) /\ drain[d].pc # "settling"
    BY <2>1, <2>4 DEF SettleFails
  <2> QED
    BY <2>2, <2>3, <2>4
<1>6. \A e \in Drains : drain'[e] = IF e = d THEN m ELSE drain[e]
  BY <1>5 DEF PInv, IInv, TypeOK
<1>7. CASE UNCHANGED row
  <2>1. m.job = NoRequest => faults < faults' \/ ~Holds(d, drain[d])
    <3>1. Settle(d) => ~Guardia(d, r)
      <4>1. ASSUME Settle(d), Guardia(d, r) PROVE FALSE
        <5>1. row'[r] = Closed(r, drain[d].plan)
          BY <1>1, <1>3, <4>1 DEF Settle, Statement
        <5>2. row'[r].owner = NoDrain
          BY <5>1 DEF Closed
        <5> QED
          BY <1>7, <4>1, <5>2, ConstantsAssumption DEF Guardia
      <4> QED
        BY <4>1
    <3> QED
      BY <1>1, <1>4, <3>1 DEF Guardia, Holds
  <2> QED
    BY <1>1, <1>4, <1>5, <1>7, <2>1, MemoryPaid
<1>8. CASE row' # row
  <2>1. row' = [row EXCEPT ![r] = Closed(r, drain[d].plan)] /\ Guardia(d, r)
    BY <1>1, <1>8 DEF Settle, SettleFails, Statement
  <2>2. /\ \A q \in Requests \ {r} : row'[q] = row[q]
        /\ row'[r] = Closed(r, drain[d].plan)
    BY <1>3, <2>1
  <2>3. drain[d].seen = row[r].attempts /\ row[r].attempts > 0
    BY <1>1, <1>2, <1>3, <2>1, ConstantsAssumption DEF Current, Holds, Guardia
  <2>4. /\ row'[r].owner = NoDrain /\ row'[r].token = row[r].token
        /\ row'[r].status \in {"completed", "dead_letter", "queued"}
        /\ row'[r].status = "queued" =>
             \/ drain[d].plan \in Releases /\ row'[r].attempts = row[r].attempts - 1
             \/ drain[d].plan = "reschedule" /\ row'[r].attempts = row[r].attempts
        /\ row'[r].status # "queued" => row'[r].attempts = row[r].attempts
    BY <1>2, <2>2 DEF Closed, StatusAfter, Releases, Earned, DrainType, Plans
  <2>5. \A q \in Requests : Fenced(q)
    BY <2>2, <2>4, Counts DEF PInv, IInv, Fenced
  <2>6. \A e \in Drains : Follows(e, drain'[e])
    BY <1>1, <1>5, <1>6, SameMemory DEF Follows
  <2>7. ASSUME NEW q \in Requests PROVE Spare(q)' /\ row'[q].attempts <= MaxAttempts + faults'
    <3>1. CASE q # r
      <4>1. row'[q] = row[q] /\ q # NoRequest
        BY <2>2, <2>7, <3>1, ConstantsAssumption
      <4>2. HeldInMemory(q) => HeldInMemory(q)'
        BY <1>1, <1>6, <2>7, <3>1, <4>1, HeldKept
      <4> QED
        BY <1>4, <2>7, <4>1, <4>2, SpareKept
    <3>2. CASE q = r /\ row'[r].status # "queued"
      BY <1>3, <1>4, <2>4, <3>2, SpareKept
    <3>3. CASE q = r /\ row'[r].status = "queued"
      <4>1. row[r].attempts <= MaxAttempts + faults /\ row[r].attempts \in Nat
            /\ faults \in Nat /\ faults' \in Nat /\ MaxAttempts \in Nat
        <5>1. \A p \in Requests : row[p].attempts <= MaxAttempts + faults
          BY DEF PInv, AttemptsArePaid
        <5>2. TypeOK /\ TypeOK'
          BY DEF PInv, IInv
        <5>3. row[r].attempts \in Nat
          BY <1>3 DEF RowType
        <5>4. faults \in Nat /\ faults' \in Nat /\ MaxAttempts \in Nat
          BY <5>2, ConstantsAssumption DEF TypeOK
        <5> QED
          BY <1>3, <5>1, <5>3, <5>4
      <4>2. row'[r].attempts < MaxAttempts + faults'
        BY <1>2, <1>4, <2>3, <2>4, <3>3, <4>1 DEF PlanSpares
      <4>3. row'[r].attempts \in Nat
        BY <2>3, <2>4, <3>3, <4>1
      <4> QED
        BY <3>3, <4>1, <4>2, <4>3 DEF Spare
    <3> QED
      BY <3>1, <3>2, <3>3
  <2> QED
    BY <2>5, <2>6, <2>7, PaidStep
<1> QED
  BY <1>7, <1>8

\* Every step pays for the attempts it counts.
LEMMA StepPInv == PInv /\ [Next]_vars => PInv'
<1> SUFFICES ASSUME PInv, [Next]_vars PROVE PInv'
  OBVIOUS
<1>1. IInv'
  BY StepIInv DEF PInv
<1>2. CASE Table
  BY <1>1, <1>2, ArrivalPaid, TimePaid, ReplayPaid DEF Table
<1>3. ASSUME NEW d \in Drains, Start(d) \/ Progress(d) \/ Heartbeat(d) \/ TimeUp(d) \/ Mishap(d)
      PROVE  PInv'
  BY <1>1, <1>3, MovePaid, ReturnPaid, HeartbeatPaid, ClaimPaid, SettlePaid
  DEF Progress, Mishap
<1>4. CASE UNCHANGED vars
  <2>1. \A r \in Requests : Fenced(r) /\ row'[r] = row[r] /\ HeldInMemory(r)' = HeldInMemory(r)
    BY <1>4, Counts DEF vars, PInv, IInv, Fenced, HeldInMemory
  <2>2. faults <= faults' /\ UNCHANGED drain
    BY <1>4, Counts DEF vars, PInv, IInv
  <2>3. \A r \in Requests : Spare(r)' /\ row'[r].attempts <= MaxAttempts + faults'
    BY <1>1, <2>1, <2>2, SpareKept
  <2> QED
    BY <1>1, <2>1, <2>2, <2>3, TablePaid
<1> QED
  BY <1>2, <1>3, <1>4 DEF Next

\* The counts of the rows and the memories of the drains agree at every moment.
THEOREM QueuePaysInvariant == Spec => []PInv
<1>1. Init => PInv
  <2> SUFFICES ASSUME Init PROVE PInv
    OBVIOUS
  <2>1. IInv
    BY InitIInv
  <2>2. \A r \in Requests : row[r].status = "absent" /\ row[r].attempts = 0
    BY DEF Init, NewRow
  <2>3. \A d \in Drains : drain[d].job = NoRequest /\ drain[d].plan = "none"
    BY DEF Init, Off
  <2>4. faults = 0 /\ MaxAttempts \in Nat
    BY ConstantsAssumption DEF Init
  <2> QED
    BY <2>1, <2>2, <2>3, <2>4 DEF PInv, AttemptsArePaid, Spare, LostIsLost, PlanSpares
<1> QED
  BY <1>1, StepPInv, PTL DEF Spec

\* A row has more than MaxAttempts attempts only as far as misfortunes paid for
\* them: nothing that goes well counts an attempt beyond the limit.
THEOREM AttemptsPaid == Spec => []AttemptsArePaid
<1>1. PInv => AttemptsArePaid
  BY DEF PInv
<1> QED
  BY <1>1, QueuePaysInvariant, PTL

-----------------------------------------------------------------------------
(* SyncQueue implements WorkQueue *)

\* A step that moves exactly the rows of S, all to the stage s.
LEMMA StageStep ==
  ASSUME TypeOK, TypeOK', NEW S \in SUBSET Requests, NEW s,
         \A r \in S : Stage(row'[r].status) = s,
         \A r \in Requests \ S : row'[r].status = row[r].status
  PROVE  Abstract!MoveTo(S, s)
  BY DEF Abstract!MoveTo

\* A step that keeps the status of every row and the history stutters above.
LEMMA StatusKept ==
  ASSUME TypeOK, TypeOK', UNCHANGED ran,
         \A r \in Requests : row'[r].status = row[r].status
  PROVE  UNCHANGED Abstract!vars
  BY DEF Abstract!vars

\* Each step of the table is one of the abstract queue, or none.
LEMMA TableRefines ==
  ASSUME IInv, IInv', Table
  PROVE  Abstract!Next \/ UNCHANGED Abstract!vars
<1> USE DEF IInv
<1>1. ASSUME NEW r \in Requests, Enqueue(r) \/ ForeignRow(r) PROVE Abstract!Submit(r)
  <2>1. row[r].status = "absent" /\ UNCHANGED ran
    BY <1>1 DEF Enqueue, ForeignRow
  <2>2. row'[r].status = "queued" /\ \A q \in Requests \ {r} : row'[q].status = row[q].status
    BY <1>1 DEF Enqueue, ForeignRow, TypeOK, RowType
  <2>3. Abstract!MoveTo({r}, "pending")
    BY <2>2, StageStep DEF Stage
  <2> QED
    BY <2>1, <2>3 DEF Abstract!Submit, Stage
<1>2. ASSUME NEW r \in Requests, BecomeDue(r) \/ ExpireOrphan(r) \/ ExpireHeld(r)
      PROVE  UNCHANGED Abstract!vars
  <2>1. \A q \in Requests : row'[q].status = row[q].status
    BY <1>2 DEF BecomeDue, ExpireOrphan, ExpireHeld, TypeOK, RowType
  <2> QED
    BY <1>2, <2>1, StatusKept DEF BecomeDue, ExpireOrphan, ExpireHeld
<1>3. ASSUME NEW S \in SUBSET Requests, Replay(S) PROVE Abstract!Revive(S)
  <2>1. Abstract!MoveTo(S, "pending")
    BY <1>3, StageStep DEF Replay, Stage
  <2> QED
    BY <1>3, <2>1 DEF Abstract!Revive, Replay, Stage
<1>4. ASSUME NEW S \in SUBSET Requests, Prune(S) PROVE Abstract!Forget(S)
  <2>1. \A r \in S : row'[r].status = "gone"
    BY <1>4 DEF Prune, TypeOK, RowType
  <2>2. \A r \in Requests \ S : row'[r].status = row[r].status
    BY <1>4 DEF Prune
  <2>3. Abstract!MoveTo(S, "gone")
    BY <2>1, <2>2, StageStep DEF Stage
  <2> QED
    BY <1>4, <2>3 DEF Abstract!Forget, Prune, Stage
<1>5. ASSUME NEW s \in Shops, EraseShop(s) PROVE \E S \in SUBSET Requests : Abstract!Withdraw(S)
  <2> DEFINE S == {r \in Requests : ShopOf[r] = s /\ row[r].status \in InTable}
  <2>1. \A r \in S : row'[r].status = "gone"
    BY <1>5 DEF EraseShop, TypeOK, RowType
  <2>2. \A r \in Requests \ S : row'[r].status = row[r].status
    BY <1>5 DEF EraseShop
  <2>3. Abstract!MoveTo(S, "gone")
    BY <2>1, <2>2, StageStep DEF Stage
  <2>4. \A r \in S : Stage(row[r].status) \in Abstract!Present
    BY DEF InTable, Stage, Abstract!Present
  <2> QED
    BY <1>5, <2>3, <2>4 DEF Abstract!Withdraw, EraseShop
<1> QED
  BY <1>1, <1>2, <1>3, <1>4, <1>5 DEF Table, Abstract!Next

\* So is each claim.
LEMMA TakingRefines ==
  ASSUME IInv, IInv', NEW d \in Drains, NEW r \in Requests, Claimable(d, r),
         row' = [row EXCEPT ![r] = Taken(d, r)], ran' = [ran EXCEPT ![r] = FALSE]
  PROVE  Abstract!Take(r)
<1> USE DEF IInv
<1>1. row'[r].status = "processing" /\ \A q \in Requests \ {r} : row'[q].status = row[q].status
  BY TakenType DEF TypeOK
<1>2. Abstract!MoveTo({r}, "held")
  BY <1>1, StageStep DEF Stage
<1> QED
  BY <1>2 DEF Abstract!Take, Claimable, Stage

\* And each closing statement.
LEMMA StatementRefines ==
  ASSUME IInv, IInv', NEW d \in Drains, drain[d].pc \in {"settling", "lastWord"},
         Statement(d), UNCHANGED ran
  PROVE  Abstract!Next \/ UNCHANGED Abstract!vars
<1> USE DEF IInv
<1> DEFINE r == drain[d].job
           plan == drain[d].plan
<1>1. drain[d] \in DrainType /\ Current(d, drain[d]) /\ Earned(d, drain[d])
  BY DEF TypeOK, MemoryIsSound
<1>2. r \in Requests /\ plan # "none"
  BY <1>1, ConstantsAssumption DEF Current, Earned, DrainType
<1>3. CASE ~Guardia(d, r)
  BY <1>3, StatusKept DEF Statement
<1>4. CASE Guardia(d, r)
  <2>1. row[r].status = "processing"
    BY <1>2, <1>4, ConstantsAssumption DEF Guardia, LeaseShape
  <2>2. row' = [row EXCEPT ![r] = Closed(r, plan)]
    BY <1>4 DEF Statement
  <2>3. row'[r].status = StatusAfter(plan) /\ \A q \in Requests \ {r} : row'[q].status = row[q].status
    BY <1>2, <2>2 DEF TypeOK, Closed
  <2>4. CASE plan = "complete"
    <3>1. Abstract!MoveTo({r}, "done")
      BY <1>2, <2>3, <2>4, StageStep DEF Stage, StatusAfter
    <3>2. ran[r]
      BY <1>1, <1>4, <2>4 DEF Earned, Holds, Guardia
    <3> QED
      BY <1>2, <2>1, <3>1, <3>2 DEF Abstract!Next, Abstract!Finish, Stage
  <2>5. CASE plan = "deadLetter"
    <3>1. Abstract!MoveTo({r}, "dead")
      BY <1>2, <2>3, <2>5, StageStep DEF Stage, StatusAfter
    <3> QED
      BY <1>2, <2>1, <3>1 DEF Abstract!Next, Abstract!GiveUp, Stage
  <2>6. CASE plan \notin {"complete", "deadLetter"}
    <3>1. Abstract!MoveTo({r}, "pending")
      BY <1>2, <2>3, <2>6, StageStep DEF Stage, StatusAfter
    <3> QED
      BY <1>2, <2>1, <3>1 DEF Abstract!Next, Abstract!PutBack, Stage
  <2> QED
    BY <2>4, <2>5, <2>6
<1> QED
  BY <1>3, <1>4

\* And each other step of a drain.
LEMMA DrainRefines ==
  ASSUME IInv, IInv', NEW d \in Drains,
         Start(d) \/ Progress(d) \/ Heartbeat(d) \/ TimeUp(d) \/ Mishap(d)
  PROVE  Abstract!Next \/ UNCHANGED Abstract!vars
<1> USE DEF IInv
<1>1. CASE \/ Start(d) \/ EndDrain(d) \/ TurnBack(d) \/ Refuse(d) \/ Begin(d)
           \/ LockGranted(d) \/ LockAborted(d) \/ HandlerObeys(d) \/ HandlerFails(d)
           \/ TimeUp(d) \/ Shutdown(d) \/ Crash(d) \/ LockBusy(d) \/ LockUnavailable(d)
  <2>1. UNCHANGED <<row, ran>>
    BY <1>1
    DEF Start, EndDrain, TurnBack, Refuse, Begin, LockGranted, LockAborted, HandlerObeys,
        HandlerFails, TimeUp, Shutdown, Crash, LockBusy, LockUnavailable
  <2> QED
    BY <2>1, StatusKept
<1>2. CASE Heartbeat(d)
  <2>1. \A q \in Requests : row'[q].status = row[q].status
    BY <1>2 DEF Heartbeat, TypeOK, RowType
  <2> QED
    BY <1>2, <2>1, StatusKept DEF Heartbeat
<1>3. ASSUME NEW r \in Requests, Claim(d, r) PROVE Abstract!Next
  BY <1>3, TakingRefines DEF Claim, Abstract!Next
<1>4. CASE ClaimFails(d)
  <2>1. CASE UNCHANGED <<row, ran>>
    BY <2>1, StatusKept
  <2>2. ASSUME NEW r \in Requests, Claimable(d, r), row' = [row EXCEPT ![r] = Taken(d, r)],
               ran' = [ran EXCEPT ![r] = FALSE]
        PROVE  Abstract!Next
    BY <2>2, TakingRefines DEF Abstract!Next
  <2> QED
    BY <1>4, <2>1, <2>2 DEF ClaimFails
<1>5. CASE HandlerReturns(d)
  <2>1. drain[d].job \in Requests
    BY <1>5, ConstantsAssumption DEF TypeOK, MemoryIsSound, Current, HandlerReturns, DrainType
  <2>2. UNCHANGED row
    BY <1>5 DEF HandlerReturns
  <2>3. CASE drain[d].token = row[drain[d].job].token
    <3>1. ran' = [ran EXCEPT ![drain[d].job] = TRUE]
      BY <1>5, <2>1, <2>3 DEF HandlerReturns, TypeOK
    <3> QED
      BY <2>1, <2>2, <3>1 DEF Abstract!Next, Abstract!Work
  <2>4. CASE drain[d].token # row[drain[d].job].token
    <3>1. UNCHANGED ran
      BY <1>5, <2>1, <2>4 DEF HandlerReturns, TypeOK
    <3> QED
      BY <2>2, <3>1, StatusKept
  <2> QED
    BY <2>3, <2>4
<1>6. CASE Settle(d)
  BY <1>6, StatementRefines DEF Settle
<1>7. CASE SettleFails(d)
  <2>1. CASE UNCHANGED row
    BY <1>7, <2>1, StatusKept DEF SettleFails
  <2>2. CASE Statement(d)
    BY <1>7, <2>2, StatementRefines DEF SettleFails
  <2> QED
    BY <1>7, <2>1, <2>2 DEF SettleFails
<1> QED
  BY <1>1, <1>2, <1>3, <1>4, <1>5, <1>6, <1>7 DEF Progress, Mishap

\* The table and its drains are a correct implementation of the queue that
\* WorkQueue promises: every step is a step of that queue or changes nothing in it.
THEOREM Implementation == Spec => ImplementsWorkQueue
<1>1. Init => Abstract!Init
  BY DEF Init, Abstract!Init, NewRow, Stage
<1>2. IInv /\ IInv' /\ [Next]_vars => [Abstract!Next]_(Abstract!vars)
  <2> SUFFICES ASSUME IInv, IInv', [Next]_vars
               PROVE  Abstract!Next \/ UNCHANGED Abstract!vars
    OBVIOUS
  <2>1. CASE Table
    BY <2>1, TableRefines
  <2>2. ASSUME NEW d \in Drains,
               Start(d) \/ Progress(d) \/ Heartbeat(d) \/ TimeUp(d) \/ Mishap(d)
        PROVE  Abstract!Next \/ UNCHANGED Abstract!vars
    BY <2>2, DrainRefines
  <2>3. CASE UNCHANGED vars
    BY <2>3 DEF vars, Abstract!vars
  <2> QED
    BY <2>1, <2>2, <2>3 DEF Next
<1> QED
  BY <1>1, <1>2, QueueInvariant, PTL DEF Spec, ImplementsWorkQueue, Abstract!Spec
==============================================================================
