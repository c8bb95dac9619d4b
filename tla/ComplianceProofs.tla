-------------------------- MODULE ComplianceProofs --------------------------
(***************************************************************************)
(* Theorems about Compliance, for any deliveries, workers, practices,      *)
(* installations and bounds.                                               *)
(***************************************************************************)
EXTENDS Compliance, TLAPS

\* The inductive invariant, by what a step writes and by what its parts need of
\* each other: the last two are about the lock and about the lease.
StoreIsTyped ==
  /\ shop \in ShopType
  /\ installs \in 0 .. MaxInstalls
  /\ lock \in [Installs -> Workers \cup {Nobody}]
  /\ topic \in [Requests -> Topics]
  /\ feed \in [Requests -> {"unsent", "unanswered", "acked"}]
  /\ proof \in [Requests -> {"none", "skipped", "completed"}]
  /\ served \subseteq Requests
  /\ erased \in [Requests -> SUBSET Installs]
  /\ overtaken \subseteq Requests
  /\ unguarded \subseteq Installs
  /\ swept \subseteq Requests
  /\ faults \in 0 .. MaxFaults

WorkersAreSound ==
  /\ worker \in [Workers -> WorkerType]
  /\ \A w \in Workers : MemoryIsSound(worker[w])

TableIsSound ==
  /\ row \in [Requests -> RowType]
  /\ RowsAreSound
  /\ HoldersKnowTheAttempt
  /\ CompletedIsServed
  /\ DeadLetterHadAllAttempts

Base == StoreIsTyped /\ WorkersAreSound /\ TableIsSound

Guarded == InstallsAreCounted /\ LockIsHeld /\ OneErasurePerDelivery /\ ErasureIsProved

Alone == HoldersAreAlone /\ ClosedByAnOpenDelivery

Whole == Base /\ AcceptedIsKept /\ Guarded /\ Alone

LEMMA WholeIsIInv == Whole => IInv
  BY DEF Whole, Base, Guarded, Alone, IInv, TypeOK, StoreIsTyped, WorkersAreSound, TableIsSound

LEMMA BaseNext ==
  ASSUME StoreIsTyped', WorkersAreSound', TableIsSound'
  PROVE  Base'
  BY DEF Base

-----------------------------------------------------------------------------
(* What no step takes back *)

Grown ==
  /\ UNCHANGED topic
  /\ \A r \in Requests : feed[r] # "unsent" => feed'[r] # "unsent"
  /\ \A r \in Requests : proof[r] # "none" => proof'[r] = proof[r]
  /\ served \subseteq served'
  /\ overtaken \subseteq overtaken'

\* Nobody begins anything: each invocation goes on with its request, or stops.
Continues ==
  /\ worker' \in [Workers -> WorkerType]
  /\ \A v \in Workers :
       /\ worker'[v].pc # "idle" => /\ worker[v].pc # "idle"
                                    /\ worker'[v].request = worker[v].request
                                    /\ worker'[v].attempt = worker[v].attempt
       /\ worker'[v].request \in Requests => worker'[v].request = worker[v].request

LEMMA IdleIsMemory ==
  /\ Idle \in WorkerType
  /\ Idle.pc = "idle"
  /\ Idle.request = NoRequest
  BY ConstantsAssumption DEF Idle, WorkerType, PCs

LEMMA NoRowIsRow ==
  /\ NoRow \in RowType
  /\ NoRow.status = "absent"
  /\ NoRow.owner = Nobody
  BY DEF NoRow, RowType, Statuses

LEMMA Remembered ==
  ASSUME Base, NEW w \in Workers
  PROVE  worker[w] \in WorkerType /\ MemoryIsSound(worker[w])
  BY DEF Base, WorkersAreSound

\* A memory elsewhere in its work is a memory.
LEMMA ElsewhereIsMemory ==
  ASSUME NEW m \in WorkerType, NEW pc \in PCs
  PROVE  LET n == [m EXCEPT !.pc = pc]
         IN  /\ n \in WorkerType /\ n.pc = pc
             /\ n.request = m.request /\ n.attempt = m.attempt /\ n.install = m.install
  BY DEF WorkerType

LEMMA MemoryStaysSound ==
  ASSUME Grown, NEW m \in WorkerType, MemoryIsSound(m)
  PROVE  MemoryIsSound(m)'
<1>1. m.request \in Requests \cup {NoRequest}
  BY DEF WorkerType
<1>2. CASE m.request = NoRequest
  BY <1>2, ConstantsAssumption DEF MemoryIsSound, Locked
<1>3. CASE m.request \in Requests
  BY <1>3, ConstantsAssumption DEF MemoryIsSound, Grown, Locked
<1> QED
  BY <1>1, <1>2, <1>3

LEMMA WorkersStaySound ==
  ASSUME WorkersAreSound, Grown, UNCHANGED worker
  PROVE  WorkersAreSound'
<1>1. ASSUME NEW w \in Workers PROVE MemoryIsSound(worker[w])'
  <2> PICK m : m = worker[w]
    OBVIOUS
  <2>1. MemoryIsSound(m)'
    BY MemoryStaysSound DEF WorkersAreSound
  <2> QED
    BY <2>1
<1> QED
  BY <1>1 DEF WorkersAreSound

LEMMA UpdateIsSound ==
  ASSUME WorkersAreSound, Grown,
         NEW w \in Workers, NEW m \in WorkerType, Update(w, m), MemoryIsSound(m)'
  PROVE  WorkersAreSound'
<1>1. ASSUME NEW v \in Workers PROVE MemoryIsSound(worker[v])'
  <2> PICK n : n = worker'[v]
    OBVIOUS
  <2>1. n = m \/ n = worker[v]
    BY DEF Update, WorkersAreSound
  <2>2. n = worker[v] => MemoryIsSound(n)'
    BY MemoryStaysSound DEF WorkersAreSound
  <2> QED
    BY <2>1, <2>2
<1>2. worker' \in [Workers -> WorkerType]
  BY DEF Update, WorkersAreSound
<1> QED
  BY <1>1, <1>2 DEF WorkersAreSound

LEMMA UpdateContinues ==
  ASSUME WorkersAreSound, NEW w \in Workers, NEW m \in WorkerType, Update(w, m),
         \/ m = Idle
         \/ /\ m.pc # "idle" /\ worker[w].pc # "idle"
            /\ m.request = worker[w].request /\ m.attempt = worker[w].attempt
  PROVE  Continues
  BY IdleIsMemory, ConstantsAssumption DEF WorkersAreSound, Update, Continues

-----------------------------------------------------------------------------
(* The table *)

\* What a step that leaves the table alone may do around it.
LEMMA TableUntouched ==
  ASSUME Base, Grown, Continues, UNCHANGED row
  PROVE  TableIsSound'
<1>1. row' \in [Requests -> RowType]
  BY DEF Base, TableIsSound
<1>2. \A r \in Requests : Attended(r)' => Attended(r)
  BY DEF Attended, Continues
<1>3. RowsAreSound'
  BY <1>2 DEF Base, TableIsSound, RowsAreSound, Grown
<1>4. HoldersKnowTheAttempt'
  BY DEF Base, TableIsSound, HoldersKnowTheAttempt, Guardia, Continues
<1>5. CompletedIsServed' /\ DeadLetterHadAllAttempts'
  BY DEF Base, TableIsSound, CompletedIsServed, DeadLetterHadAllAttempts, Grown
<1> QED
  BY <1>1, <1>3, <1>4, <1>5 DEF TableIsSound

\* One row is written, and has no holder afterwards.
LEMMA RowWritten ==
  ASSUME Base, Grown, Continues,
         NEW r \in Requests, NEW new \in RowType,
         row' = [row EXCEPT ![r] = new],
         new.status # "processing",
         new.status # "absent" => feed'[r] # "unsent",
         new.status = "completed" => r \in served',
         new.status = "dead_letter" => new.attempts >= MaxAttempts
  PROVE  TableIsSound'
<1>1. row' \in [Requests -> RowType]
  BY DEF Base, TableIsSound
<1>2. \A q \in Requests : row'[q] = IF q = r THEN new ELSE row[q]
  BY DEF Base, TableIsSound
<1>3. \A q \in Requests \ {r} : Attended(q)' => Attended(q)
  BY <1>2 DEF Attended, Continues
<1>4. RowsAreSound'
  BY <1>2, <1>3 DEF Base, TableIsSound, RowsAreSound, Grown
<1>5. HoldersKnowTheAttempt'
  <2> SUFFICES ASSUME NEW w \in Workers, worker'[w].pc # "idle", Guardia(w)'
               PROVE  worker'[w].attempt = row'[worker'[w].request].attempts
    BY DEF HoldersKnowTheAttempt
  <2>1. MemoryIsSound(worker[w]) /\ worker[w] \in WorkerType
    BY Remembered
  <2>2. worker[w].request \in Requests /\ worker'[w].request = worker[w].request
    BY <2>1 DEF Continues, MemoryIsSound, WorkerType
  <2>3. worker[w].request # r /\ Guardia(w)
    BY <1>2, <2>2 DEF Guardia
  <2> QED
    BY <1>2, <2>2, <2>3 DEF Base, TableIsSound, HoldersKnowTheAttempt, Continues
<1>6. CompletedIsServed' /\ DeadLetterHadAllAttempts'
  BY <1>2 DEF Base, TableIsSound, CompletedIsServed, DeadLetterHadAllAttempts, Grown
<1> QED
  BY <1>1, <1>4, <1>5, <1>6 DEF TableIsSound

-----------------------------------------------------------------------------
(* Base, action by action *)

LEMMA MisfortuneType == ASSUME Base, Misfortune PROVE faults' \in 0 .. MaxFaults
  BY ConstantsAssumption DEF Base, StoreIsTyped, Misfortune

LEMMA UnlockedIsTyped ==
  ASSUME Base, NEW w \in Workers
  PROVE  Unlocked(w) \in [Installs -> Workers \cup {Nobody}]
  BY DEF Base, StoreIsTyped, Unlocked

\* A step that writes neither the table nor a memory.
LEMMA AsideStep ==
  ASSUME Base, StoreIsTyped', Grown, UNCHANGED <<row, worker>>
  PROVE  Base'
<1>1. Continues
  BY DEF Base, WorkersAreSound, Continues
<1>2. WorkersAreSound'
  BY WorkersStaySound DEF Base
<1> QED
  BY <1>1, <1>2, TableUntouched, BaseNext

\* A step that writes one row and no memory.
LEMMA RecordStep ==
  ASSUME Base, StoreIsTyped', Grown, UNCHANGED worker, NEW r \in Requests, Record(r),
         feed'[r] # "unsent"
  PROVE  Base'
<1>1. CASE UNCHANGED row
  BY <1>1, AsideStep
<1>2. CASE row' # row
  <2> PICK new : new = [NoRow EXCEPT !.status = "queued", !.due = TRUE]
    OBVIOUS
  <2>1. row' = [row EXCEPT ![r] = new]
    BY <1>2 DEF Record
  <2>2. new \in RowType /\ new.status = "queued"
    BY DEF NoRow, RowType, Statuses
  <2>3. Continues
    BY DEF Base, WorkersAreSound, Continues
  <2>4. TableIsSound'
    BY <2>1, <2>2, <2>3, RowWritten
  <2>5. WorkersAreSound'
    BY WorkersStaySound DEF Base
  <2> QED
    BY <2>4, <2>5, BaseNext
<1> QED
  BY <1>1, <1>2

LEMMA InstallBase ==
  ASSUME Base, Install
  PROVE  Base'
<1>1. StoreIsTyped'
  BY ConstantsAssumption
     DEF Base, StoreIsTyped, Install, NewShop, ShopType, history
<1>2. Grown
  BY DEF Install, Grown, history
<1> QED
  BY <1>1, <1>2, AsideStep DEF Install

LEMMA ReceiveBase ==
  ASSUME Base, NEW r \in Requests, Receive(r) \/ ReceiveFails(r) \/ Redeliver(r)
  PROVE  Base'
<1>1. faults' \in 0 .. MaxFaults
  BY MisfortuneType DEF Base, StoreIsTyped, Receive, ReceiveFails, Redeliver
<1>2. StoreIsTyped'
  BY <1>1 DEF Base, StoreIsTyped, Receive, ReceiveFails, Redeliver, history, world
<1>3. Grown /\ feed'[r] # "unsent"
  BY DEF Base, StoreIsTyped, Receive, ReceiveFails, Redeliver, history, world, Grown
<1>4. UNCHANGED worker /\ (Record(r) \/ UNCHANGED row)
  BY DEF Receive, ReceiveFails, Redeliver
<1> QED
  BY <1>2, <1>3, <1>4, AsideStep, RecordStep

\* The instants of a row.
LEMMA RowFields ==
  ASSUME NEW x \in RowType, NEW b \in BOOLEAN
  PROVE  /\ LET y == [x EXCEPT !.due = b]
            IN  y \in RowType /\ y.status = x.status /\ y.attempts = x.attempts
                /\ y.owner = x.owner /\ y.expired = x.expired
         /\ LET y == [x EXCEPT !.expired = b]
            IN  y \in RowType /\ y.status = x.status /\ y.attempts = x.attempts
                /\ y.owner = x.owner /\ y.expired = b
         /\ LET y == [x EXCEPT !.export = b]
            IN  y \in RowType /\ y.status = x.status /\ y.attempts = x.attempts
                /\ y.owner = x.owner /\ y.expired = x.expired
  BY DEF RowType

\* A step that writes an instant of a row, or drops its export.
LEMMA InstantStep ==
  ASSUME Base, StoreIsTyped', Grown, UNCHANGED worker,
         NEW r \in Requests, NEW y \in RowType, row' = [row EXCEPT ![r] = y],
         y.status = row[r].status, y.attempts = row[r].attempts, y.owner = row[r].owner,
         y.status = "processing" /\ y.expired /\ Attended(r)
           => row[r].expired \/ r \in overtaken'
  PROVE  Base'
<1>1. row' \in [Requests -> RowType]
  BY DEF Base, TableIsSound
<1>2. \A q \in Requests : row'[q] = IF q = r THEN y ELSE row[q]
  BY DEF Base, TableIsSound
<1>3. \A q \in Requests : Attended(q)' <=> Attended(q)
  BY <1>2 DEF Attended
<1>4. RowsAreSound'
  BY <1>2, <1>3 DEF Base, TableIsSound, RowsAreSound, Grown
<1>5. HoldersKnowTheAttempt'
  <2> SUFFICES ASSUME NEW w \in Workers, worker[w].pc # "idle", Guardia(w)'
               PROVE  worker[w].attempt = row'[worker[w].request].attempts
    BY DEF HoldersKnowTheAttempt
  <2>1. worker[w].request \in Requests
    BY Remembered DEF MemoryIsSound, WorkerType
  <2>2. Guardia(w)
    BY <1>2, <2>1 DEF Guardia
  <2> QED
    BY <1>2, <2>1, <2>2 DEF Base, TableIsSound, HoldersKnowTheAttempt
<1>6. CompletedIsServed' /\ DeadLetterHadAllAttempts'
  BY <1>2 DEF Base, TableIsSound, CompletedIsServed, DeadLetterHadAllAttempts, Grown
<1>7. WorkersAreSound'
  BY WorkersStaySound DEF Base
<1> QED
  BY <1>1, <1>4, <1>5, <1>6, <1>7, BaseNext DEF TableIsSound

LEMMA InstantBase ==
  ASSUME Base, NEW r \in Requests, BecomeDue(r) \/ Expire(r) \/ Outlive(r) \/ PruneExport(r)
  PROVE  Base'
<1>1. faults' \in 0 .. MaxFaults
  BY MisfortuneType DEF Base, StoreIsTyped, BecomeDue, Expire, Outlive, PruneExport
<1>2. StoreIsTyped'
  BY <1>1 DEF Base, StoreIsTyped, BecomeDue, Expire, Outlive, PruneExport, history, world
<1>3. Grown
  BY DEF Grown, BecomeDue, Expire, Outlive, PruneExport, history, world
<1>4. row[r] \in RowType
  BY DEF Base, TableIsSound
<1>5. CASE BecomeDue(r)
  <2> PICK y : y = [row[r] EXCEPT !.due = TRUE]
    OBVIOUS
  <2>1. row' = [row EXCEPT ![r] = y] /\ UNCHANGED worker /\ row[r].status = "failed"
    BY <1>5 DEF BecomeDue, Base, TableIsSound
  <2> QED
    BY <1>2, <1>3, <1>4, <2>1, RowFields, InstantStep
<1>6. CASE Expire(r) \/ Outlive(r)
  <2> PICK y : y = [row[r] EXCEPT !.expired = TRUE]
    OBVIOUS
  <2>1. row' = [row EXCEPT ![r] = y] /\ UNCHANGED worker
    BY <1>6 DEF Expire, Outlive, Base, TableIsSound
  <2>2. Attended(r) => r \in overtaken'
    BY <1>6 DEF Expire, Outlive
  <2> QED
    BY <1>2, <1>3, <1>4, <2>1, <2>2, RowFields, InstantStep
<1>7. CASE PruneExport(r)
  <2> PICK y : y = [row[r] EXCEPT !.export = FALSE]
    OBVIOUS
  <2>1. row' = [row EXCEPT ![r] = y] /\ UNCHANGED worker
    BY <1>7 DEF PruneExport, Base, TableIsSound
  <2> QED
    BY <1>2, <1>3, <1>4, <2>1, RowFields, InstantStep
<1> QED
  BY <1>5, <1>6, <1>7

\* What the claim makes of a row.
LEMMA ClaimedRow ==
  ASSUME NEW x \in RowType, NEW w \in Workers
  PROVE  LET y == [x EXCEPT !.status = "processing", !.owner = w,
                            !.expired = FALSE, !.attempts = x.attempts + 1]
         IN  /\ y \in RowType /\ y.status = "processing" /\ y.owner = w /\ ~y.expired
             /\ y.attempts = x.attempts + 1
<1> PICK y : y = [x EXCEPT !.status = "processing", !.owner = w,
                           !.expired = FALSE, !.attempts = x.attempts + 1]
  OBVIOUS
<1>1. y = [status |-> "processing", attempts |-> x.attempts + 1, due |-> x.due,
           expired |-> FALSE, owner |-> w, export |-> x.export]
  BY DEF RowType
<1>2. x.attempts + 1 \in Nat
  BY DEF RowType
<1>3. "processing" \in Statuses /\ w \in Workers \cup {Nobody}
  BY DEF Statuses
<1>4. x.due \in BOOLEAN /\ x.export \in BOOLEAN
  BY DEF RowType
<1>5. y \in RowType
  BY <1>1, <1>2, <1>3, <1>4, Zenon DEF RowType
<1> QED
  BY <1>1, <1>5

LEMMA FreshMemory ==
  ASSUME NEW pc \in PCs, NEW r \in Requests, NEW n \in Nat
  PROVE  [pc |-> pc, request |-> r, attempt |-> n, install |-> 0] \in WorkerType
  BY ConstantsAssumption DEF WorkerType

LEMMA ClaimedIsSound ==
  ASSUME Base, NEW w \in Workers, NEW r \in Requests, Claim(w, r),
         NEW y \in RowType, NEW m \in WorkerType,
         row' = [row EXCEPT ![r] = y], Update(w, m),
         y.status = "processing", y.owner = w, ~y.expired, y.attempts = row[r].attempts + 1,
         topic[r] = "shop" => m.pc = "proof",
         topic[r] # "shop" => m.pc = "shop",
         m.request = r, m.attempt = y.attempts
  PROVE  Base'
<1>1. row[r] \in RowType /\ row[r].status # "absent"
  BY DEF Base, TableIsSound, Claim, Claimable
<1>2. StoreIsTyped' /\ Grown /\ UNCHANGED <<topic, feed>>
  BY DEF Claim, Base, StoreIsTyped, Grown, history, world
<1>3. feed[r] # "unsent" /\ r # NoRequest
  BY <1>1, ConstantsAssumption DEF Base, TableIsSound, RowsAreSound
<1>4. MemoryIsSound(m)'
  BY <1>1, <1>2, <1>3 DEF MemoryIsSound, Locked, RowType
<1>5. WorkersAreSound'
  BY <1>2, <1>4, UpdateIsSound DEF Base
<1>6. /\ \A q \in Requests : row'[q] = IF q = r THEN y ELSE row[q]
      /\ \A v \in Workers : worker'[v] = IF v = w THEN m ELSE worker[v]
  BY DEF Update, Base, TableIsSound, WorkersAreSound
<1>7. row' \in [Requests -> RowType]
  BY DEF Base, TableIsSound
<1>8. RowsAreSound'
  <2>1. \A q \in Requests \ {r} : Attended(q)' => Attended(q)
    BY <1>6 DEF Attended
  <2> QED
    BY <1>2, <1>3, <1>6, <2>1 DEF Base, TableIsSound, RowsAreSound, Grown
<1>9. HoldersKnowTheAttempt'
  <2> SUFFICES ASSUME NEW v \in Workers, worker'[v].pc # "idle", Guardia(v)'
               PROVE  worker'[v].attempt = row'[worker'[v].request].attempts
    BY DEF HoldersKnowTheAttempt
  <2>1. CASE v = w
    BY <1>6, <2>1
  <2>2. CASE v # w
    <3>1. worker'[v] = worker[v] /\ worker[v].request \in Requests
      BY <1>6, <2>2, Remembered DEF MemoryIsSound, WorkerType
    <3>2. worker[v].request # r /\ Guardia(v)
      BY <1>6, <2>2, <3>1 DEF Guardia
    <3> QED
      BY <1>6, <3>1, <3>2 DEF Base, TableIsSound, HoldersKnowTheAttempt
  <2> QED
    BY <2>1, <2>2
<1>10. CompletedIsServed' /\ DeadLetterHadAllAttempts'
  BY <1>2, <1>6 DEF Base, TableIsSound, CompletedIsServed, DeadLetterHadAllAttempts, Grown
<1> QED
  BY <1>2, <1>5, <1>7, <1>8, <1>9, <1>10, BaseNext DEF TableIsSound

LEMMA ClaimBase ==
  ASSUME Base, NEW w \in Workers, NEW r \in Requests, Claim(w, r)
  PROVE  Base'
<1> PICK y : y = [row[r] EXCEPT !.status = "processing", !.owner = w,
                                !.expired = FALSE, !.attempts = row[r].attempts + 1]
  OBVIOUS
<1> PICK pc : pc = IF topic[r] = "shop" THEN "proof" ELSE "shop"
  OBVIOUS
<1> PICK m : m = [Idle EXCEPT !.pc = pc, !.request = r, !.attempt = row[r].attempts + 1]
  OBVIOUS
<1>1. row[r] \in RowType
  BY DEF Base, TableIsSound
<1>2. /\ y \in RowType /\ y.status = "processing" /\ y.owner = w /\ ~y.expired
      /\ y.attempts = row[r].attempts + 1
  BY <1>1, ClaimedRow
<1>3. pc \in PCs /\ y.attempts \in Nat
  BY <1>2 DEF PCs, RowType
<1>4. m = [pc |-> pc, request |-> r, attempt |-> y.attempts, install |-> 0]
  BY <1>2 DEF Idle
<1>5. m \in WorkerType
  <2>1. \A n \in Nat : [pc |-> pc, request |-> r, attempt |-> n, install |-> 0] \in WorkerType
    BY <1>3, FreshMemory
  <2> QED
    BY <1>3, <1>4, <2>1, Zenon
<1>6. m.pc = pc /\ m.request = r /\ m.attempt = y.attempts
  BY <1>4
<1>7. row' = [row EXCEPT ![r] = y] /\ Update(w, m)
  BY DEF Claim
<1> QED
  BY <1>2, <1>5, <1>6, <1>7, ClaimedIsSound

\* An invocation goes on with its request, and the table stays as it is.
LEMMA MemoryStep ==
  ASSUME Base, StoreIsTyped', Grown, UNCHANGED row,
         NEW w \in Workers, NEW m \in WorkerType, Update(w, m), MemoryIsSound(m)',
         \/ m = Idle
         \/ /\ m.pc # "idle" /\ worker[w].pc # "idle"
            /\ m.request = worker[w].request /\ m.attempt = worker[w].attempt
  PROVE  Base'
<1>1. Continues /\ WorkersAreSound'
  BY UpdateContinues, UpdateIsSound DEF Base
<1> QED
  BY <1>1, TableUntouched, BaseNext

LEMMA IdleIsSound == MemoryIsSound(Idle)'
  BY IdleIsMemory DEF MemoryIsSound, Locked

LEMMA GotoStep ==
  ASSUME Base, StoreIsTyped', Grown, UNCHANGED row,
         NEW w \in Workers, worker[w].pc # "idle", NEW pc \in PCs \ {"idle"}, Goto(w, pc),
         LET m == worker[w] IN
           /\ pc \in {"proof", "proofOnly", "mark", "erase", "remove"} => topic[m.request] = "shop"
           /\ pc \in {"work", "collect", "save", "close"} => topic[m.request] # "shop"
           /\ pc \in Locked \cup {"lock"} => m.install \in Installs
           /\ pc \in {"save", "close"} => m.request \in served'
           /\ pc = "remove" => proof'[m.request] # "none"
  PROVE  Base'
<1> PICK m : m = [worker[w] EXCEPT !.pc = pc]
  OBVIOUS
<1>1. worker[w] \in WorkerType /\ MemoryIsSound(worker[w])
  BY Remembered
<1>2. /\ m \in WorkerType /\ m.pc = pc /\ m.install = worker[w].install
      /\ m.request = worker[w].request /\ m.attempt = worker[w].attempt
  BY <1>1, ElsewhereIsMemory
<1>3. m.request \in Requests
  BY <1>1, <1>2 DEF MemoryIsSound, WorkerType
<1>4. MemoryIsSound(m)'
  BY <1>1, <1>2, <1>3, ConstantsAssumption DEF MemoryIsSound, Grown
<1> QED
  BY <1>2, <1>4, MemoryStep DEF Goto

LEMMA ReadProofBase ==
  ASSUME Base, NEW w \in Workers, ReadProof(w)
  PROVE  Base'
<1> PICK pc : pc = IF proof[worker[w].request] = "none" THEN "shop" ELSE "remove"
  OBVIOUS
<1>1. StoreIsTyped' /\ Grown /\ UNCHANGED <<row, proof>>
  BY DEF ReadProof, Base, StoreIsTyped, Grown, history, world
<1>2. Goto(w, pc) /\ worker[w].pc = "proof" /\ pc \in PCs \ {"idle"}
  BY DEF ReadProof, PCs
<1>3. topic[worker[w].request] = "shop"
  BY <1>2, Remembered DEF MemoryIsSound
<1> QED
  BY <1>1, <1>2, <1>3, GotoStep DEF Locked

LEMMA FindShopBase ==
  ASSUME Base, NEW w \in Workers, FindShop(w)
  PROVE  Base'
<1> PICK r : r = worker[w].request
  OBVIOUS
<1> PICK found : found = [worker[w] EXCEPT !.install = shop.install]
  OBVIOUS
<1>1. worker[w] \in WorkerType /\ MemoryIsSound(worker[w]) /\ worker[w].pc = "shop"
  BY Remembered DEF FindShop
<1>2. r \in Requests /\ shop.install \in 0 .. MaxInstalls
  BY <1>1 DEF MemoryIsSound, WorkerType, Base, StoreIsTyped, ShopType
<1>3. /\ found \in WorkerType /\ found.install = shop.install
      /\ found.request = r /\ found.attempt = worker[w].attempt
  BY <1>1, <1>2 DEF WorkerType
<1>4. PICK pc \in {"proofOnly", "lock", "save"} :
        /\ Update(w, [found EXCEPT !.pc = pc])
        /\ pc = "proofOnly" => topic[r] = "shop" /\ shop.install = 0
        /\ pc = "lock" => shop.install # 0
        /\ pc = "save" => topic[r] # "shop" /\ served' = served \cup {r}
        /\ pc # "save" => UNCHANGED served
  BY DEF FindShop
<1> PICK m : m = [found EXCEPT !.pc = pc]
  OBVIOUS
<1>5. pc \in PCs
  BY <1>4 DEF PCs
<1>6. /\ m \in WorkerType /\ m.pc = pc /\ m.install = shop.install
      /\ m.request = r /\ m.attempt = worker[w].attempt
  BY <1>3, <1>5, ElsewhereIsMemory
<1>7. StoreIsTyped' /\ Grown /\ UNCHANGED <<row, feed, topic>>
  BY <1>2, <1>4 DEF FindShop, Base, StoreIsTyped, Grown, world
<1>8. shop.install # 0 => shop.install \in Installs
  BY <1>2, ConstantsAssumption DEF Installs
<1>9. MemoryIsSound(m)'
  BY <1>1, <1>2, <1>4, <1>6, <1>7, <1>8, ConstantsAssumption DEF MemoryIsSound, Locked
<1> QED
  BY <1>1, <1>4, <1>6, <1>7, <1>9, MemoryStep

LEMMA WriteProofOnlyBase ==
  ASSUME Base, NEW w \in Workers, WriteProofOnly(w)
  PROVE  Base'
<1> PICK r : r = worker[w].request
  OBVIOUS
<1> PICK pc : pc = IF proof[r] = "none" THEN "remove" ELSE "fail"
  OBVIOUS
<1>1. worker[w].pc = "proofOnly" /\ r \in Requests /\ topic[r] = "shop"
  BY Remembered DEF MemoryIsSound, WorkerType, WriteProofOnly
<1>2. StoreIsTyped' /\ Grown /\ UNCHANGED row
  BY <1>1 DEF WriteProofOnly, Base, StoreIsTyped, Grown, history, world
<1>3. Goto(w, pc) /\ pc \in PCs \ {"idle"}
  BY DEF WriteProofOnly, PCs
<1>4. pc = "remove" => proof'[r] # "none"
  BY <1>1 DEF WriteProofOnly, Base, StoreIsTyped
<1> QED
  BY <1>1, <1>2, <1>3, <1>4, GotoStep DEF Locked

LEMMA TakeLockBase ==
  ASSUME Base, NEW w \in Workers, TakeLock(w)
  PROVE  Base'
<1> PICK r : r = worker[w].request
  OBVIOUS
<1>1. worker[w].pc = "lock" /\ r \in Requests /\ worker[w].install \in Installs
  BY Remembered DEF MemoryIsSound, WorkerType, TakeLock
<1>2. StoreIsTyped' /\ Grown /\ UNCHANGED row
  BY <1>1 DEF TakeLock, Base, StoreIsTyped, Grown, history, world
<1>3. Goto(w, "fail") \/ Goto(w, IF topic[r] = "shop" THEN "mark" ELSE "work")
  BY DEF TakeLock
<1>4. CASE Goto(w, "fail")
  BY <1>1, <1>2, <1>4, GotoStep DEF PCs, Locked
<1>5. CASE topic[r] = "shop" /\ Goto(w, "mark")
  BY <1>1, <1>2, <1>5, GotoStep DEF PCs, Locked
<1>6. CASE topic[r] # "shop" /\ Goto(w, "work")
  BY <1>1, <1>2, <1>6, GotoStep DEF PCs, Locked
<1> QED
  BY <1>3, <1>4, <1>5, <1>6

LEMMA ShopTypes ==
  /\ NoShop \in ShopType
  /\ NoShop.install = 0 /\ ~NoShop.erasing
  /\ \A x \in ShopType :
       LET y == [x EXCEPT !.erasing = TRUE]
       IN  y \in ShopType /\ y.install = x.install /\ y.erasing
<1>1. NoShop \in ShopType
  BY ConstantsAssumption DEF NoShop, ShopType
<1>2. NoShop.install = 0 /\ ~NoShop.erasing
  BY DEF NoShop
<1>3. ASSUME NEW x \in ShopType
      PROVE  LET y == [x EXCEPT !.erasing = TRUE]
             IN  y \in ShopType /\ y.install = x.install /\ y.erasing
  BY DEF ShopType
<1> QED
  BY <1>1, <1>2, <1>3

LEMMA MarkBase ==
  ASSUME Base, NEW w \in Workers, Mark(w)
  PROVE  Base'
<1> PICK r : r = worker[w].request
  OBVIOUS
<1>1. /\ worker[w].pc = "mark" /\ r \in Requests /\ worker[w].install \in Installs
      /\ topic[r] = "shop"
  BY Remembered DEF MemoryIsSound, WorkerType, Mark, Locked
<1>2. StoreIsTyped'
  <2>1. shop' \in ShopType
    BY ShopTypes DEF Mark, Base, StoreIsTyped
  <2> QED
    BY <2>1, UnlockedIsTyped DEF Mark, Base, StoreIsTyped, history, world
<1>3. Grown /\ UNCHANGED row /\ (Goto(w, "fail") \/ Goto(w, "erase"))
  BY DEF Mark, Grown, history, world
<1>4. CASE Goto(w, "fail")
  BY <1>1, <1>2, <1>3, <1>4, GotoStep DEF PCs, Locked
<1>5. CASE Goto(w, "erase")
  BY <1>1, <1>2, <1>3, <1>5, GotoStep DEF PCs, Locked
<1> QED
  BY <1>3, <1>4, <1>5

LEMMA EraseBase ==
  ASSUME Base, NEW w \in Workers, Erase(w)
  PROVE  Base'
<1> PICK r : r = worker[w].request
  OBVIOUS
<1>1. /\ worker[w].pc = "erase" /\ r \in Requests /\ worker[w].install \in Installs
      /\ topic[r] = "shop"
  BY Remembered DEF MemoryIsSound, WorkerType, Erase, Locked
<1>2. shop' \in ShopType
  BY ShopTypes DEF Erase, Base, StoreIsTyped
<1>3. erased' \in [Requests -> SUBSET Installs]
  BY <1>1 DEF Erase, Base, StoreIsTyped
<1>4. proof' \in [Requests -> {"none", "skipped", "completed"}]
  BY DEF Erase, Base, StoreIsTyped
<1>5. StoreIsTyped'
  BY <1>2, <1>3, <1>4, UnlockedIsTyped DEF Erase, Base, StoreIsTyped, world
<1>6. Grown /\ UNCHANGED row
  BY DEF Erase, Base, StoreIsTyped, Grown, world
<1>7. \/ Goto(w, "fail")
      \/ Goto(w, "remove") /\ proof'[r] # "none"
  BY <1>1 DEF Erase, Base, StoreIsTyped
<1>8. CASE Goto(w, "fail")
  BY <1>1, <1>5, <1>6, <1>8, GotoStep DEF PCs, Locked
<1>9. CASE Goto(w, "remove") /\ proof'[r] # "none"
  BY <1>1, <1>5, <1>6, <1>9, GotoStep DEF PCs, Locked
<1> QED
  BY <1>7, <1>8, <1>9

LEMMA WorkBase ==
  ASSUME Base, NEW w \in Workers, Work(w) \/ Collect(w)
  PROVE  Base'
<1> PICK r : r = worker[w].request
  OBVIOUS
<1>1. /\ worker[w].pc \in {"work", "collect"} /\ r \in Requests /\ topic[r] # "shop"
  BY Remembered DEF MemoryIsSound, WorkerType, Work, Collect
<1>2. StoreIsTyped' /\ Grown /\ UNCHANGED row
  BY <1>1, UnlockedIsTyped DEF Work, Collect, Base, StoreIsTyped, Grown, world
<1>3. \/ Goto(w, "fail") \/ Goto(w, "collect")
      \/ Goto(w, "save") /\ r \in served'
  BY DEF Work, Collect
<1>4. CASE Goto(w, "fail")
  BY <1>1, <1>2, <1>4, GotoStep DEF PCs, Locked
<1>5. CASE Goto(w, "collect")
  BY <1>1, <1>2, <1>5, GotoStep DEF PCs, Locked
<1>6. CASE Goto(w, "save") /\ r \in served'
  BY <1>1, <1>2, <1>6, GotoStep DEF PCs, Locked
<1> QED
  BY <1>3, <1>4, <1>5, <1>6

LEMMA SaveBase ==
  ASSUME Base, NEW w \in Workers, Save(w)
  PROVE  Base'
<1> PICK r : r = worker[w].request
  OBVIOUS
<1>1. worker[w].pc = "save" /\ r \in Requests /\ topic[r] # "shop" /\ r \in served
  BY Remembered DEF MemoryIsSound, WorkerType, Save
<1>2. StoreIsTyped' /\ Grown /\ UNCHANGED row /\ r \in served'
  BY <1>1 DEF Save, Base, StoreIsTyped, Grown, history, world
<1>3. Goto(w, "fail") \/ Goto(w, "close")
  BY DEF Save
<1>4. CASE Goto(w, "fail")
  BY <1>1, <1>2, <1>4, GotoStep DEF PCs, Locked
<1>5. CASE Goto(w, "close")
  BY <1>1, <1>2, <1>5, GotoStep DEF PCs, Locked
<1> QED
  BY <1>3, <1>4, <1>5

\* A step with which the invocation ends and the table stays as it is.
LEMMA EndStep ==
  ASSUME Base, StoreIsTyped', Grown, UNCHANGED row, NEW w \in Workers, Update(w, Idle)
  PROVE  Base'
<1> PICK m : m = Idle
  OBVIOUS
<1>1. m \in WorkerType /\ MemoryIsSound(m)'
  BY IdleIsMemory, IdleIsSound
<1> QED
  BY <1>1, MemoryStep

\* A step with which the invocation ends and its row is closed.
LEMMA LastStep ==
  ASSUME Base, StoreIsTyped', Grown, NEW w \in Workers, worker[w].pc # "idle", Update(w, Idle),
         NEW new \in RowType, row' = [row EXCEPT ![worker[w].request] = new],
         new.status \in {"failed", "completed", "dead_letter"},
         new.status = "completed" => worker[w].request \in served',
         new.status = "dead_letter" => new.attempts >= MaxAttempts
  PROVE  Base'
<1> PICK r : r = worker[w].request
  OBVIOUS
<1> PICK m : m = Idle
  OBVIOUS
<1>1. m \in WorkerType /\ MemoryIsSound(m)'
  BY IdleIsMemory, IdleIsSound
<1>2. Continues /\ WorkersAreSound'
  BY <1>1, UpdateContinues, UpdateIsSound DEF Base
<1>3. r \in Requests /\ feed[r] # "unsent"
  BY Remembered DEF MemoryIsSound, WorkerType
<1>4. feed'[r] # "unsent"
  BY <1>3 DEF Grown
<1>5. TableIsSound'
  BY <1>2, <1>3, <1>4, RowWritten
<1> QED
  BY <1>2, <1>5, BaseNext

\* Every field of a row takes the values of its type.
LEMMA RowTypes ==
  ASSUME NEW x \in RowType
  PROVE  /\ \A v \in Statuses : [x EXCEPT !.status = v] \in RowType
         /\ \A v \in BOOLEAN : [x EXCEPT !.due = v] \in RowType
         /\ \A v \in BOOLEAN : [x EXCEPT !.expired = v] \in RowType
         /\ \A v \in BOOLEAN : [x EXCEPT !.export = v] \in RowType
         /\ [x EXCEPT !.owner = Nobody] \in RowType
<1>1. \A v \in Statuses : [x EXCEPT !.status = v] \in RowType
  BY Zenon DEF RowType
<1>2. \A v \in BOOLEAN : [x EXCEPT !.due = v] \in RowType
  BY Zenon DEF RowType
<1>3. \A v \in BOOLEAN : [x EXCEPT !.expired = v] \in RowType
  BY Zenon DEF RowType
<1>4. \A v \in BOOLEAN : [x EXCEPT !.export = v] \in RowType
  BY Zenon DEF RowType
<1>5. [x EXCEPT !.owner = Nobody] \in RowType
  BY Zenon DEF RowType
<1> QED
  BY <1>1, <1>2, <1>3, <1>4, <1>5

LEMMA CompletedRow ==
  ASSUME NEW x \in RowType, NEW b \in BOOLEAN
  PROVE  LET y == [x EXCEPT !.status = "completed", !.owner = Nobody,
                            !.expired = FALSE, !.export = b]
         IN  y \in RowType /\ y.status = "completed"
<1>1. [x EXCEPT !.status = "completed"] \in RowType
  BY RowTypes DEF Statuses
<1>2. [x EXCEPT !.status = "completed", !.owner = Nobody] \in RowType
  BY <1>1, RowTypes
<1>3. [x EXCEPT !.status = "completed", !.owner = Nobody, !.expired = FALSE] \in RowType
  BY <1>2, RowTypes
<1>4. [x EXCEPT !.status = "completed", !.owner = Nobody, !.expired = FALSE, !.export = b]
        \in RowType
  BY <1>3, RowTypes
<1> QED
  BY <1>4 DEF RowType

LEMMA FailedRow ==
  ASSUME NEW x \in RowType, NEW status \in {"failed", "dead_letter"}
  PROVE  LET y == [x EXCEPT !.status = status, !.due = FALSE,
                            !.owner = Nobody, !.expired = FALSE]
         IN  y \in RowType /\ y.status = status /\ y.attempts = x.attempts
<1>1. [x EXCEPT !.status = status] \in RowType
  BY RowTypes DEF Statuses
<1>2. [x EXCEPT !.status = status, !.due = FALSE] \in RowType
  BY <1>1, RowTypes
<1>3. [x EXCEPT !.status = status, !.due = FALSE, !.owner = Nobody] \in RowType
  BY <1>2, RowTypes
<1>4. [x EXCEPT !.status = status, !.due = FALSE, !.owner = Nobody, !.expired = FALSE]
        \in RowType
  BY <1>3, RowTypes
<1> QED
  BY <1>4 DEF RowType

LEMMA CloseBase ==
  ASSUME Base, NEW w \in Workers, Close(w)
  PROVE  Base'
<1> PICK r : r = worker[w].request
  OBVIOUS
<1>1. worker[w].pc = "close" /\ r \in Requests /\ r \in served
  BY Remembered DEF MemoryIsSound, WorkerType, Close
<1>2. StoreIsTyped' /\ Grown /\ Update(w, Idle) /\ UNCHANGED served
  BY DEF Close, Base, StoreIsTyped, Grown, history, world
<1>3. CASE ~Guardia(w)
  BY <1>2, <1>3, EndStep DEF Close
<1>4. CASE Guardia(w)
  <2> PICK b \in BOOLEAN : b = (topic[r] = "access")
    OBVIOUS
  <2> PICK y : y = [row[r] EXCEPT !.status = "completed", !.owner = Nobody,
                                  !.expired = FALSE, !.export = b]
    OBVIOUS
  <2>1. row' = [row EXCEPT ![r] = y]
    BY <1>4 DEF Close
  <2>2. y \in RowType /\ y.status = "completed"
    <3> PICK x \in RowType : x = row[r]
      BY <1>1 DEF Base, TableIsSound
    <3>1. \A c \in BOOLEAN :
            LET z == [x EXCEPT !.status = "completed", !.owner = Nobody,
                               !.expired = FALSE, !.export = c]
            IN  z \in RowType /\ z.status = "completed"
      BY CompletedRow
    <3> QED
      BY <3>1, Zenon
  <2> QED
    BY <1>1, <1>2, <2>1, <2>2, LastStep
<1> QED
  BY <1>3, <1>4

LEMMA GiveUpOrRetryBase ==
  ASSUME Base, NEW w \in Workers, GiveUpOrRetry(w)
  PROVE  Base'
<1> PICK r : r = worker[w].request
  OBVIOUS
<1> PICK status : status = StatusAfterFailure(worker[w].attempt)
  OBVIOUS
<1>1. worker[w].pc = "fail" /\ r \in Requests
  BY Remembered DEF MemoryIsSound, WorkerType, GiveUpOrRetry
<1>2. StoreIsTyped' /\ Grown /\ Update(w, Idle)
  BY DEF GiveUpOrRetry, Base, StoreIsTyped, Grown, history, world
<1>3. CASE ~Guardia(w)
  BY <1>2, <1>3, EndStep DEF GiveUpOrRetry
<1>4. CASE Guardia(w)
  <2> PICK y : y = [row[r] EXCEPT !.status = status, !.due = FALSE,
                                  !.owner = Nobody, !.expired = FALSE]
    OBVIOUS
  <2>1. row' = [row EXCEPT ![r] = y]
    BY <1>4 DEF GiveUpOrRetry
  <2>2. /\ status \in {"failed", "dead_letter"}
        /\ status = "dead_letter" => worker[w].attempt >= MaxAttempts
    BY DEF StatusAfterFailure, Exhausted
  <2>3. worker[w].attempt = row[r].attempts
    BY <1>1, <1>4 DEF Base, TableIsSound, HoldersKnowTheAttempt
  <2>4. y \in RowType /\ y.status = status /\ y.attempts = row[r].attempts
    <3> PICK x \in RowType : x = row[r]
      BY <1>1 DEF Base, TableIsSound
    <3>1. \A s \in {"failed", "dead_letter"} :
            LET z == [x EXCEPT !.status = s, !.due = FALSE,
                               !.owner = Nobody, !.expired = FALSE]
            IN  z \in RowType /\ z.status = s /\ z.attempts = x.attempts
      BY FailedRow
    <3> QED
      BY <2>2, <3>1, Zenon
  <2> QED
    BY <1>1, <1>2, <2>1, <2>2, <2>3, <2>4, LastStep
<1> QED
  BY <1>3, <1>4

LEMMA RemoveRowsBase ==
  ASSUME Base, NEW w \in Workers, RemoveRows(w)
  PROVE  Base'
<1>1. StoreIsTyped' /\ Grown
  BY DEF RemoveRows, Base, StoreIsTyped, Grown, world
<1>2. WorkersAreSound'
  <2> PICK m : m = Idle
    OBVIOUS
  <2> QED
    BY <1>1, IdleIsMemory, IdleIsSound, UpdateIsSound DEF RemoveRows, Base
<1>3. \A r \in Requests : row'[r] = NoRow
  BY DEF RemoveRows
<1>4. row' \in [Requests -> RowType]
  BY NoRowIsRow DEF RemoveRows
<1>5. RowsAreSound' /\ CompletedIsServed' /\ DeadLetterHadAllAttempts'
  BY <1>3, NoRowIsRow DEF RowsAreSound, CompletedIsServed, DeadLetterHadAllAttempts
<1>6. HoldersKnowTheAttempt'
  <2> SUFFICES ASSUME NEW v \in Workers, worker'[v].pc # "idle", Guardia(v)'
               PROVE  FALSE
    BY DEF HoldersKnowTheAttempt
  <2> PICK m : m = worker'[v]
    OBVIOUS
  <2>1. m \in WorkerType /\ (m.pc = "idle" <=> m.request = NoRequest)
    BY <1>2 DEF WorkersAreSound, MemoryIsSound
  <2>2. m.request \in Requests
    BY <2>1 DEF WorkerType
  <2> QED
    BY <1>3, <2>2, NoRowIsRow DEF Guardia
<1> QED
  BY <1>1, <1>2, <1>4, <1>5, <1>6, BaseNext DEF TableIsSound

LEMMA FailureBase ==
  ASSUME Base, NEW w \in Workers, StepFails(w) \/ Crash(w) \/ LoseLock(w)
  PROVE  Base'
<1>1. /\ faults' \in 0 .. MaxFaults
      /\ lock' \in [Installs -> Workers \cup {Nobody}]
  BY MisfortuneType, UnlockedIsTyped DEF StepFails, Crash, LoseLock
<1>2. worker[w].install \in Installs \/ ~LoseLock(w)
  BY Remembered DEF LoseLock, MemoryIsSound
<1>3. StoreIsTyped' /\ Grown /\ UNCHANGED row
  BY <1>1, <1>2 DEF StepFails, Crash, LoseLock, Base, StoreIsTyped, Grown, history, world
<1>4. CASE StepFails(w)
  BY <1>3, <1>4, GotoStep DEF StepFails, PCs, Locked
<1>5. CASE Crash(w)
  BY <1>3, <1>5, EndStep DEF Crash
<1>6. CASE LoseLock(w)
  BY <1>3, <1>6, AsideStep DEF LoseLock
<1> QED
  BY <1>4, <1>5, <1>6

LEMMA StutterBase ==
  ASSUME Base, UNCHANGED vars
  PROVE  Base'
<1>1. StoreIsTyped' /\ Grown /\ UNCHANGED <<row, worker>>
  BY DEF vars, Base, StoreIsTyped, Grown
<1> QED
  BY <1>1, AsideStep

LEMMA NextBase ==
  ASSUME Base, Next
  PROVE  Base'
<1>1. ASSUME NEW r \in Requests,
             \/ BecomeDue(r) \/ Expire(r) \/ Outlive(r) \/ PruneExport(r)
             \/ Receive(r) \/ ReceiveFails(r) \/ Redeliver(r)
             \/ \E w \in Workers : Claim(w, r)
      PROVE  Base'
  BY <1>1, InstantBase, ReceiveBase, ClaimBase
<1>2. ASSUME NEW w \in Workers, Progress(w) PROVE Base'
  BY <1>2, ReadProofBase, FindShopBase, WriteProofOnlyBase, TakeLockBase, MarkBase,
     EraseBase, WorkBase, SaveBase, CloseBase, RemoveRowsBase, GiveUpOrRetryBase
     DEF Progress
<1>3. ASSUME NEW w \in Workers, LoseLock(w) \/ StepFails(w) \/ Crash(w) PROVE Base'
  BY <1>3, FailureBase
<1> QED
  BY <1>1, <1>2, <1>3, InstallBase DEF Next, Ordinary

LEMMA InitBase ==
  ASSUME Init
  PROVE  Base
<1>1. StoreIsTyped
  BY ShopTypes, ConstantsAssumption DEF Init, StoreIsTyped
<1>2. WorkersAreSound
  BY IdleIsMemory DEF Init, WorkersAreSound, MemoryIsSound, Locked
<1>3. row \in [Requests -> RowType]
  BY NoRowIsRow DEF Init
<1>4. RowsAreSound /\ CompletedIsServed /\ DeadLetterHadAllAttempts
  BY NoRowIsRow DEF Init, RowsAreSound, CompletedIsServed, DeadLetterHadAllAttempts
<1>5. HoldersKnowTheAttempt
  BY IdleIsMemory DEF Init, HoldersKnowTheAttempt
<1> QED
  BY <1>1, <1>2, <1>3, <1>4, <1>5 DEF Base, TableIsSound

-----------------------------------------------------------------------------
(* What was accepted *)

\* The request q is in the table, or was dealt with.
Standing(q) == row[q].status # "absent" \/ q \in served \cup swept \/ proof[q] # "none"

LEMMA RecordFacts ==
  ASSUME Base, NEW r \in Requests, Record(r)
  PROVE  /\ \A q \in Requests : row[q].status # "absent" => row'[q] = row[q]
         /\ \E q \in Requests : SameMatter(q, r) /\ row'[q].status # "absent"
<1>1. [NoRow EXCEPT !.status = "queued", !.due = TRUE].status = "queued"
  BY DEF NoRow
<1>2. SameMatter(r, r)
  BY DEF SameMatter
<1> QED
  BY <1>1, <1>2 DEF Record, Duplicate, Base, TableIsSound

LEMMA InstantFacts ==
  ASSUME Base, NEW r \in Requests, BecomeDue(r) \/ Expire(r) \/ Outlive(r) \/ PruneExport(r),
         NEW q \in Requests
  PROVE  row'[q].status = row[q].status /\ row'[q].owner = row[q].owner
<1>1. row[r] \in RowType
  BY DEF Base, TableIsSound
<1> PICK b \in BOOLEAN : \/ row' = [row EXCEPT ![r] = [row[r] EXCEPT !.due = b]]
                       \/ row' = [row EXCEPT ![r] = [row[r] EXCEPT !.expired = b]]
                       \/ row' = [row EXCEPT ![r] = [row[r] EXCEPT !.export = b]]
  BY DEF BecomeDue, Expire, Outlive, PruneExport
<1>2. PICK y : /\ row' = [row EXCEPT ![r] = y]
               /\ y.status = row[r].status /\ y.owner = row[r].owner
  BY <1>1 DEF RowType
<1> QED
  BY <1>2 DEF Base, TableIsSound

LEMMA ClaimFacts ==
  ASSUME Base, NEW w \in Workers, NEW r \in Requests, Claim(w, r)
  PROVE  /\ row'[r].status = "processing" /\ row'[r].owner = w
         /\ \A q \in Requests \ {r} : row'[q] = row[q]
<1> PICK x \in RowType : x = row[r]
  BY DEF Base, TableIsSound
<1> PICK y : y = [x EXCEPT !.status = "processing", !.owner = w,
                           !.expired = FALSE, !.attempts = x.attempts + 1]
  OBVIOUS
<1>1. row' = [row EXCEPT ![r] = y]
  BY DEF Claim
<1>2. y.status = "processing" /\ y.owner = w
  BY ClaimedRow
<1> QED
  BY <1>1, <1>2 DEF Base, TableIsSound

\* The two ways of leaving a row at the end of an attempt.
LEMMA ConcludedFacts ==
  ASSUME Base, NEW w \in Workers, Close(w) \/ GiveUpOrRetry(w)
  PROVE  /\ worker[w].request \in Requests
         /\ \/ UNCHANGED row
            \/ /\ Guardia(w)
               /\ row'[worker[w].request].status \in {"completed", "failed", "dead_letter"}
               /\ Close(w) \/ row'[worker[w].request].status # "completed"
               /\ \A q \in Requests \ {worker[w].request} : row'[q] = row[q]
<1> PICK r : r = worker[w].request
  OBVIOUS
<1>1. r \in Requests
  BY Remembered DEF MemoryIsSound, WorkerType, Close, GiveUpOrRetry
<1> PICK x \in RowType : x = row[r]
  BY <1>1 DEF Base, TableIsSound
<1>2. CASE ~Guardia(w)
  BY <1>1, <1>2 DEF Close, GiveUpOrRetry
<1>3. CASE Guardia(w) /\ Close(w)
  <2> PICK b \in BOOLEAN : b = (topic[r] = "access")
    OBVIOUS
  <2> PICK y : y = [x EXCEPT !.status = "completed", !.owner = Nobody,
                             !.expired = FALSE, !.export = b]
    OBVIOUS
  <2>1. row' = [row EXCEPT ![r] = y]
    BY <1>3 DEF Close
  <2>2. \A c \in BOOLEAN :
          [x EXCEPT !.status = "completed", !.owner = Nobody,
                    !.expired = FALSE, !.export = c].status = "completed"
    BY CompletedRow
  <2>3. y.status = "completed"
    BY <2>2, Zenon
  <2> QED
    BY <1>1, <1>3, <2>1, <2>3 DEF Base, TableIsSound
<1>4. CASE Guardia(w) /\ GiveUpOrRetry(w)
  <2> PICK status \in {"failed", "dead_letter"} : status = StatusAfterFailure(worker[w].attempt)
    BY DEF StatusAfterFailure
  <2> PICK y : y = [x EXCEPT !.status = status, !.due = FALSE,
                             !.owner = Nobody, !.expired = FALSE]
    OBVIOUS
  <2>1. row' = [row EXCEPT ![r] = y]
    BY <1>4 DEF GiveUpOrRetry
  <2>2. \A s \in {"failed", "dead_letter"} :
          [x EXCEPT !.status = s, !.due = FALSE,
                    !.owner = Nobody, !.expired = FALSE].status = s
    BY FailedRow
  <2>3. y.status = status
    BY <2>2, Zenon
  <2> QED
    BY <1>1, <1>4, <2>1, <2>3 DEF Base, TableIsSound
<1> QED
  BY <1>2, <1>3, <1>4

\* Only the end of an erasure removes rows, and it says which.
LEMMA RowsStay ==
  ASSUME Base, Next, NEW q \in Requests, row[q].status # "absent"
  PROVE  \/ row'[q].status # "absent"
         \/ \E w \in Workers : RemoveRows(w)
<1>1. ASSUME NEW r \in Requests,
             BecomeDue(r) \/ Expire(r) \/ Outlive(r) \/ PruneExport(r)
      PROVE  row'[q].status # "absent"
  BY <1>1, InstantFacts
<1>2. ASSUME NEW r \in Requests, Receive(r) \/ ReceiveFails(r) \/ Redeliver(r)
      PROVE  row'[q].status # "absent"
  BY <1>2, RecordFacts DEF Receive, ReceiveFails, Redeliver
<1>3. ASSUME NEW w \in Workers, NEW r \in Requests, Claim(w, r)
      PROVE  row'[q].status # "absent"
  BY <1>3, ClaimFacts
<1>4. ASSUME NEW w \in Workers, Progress(w), ~RemoveRows(w)
      PROVE  row'[q].status # "absent"
  <2>1. CASE Close(w) \/ GiveUpOrRetry(w)
    BY <2>1, ConcludedFacts
  <2>2. CASE ~Close(w) /\ ~GiveUpOrRetry(w)
    BY <1>4, <2>2 DEF Progress, ReadProof, FindShop, WriteProofOnly, TakeLock, Mark, Erase,
                      Work, Collect, Save
  <2> QED
    BY <2>1, <2>2
<1>5. CASE Install \/ \E w \in Workers : LoseLock(w) \/ StepFails(w) \/ Crash(w)
  BY <1>5 DEF Install, LoseLock, StepFails, Crash
<1> QED
  BY <1>1, <1>2, <1>3, <1>4, <1>5 DEF Next, Ordinary

\* What was done is not undone, and what was lost is remembered.
Remembering ==
  /\ Grown
  /\ swept \subseteq swept'
  /\ unguarded \subseteq unguarded'

LEMMA NextRemembers ==
  ASSUME Base, Next
  PROVE  Remembering
<1>1. ASSUME NEW r \in Requests,
             \/ BecomeDue(r) \/ Expire(r) \/ Outlive(r) \/ PruneExport(r)
             \/ Receive(r) \/ ReceiveFails(r) \/ Redeliver(r)
             \/ \E w \in Workers : Claim(w, r)
      PROVE  Remembering
  BY <1>1 DEF Base, StoreIsTyped, Remembering, Grown, BecomeDue, Expire, Outlive, PruneExport,
              Receive, ReceiveFails, Redeliver, Claim, history, world
<1>2. ASSUME NEW w \in Workers, Progress(w)
      PROVE  Remembering
  BY <1>2 DEF Base, StoreIsTyped, Remembering, Grown, Progress, ReadProof, FindShop,
              WriteProofOnly, TakeLock, Mark, Erase, Work, Collect, Save, Close, RemoveRows,
              GiveUpOrRetry, history, world
<1>3. CASE Install \/ \E w \in Workers : LoseLock(w) \/ StepFails(w) \/ Crash(w)
  BY <1>3 DEF Remembering, Grown, Install, LoseLock, StepFails, Crash, history, world
<1> QED
  BY <1>1, <1>2, <1>3 DEF Next, Ordinary

LEMMA StandingStays ==
  ASSUME Base, Next, NEW q \in Requests, Standing(q)
  PROVE  Standing(q)'
<1>1. Remembering
  BY NextRemembers
<1>2. CASE row[q].status = "absent" \/ row'[q].status # "absent"
  BY <1>1, <1>2 DEF Standing, Remembering, Grown
<1>3. CASE row[q].status # "absent" /\ row'[q].status = "absent"
  <2>1. PICK w \in Workers : RemoveRows(w)
    BY <1>3, RowsStay
  <2> PICK r : r = worker[w].request
    OBVIOUS
  <2>2. proof[r] # "none" /\ UNCHANGED proof
    BY <2>1, Remembered DEF RemoveRows, MemoryIsSound
  <2>3. CASE row[q].status = "completed"
    BY <1>1, <2>3 DEF Base, TableIsSound, CompletedIsServed, Standing, Remembering, Grown
  <2>4. CASE q # r /\ row[q].status # "completed"
    <3>1. row[q].status \in Open
      BY <1>3, <2>4 DEF Base, TableIsSound, RowType, Statuses, Open
    <3> QED
      BY <2>1, <2>4, <3>1 DEF RemoveRows, Standing
  <2> QED
    BY <2>2, <2>3, <2>4 DEF Standing
<1> QED
  BY <1>2, <1>3

LEMMA NextKeeps ==
  ASSUME Base, AcceptedIsKept, Next
  PROVE  AcceptedIsKept'
<1> SUFFICES ASSUME NEW r \in Requests, feed'[r] = "acked"
             PROVE  \E q \in Requests : SameMatter(q, r)' /\ Standing(q)'
  BY DEF AcceptedIsKept, Standing
<1>1. \A q \in Requests : SameMatter(q, r)' <=> SameMatter(q, r)
  BY NextRemembers DEF SameMatter, Remembering, Grown
<1>2. CASE feed[r] = "acked"
  <2>1. PICK q \in Requests : SameMatter(q, r) /\ Standing(q)
    BY <1>2 DEF AcceptedIsKept, Standing
  <2> QED
    BY <1>1, <2>1, StandingStays
<1>3. CASE feed[r] # "acked"
  <2>1. Receive(r)
    <3>1. ASSUME NEW q \in Requests, Receive(q) PROVE q = r
      BY <1>3, <3>1 DEF Receive, Base, StoreIsTyped
    <3>2. ASSUME NEW q \in Requests,
                 \/ BecomeDue(q) \/ Expire(q) \/ Outlive(q) \/ PruneExport(q)
                 \/ ReceiveFails(q) \/ Redeliver(q)
                 \/ \E w \in Workers : Claim(w, q)
          PROVE  FALSE
      BY <1>3, <3>2 DEF Base, StoreIsTyped, BecomeDue, Expire, Outlive, PruneExport,
                        ReceiveFails, Redeliver, Claim, history, world
    <3>3. ASSUME NEW w \in Workers, Progress(w) PROVE FALSE
      BY <1>3, <3>3 DEF Progress, ReadProof, FindShop, WriteProofOnly, TakeLock, Mark, Erase,
                        Work, Collect, Save, Close, RemoveRows, GiveUpOrRetry, history, world
    <3>4. CASE Install \/ \E w \in Workers : LoseLock(w) \/ StepFails(w) \/ Crash(w)
      BY <1>3, <3>4 DEF Install, LoseLock, StepFails, Crash, history, world
    <3> QED
      BY <3>1, <3>2, <3>3, <3>4 DEF Next, Ordinary
  <2>2. PICK q \in Requests : SameMatter(q, r) /\ row'[q].status # "absent"
    BY <2>1, RecordFacts DEF Receive
  <2> QED
    BY <1>1, <2>2 DEF Standing
<1> QED
  BY <1>2, <1>3

-----------------------------------------------------------------------------
(* The lock and the erasures *)

LEMMA GotoFacts ==
  ASSUME Base, NEW w \in Workers, NEW pc \in PCs, Goto(w, pc)
  PROVE  /\ worker'[w].pc = pc
         /\ worker'[w].request = worker[w].request
         /\ worker'[w].install = worker[w].install
         /\ \A v \in Workers \ {w} : worker'[v] = worker[v]
<1> PICK m : m = [worker[w] EXCEPT !.pc = pc]
  OBVIOUS
<1>1. m.pc = pc /\ m.request = worker[w].request /\ m.install = worker[w].install
  BY Remembered, ElsewhereIsMemory
<1>2. worker' = [worker EXCEPT ![w] = m]
  BY DEF Goto, Update
<1> QED
  BY <1>1, <1>2 DEF Base, WorkersAreSound

LEMMA EndFacts ==
  ASSUME Base, NEW w \in Workers, Update(w, Idle)
  PROVE  /\ worker'[w].pc = "idle"
         /\ \A v \in Workers \ {w} : worker'[v] = worker[v]
  BY IdleIsMemory DEF Update, Base, WorkersAreSound

LEMMA ClaimerFacts ==
  ASSUME Base, NEW w \in Workers, NEW r \in Requests, Claim(w, r)
  PROVE  /\ worker'[w].request = r /\ worker'[w].pc \in {"proof", "shop"}
         /\ topic[r] = "shop" => worker'[w].pc = "proof"
         /\ \A v \in Workers \ {w} : worker'[v] = worker[v]
<1> PICK pc : pc = IF topic[r] = "shop" THEN "proof" ELSE "shop"
  OBVIOUS
<1> PICK m : m = [Idle EXCEPT !.pc = pc, !.request = r, !.attempt = row[r].attempts + 1]
  OBVIOUS
<1>1. m.pc = pc /\ m.request = r
  BY DEF Idle
<1>2. worker' = [worker EXCEPT ![w] = m]
  BY DEF Claim, Update
<1> QED
  BY <1>1, <1>2 DEF Base, WorkersAreSound

LEMMA FinderFacts ==
  ASSUME Base, NEW w \in Workers, FindShop(w)
  PROVE  /\ worker'[w].request = worker[w].request
         /\ worker'[w].install = shop.install
         /\ worker'[w].pc \in {"proofOnly", "lock", "save"}
         /\ worker'[w].pc = "proofOnly" => shop.install = 0
         /\ \A v \in Workers \ {w} : worker'[v] = worker[v]
<1> PICK found : found = [worker[w] EXCEPT !.install = shop.install]
  OBVIOUS
<1>1. found \in WorkerType /\ found.install = shop.install /\ found.request = worker[w].request
  BY Remembered DEF WorkerType, Base, StoreIsTyped, ShopType
<1>2. PICK pc \in {"proofOnly", "lock", "save"} :
        /\ Update(w, [found EXCEPT !.pc = pc])
        /\ pc = "proofOnly" => shop.install = 0
  BY DEF FindShop
<1> PICK m : m = [found EXCEPT !.pc = pc]
  OBVIOUS
<1>3. m.pc = pc /\ m.install = shop.install /\ m.request = worker[w].request
  BY <1>1, <1>2, ElsewhereIsMemory DEF PCs
<1>4. worker' = [worker EXCEPT ![w] = m]
  BY <1>2 DEF Update
<1> QED
  BY <1>2, <1>3, <1>4 DEF Base, WorkersAreSound

\* The lock of an invocation that leaves its work, or never had one, is nobody's.
LEMMA LockLeft ==
  ASSUME Base, LockIsHeld, Remembering, UNCHANGED shop,
         NEW w \in Workers, worker'[w].pc \notin Locked,
         \A v \in Workers \ {w} : worker'[v] = worker[v],
         lock' \in {lock, Unlocked(w)}
  PROVE  LockIsHeld'
<1> SUFFICES ASSUME unguarded' = {}, NEW v \in Workers, worker'[v].pc \in Locked
             PROVE  /\ lock'[worker'[v].install] = v
                    /\ worker'[v].pc = "erase" => shop.install = worker'[v].install
  BY DEF LockIsHeld, Locked
<1>1. v # w /\ worker'[v] = worker[v] /\ unguarded = {}
  BY DEF Remembering
<1>2. worker[v].install \in Installs
  BY <1>1, Remembered DEF MemoryIsSound
<1>3. /\ lock[worker[v].install] = v
      /\ worker[v].pc = "erase" => shop.install = worker[v].install
  BY <1>1 DEF LockIsHeld, Locked
<1>4. lock'[worker[v].install] = v
  BY <1>1, <1>2, <1>3 DEF Unlocked, Base, StoreIsTyped
<1> QED
  BY <1>1, <1>3, <1>4

\* What a step that erases nothing leaves true of the erasures.
LEMMA ErasuresStay ==
  ASSUME Guarded, Remembering, UNCHANGED <<erased, installs>>,
         \A r \in Requests : proof'[r] = "completed" => proof[r] = "completed"
  PROVE  OneErasurePerDelivery' /\ ErasureIsProved'
<1>1. OneErasurePerDelivery'
  BY DEF Guarded, OneErasurePerDelivery
<1>2. ErasureIsProved'
  BY DEF Guarded, ErasureIsProved, Remembering, Grown
<1> QED
  BY <1>1, <1>2

\* A step of an invocation that neither marks nor erases, and has no lock after it.
LEMMA LeavingStep ==
  ASSUME Base, Guarded, Remembering, UNCHANGED <<shop, installs, erased>>,
         NEW w \in Workers, worker'[w].pc \notin Locked,
         \A v \in Workers \ {w} : worker'[v] = worker[v],
         lock' \in {lock, Unlocked(w)},
         \A r \in Requests : proof'[r] = "completed" => proof[r] = "completed"
  PROVE  Guarded'
<1>1. LockIsHeld'
  BY LockLeft DEF Guarded
<1>2. InstallsAreCounted'
  BY DEF Guarded, InstallsAreCounted
<1> QED
  BY <1>1, <1>2, ErasuresStay DEF Guarded

LEMMA StayingStep ==
  ASSUME Base, Guarded, Remembering, UNCHANGED <<shop, installs, erased, proof, worker, lock>>
  PROVE  Guarded'
<1>1. LockIsHeld'
  BY DEF Guarded, LockIsHeld, Remembering
<1>2. InstallsAreCounted'
  BY DEF Guarded, InstallsAreCounted
<1> QED
  BY <1>1, <1>2, ErasuresStay DEF Guarded

LEMMA InstallGuarded ==
  ASSUME Base, Guarded, Remembering, Install
  PROVE  Guarded'
<1>1. shop = NoShop /\ shop'.install = installs + 1 /\ ~shop'.erasing /\ shop.install = 0
  BY ShopTypes DEF Install, NewShop
<1>2. UNCHANGED <<lock, worker, erased, proof, unguarded>> /\ installs' = installs + 1
  BY DEF Install, history
<1>3. installs \in Nat
  BY ConstantsAssumption DEF Base, StoreIsTyped
<1>4. InstallsAreCounted'
  <2> SUFFICES ASSUME NEW r \in Requests, NEW i \in erased[r]
               PROVE  i <= installs + 1 /\ i # installs + 1
    BY <1>1, <1>2, <1>3 DEF InstallsAreCounted
  <2>1. i <= installs /\ i \in Installs
    BY DEF Guarded, InstallsAreCounted, Base, StoreIsTyped
  <2> QED
    BY <1>3, <2>1 DEF Installs
<1>5. LockIsHeld'
  <2> SUFFICES ASSUME unguarded = {}, NEW v \in Workers, worker[v].pc \in Locked
               PROVE  lock[worker[v].install] = v /\ worker[v].pc # "erase"
    BY <1>2 DEF LockIsHeld, Locked
  <2>1. worker[v].install \in Installs
    BY Remembered DEF MemoryIsSound
  <2>2. worker[v].install # 0
    BY <2>1 DEF Installs
  <2> QED
    BY <1>1, <2>2 DEF Guarded, LockIsHeld
<1>6. OneErasurePerDelivery' /\ ErasureIsProved'
  BY <1>2 DEF Guarded, OneErasurePerDelivery, ErasureIsProved
<1> QED
  BY <1>4, <1>5, <1>6 DEF Guarded

LEMMA TakeLockGuarded ==
  ASSUME Base, Guarded, Remembering, NEW w \in Workers, TakeLock(w)
  PROVE  Guarded'
<1> PICK i : i = worker[w].install
  OBVIOUS
<1>1. UNCHANGED <<shop, installs, erased, proof, unguarded>>
  BY DEF TakeLock, history, world
<1>2. CASE Goto(w, "fail") /\ UNCHANGED lock
  <2>1. worker'[w].pc = "fail" /\ \A v \in Workers \ {w} : worker'[v] = worker[v]
    BY <1>2, GotoFacts DEF PCs, Locked
  <2> QED
    BY <1>1, <1>2, <2>1, LeavingStep DEF Locked
<1>3. CASE /\ lock[i] = Nobody /\ lock' = [lock EXCEPT ![i] = w]
           /\ Goto(w, IF topic[worker[w].request] = "shop" THEN "mark" ELSE "work")
  <2>1. PICK pc \in {"mark", "work"} : Goto(w, pc)
    BY <1>3
  <2>2. /\ worker'[w].pc = pc /\ worker'[w].install = i
        /\ \A v \in Workers \ {w} : worker'[v] = worker[v]
    BY <2>1, GotoFacts DEF PCs, Locked
  <2>3. i \in Installs
    BY Remembered DEF TakeLock, MemoryIsSound
  <2>4. LockIsHeld'
    <3> SUFFICES ASSUME unguarded = {}, NEW v \in Workers, worker'[v].pc \in Locked
                 PROVE  /\ lock'[worker'[v].install] = v
                        /\ worker'[v].pc = "erase" => shop.install = worker'[v].install
      BY <1>1 DEF LockIsHeld, Locked
    <3>1. CASE v = w
      BY <1>3, <2>1, <2>2, <2>3, <3>1 DEF Base, StoreIsTyped
    <3>2. CASE v # w
      <4>1. worker'[v] = worker[v] /\ lock[worker[v].install] = v
        BY <2>2, <3>2 DEF Guarded, LockIsHeld
      <4>2. worker[v].install # i
        BY <1>3, <4>1, ConstantsAssumption
      <4> QED
        BY <1>3, <4>1, <4>2, <3>2 DEF Guarded, LockIsHeld, Base, StoreIsTyped
    <3> QED
      BY <3>1, <3>2
  <2>5. InstallsAreCounted'
    BY <1>1 DEF Guarded, InstallsAreCounted
  <2> QED
    BY <1>1, <2>4, <2>5, ErasuresStay DEF Guarded
<1> QED
  BY <1>2, <1>3 DEF TakeLock

LEMMA MarkGuarded ==
  ASSUME Base, Guarded, Remembering, NEW w \in Workers, Mark(w)
  PROVE  Guarded'
<1> PICK i : i = worker[w].install
  OBVIOUS
<1>1. UNCHANGED <<installs, erased, proof, unguarded>> /\ worker[w].pc = "mark"
  BY DEF Mark, history, world
<1>2. CASE Goto(w, "fail") /\ lock' = Unlocked(w) /\ UNCHANGED shop
  <2>1. worker'[w].pc = "fail" /\ \A v \in Workers \ {w} : worker'[v] = worker[v]
    BY <1>2, GotoFacts DEF PCs, Locked
  <2> QED
    BY <1>1, <1>2, <2>1, LeavingStep DEF Locked
<1>3. CASE /\ lock[i] = w /\ shop.install = i /\ shop' = [shop EXCEPT !.erasing = TRUE]
           /\ Goto(w, "erase") /\ UNCHANGED lock
  <2>1. /\ worker'[w].pc = "erase" /\ worker'[w].install = i
        /\ \A v \in Workers \ {w} : worker'[v] = worker[v]
    BY <1>3, GotoFacts DEF PCs, Locked
  <2>2. i \in Installs /\ i # 0
    BY <1>1, Remembered DEF MemoryIsSound, Locked, Installs
  <2>3. shop'.install = i
    BY <1>3, ShopTypes DEF Base, StoreIsTyped
  <2>4. LockIsHeld'
    BY <1>1, <1>3, <2>1, <2>3 DEF Guarded, LockIsHeld
  <2>5. InstallsAreCounted'
    BY <1>1, <1>3, <2>2, <2>3 DEF Guarded, InstallsAreCounted
  <2> QED
    BY <1>1, <2>4, <2>5, ErasuresStay DEF Guarded
<1> QED
  BY <1>2, <1>3 DEF Mark

LEMMA EraseGuarded ==
  ASSUME Base, Guarded, Remembering, NEW w \in Workers, Erase(w)
  PROVE  Guarded'
<1> PICK i : i = worker[w].install
  OBVIOUS
<1> PICK r : r = worker[w].request
  OBVIOUS
<1>1. UNCHANGED <<installs, unguarded>> /\ worker[w].pc = "erase" /\ lock' = Unlocked(w)
  BY DEF Erase, world
<1>2. i \in Installs /\ i # 0 /\ r \in Requests
  BY <1>1, Remembered DEF MemoryIsSound, Locked, Installs, WorkerType
<1>3. /\ worker'[w].pc \in {"fail", "remove"}
      /\ \A v \in Workers \ {w} : worker'[v] = worker[v]
  BY GotoFacts DEF Erase, PCs
<1>4. CASE UNCHANGED <<shop, proof, erased>>
  BY <1>1, <1>3, <1>4, LeavingStep DEF Locked
<1>5. CASE /\ proof[r] = "none" /\ proof' = [proof EXCEPT ![r] = "completed"]
           /\ shop.install # i /\ UNCHANGED <<shop, erased>>
  <2>1. unguarded # {}
    BY <1>1, <1>5 DEF Guarded, LockIsHeld
  <2>2. InstallsAreCounted' /\ OneErasurePerDelivery'
    BY <1>1, <1>5 DEF Guarded, InstallsAreCounted, OneErasurePerDelivery
  <2>3. ErasureIsProved'
    BY <1>1, <1>2, <1>5, <2>1 DEF Guarded, ErasureIsProved, Base, StoreIsTyped
  <2>4. LockIsHeld'
    BY <1>1, <2>1 DEF LockIsHeld
  <2> QED
    BY <2>2, <2>3, <2>4 DEF Guarded
<1>6. CASE /\ proof[r] = "none" /\ proof' = [proof EXCEPT ![r] = "completed"]
           /\ shop.install = i /\ shop' = NoShop
           /\ erased' = [erased EXCEPT ![r] = @ \cup {i}]
  <2>1. \A q \in Requests : erased'[q] = IF q = r THEN erased[r] \cup {i} ELSE erased[q]
    BY <1>2, <1>6 DEF Base, StoreIsTyped
  <2>2. erased[r] = {} /\ \A q \in Requests : i \notin erased[q]
    BY <1>2, <1>6 DEF Guarded, ErasureIsProved, InstallsAreCounted
  <2>3. InstallsAreCounted'
    <3>1. \A q \in Requests : \A j \in erased'[q] : j <= installs /\ j # 0
      BY <1>2, <1>6, <2>1 DEF Guarded, InstallsAreCounted, Base, StoreIsTyped, Installs
    <3>2. 0 <= installs
      BY ConstantsAssumption DEF Base, StoreIsTyped
    <3> QED
      BY <1>1, <1>6, <3>1, <3>2, ShopTypes DEF InstallsAreCounted
  <2>4. OneErasurePerDelivery'
    BY <2>1, <2>2 DEF Guarded, OneErasurePerDelivery
  <2>5. ErasureIsProved'
    BY <1>1, <1>2, <1>6, <2>1, <2>2 DEF Guarded, ErasureIsProved, Base, StoreIsTyped
  <2>6. LockIsHeld'
    <3> SUFFICES ASSUME unguarded = {}, NEW v \in Workers, worker'[v].pc \in Locked
                 PROVE  lock'[worker'[v].install] = v /\ worker'[v].pc # "erase"
      BY <1>1 DEF LockIsHeld, Locked
    <3>1. v # w /\ worker'[v] = worker[v] /\ lock[worker[v].install] = v
      BY <1>3 DEF Guarded, LockIsHeld, Locked
    <3>2. lock[i] = w
      BY <1>1 DEF Guarded, LockIsHeld, Locked
    <3>3. worker[v].install \in Installs /\ worker[v].install # i
      BY <3>1, <3>2, Remembered DEF MemoryIsSound
    <3>4. lock'[worker[v].install] = v
      BY <1>1, <1>2, <3>1, <3>3 DEF Unlocked, Base, StoreIsTyped
    <3>5. worker[v].pc = "erase" => shop.install = worker[v].install
      BY DEF Guarded, LockIsHeld
    <3> QED
      BY <1>6, <3>1, <3>3, <3>4, <3>5
  <2> QED
    BY <2>3, <2>4, <2>5, <2>6 DEF Guarded
<1> QED
  BY <1>4, <1>5, <1>6 DEF Erase

\* The steps of an invocation that neither takes the lock nor erases.
Quietly(w) ==
  \/ ReadProof(w) \/ FindShop(w) \/ WriteProofOnly(w) \/ Work(w) \/ Collect(w) \/ Save(w)
  \/ Close(w) \/ RemoveRows(w) \/ GiveUpOrRetry(w) \/ StepFails(w) \/ Crash(w)
  \/ \E r \in Requests : Claim(w, r)

\* After each of them no lock is needed.
LEMMA QuietFacts ==
  ASSUME Base, NEW w \in Workers, Quietly(w)
  PROVE  /\ UNCHANGED <<shop, installs, erased>>
         /\ worker'[w].pc \notin Locked
         /\ \A v \in Workers \ {w} : worker'[v] = worker[v]
         /\ lock' \in {lock, Unlocked(w)}
<1>1. /\ UNCHANGED <<shop, installs, erased>>
      /\ lock' \in {lock, Unlocked(w)}
  BY DEF Quietly, ReadProof, FindShop, WriteProofOnly, Work, Collect, Save, Close, RemoveRows,
         GiveUpOrRetry, StepFails, Crash, Claim, history, world
<1>2. \/ \E pc \in {"shop", "remove", "fail", "collect", "save", "close"} : Goto(w, pc)
      \/ Update(w, Idle)
      \/ FindShop(w)
      \/ \E r \in Requests : Claim(w, r)
  BY DEF Quietly, ReadProof, WriteProofOnly, Work, Collect, Save, Close, RemoveRows,
         GiveUpOrRetry, StepFails, Crash
<1>3. ASSUME NEW pc \in {"shop", "remove", "fail", "collect", "save", "close"}, Goto(w, pc)
      PROVE  worker'[w].pc = pc /\ \A v \in Workers \ {w} : worker'[v] = worker[v]
  <2>1. pc \in PCs
    BY DEF PCs
  <2> QED
    BY <1>3, <2>1, GotoFacts
<1> QED
  BY <1>1, <1>2, <1>3, EndFacts, FinderFacts, ClaimerFacts DEF Locked

LEMMA QuietGuarded ==
  ASSUME Base, Guarded, Remembering, NEW w \in Workers, Quietly(w)
  PROVE  Guarded'
<1>1. \A r \in Requests : proof'[r] = "completed" => proof[r] = "completed"
  BY DEF Quietly, ReadProof, FindShop, WriteProofOnly, Work, Collect, Save, Close, RemoveRows,
         GiveUpOrRetry, StepFails, Crash, Claim, history, world, Base, StoreIsTyped
<1> QED
  BY <1>1, QuietFacts, LeavingStep

LEMMA NextGuarded ==
  ASSUME Base, Guarded, Next
  PROVE  Guarded'
<1>1. Remembering
  BY NextRemembers
<1>2. ASSUME NEW r \in Requests,
             \/ BecomeDue(r) \/ Expire(r) \/ Outlive(r) \/ PruneExport(r)
             \/ Receive(r) \/ ReceiveFails(r) \/ Redeliver(r)
      PROVE  Guarded'
  <2>1. UNCHANGED <<shop, installs, erased, proof, worker, lock>>
    BY <1>2 DEF BecomeDue, Expire, Outlive, PruneExport, Receive, ReceiveFails, Redeliver,
                history, world
  <2> QED
    BY <1>1, <2>1, StayingStep
<1>3. ASSUME NEW w \in Workers, LoseLock(w) PROVE Guarded'
  <2>1. UNCHANGED <<shop, installs, erased, proof, worker>> /\ unguarded' # {}
    BY <1>3 DEF LoseLock, world
  <2>2. LockIsHeld' /\ InstallsAreCounted'
    BY <2>1 DEF Guarded, LockIsHeld, InstallsAreCounted
  <2> QED
    BY <1>1, <2>1, <2>2, ErasuresStay DEF Guarded
<1>4. ASSUME NEW w \in Workers, Quietly(w) \/ TakeLock(w) \/ Mark(w) \/ Erase(w)
      PROVE  Guarded'
  BY <1>1, <1>4, QuietGuarded, TakeLockGuarded, MarkGuarded, EraseGuarded
<1> QED
  BY <1>1, <1>2, <1>3, <1>4, InstallGuarded DEF Next, Ordinary, Progress, Quietly

LEMMA StutterGuarded ==
  ASSUME Base, Guarded, UNCHANGED vars
  PROVE  Guarded'
<1>1. Remembering /\ UNCHANGED <<shop, installs, erased, proof, worker, lock>>
  BY DEF vars, Remembering, Grown
<1> QED
  BY <1>1, StayingStep

LEMMA InitGuarded ==
  ASSUME Init
  PROVE  Guarded
<1>1. InstallsAreCounted
  BY ShopTypes DEF Init, InstallsAreCounted
<1>2. LockIsHeld
  BY IdleIsMemory DEF Init, LockIsHeld, Locked
<1>3. OneErasurePerDelivery /\ ErasureIsProved
  BY DEF Init, OneErasurePerDelivery, ErasureIsProved
<1> QED
  BY <1>1, <1>2, <1>3 DEF Guarded

-----------------------------------------------------------------------------
(* The lease *)

\* Whoever was never superseded holds a row alone.
LEMMA OneHolder ==
  ASSUME Base, HoldersAreAlone, Undisturbed,
         NEW v \in Workers, worker[v].pc # "idle", NEW w \in Workers, worker[w].pc # "idle",
         worker[v].request = worker[w].request
  PROVE  v = w
  BY DEF HoldersAreAlone, Guardia

LEMMA StillUndisturbed ==
  ASSUME Remembering, Undisturbed'
  PROVE  Undisturbed
  BY DEF Undisturbed, Remembering, Grown

\* Where an erasure has its proof still to be written.
Unproved == {"shop", "proofOnly", "lock", "mark", "erase"}

\* What is asked of one invocation.
Single(w) ==
  worker[w].pc # "idle" =>
    /\ Guardia(w)
    /\ topic[worker[w].request] = "shop" /\ worker[w].pc \in Unproved
         => proof[worker[w].request] = "none"

\* The delivery r closed the shop, and will erase it.
Closer(r) ==
  /\ topic[r] = "shop" /\ row[r].status \in Open /\ proof[r] = "none"
  /\ \A w \in Workers : worker[w].request = r =>
       /\ worker[w].pc # "proofOnly"
       /\ worker[w].pc = "erase" => worker[w].install = shop.install

LEMMA AloneParts ==
  /\ HoldersAreAlone <=> (Undisturbed => \A w \in Workers : Single(w))
  /\ ClosedByAnOpenDelivery <=> (Undisturbed /\ shop.erasing => \E r \in Requests : Closer(r))
  BY DEF HoldersAreAlone, ClosedByAnOpenDelivery, Single, Closer, Unproved

\* The conclusion, as it is needed of the next state.
LEMMA AloneNext ==
  ASSUME Undisturbed' => \A w \in Workers : Single(w)',
         Undisturbed' /\ shop'.erasing => \E r \in Requests : Closer(r)'
  PROVE  Alone'
  BY DEF Alone, HoldersAreAlone, ClosedByAnOpenDelivery, Single, Closer, Unproved

\* A step of one invocation that changes neither a row nor a proof nor the shop.
LEMMA AloneMove ==
  ASSUME Base, Alone, Remembering, UNCHANGED <<row, shop, proof>>, NEW w \in Workers,
         \A v \in Workers \ {w} : worker'[v] = worker[v],
         worker'[w].pc # "idle" => worker[w].pc # "idle" /\ worker'[w].request = worker[w].request,
         Undisturbed /\ topic[worker[w].request] = "shop" /\ worker'[w].pc \in Unproved
           => proof[worker[w].request] = "none",
         worker'[w].pc = "proofOnly" => ~shop.erasing,
         worker'[w].pc = "erase" => worker'[w].install = shop.install
  PROVE  Alone'
<1>1. UNCHANGED topic /\ (Undisturbed' => Undisturbed)
  BY StillUndisturbed DEF Remembering, Grown
<1>2. ASSUME Undisturbed', NEW v \in Workers PROVE Single(v)'
  <2>1. Single(v)
    BY <1>1, <1>2, AloneParts DEF Alone
  <2>2. CASE v # w
    BY <1>1, <2>1, <2>2 DEF Single, Guardia
  <2>3. CASE v = w
    BY <1>1, <1>2, <2>1, <2>3 DEF Single, Guardia
  <2> QED
    BY <2>2, <2>3
<1>3. ASSUME Undisturbed', shop'.erasing PROVE \E r \in Requests : Closer(r)'
  <2>1. PICK r \in Requests : Closer(r)
    BY <1>1, <1>3, AloneParts DEF Alone
  <2>2. ASSUME NEW v \in Workers, worker'[v].request = r
        PROVE  /\ worker'[v].pc # "proofOnly"
               /\ worker'[v].pc = "erase" => worker'[v].install = shop.install
    <3>1. CASE v # w
      BY <2>1, <2>2, <3>1 DEF Closer
    <3>2. CASE v = w
      BY <1>3, <3>2
    <3> QED
      BY <3>1, <3>2
  <2> QED
    BY <1>1, <2>1, <2>2 DEF Closer
<1> QED
  BY <1>2, <1>3, AloneNext

\* A step of nobody: the rows keep their state and their holder.
LEMMA AloneAside ==
  ASSUME Base, Alone, Remembering, UNCHANGED <<shop, proof, worker>>,
         \A q \in Requests : row[q].status # "absent" =>
           row'[q].status = row[q].status /\ row'[q].owner = row[q].owner
  PROVE  Alone'
<1>1. UNCHANGED topic /\ (Undisturbed' => Undisturbed)
  BY StillUndisturbed DEF Remembering, Grown
<1>2. ASSUME Undisturbed', NEW v \in Workers PROVE Single(v)'
  <2>1. Single(v) /\ (worker[v].pc # "idle" => worker[v].request \in Requests)
    BY <1>1, <1>2, AloneParts, Remembered DEF Alone, MemoryIsSound, WorkerType
  <2> QED
    BY <1>1, <2>1 DEF Single, Guardia
<1>3. ASSUME Undisturbed', shop'.erasing PROVE \E r \in Requests : Closer(r)'
  <2>1. PICK r \in Requests : Closer(r)
    BY <1>1, <1>3, AloneParts DEF Alone
  <2> QED
    BY <1>1, <2>1 DEF Closer, Open
<1> QED
  BY <1>2, <1>3, AloneNext

LEMMA ClaimAlone ==
  ASSUME Base, Alone, Remembering, NEW w \in Workers, NEW r \in Requests, Claim(w, r)
  PROVE  Alone'
<1>1. UNCHANGED <<topic, shop, proof>> /\ (Undisturbed' => Undisturbed)
  BY StillUndisturbed DEF Remembering, Grown, Claim
<1>2. /\ row'[r].status = "processing" /\ row'[r].owner = w
      /\ \A q \in Requests \ {r} : row'[q] = row[q]
  BY ClaimFacts
<1>3. /\ worker'[w].request = r /\ worker'[w].pc \in {"proof", "shop"}
      /\ topic[r] = "shop" => worker'[w].pc = "proof"
      /\ \A v \in Workers \ {w} : worker'[v] = worker[v]
  BY ClaimerFacts
<1>4. ASSUME Undisturbed', NEW v \in Workers PROVE Single(v)'
  <2>1. CASE v = w
    BY <1>1, <1>2, <1>3, <2>1 DEF Single, Guardia, Unproved
  <2>2. CASE v # w /\ worker[v].pc # "idle"
    <3>1. Single(v) /\ worker[v].request \in Requests
      BY <1>1, <1>4, <2>2, AloneParts, Remembered DEF Alone, MemoryIsSound, WorkerType
    <3>2. worker[v].request # r
      <4> SUFFICES ASSUME worker[v].request = r PROVE FALSE
        OBVIOUS
      <4>1. row[r].owner = v /\ row[r].status = "processing" /\ Attended(r)
        BY <2>2, <3>1 DEF Single, Guardia, Attended
      <4>2. row[r].expired
        BY <4>1 DEF Claim, Claimable
      <4> QED
        BY <1>1, <1>4, <4>1, <4>2 DEF Base, TableIsSound, RowsAreSound, Undisturbed
    <3> QED
      BY <1>1, <1>2, <1>3, <2>2, <3>1, <3>2 DEF Single, Guardia
  <2>3. CASE v # w /\ worker[v].pc = "idle"
    BY <1>3, <2>3 DEF Single
  <2> QED
    BY <2>1, <2>2, <2>3
<1>5. ASSUME Undisturbed', shop'.erasing PROVE \E q \in Requests : Closer(q)'
  <2>1. PICK q \in Requests : Closer(q)
    BY <1>1, <1>5, AloneParts DEF Alone
  <2>2. row'[q].status \in Open
    BY <1>2, <2>1 DEF Closer, Open
  <2>3. \A v \in Workers : worker'[v].request = q =>
          /\ worker'[v].pc # "proofOnly"
          /\ worker'[v].pc = "erase" => worker'[v].install = shop.install
    BY <1>3, <2>1 DEF Closer
  <2> QED
    BY <1>1, <2>1, <2>2, <2>3 DEF Closer
<1> QED
  BY <1>4, <1>5, AloneNext

LEMMA ConcludeAlone ==
  ASSUME Base, Alone, Remembering, NEW w \in Workers, Close(w) \/ GiveUpOrRetry(w)
  PROVE  Alone'
<1> PICK r : r = worker[w].request
  OBVIOUS
<1>1. UNCHANGED <<topic, shop, proof>> /\ (Undisturbed' => Undisturbed)
  BY StillUndisturbed DEF Remembering, Grown, Close, GiveUpOrRetry
<1>2. worker'[w].pc = "idle" /\ \A v \in Workers \ {w} : worker'[v] = worker[v]
  BY EndFacts DEF Close, GiveUpOrRetry
<1>3. /\ r \in Requests /\ worker[w].pc # "idle"
      /\ Close(w) => topic[r] # "shop"
  BY ConcludedFacts, Remembered DEF Close, GiveUpOrRetry, MemoryIsSound
<1>4. \A q \in Requests \ {r} : row'[q] = row[q]
  BY ConcludedFacts
<1>5. Close(w) \/ UNCHANGED row \/ row'[r].status \in Open
  BY ConcludedFacts DEF Open
<1>6. ASSUME Undisturbed', NEW v \in Workers PROVE Single(v)'
  <2>1. CASE v = w \/ worker[v].pc = "idle"
    BY <1>2, <2>1 DEF Single
  <2>2. CASE v # w /\ worker[v].pc # "idle"
    <3>1. Single(v) /\ worker[v].request \in Requests /\ worker[v].request # r
      BY <1>1, <1>3, <1>6, <2>2, AloneParts, OneHolder, Remembered
         DEF Alone, MemoryIsSound, WorkerType
    <3> QED
      BY <1>1, <1>2, <1>4, <2>2, <3>1 DEF Single, Guardia
  <2> QED
    BY <2>1, <2>2
<1>7. ASSUME Undisturbed', shop'.erasing PROVE \E q \in Requests : Closer(q)'
  <2>1. PICK q \in Requests : Closer(q)
    BY <1>1, <1>7, AloneParts DEF Alone
  <2>2. row'[q].status \in Open
    BY <1>3, <1>4, <1>5, <2>1 DEF Closer
  <2> QED
    BY <1>1, <1>2, <2>1, <2>2 DEF Closer
<1> QED
  BY <1>6, <1>7, AloneNext

LEMMA RemoveRowsAlone ==
  ASSUME Base, Alone, Remembering, NEW w \in Workers, RemoveRows(w)
  PROVE  Alone'
<1> PICK r : r = worker[w].request
  OBVIOUS
<1>1. UNCHANGED <<topic, shop, proof>> /\ (Undisturbed' => Undisturbed)
  BY StillUndisturbed DEF Remembering, Grown, RemoveRows
<1>2. worker'[w].pc = "idle" /\ \A v \in Workers \ {w} : worker'[v] = worker[v]
  BY EndFacts DEF RemoveRows
<1>3. worker[w].pc # "idle" /\ proof[r] # "none"
  BY Remembered DEF RemoveRows, MemoryIsSound
<1>4. ASSUME Undisturbed', NEW q \in Requests, q # r PROVE row[q].status \notin Open
  BY <1>4 DEF RemoveRows, Undisturbed
<1>5. ASSUME Undisturbed', NEW v \in Workers PROVE Single(v)'
  <2>1. CASE v = w \/ worker[v].pc = "idle"
    BY <1>2, <2>1 DEF Single
  <2>2. CASE v # w /\ worker[v].pc # "idle"
    <3>1. Single(v) /\ worker[v].request \in Requests /\ worker[v].request # r
      BY <1>1, <1>3, <1>5, <2>2, AloneParts, OneHolder, Remembered
         DEF Alone, MemoryIsSound, WorkerType
    <3> QED
      BY <1>4, <1>5, <2>2, <3>1 DEF Single, Guardia, Open
  <2> QED
    BY <2>1, <2>2
<1>6. ASSUME Undisturbed', shop'.erasing PROVE FALSE
  <2>1. PICK q \in Requests : Closer(q)
    BY <1>1, <1>6, AloneParts DEF Alone
  <2> QED
    BY <1>3, <1>4, <1>6, <2>1 DEF Closer
<1> QED
  BY <1>5, <1>6, AloneNext

LEMMA WriteProofOnlyAlone ==
  ASSUME Base, Alone, Remembering, NEW w \in Workers, WriteProofOnly(w)
  PROVE  Alone'
<1> PICK r : r = worker[w].request
  OBVIOUS
<1>1. UNCHANGED <<topic, shop, row>> /\ (Undisturbed' => Undisturbed)
  BY StillUndisturbed DEF Remembering, Grown, WriteProofOnly
<1>2. worker[w].pc = "proofOnly" /\ r \in Requests /\ topic[r] = "shop"
  BY Remembered DEF WriteProofOnly, MemoryIsSound, WorkerType
<1>3. /\ worker'[w].pc \in {"remove", "fail"} /\ worker'[w].request = r
      /\ \A v \in Workers \ {w} : worker'[v] = worker[v]
  BY GotoFacts DEF WriteProofOnly, PCs
<1>4. \A q \in Requests \ {r} : proof'[q] = proof[q]
  BY <1>2 DEF WriteProofOnly, Base, StoreIsTyped
<1>5. ASSUME Undisturbed', NEW v \in Workers PROVE Single(v)'
  <2>1. Single(v)
    BY <1>1, <1>5, AloneParts DEF Alone
  <2>2. CASE v = w
    BY <1>1, <1>2, <1>3, <2>1, <2>2 DEF Single, Guardia, Unproved
  <2>3. CASE v # w /\ worker[v].pc # "idle"
    <3>1. worker[v].request \in Requests \ {r}
      BY <1>1, <1>2, <1>5, <2>3, OneHolder, Remembered DEF Alone, MemoryIsSound, WorkerType
    <3> QED
      BY <1>1, <1>3, <1>4, <2>1, <2>3, <3>1 DEF Single, Guardia
  <2>4. CASE v # w /\ worker[v].pc = "idle"
    BY <1>3, <2>4 DEF Single
  <2> QED
    BY <2>2, <2>3, <2>4
<1>6. ASSUME Undisturbed', shop'.erasing PROVE \E q \in Requests : Closer(q)'
  <2>1. PICK q \in Requests : Closer(q)
    BY <1>1, <1>6, AloneParts DEF Alone
  <2>2. q # r
    BY <1>2, <2>1 DEF Closer
  <2> QED
    BY <1>1, <1>3, <1>4, <2>1, <2>2 DEF Closer
<1> QED
  BY <1>5, <1>6, AloneNext

LEMMA MarkAlone ==
  ASSUME Base, Alone, Remembering, NEW w \in Workers, Mark(w)
  PROVE  Alone'
<1> PICK r : r = worker[w].request
  OBVIOUS
<1> PICK i : i = worker[w].install
  OBVIOUS
<1>1. UNCHANGED <<topic, row, proof>> /\ (Undisturbed' => Undisturbed)
  BY StillUndisturbed DEF Remembering, Grown, Mark
<1>2. worker[w].pc = "mark" /\ r \in Requests /\ topic[r] = "shop"
  BY Remembered DEF Mark, MemoryIsSound, WorkerType, Locked
<1>3. CASE Goto(w, "fail") /\ UNCHANGED shop
  <2>1. /\ worker'[w].pc = "fail" /\ worker'[w].request = r
        /\ \A v \in Workers \ {w} : worker'[v] = worker[v]
    BY <1>3, GotoFacts DEF PCs
  <2> QED
    BY <1>1, <1>2, <1>3, <2>1, AloneMove DEF Unproved
<1>4. CASE shop.install = i /\ shop' = [shop EXCEPT !.erasing = TRUE] /\ Goto(w, "erase")
  <2>1. /\ worker'[w].pc = "erase" /\ worker'[w].request = r /\ worker'[w].install = i
        /\ \A v \in Workers \ {w} : worker'[v] = worker[v]
    BY <1>4, GotoFacts DEF PCs, Locked
  <2>2. shop'.install = i
    BY <1>4, ShopTypes DEF Base, StoreIsTyped
  <2>3. ASSUME Undisturbed', NEW v \in Workers PROVE Single(v)'
    <3>1. Single(v)
      BY <1>1, <2>3, AloneParts DEF Alone
    <3>2. CASE v = w
      BY <1>1, <1>2, <2>1, <3>1, <3>2 DEF Single, Guardia, Unproved
    <3>3. CASE v # w
      BY <1>1, <2>1, <3>1, <3>3 DEF Single, Guardia
    <3> QED
      BY <3>2, <3>3
  <2>4. ASSUME Undisturbed', shop'.erasing PROVE Closer(r)'
    <3>1. Guardia(w) /\ proof[r] = "none"
      BY <1>1, <1>2, <2>4, AloneParts DEF Alone, Single, Unproved
    <3>2. ASSUME NEW v \in Workers, worker'[v].request = r
          PROVE  /\ worker'[v].pc # "proofOnly"
                 /\ worker'[v].pc = "erase" => worker'[v].install = i
      <4>1. CASE v = w
        BY <2>1, <4>1
      <4>2. CASE v # w
        <5>1. worker'[v] = worker[v] /\ worker[v].pc = "idle"
          BY <1>1, <1>2, <2>1, <2>4, <3>2, <4>2, OneHolder DEF Alone
        <5> QED
          BY <5>1
      <4> QED
        BY <4>1, <4>2
    <3> QED
      BY <1>1, <1>2, <2>2, <3>1, <3>2 DEF Closer, Guardia, Open
  <2> QED
    BY <1>2, <2>3, <2>4, AloneNext
<1> QED
  BY <1>3, <1>4 DEF Mark

LEMMA EraseAlone ==
  ASSUME Base, Alone, Remembering, NEW w \in Workers, Erase(w)
  PROVE  Alone'
<1> PICK r : r = worker[w].request
  OBVIOUS
<1> PICK i : i = worker[w].install
  OBVIOUS
<1>1. UNCHANGED <<topic, row>> /\ (Undisturbed' => Undisturbed)
  BY StillUndisturbed DEF Remembering, Grown, Erase
<1>2. worker[w].pc = "erase" /\ r \in Requests /\ topic[r] = "shop"
  BY Remembered DEF Erase, MemoryIsSound, WorkerType, Locked
<1>3. CASE Goto(w, "fail") /\ UNCHANGED <<shop, proof>>
  <2>1. /\ worker'[w].pc = "fail" /\ worker'[w].request = r
        /\ \A v \in Workers \ {w} : worker'[v] = worker[v]
    BY <1>3, GotoFacts DEF PCs
  <2> QED
    BY <1>1, <1>2, <1>3, <2>1, AloneMove DEF Unproved
<1>4. CASE /\ proof' = [proof EXCEPT ![r] = "completed"] /\ Goto(w, "remove")
           /\ shop' = NoShop \/ (UNCHANGED shop /\ shop.install # i)
  <2>1. /\ worker'[w].pc = "remove" /\ worker'[w].request = r
        /\ \A v \in Workers \ {w} : worker'[v] = worker[v]
    BY <1>4, GotoFacts DEF PCs
  <2>2. \A q \in Requests \ {r} : proof'[q] = proof[q]
    BY <1>4 DEF Base, StoreIsTyped
  <2>3. ASSUME Undisturbed', NEW v \in Workers PROVE Single(v)'
    <3>1. Single(v)
      BY <1>1, <2>3, AloneParts DEF Alone
    <3>2. CASE v = w
      BY <1>1, <1>2, <2>1, <3>1, <3>2 DEF Single, Guardia, Unproved
    <3>3. CASE v # w /\ worker[v].pc # "idle"
      <4>1. worker[v].request \in Requests \ {r}
        BY <1>1, <1>2, <2>3, <3>3, OneHolder, Remembered DEF Alone, MemoryIsSound, WorkerType
      <4> QED
        BY <1>1, <2>1, <2>2, <3>1, <3>3, <4>1 DEF Single, Guardia
    <3>4. CASE v # w /\ worker[v].pc = "idle"
      BY <2>1, <3>4 DEF Single
    <3> QED
      BY <3>2, <3>3, <3>4
  <2>4. ASSUME Undisturbed', shop'.erasing PROVE \E q \in Requests : Closer(q)'
    <3>1. UNCHANGED shop /\ shop.install # i
      BY <1>4, <2>4, ShopTypes
    <3>2. PICK q \in Requests : Closer(q)
      BY <1>1, <2>4, <3>1, AloneParts DEF Alone
    <3>3. q # r
      BY <1>2, <3>1, <3>2 DEF Closer
    <3> QED
      BY <1>1, <2>1, <2>2, <3>1, <3>2, <3>3 DEF Closer
  <2> QED
    BY <2>3, <2>4, AloneNext
<1> QED
  BY <1>3, <1>4 DEF Erase

LEMMA MovesAlone ==
  ASSUME Base, Guarded, Alone, Remembering, NEW w \in Workers,
         \/ ReadProof(w) \/ FindShop(w) \/ TakeLock(w) \/ Work(w) \/ Collect(w) \/ Save(w)
         \/ StepFails(w) \/ Crash(w)
  PROVE  Alone'
<1> PICK r : r = worker[w].request
  OBVIOUS
<1>1. UNCHANGED <<topic, row, shop, proof>>
  BY DEF ReadProof, FindShop, TakeLock, Work, Collect, Save, StepFails, Crash, world
<1>2. worker[w].pc # "idle" /\ (Undisturbed => Single(w))
  BY AloneParts DEF Alone, ReadProof, FindShop, TakeLock, Work, Collect, Save, StepFails, Crash
<1>3. CASE FindShop(w)
  <2>1. /\ worker'[w].request = r
        /\ worker'[w].pc \in {"proofOnly", "lock", "save"}
        /\ worker'[w].pc = "proofOnly" => shop.install = 0
        /\ \A v \in Workers \ {w} : worker'[v] = worker[v]
    BY <1>3, FinderFacts
  <2>2. Undisturbed /\ topic[r] = "shop" => proof[r] = "none"
    BY <1>2, <1>3 DEF FindShop, Single, Unproved
  <2>3. shop.install = 0 => ~shop.erasing
    BY DEF Guarded, InstallsAreCounted
  <2> QED
    BY <1>1, <1>2, <2>1, <2>2, <2>3, AloneMove
<1>4. CASE Crash(w)
  <2>1. worker'[w].pc = "idle" /\ \A v \in Workers \ {w} : worker'[v] = worker[v]
    BY <1>4, EndFacts DEF Crash
  <2> QED
    BY <1>1, <2>1, AloneMove DEF Unproved
<1>5. CASE \E pc \in {"remove", "fail", "work", "collect", "save", "close"} : Goto(w, pc)
  <2>1. PICK pc \in {"remove", "fail", "work", "collect", "save", "close"} : Goto(w, pc)
    BY <1>5
  <2>2. /\ worker'[w].pc = pc /\ worker'[w].request = r
        /\ \A v \in Workers \ {w} : worker'[v] = worker[v]
    BY <2>1, GotoFacts DEF PCs, Locked
  <2> QED
    BY <1>1, <1>2, <2>2, AloneMove DEF Unproved
<1>6. CASE ReadProof(w) /\ proof[r] = "none" /\ Goto(w, "shop")
  <2>1. /\ worker'[w].pc = "shop" /\ worker'[w].request = r
        /\ \A v \in Workers \ {w} : worker'[v] = worker[v]
    BY <1>6, GotoFacts DEF PCs
  <2> QED
    BY <1>1, <1>2, <1>6, <2>1, AloneMove
<1>7. CASE worker[w].pc = "lock" /\ Goto(w, "mark")
  <2>1. /\ worker'[w].pc = "mark" /\ worker'[w].request = r
        /\ \A v \in Workers \ {w} : worker'[v] = worker[v]
    BY <1>7, GotoFacts DEF PCs, Locked
  <2>2. Undisturbed /\ topic[r] = "shop" => proof[r] = "none"
    BY <1>2, <1>7 DEF Single, Unproved
  <2> QED
    BY <1>1, <1>2, <2>1, <2>2, AloneMove
<1>8. FindShop(w) \/ Crash(w)
      \/ (\E pc \in {"remove", "fail", "work", "collect", "save", "close"} : Goto(w, pc))
      \/ (ReadProof(w) /\ proof[r] = "none" /\ Goto(w, "shop"))
      \/ (worker[w].pc = "lock" /\ Goto(w, "mark"))
  BY DEF ReadProof, TakeLock, Work, Collect, Save, StepFails
<1> QED
  BY <1>3, <1>4, <1>5, <1>6, <1>7, <1>8

LEMMA NextAlone ==
  ASSUME Base, Guarded, Alone, Next
  PROVE  Alone'
<1>1. Remembering
  BY NextRemembers
<1>2. ASSUME NEW r \in Requests,
             \/ BecomeDue(r) \/ Expire(r) \/ Outlive(r) \/ PruneExport(r)
             \/ Receive(r) \/ ReceiveFails(r) \/ Redeliver(r)
      PROVE  Alone'
  <2>1. UNCHANGED <<shop, proof, worker>>
    BY <1>2 DEF BecomeDue, Expire, Outlive, PruneExport, Receive, ReceiveFails, Redeliver,
                history, world
  <2>2. \A q \in Requests : row[q].status # "absent" =>
          row'[q].status = row[q].status /\ row'[q].owner = row[q].owner
    BY <1>2, InstantFacts, RecordFacts DEF Receive, ReceiveFails, Redeliver
  <2> QED
    BY <1>1, <2>1, <2>2, AloneAside
<1>3. ASSUME NEW w \in Workers, LoseLock(w) PROVE Alone'
  BY <1>1, <1>3, AloneAside DEF LoseLock
<1>4. ASSUME NEW w \in Workers,
             \/ Quietly(w) \/ TakeLock(w) \/ Mark(w) \/ Erase(w)
      PROVE  Alone'
  BY <1>1, <1>4, MovesAlone, ClaimAlone, ConcludeAlone, RemoveRowsAlone, WriteProofOnlyAlone,
     MarkAlone, EraseAlone DEF Quietly
<1>5. CASE Install
  <2>1. ~shop'.erasing /\ UNCHANGED <<topic, row, proof, worker>> /\ (Undisturbed' => Undisturbed)
    BY <1>1, <1>5, StillUndisturbed DEF Install, NewShop
  <2>2. Undisturbed' => \A w \in Workers : Single(w)'
    BY <2>1, AloneParts DEF Alone, Single, Guardia
  <2> QED
    BY <2>1, <2>2, AloneNext
<1> QED
  BY <1>2, <1>3, <1>4, <1>5 DEF Next, Ordinary, Progress, Quietly

-----------------------------------------------------------------------------
(* The theorems *)

LEMMA InitWhole == Init => Whole
<1> SUFFICES ASSUME Init PROVE Whole
  OBVIOUS
<1>1. Base /\ Guarded
  BY InitBase, InitGuarded
<1>2. AcceptedIsKept
  BY DEF Init, AcceptedIsKept
<1>3. Alone
  BY IdleIsMemory, ShopTypes DEF Init, Alone, HoldersAreAlone, ClosedByAnOpenDelivery
<1> QED
  BY <1>1, <1>2, <1>3 DEF Whole

LEMMA StutterWhole ==
  ASSUME Whole, UNCHANGED vars
  PROVE  Whole'
<1>1. Base' /\ Guarded'
  BY StutterBase, StutterGuarded DEF Whole
<1>2. AcceptedIsKept'
  BY DEF Whole, AcceptedIsKept, SameMatter, vars
<1>3. Remembering /\ UNCHANGED <<shop, proof, worker, row>>
  BY DEF vars, Remembering, Grown
<1>4. Alone'
  BY <1>3, AloneAside DEF Whole
<1> QED
  BY <1>1, <1>2, <1>4 DEF Whole

LEMMA NextWhole ==
  ASSUME Whole, Next
  PROVE  Whole'
<1>1. Base' /\ AcceptedIsKept' /\ Guarded' /\ Alone'
  BY NextBase, NextKeeps, NextGuarded, NextAlone DEF Whole
<1> QED
  BY <1>1 DEF Whole

LEMMA WholeHolds == Spec => []Whole
<1>1. Init => Whole
  BY InitWhole
<1>2. Whole /\ [Next]_vars => Whole'
  BY NextWhole, StutterWhole
<1> QED
  BY <1>1, <1>2, PTL DEF Spec

\* The inductive invariant holds in every behaviour: types, what each invocation
\* knows of its attempt, who holds the lock, and who still owes an erasure.
THEOREM ComplianceInvariant == Spec => []IInv
<1>1. Whole => IInv
  BY WholeIsIInv
<1> QED
  BY <1>1, WholeHolds, PTL

\* A request of a customer is declared completed only when it was carried out, even
\* by an invocation that was superseded (processComplianceRequest).
THEOREM CompletedMeansServed == Spec => []CompletedIsServed
<1>1. Whole => CompletedIsServed
  BY DEF Whole, Base, TableIsSound
<1> QED
  BY <1>1, WholeHolds, PTL

\* What was answered 200 is in the table until it is dealt with, whatever is
\* delivered twice, lost, or removed with the shop (enqueueComplianceRequest).
THEOREM AcceptedRequestsAreKept == Spec => []AcceptedIsKept
<1>1. Whole => AcceptedIsKept
  BY DEF Whole
<1> QED
  BY <1>1, WholeHolds, PTL

\* A dead letter had all its attempts, although the number of the attempt is
\* remembered by an invocation that may have lost its lease (giveUpOrRetry).
THEOREM DeadLettersHadAllAttempts == Spec => []DeadLetterHadAllAttempts
<1>1. Whole => DeadLetterHadAllAttempts
  BY DEF Whole, Base, TableIsSound
<1> QED
  BY <1>1, WholeHolds, PTL

\* However often a shop/redact is delivered, claimed or overtaken, it erases one
\* installation at most, since the proof is written with the erasure
\* (cancellaInTransazione).
THEOREM OneErasureEach == Spec => []OneErasurePerDelivery
<1>1. Whole => OneErasurePerDelivery
  BY DEF Whole, Guarded
<1> QED
  BY <1>1, WholeHolds, PTL

\* What was erased has its proof, no installation is erased twice, and a proof
\* is of an erasure unless somebody lost the lock (eraseShopRecord).
THEOREM ErasuresAreProved == Spec => []ErasureIsProved
<1>1. Whole => ErasureIsProved
  BY DEF Whole, Guarded
<1> QED
  BY <1>1, WholeHolds, PTL

\* A shop that is closed for its erasure has a delivery that some claim will take,
\* or one that wrote no proof in all its attempts and is in dead letter, as long as
\* no request is swept away and no lease is outlived (beginShopErasure).
THEOREM ClosedShopsArePursuedOrGivenUp == Spec => []ClosedShopIsPursuedOrGivenUp
<1>1. ASSUME Whole, shop.erasing, swept \cup overtaken = {}
      PROVE  Pursued \/ GivenUp
  <2>1. Undisturbed
    BY <1>1 DEF Undisturbed
  <2>2. ClosedByAnOpenDelivery
    BY <1>1, AloneParts DEF Whole, Alone
  <2>3. PICK r \in Requests : topic[r] = "shop" /\ row[r].status \in Open /\ proof[r] = "none"
    BY <1>1, <2>1, <2>2 DEF ClosedByAnOpenDelivery
  <2>4. CASE row[r].status = "dead_letter"
    <3>1. row[r].attempts >= MaxAttempts
      BY <1>1, <2>3, <2>4 DEF Whole, Base, TableIsSound, DeadLetterHadAllAttempts
    <3> QED
      BY <2>3, <2>4, <3>1 DEF GivenUp, Exhausted
  <2>5. CASE row[r].status # "dead_letter"
    BY <2>3, <2>5 DEF Open, Pursued
  <2> QED
    BY <2>4, <2>5
<1>2. Whole => ClosedShopIsPursuedOrGivenUp
  BY <1>1 DEF ClosedShopIsPursuedOrGivenUp
<1> QED
  BY <1>2, WholeHolds, PTL

-----------------------------------------------------------------------------
(* What an attempt costs *)

Pays == AttemptsArePaid /\ \A r \in Requests : Spare(r)

\* The row of r stays paid for: it has an attempt to spare, or nobody may take it,
\* or its claim is as it was and whoever was at it still is.
PaidRow(r) ==
  \/ row'[r].attempts < MaxAttempts + faults'
  \/ row'[r].attempts <= MaxAttempts + faults' /\ ~Takeable(r)'
  \/ /\ row'[r].status = row[r].status /\ row'[r].expired = row[r].expired
     /\ row'[r].attempts = row[r].attempts
     /\ Attended(r) /\ row[r].status = "processing" => Attended(r)'

\* What the steps need of the types.
LEMMA PaidTypes ==
  ASSUME Whole, Pays
  PROVE  /\ Base /\ HoldersKnowTheAttempt /\ faults \in Nat /\ MaxAttempts \in Nat \ {0}
         /\ row \in [Requests -> RowType] /\ worker \in [Workers -> WorkerType]
         /\ \A r \in Requests : /\ row[r] \in RowType /\ row[r].attempts \in Nat
                                /\ row[r].attempts <= MaxAttempts + faults /\ Spare(r)
  BY ConstantsAssumption
     DEF Pays, AttemptsArePaid, Whole, Base, StoreIsTyped, TableIsSound, WorkersAreSound, RowType

LEMMA PaidStep ==
  ASSUME Whole, Pays, Whole', faults' \in Nat, faults <= faults',
         \A r \in Requests : PaidRow(r)
  PROVE  Pays'
<1>1. ASSUME NEW r \in Requests
      PROVE  row'[r].attempts <= MaxAttempts + faults' /\ Spare(r)'
  <2>1. /\ PaidRow(r) /\ Spare(r) /\ row[r].attempts <= MaxAttempts + faults
        /\ row[r].attempts \in Nat /\ faults \in Nat /\ MaxAttempts \in Nat
    BY PaidTypes
  <2>2. row'[r].attempts \in Nat
    BY DEF Whole, Base, TableIsSound, RowType
  <2>3. CASE row'[r].attempts < MaxAttempts + faults'
    BY <2>1, <2>2, <2>3 DEF Spare
  <2>4. CASE row'[r].attempts <= MaxAttempts + faults' /\ ~Takeable(r)'
    BY <2>4 DEF Spare
  <2>5. CASE /\ row'[r].status = row[r].status /\ row'[r].expired = row[r].expired
             /\ row'[r].attempts = row[r].attempts
             /\ Attended(r) /\ row[r].status = "processing" => Attended(r)'
    <3>1. Takeable(r)' => Takeable(r)
      BY <2>5 DEF Takeable
    <3> QED
      BY <2>1, <2>5, <3>1 DEF Spare
  <2> QED
    BY <2>1, <2>3, <2>4, <2>5 DEF PaidRow
<1> QED
  BY <1>1 DEF Pays, AttemptsArePaid

\* A misfortune pays for whatever does not count an attempt.
LEMMA PaidByMisfortune ==
  ASSUME Whole, Pays, Whole', Misfortune,
         \A r \in Requests : row'[r].attempts <= row[r].attempts
  PROVE  Pays'
<1>1. faults' = faults + 1
  BY DEF Misfortune
<1>2. ASSUME NEW r \in Requests PROVE PaidRow(r)
  <2>1. row'[r].attempts \in Nat
    BY DEF Whole, Base, TableIsSound, RowType
  <2> QED
    BY <1>1, <2>1, PaidTypes DEF PaidRow
<1> QED
  BY <1>1, <1>2, PaidStep, PaidTypes

\* The table stays, and so does what everybody is at.
LEMMA PaidAside ==
  ASSUME Whole, Pays, Whole', faults' \in {faults, faults + 1}, row' = row,
         \A w \in Workers : worker'[w].request = worker[w].request
  PROVE  Pays'
<1>1. ASSUME NEW r \in Requests PROVE PaidRow(r)
  BY DEF PaidRow, Attended
<1>2. faults' \in Nat /\ faults <= faults'
  BY PaidTypes
<1> QED
  BY <1>1, <1>2, PaidStep

\* A single row changes, and has an attempt to spare.
LEMMA PaidRowStep ==
  ASSUME Whole, Pays, Whole', NEW r \in Requests, NEW x, row' = [row EXCEPT ![r] = x],
         worker' = worker, faults' \in {faults, faults + 1},
         x.attempts < MaxAttempts + faults, x.attempts \in Nat
  PROVE  Pays'
<1>1. row'[r] = x /\ \A q \in Requests : q # r => row'[q] = row[q]
  BY PaidTypes
<1>2. faults' \in Nat /\ faults <= faults'
  BY PaidTypes
<1>3. ASSUME NEW q \in Requests PROVE PaidRow(q)
  <2>1. CASE q = r
    BY <1>1, <1>2, <2>1, PaidTypes DEF PaidRow
  <2>2. CASE q # r
    BY <1>1, <2>2 DEF PaidRow, Attended
  <2> QED
    BY <2>1, <2>2
<1> QED
  BY <1>2, <1>3, PaidStep

\* A delivery is recorded in a new row, or not at all.
LEMMA RecordPaid ==
  ASSUME Whole, Pays, Whole', NEW r \in Requests, Receive(r) \/ ReceiveFails(r) \/ Redeliver(r)
  PROVE  Pays'
<1>1. worker' = worker /\ faults' \in {faults, faults + 1}
  BY DEF Receive, ReceiveFails, Redeliver, Misfortune
<1>2. PICK x : x = [NoRow EXCEPT !.status = "queued", !.due = TRUE]
  OBVIOUS
<1>3. x.attempts = 0
  BY <1>2 DEF NoRow
<1>4. row' = row \/ row' = [row EXCEPT ![r] = x]
  BY <1>2 DEF Receive, ReceiveFails, Redeliver, Record
<1>5. CASE row' = row
  BY <1>1, <1>5, PaidAside
<1>6. CASE row' = [row EXCEPT ![r] = x]
  <2>1. x.attempts \in Nat /\ x.attempts < MaxAttempts + faults
    BY <1>3, PaidTypes
  <2> QED
    BY <1>1, <1>6, <2>1, PaidRowStep
<1> QED
  BY <1>4, <1>5, <1>6

LEMMA InstantPaid ==
  ASSUME Whole, Pays, Whole', NEW r \in Requests,
         BecomeDue(r) \/ Expire(r) \/ Outlive(r) \/ PruneExport(r)
  PROVE  Pays'
<1>1. row[r] \in RowType
  BY PaidTypes
<1>2. CASE BecomeDue(r)
  <2>1. PICK x : x = [row[r] EXCEPT !.due = TRUE]
    OBVIOUS
  <2>2. x.attempts = row[r].attempts
    BY <1>1, <2>1 DEF RowType
  <2>3. row[r].attempts < MaxAttempts + faults
    BY <1>2, PaidTypes DEF BecomeDue, Spare, Takeable
  <2>4. row' = [row EXCEPT ![r] = x] /\ worker' = worker /\ faults' = faults
    BY <1>2, <2>1 DEF BecomeDue
  <2> QED
    BY <2>2, <2>3, <2>4, PaidRowStep, PaidTypes
<1>3. CASE Expire(r)
  <2>1. PICK x : x = [row[r] EXCEPT !.expired = TRUE]
    OBVIOUS
  <2>2. x.attempts = row[r].attempts
    BY <1>1, <2>1 DEF RowType
  <2>3. row[r].attempts < MaxAttempts + faults
    BY <1>3, PaidTypes DEF Expire, Spare, Takeable
  <2>4. row' = [row EXCEPT ![r] = x] /\ worker' = worker /\ faults' = faults
    BY <1>3, <2>1 DEF Expire
  <2> QED
    BY <2>2, <2>3, <2>4, PaidRowStep, PaidTypes
<1>4. CASE Outlive(r)
  <2>1. PICK x : x = [row[r] EXCEPT !.expired = TRUE]
    OBVIOUS
  <2>2. x.attempts = row[r].attempts
    BY <1>1, <2>1 DEF RowType
  <2>3. row' = [row EXCEPT ![r] = x] /\ Misfortune
    BY <1>4, <2>1 DEF Outlive
  <2>4. \A q \in Requests : row'[q].attempts <= row[q].attempts
    BY <2>2, <2>3, PaidTypes
  <2> QED
    BY <2>3, <2>4, PaidByMisfortune
<1>5. CASE PruneExport(r)
  <2>1. PICK x : x = [row[r] EXCEPT !.export = FALSE]
    OBVIOUS
  <2>2. /\ x.attempts = row[r].attempts /\ x.status = row[r].status
        /\ x.expired = row[r].expired /\ x.owner = row[r].owner
    BY <1>1, <2>1 DEF RowType
  <2>3. row' = [row EXCEPT ![r] = x] /\ worker' = worker /\ faults' = faults
    BY <1>5, <2>1 DEF PruneExport
  <2>4. ASSUME NEW q \in Requests PROVE PaidRow(q)
    <3>1. /\ row'[q].status = row[q].status /\ row'[q].expired = row[q].expired
          /\ row'[q].attempts = row[q].attempts /\ row'[q].owner = row[q].owner
      BY <2>2, <2>3, PaidTypes
    <3> QED
      BY <2>3, <3>1 DEF PaidRow, Attended
  <2> QED
    BY <2>3, <2>4, PaidStep, PaidTypes
<1> QED
  BY <1>2, <1>3, <1>4, <1>5

\* A row is claimed by a free slot: its attempt was to spare.
LEMMA ClaimPaid ==
  ASSUME Whole, Pays, Whole', NEW w \in Workers, NEW r \in Requests, Claim(w, r)
  PROVE  Pays'
<1>1. PICK x \in RowType : x = row[r]
  BY PaidTypes
<1>2. PICK y : y = [x EXCEPT !.status = "processing", !.owner = w,
                             !.expired = FALSE, !.attempts = x.attempts + 1]
  OBVIOUS
<1>3. row' = [row EXCEPT ![r] = y] /\ faults' = faults /\ worker[w].pc = "idle"
  BY <1>1, <1>2 DEF Claim
<1>4. /\ y.status = "processing" /\ y.owner = w /\ ~y.expired
      /\ y.attempts = x.attempts + 1
  BY <1>2, ClaimedRow
<1>5. row'[r] = y /\ \A q \in Requests : q # r => row'[q] = row[q]
  BY <1>3, PaidTypes
<1>6. worker'[w].request = r /\ \A v \in Workers \ {w} : worker'[v] = worker[v]
  BY PaidTypes, ClaimerFacts
<1>7. worker[w].request = NoRequest
  BY <1>3, PaidTypes DEF Base, WorkersAreSound, MemoryIsSound
<1>8. x.attempts \in Nat /\ x.attempts < MaxAttempts + faults
  BY <1>1, PaidTypes DEF Claim, Claimable, Spare, Takeable
<1>9. ASSUME NEW q \in Requests PROVE PaidRow(q)
  <2>1. CASE q = r
    <3>1. Attended(r)'
      BY <1>4, <1>5, <1>6 DEF Attended
    <3>2. ~Takeable(r)'
      BY <1>4, <1>5, <3>1 DEF Takeable
    <3>3. x.attempts + 1 <= MaxAttempts + faults
      BY <1>8, PaidTypes
    <3> QED
      BY <1>3, <1>4, <1>5, <2>1, <3>2, <3>3 DEF PaidRow
  <2>2. CASE q # r
    <3>1. Attended(q) => row[q].owner # w
      BY <1>7, ConstantsAssumption DEF Attended
    <3> QED
      BY <1>5, <1>6, <2>2, <3>1 DEF PaidRow, Attended
  <2> QED
    BY <2>1, <2>2
<1> QED
  BY <1>3, <1>9, PaidStep, PaidTypes

\* An invocation goes on with its request.
LEMMA MovePaid ==
  ASSUME Whole, Pays, Whole', NEW w \in Workers,
         \/ ReadProof(w) \/ FindShop(w) \/ WriteProofOnly(w) \/ TakeLock(w) \/ Mark(w)
         \/ Erase(w) \/ Work(w) \/ Collect(w) \/ Save(w)
  PROVE  Pays'
<1>1. row' = row /\ faults' = faults
  BY DEF ReadProof, FindShop, WriteProofOnly, TakeLock, Mark, Erase, Work, Collect, Save
<1>2. \A v \in Workers : worker'[v].request = worker[v].request
  <2>1. CASE FindShop(w)
    BY <2>1, PaidTypes, FinderFacts
  <2>2. CASE ~FindShop(w)
    <3>1. PICK pc \in PCs : Goto(w, pc)
      BY <2>2 DEF ReadProof, WriteProofOnly, TakeLock, Mark, Erase, Work, Collect, Save,
         PCs, Locked
    <3> QED
      BY <3>1, PaidTypes, GotoFacts
  <2> QED
    BY <2>1, <2>2
<1> QED
  BY <1>1, <1>2, PaidAside

\* The attempt that the holder knows is the one of the row: what fails has some left.
LEMMA ConcludePaid ==
  ASSUME Whole, Pays, Whole', NEW w \in Workers, Close(w) \/ GiveUpOrRetry(w)
  PROVE  Pays'
<1>1. PICK r : r = worker[w].request
  OBVIOUS
<1>2. r \in Requests /\ worker[w].pc # "idle"
  BY <1>1, PaidTypes, ConcludedFacts DEF Close, GiveUpOrRetry
<1>3. /\ worker'[w].pc = "idle" /\ \A v \in Workers \ {w} : worker'[v] = worker[v]
      /\ faults' = faults
  BY PaidTypes, EndFacts DEF Close, GiveUpOrRetry
<1>4. \A q \in Requests : q # r /\ Attended(q) => row[q].owner # w
  BY <1>1 DEF Attended
<1>5. ASSUME NEW q \in Requests, q # r, row'[q] = row[q] PROVE PaidRow(q)
  BY <1>3, <1>4, <1>5 DEF PaidRow, Attended
<1>6. CASE ~Guardia(w)
  <2>1. row' = row
    BY <1>6 DEF Close, GiveUpOrRetry
  <2>2. Attended(r) /\ row[r].status = "processing" => row[r].owner # w
    BY <1>1, <1>6 DEF Guardia
  <2>3. PaidRow(r)
    BY <1>3, <2>1, <2>2 DEF PaidRow, Attended
  <2> QED
    BY <1>3, <1>5, <2>1, <2>3, PaidStep, PaidTypes
<1>7. CASE Guardia(w)
  <2>1. PICK x \in RowType : x = row[r]
    BY <1>2, PaidTypes
  <2>2. x.attempts \in Nat /\ x.attempts <= MaxAttempts + faults
    BY <1>2, <2>1, PaidTypes
  <2>3. worker[w].attempt = x.attempts
    BY <1>1, <1>2, <1>7, <2>1, PaidTypes DEF HoldersKnowTheAttempt
  <2>4. PICK y : /\ row' = [row EXCEPT ![r] = y] /\ y.attempts = x.attempts
                 /\ \/ y.status \in {"completed", "dead_letter"}
                    \/ y.status = "failed" /\ x.attempts < MaxAttempts
    <3>1. CASE Close(w)
      <4>1. PICK y : y = [x EXCEPT !.status = "completed", !.owner = Nobody,
                                   !.expired = FALSE, !.export = topic[r] = "access"]
        OBVIOUS
      <4>2. row' = [row EXCEPT ![r] = y]
        BY <1>1, <1>7, <2>1, <3>1, <4>1 DEF Close
      <4>3. y.attempts = x.attempts /\ y.status = "completed"
        BY <4>1 DEF RowType
      <4> QED
        BY <4>2, <4>3
    <3>2. CASE GiveUpOrRetry(w)
      <4>1. PICK status : status = StatusAfterFailure(worker[w].attempt)
        OBVIOUS
      <4>2. status = "dead_letter" \/ (status = "failed" /\ x.attempts < MaxAttempts)
        BY <2>2, <2>3, <4>1, PaidTypes DEF StatusAfterFailure, Exhausted
      <4>3. PICK y : y = [x EXCEPT !.status = status, !.due = FALSE,
                                   !.owner = Nobody, !.expired = FALSE]
        OBVIOUS
      <4>4. row' = [row EXCEPT ![r] = y]
        BY <1>1, <1>7, <2>1, <3>2, <4>1, <4>3 DEF GiveUpOrRetry
      <4>5. y.attempts = x.attempts /\ y.status = status
        BY <4>3 DEF RowType
      <4> QED
        BY <4>2, <4>4, <4>5
    <3> QED
      BY <3>1, <3>2
  <2>5. row'[r] = y /\ \A q \in Requests : q # r => row'[q] = row[q]
    BY <1>2, <2>4, PaidTypes
  <2>6. PaidRow(r)
    <3>1. CASE y.status \in {"completed", "dead_letter"}
      <4>1. ~Takeable(r)'
        BY <2>5, <3>1 DEF Takeable
      <4> QED
        BY <1>3, <2>2, <2>4, <2>5, <4>1 DEF PaidRow
    <3>2. CASE x.attempts < MaxAttempts
      <4>1. x.attempts < MaxAttempts + faults
        BY <2>2, <3>2, PaidTypes
      <4> QED
        BY <1>3, <2>4, <2>5, <4>1 DEF PaidRow
    <3> QED
      BY <2>4, <3>1, <3>2
  <2> QED
    BY <1>3, <1>5, <2>5, <2>6, PaidStep, PaidTypes
<1> QED
  BY <1>6, <1>7

\* After an erasure there are no rows, and no attempts.
LEMMA RemoveRowsPaid ==
  ASSUME Whole, Pays, Whole', NEW w \in Workers, RemoveRows(w)
  PROVE  Pays'
<1>1. faults' = faults /\ \A r \in Requests : row'[r] = NoRow
  BY DEF RemoveRows
<1>2. ASSUME NEW r \in Requests PROVE PaidRow(r)
  BY <1>1, PaidTypes DEF PaidRow, NoRow
<1> QED
  BY <1>1, <1>2, PaidStep, PaidTypes

LEMMA FailurePaid ==
  ASSUME Whole, Pays, Whole', NEW w \in Workers, StepFails(w) \/ Crash(w) \/ LoseLock(w)
  PROVE  Pays'
<1>1. Misfortune /\ row' = row
  BY DEF StepFails, Crash, LoseLock
<1> QED
  BY <1>1, PaidByMisfortune, PaidTypes

LEMMA NextPays == ASSUME Whole, Pays, [Next]_vars PROVE Pays'
<1>1. Whole'
  BY NextWhole, StutterWhole
<1>2. CASE Ordinary
  BY <1>1, <1>2, InstantPaid, ClaimPaid, MovePaid, ConcludePaid, RemoveRowsPaid
     DEF Ordinary, Progress
<1>3. CASE Install \/ UNCHANGED vars
  <2>1. row' = row /\ worker' = worker /\ faults' = faults
    BY <1>3 DEF Install, vars
  <2> QED
    BY <1>1, <2>1, PaidAside
<1>4. CASE \E r \in Requests :
             Receive(r) \/ ReceiveFails(r) \/ Redeliver(r) \/ Outlive(r) \/ PruneExport(r)
  BY <1>1, <1>4, RecordPaid, InstantPaid
<1>5. CASE \E w \in Workers : LoseLock(w) \/ StepFails(w) \/ Crash(w)
  BY <1>1, <1>5, FailurePaid
<1> QED
  BY <1>2, <1>3, <1>4, <1>5 DEF Next

LEMMA InitPays == Init => Pays
<1> SUFFICES ASSUME Init PROVE Pays
  OBVIOUS
<1>1. faults = 0 /\ \A r \in Requests : row[r].attempts = 0
  BY DEF Init, NoRow
<1> QED
  BY <1>1, ConstantsAssumption DEF Pays, AttemptsArePaid, Spare

\* The inductive invariant, and that every row which may be taken has an attempt to
\* spare (claimComplianceRequest, giveUpOrRetry).
THEOREM CompliancePaysInvariant == Spec => []PInv
<1>1. Init => Whole /\ Pays
  BY InitWhole, InitPays
<1>2. Whole /\ Pays /\ [Next]_vars => (Whole /\ Pays)'
  BY NextWhole, StutterWhole, NextPays
<1>3. Whole /\ Pays => PInv
  BY WholeIsIInv DEF Pays, PInv
<1> QED
  BY <1>1, <1>2, <1>3, PTL DEF Spec

\* No request has more attempts than MaxAttempts but for those that a misfortune paid,
\* though the claim does not look at the count (claimComplianceRequest).
THEOREM AttemptsPaid == Spec => []AttemptsArePaid
<1>1. PInv => AttemptsArePaid
  BY DEF PInv
<1> QED
  BY <1>1, CompliancePaysInvariant, PTL
=============================================================================
