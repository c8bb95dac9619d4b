------------------------------ MODULE SyncQueue ------------------------------
(***************************************************************************)
(* The durable job queue on Postgres (queue-store.server.ts) and the only  *)
(* consumer that works it (drain.server.ts): several drains, one per       *)
(* invocation of the cron route, of the fast lane or of the local worker,  *)
(* claim rows, run their handlers and close them, while leases expire,     *)
(* invocations die, shutdown signals arrive and statements fail.           *)
(*                                                                         *)
(* Abstractions.  There is no clock: `due' and `expired' stand for         *)
(* next_attempt_at <= now and lease_expires_at <= now, and the environment *)
(* turns them.  Rows are claimed in any order (the code takes the oldest   *)
(* next_attempt_at first).  A drain is known by its slot: the UUID it      *)
(* draws at its start is never remembered by anybody after its end.  The   *)
(* fencing token of a row is a counter that never repeats and is only ever *)
(* compared for equality: here it is a value that nobody remembers.        *)
(***************************************************************************)
EXTENDS Integers

CONSTANTS
  Requests,     \* the ids of the rows that may ever be inserted
  Drains,       \* the slots in which drains run
  Shops,        \* the shops
  Tokens,       \* the fencing tokens told apart at any one time
  NoRequest, NoDrain, NoShop, NoToken, EveryShop,
  KeyOf,        \* the dedup key of each request
  ShopOf,       \* the shop of each request, or NoShop
  KindOf,       \* "locked", "lockless" or "unknown": how lavora treats its type
  LaneOf,       \* the shop a drain is restricted to, or EveryShop
  MaxAttempts,  \* MAX_ATTEMPTS
  ClaimBatch,   \* how many rows one drain works at most
  MaxFaults     \* bound: misfortunes (see Misfortune) in one behaviour

Kinds == {"locked", "lockless", "unknown"}

ASSUME ConstantsAssumption ==
  /\ NoRequest \notin Requests
  /\ NoDrain \notin Drains
  /\ NoShop \notin Shops
  /\ ShopOf \in [Requests -> Shops \cup {NoShop}]
  /\ KindOf \in [Requests -> Kinds]
  /\ LaneOf \in [Drains -> Shops \cup {EveryShop}]
  /\ MaxAttempts \in Nat \ {0}
  /\ ClaimBatch \in Nat \ {0}
  /\ MaxFaults \in Nat

\* There are more tokens than drains that may remember one.
ASSUME TokensAssumption ==
  \A f \in [Drains -> Tokens \cup {NoToken}] : \E t \in Tokens : \A d \in Drains : f[d] # t

VARIABLES
  row,      \* the table sync_requests
  drain,    \* the memory of each drain
  shops,    \* the shops that still have a row in the table shops
  ran,      \* history: the handler run under the latest claim of a request returned
  faults    \* how many misfortunes happened

vars == <<row, drain, shops, ran, faults>>

Statuses == {"absent", "queued", "processing", "completed", "dead_letter", "gone"}
InTable == {"queued", "processing", "completed", "dead_letter"}

RowType ==
  [status : Statuses, attempts : Nat, due : BOOLEAN,
   owner : Drains \cup {NoDrain}, expired : BOOLEAN, token : Tokens \cup {NoToken}]

\* "off": no invocation runs in the slot.  "settling": a statement issued inside
\* the try of lavora, whose failure is handled.  "lastWord": one whose failure
\* ends the drain.
PCs == {"off", "loop", "claimed", "locking", "running", "settling", "lastWord"}

\* The statement a drain is about to send for the row it holds.
Plans == {"none", "complete", "releaseNow", "releaseLater", "reschedule", "deadLetter"}

DrainType ==
  [pc : PCs, job : Requests \cup {NoRequest}, token : Tokens \cup {NoToken},
   seen : Nat, plan : Plans,
   lost : BOOLEAN, timedOut : BOOLEAN, stop : BOOLEAN, taken : 0 .. ClaimBatch]

TypeOK ==
  /\ row \in [Requests -> RowType]
  /\ drain \in [Drains -> DrainType]
  /\ shops \subseteq Shops
  /\ ran \in [Requests -> BOOLEAN]
  /\ faults \in 0 .. MaxFaults

NewRow == [status |-> "absent", attempts |-> 0, due |-> FALSE,
           owner |-> NoDrain, expired |-> FALSE, token |-> NoToken]

Off == [pc |-> "off", job |-> NoRequest, token |-> NoToken, seen |-> 0, plan |-> "none",
        lost |-> FALSE, timedOut |-> FALSE, stop |-> FALSE, taken |-> 0]

Init ==
  /\ row = [r \in Requests |-> NewRow]
  /\ drain = [d \in Drains |-> Off]
  /\ shops = Shops
  /\ ran = [r \in Requests |-> FALSE]
  /\ faults = 0

-----------------------------------------------------------------------------
(* Vocabulary *)

\* Every event the code can do nothing about draws on one budget.
Misfortune ==
  /\ faults < MaxFaults
  /\ faults' = faults + 1

\* Fault: the attempt that has just failed is not counted.
ExhaustedLate(n) == n > MaxAttempts

Exhausted(n) == n >= MaxAttempts

\* The rows a drain may claim now.
Claimable(d, r) ==
  /\ \/ row[r].status = "queued" /\ row[r].due
     \/ row[r].status = "processing" /\ row[r].expired
  /\ LaneOf[d] \in {EveryShop, ShopOf[r]}

\* Fault: the WHERE names the row and its status, but not who closes it.
GuardiaOnStatus(d, r) == row[r].status = "processing"

\* The WHERE of every statement that closes a row: id, owner and token.
Guardia(d, r) == row[r].owner = d /\ row[r].token = drain[d].token

\* Some running drain still believes it holds the row under its current token.
HeldInMemory(r) ==
  \E d \in Drains : drain[d].job = r /\ row[r].owner = d /\ row[r].token = drain[d].token

\* The next value of the counter of r: no drain remembers it.
Fresh(r) ==
  CHOOSE t \in Tokens : \A d \in Drains : drain[d].job = r => drain[d].token # t

\* A row as the claim leaves it.
Taken(d, r) ==
  [status |-> "processing", attempts |-> row[r].attempts + 1, due |-> row[r].due,
   owner |-> d, expired |-> FALSE, token |-> Fresh(r)]

Releases == {"releaseNow", "releaseLater"}

StatusAfter(plan) ==
  CASE plan = "complete"   -> "completed"
    [] plan = "deadLetter" -> "dead_letter"
    [] OTHER               -> "queued"

\* Fault: the owner stays on a closed row.
ClosedWithOwner(r, plan) ==
  [status |-> StatusAfter(plan), attempts |-> row[r].attempts, due |-> FALSE,
   owner |-> row[r].owner, expired |-> FALSE, token |-> row[r].token]

\* A row as complete, deadLetter, reschedule and release leave it: none of them
\* leaves a lease behind, and only a release gives the attempt back.
Closed(r, plan) ==
  [status |-> StatusAfter(plan),
   attempts |-> IF plan \in Releases THEN row[r].attempts - 1 ELSE row[r].attempts,
   due |-> plan = "releaseNow", owner |-> NoDrain, expired |-> FALSE,
   token |-> row[r].token]

\* The closing statement of d, as the database executes it: zero rows when the
\* guard does not match.
Statement(d) ==
  LET r == drain[d].job
  IN  row' = IF Guardia(d, r) THEN [row EXCEPT ![r] = Closed(r, drain[d].plan)] ELSE row

\* Fault: the attempt to come is counted too.
PlanAfterFailureEarly(d) ==
  IF Exhausted(drain[d].seen + 1) THEN "deadLetter" ELSE "reschedule"

\* dopoIlFallimento decides on the attempts read at the claim.
PlanAfterFailure(d) == IF Exhausted(drain[d].seen) THEN "deadLetter" ELSE "reschedule"

\* Fault: a run that was cut off by its time gives its attempt back too.
PlanAfterReturnUncounted(d) ==
  IF drain[d].lost THEN "none"
  ELSE IF drain[d].stop \/ drain[d].timedOut THEN "releaseNow"
  ELSE "complete"

\* What lavora does when the handler returned, in the order of its tests.
PlanAfterReturn(d) ==
  IF drain[d].lost THEN "none"
  ELSE IF drain[d].stop THEN "releaseNow"
  ELSE IF drain[d].timedOut THEN PlanAfterFailure(d)
  ELSE "complete"

\* Rows lavora refuses before running anything.
Refused(r) == KindOf[r] = "unknown" \/ (KindOf[r] = "locked" /\ ShopOf[r] = NoShop)

\* The drain goes to the next turn of its loop, or plans a statement.
NextTurn(d) ==
  drain' = [drain EXCEPT ![d] = [Off EXCEPT !.pc = "loop", !.stop = drain[d].stop,
                                            !.taken = drain[d].taken]]

PlanNext(d, pc, plan) ==
  drain' = [drain EXCEPT ![d] = [@ EXCEPT !.pc = pc, !.plan = plan]]

-----------------------------------------------------------------------------
(* The producers and the maintenance of the table *)

\* Fault: the INSERT is an upsert, and brings a finished row back.
EnqueueRevives(r) ==
  /\ row[r].status \in {"absent", "completed"}
  /\ KindOf[r] # "unknown"
  /\ ShopOf[r] \in shops \cup {NoShop}
  /\ row' = [row EXCEPT ![r].status = "queued", ![r].due = TRUE]
  /\ UNCHANGED <<drain, shops, ran, faults>>

\* enqueueSyncRequest: the unique index on the dedup key lets one row in, a
\* foreign key requires the shop, and an unknown type is refused.
Enqueue(r) ==
  /\ row[r].status = "absent"
  /\ KindOf[r] # "unknown"
  /\ ShopOf[r] \in shops \cup {NoShop}
  /\ \A q \in Requests : row[q].status \in InTable => KeyOf[q] # KeyOf[r]
  /\ row' = [row EXCEPT ![r].status = "queued", ![r].due = TRUE]
  /\ UNCHANGED <<drain, shops, ran, faults>>

\* A row of a type this version does not know, written by another version.
ForeignRow(r) ==
  /\ row[r].status = "absent"
  /\ KindOf[r] = "unknown"
  /\ ShopOf[r] \in shops \cup {NoShop}
  /\ \A q \in Requests : row[q].status \in InTable => KeyOf[q] # KeyOf[r]
  /\ row' = [row EXCEPT ![r].status = "queued", ![r].due = TRUE]
  /\ UNCHANGED <<drain, shops, ran, faults>>

\* next_attempt_at passes.
BecomeDue(r) ==
  /\ row[r].status = "queued" /\ ~row[r].due
  /\ row' = [row EXCEPT ![r].due = TRUE]
  /\ UNCHANGED <<drain, shops, ran, faults>>

\* lease_expires_at passes and nobody renews: the holder is dead.
ExpireOrphan(r) ==
  /\ row[r].status = "processing" /\ ~row[r].expired
  /\ ~HeldInMemory(r)
  /\ row' = [row EXCEPT ![r].expired = TRUE]
  /\ UNCHANGED <<drain, shops, ran, faults>>

\* The same under a living holder: it was paused, or three heartbeats failed.
ExpireHeld(r) ==
  /\ row[r].status = "processing" /\ ~row[r].expired
  /\ HeldInMemory(r)
  /\ Misfortune
  /\ row' = [row EXCEPT ![r].expired = TRUE]
  /\ UNCHANGED <<drain, shops, ran>>

\* Fault: everything that is closed is put back.
ReplayClosed(S) ==
  /\ S # {} /\ \A r \in S : row[r].status \in {"dead_letter", "completed"}
  /\ Misfortune
  /\ row' = [r \in Requests |->
               IF r \in S THEN [row[r] EXCEPT !.status = "queued", !.attempts = 0]
               ELSE row[r]]
  /\ UNCHANGED <<drain, shops, ran>>

\* replayDeadLetters: somebody puts dead letters back, attempts at zero.
Replay(S) ==
  /\ S # {} /\ \A r \in S : row[r].status = "dead_letter"
  /\ Misfortune
  /\ row' = [r \in Requests |->
               IF r \in S
               THEN [status |-> "queued", attempts |-> 0, due |-> TRUE,
                     owner |-> NoDrain, expired |-> FALSE, token |-> row[r].token]
               ELSE row[r]]
  /\ UNCHANGED <<drain, shops, ran>>

\* pruneSyncRequests removes old completed rows, and nothing else.
Prune(S) ==
  /\ S # {} /\ \A r \in S : row[r].status = "completed"
  /\ row' = [r \in Requests |->
               IF r \in S THEN [row[r] EXCEPT !.status = "gone"] ELSE row[r]]
  /\ UNCHANGED <<drain, shops, ran, faults>>

\* The erasure of a shop deletes its row, and the rows of the queue cascade.
EraseShop(s) ==
  /\ s \in shops
  /\ shops' = shops \ {s}
  /\ row' = [r \in Requests |->
               IF ShopOf[r] = s /\ row[r].status \in InTable
               THEN [row[r] EXCEPT !.status = "gone", !.owner = NoDrain]
               ELSE row[r]]
  /\ UNCHANGED <<drain, ran, faults>>

-----------------------------------------------------------------------------
(* drainSyncRequests *)

Start(d) ==
  /\ drain[d].pc = "off"
  /\ drain' = [drain EXCEPT ![d] = [Off EXCEPT !.pc = "loop"]]
  /\ UNCHANGED <<row, shops, ran, faults>>

\* A SIGTERM, or the abort signal of the worker.
Shutdown(d) ==
  /\ drain[d].pc # "off" /\ ~drain[d].stop
  /\ Misfortune
  /\ drain' = [drain EXCEPT ![d].stop = TRUE]
  /\ UNCHANGED <<row, shops, ran>>

\* The invocation dies: the row it worked stays "processing".
Crash(d) ==
  /\ drain[d].pc # "off"
  /\ Misfortune
  /\ drain' = [drain EXCEPT ![d] = Off]
  /\ UNCHANGED <<row, shops, ran>>

\* The loop ends: shutdown, batch done, or nothing to claim.
EndDrain(d) ==
  /\ drain[d].pc = "loop"
  /\ \/ drain[d].stop
     \/ drain[d].taken = ClaimBatch
     \/ \A r \in Requests : ~Claimable(d, r)
  /\ drain' = [drain EXCEPT ![d] = Off]
  /\ UNCHANGED <<row, shops, ran, faults>>

Claim(d, r) ==
  /\ drain[d].pc = "loop" /\ ~drain[d].stop /\ drain[d].taken < ClaimBatch
  /\ Claimable(d, r)
  /\ row' = [row EXCEPT ![r] = Taken(d, r)]
  /\ drain' = [drain EXCEPT ![d] = [Off EXCEPT
                 !.pc = "claimed", !.job = r, !.token = Fresh(r),
                 !.seen = row[r].attempts + 1, !.taken = drain[d].taken + 1]]
  /\ ran' = [ran EXCEPT ![r] = FALSE]
  /\ UNCHANGED <<shops, faults>>

\* The claim fails, before or after its commit, and the drain ends.
ClaimFails(d) ==
  /\ drain[d].pc = "loop" /\ ~drain[d].stop /\ drain[d].taken < ClaimBatch
  /\ Misfortune
  /\ \/ UNCHANGED <<row, ran>>
     \/ \E r \in Requests :
          /\ Claimable(d, r)
          /\ row' = [row EXCEPT ![r] = Taken(d, r)]
          /\ ran' = [ran EXCEPT ![r] = FALSE]
  /\ drain' = [drain EXCEPT ![d] = Off]
  /\ UNCHANGED shops

\* A shutdown that came during the claim gives the row back untouched.
TurnBack(d) ==
  /\ drain[d].pc = "claimed" /\ drain[d].stop
  /\ PlanNext(d, "lastWord", "releaseNow")
  /\ UNCHANGED <<row, shops, ran, faults>>

\* lavora: unknown type, or a locked type without a shop.
Refuse(d) ==
  /\ drain[d].pc = "claimed" /\ ~drain[d].stop /\ Refused(drain[d].job)
  /\ PlanNext(d, "lastWord", "deadLetter")
  /\ UNCHANGED <<row, shops, ran, faults>>

\* lavora starts its heartbeat and its timer, then the handler, which for the
\* locked types waits for the lock of the shop.
Begin(d) ==
  /\ drain[d].pc = "claimed" /\ ~drain[d].stop /\ ~Refused(drain[d].job)
  /\ drain' = [drain EXCEPT ![d].pc = IF KindOf[drain[d].job] = "locked"
                                      THEN "locking" ELSE "running"]
  /\ UNCHANGED <<row, shops, ran, faults>>

Aborted(d) == drain[d].lost \/ drain[d].timedOut \/ drain[d].stop

LockGranted(d) ==
  /\ drain[d].pc = "locking" /\ ~Aborted(d)
  /\ drain' = [drain EXCEPT ![d].pc = "running"]
  /\ UNCHANGED <<row, shops, ran, faults>>

\* 'occupato': another run has the shop, or the shop is being erased.
LockBusy(d) ==
  /\ drain[d].pc = "locking"
  /\ PlanNext(d, "settling", "releaseLater")
  /\ UNCHANGED <<row, shops, ran, faults>>

\* 'non-disponibile' because the database failed.
LockUnavailable(d) ==
  /\ drain[d].pc = "locking"
  /\ Misfortune
  /\ PlanNext(d, "settling", "releaseLater")
  /\ UNCHANGED <<row, shops, ran>>

\* 'non-disponibile' because the signal was aborted while the lock was asked for.
LockAborted(d) ==
  /\ drain[d].pc = "locking" /\ Aborted(d)
  /\ PlanNext(d, "settling", "releaseLater")
  /\ UNCHANGED <<row, shops, ran, faults>>

\* The heartbeat of the row runs from Begin to the end of lavora, the statement
\* that reports a failure included; leasePerso is not read after the handler.
Beating(d) ==
  \/ drain[d].pc \in {"locking", "running", "settling"}
  \/ drain[d].pc = "lastWord" /\ drain[d].plan # "releaseNow" /\ ~Refused(drain[d].job)

Heartbeat(d) ==
  LET r == drain[d].job IN
  /\ Beating(d)
  /\ IF Guardia(d, r) /\ row[r].status = "processing"
     THEN row' = [row EXCEPT ![r].expired = FALSE] /\ UNCHANGED drain
     ELSE drain' = [drain EXCEPT ![d].lost = @ \/ drain[d].pc \in {"locking", "running"}]
          /\ UNCHANGED row
  /\ UNCHANGED <<shops, ran, faults>>

\* MAX_RUN_MS passes: while the handler runs that is the ordinary end of a long
\* job, while the lock is asked for it means that the database hangs.
TimeUp(d) ==
  /\ ~drain[d].timedOut
  /\ \/ drain[d].pc = "running" /\ UNCHANGED faults
     \/ drain[d].pc = "locking" /\ Misfortune
  /\ drain' = [drain EXCEPT ![d].timedOut = TRUE]
  /\ UNCHANGED <<row, shops, ran>>

HandlerReturns(d) ==
  /\ drain[d].pc = "running"
  /\ ran' = [ran EXCEPT ![drain[d].job] = @ \/ drain[d].token = row[drain[d].job].token]
  /\ IF PlanAfterReturn(d) = "none"
     THEN NextTurn(d)
     ELSE PlanNext(d, "settling", PlanAfterReturn(d))
  /\ UNCHANGED <<row, shops, faults>>

HandlerFails(d) ==
  /\ drain[d].pc = "running"
  /\ PlanNext(d, "lastWord", PlanAfterFailure(d))
  /\ UNCHANGED <<row, shops, ran, faults>>

\* The handler obeys its signal by throwing: assertHeld throws once the signal is
\* aborted, and so do the loops of the page-by-page jobs.
HandlerObeys(d) ==
  /\ drain[d].pc = "running" /\ Aborted(d)
  /\ PlanNext(d, "lastWord", PlanAfterFailure(d))
  /\ UNCHANGED <<row, shops, ran, faults>>

Settle(d) ==
  /\ drain[d].pc \in {"settling", "lastWord"}
  /\ Statement(d)
  /\ NextTurn(d)
  /\ UNCHANGED <<shops, ran, faults>>

\* The statement fails, before or after its commit.  Inside the try of lavora
\* that is a failure of the attempt; elsewhere it ends the drain.
SettleFails(d) ==
  /\ drain[d].pc \in {"settling", "lastWord"}
  /\ Misfortune
  /\ Statement(d) \/ UNCHANGED row
  /\ IF drain[d].pc = "settling"
     THEN PlanNext(d, "lastWord", PlanAfterFailure(d))
     ELSE drain' = [drain EXCEPT ![d] = Off]
  /\ UNCHANGED <<shops, ran>>

-----------------------------------------------------------------------------

\* The steps by which a drain that is alive goes on.
Progress(d) ==
  \/ EndDrain(d) \/ (\E r \in Requests : Claim(d, r))
  \/ TurnBack(d) \/ Refuse(d) \/ Begin(d)
  \/ LockGranted(d) \/ LockBusy(d) \/ LockAborted(d)
  \/ HandlerReturns(d) \/ HandlerObeys(d) \/ HandlerFails(d) \/ Settle(d)

Mishap(d) ==
  Shutdown(d) \/ Crash(d) \/ ClaimFails(d) \/ LockUnavailable(d) \/ SettleFails(d)

Table ==
  \/ \E r \in Requests :
       Enqueue(r) \/ ForeignRow(r) \/ BecomeDue(r) \/ ExpireOrphan(r) \/ ExpireHeld(r)
  \/ \E S \in SUBSET Requests : Replay(S) \/ Prune(S)
  \/ \E s \in Shops : EraseShop(s)

Next ==
  \/ Table
  \/ \E d \in Drains :
       Start(d) \/ Progress(d) \/ Heartbeat(d) \/ TimeUp(d) \/ Mishap(d)

Spec == Init /\ [][Next]_vars

\* The cron starts a drain of every shop again and again; a living drain goes
\* on, since every await of lavora is bounded by MAX_RUN_MS; time passes.
Fairness ==
  /\ \A d \in Drains :
       /\ LaneOf[d] = EveryShop => WF_vars(Start(d))
       /\ WF_vars(Progress(d))
  /\ \A r \in Requests : WF_vars(BecomeDue(r)) /\ WF_vars(ExpireOrphan(r))

FairSpec == Spec /\ Fairness

-----------------------------------------------------------------------------
(* Properties *)

\* A row is completed only when the handler run under its latest claim
\* returned: no superseded or dead invocation declares work done that another
\* one is still doing (drain.server.ts, the third thing that must not happen).
CompletedWasRun ==
  \A r \in Requests : row[r].status = "completed" => ran[r]

\* A row that lavora can work goes to dead letter only after MaxAttempts
\* attempts were counted on the row itself and not given back, although the
\* decision is taken on the count a drain read at its claim.
DeadLetterEarned ==
  \A r \in Requests :
    row[r].status = "dead_letter" => Refused(r) \/ Exhausted(row[r].attempts)

\* Whoever closes a row, to any outcome, is the drain that made its latest
\* claim, and closes it once: the guard on owner and token turns every other
\* statement into zero rows.
ClosedByItsHolder ==
  [][\A r \in Requests :
       row[r].status = "processing" /\ row'[r].status \notin {"processing", "gone"}
       => \E d \in Drains :
            /\ drain[d].job = r /\ drain[d].token = row[r].token
            /\ drain[d].pc \in {"settling", "lastWord"}
            /\ drain'[d] # drain[d]]_vars

\* An attempt at r ends because its shop is busy, and is given back.
TurnedAway(r) == \E d \in Drains : drain[d].job = r /\ LockBusy(d)

\* Every accepted request is in the end completed, or in dead letter where
\* somebody is told, or gone with its shop, unless it finds its shop busy again
\* and again for ever: the queue forgets nothing, no row stays "processing" behind
\* a dead invocation, and no other end of an attempt goes round without counting.
EverySettled ==
  \A r \in Requests :
    \/ row[r].status \in {"queued", "processing"}
         ~> row[r].status \in {"completed", "dead_letter", "gone"}
    \/ []<><<TurnedAway(r)>>_vars

-----------------------------------------------------------------------------
(* The inductive invariant *)

\* A row carries a lease exactly while it is in process.
LeaseShape ==
  \A r \in Requests : row[r].owner # NoDrain <=> row[r].status = "processing"

\* A drain with the memory m still holds its row.
Holds(d, m) == row[m.job].owner = d /\ row[m.job].token = m.token

\* What a drain remembers of a row it still holds is what the row says.
Current(d, m) ==
  /\ m.pc \in {"off", "loop"} <=> m.job = NoRequest
  /\ m.job # NoRequest /\ Holds(d, m) => m.seen = row[m.job].attempts /\ m.seen > 0

\* A statement is only planned when its outcome is deserved.
Earned(d, m) ==
  m.pc \in {"settling", "lastWord"} =>
    /\ m.plan # "none"
    /\ m.plan = "complete" /\ Holds(d, m) => ran[m.job]
    /\ m.plan = "deadLetter" => Refused(m.job) \/ Exhausted(m.seen)

MemoryIsSound == \A d \in Drains : Current(d, drain[d]) /\ Earned(d, drain[d])

IInv ==
  /\ TypeOK
  /\ LeaseShape
  /\ MemoryIsSound
  /\ CompletedWasRun
  /\ DeadLetterEarned

-----------------------------------------------------------------------------
(* What an attempt costs *)

\* No row has more attempts than MaxAttempts unless a misfortune paid for each
\* of the others: the claim does not look at the count, but takes over only rows
\* whose holder died or was late.
AttemptsArePaid == \A r \in Requests : row[r].attempts <= MaxAttempts + faults

\* A row that waits, or whose holder is dead or late, has one attempt to spare.
Spare(r) ==
  /\ row[r].status = "absent" => row[r].attempts = 0
  /\ \/ row[r].status = "queued"
     \/ row[r].status = "processing" /\ (row[r].expired \/ ~HeldInMemory(r))
     => row[r].attempts < MaxAttempts + faults

\* A drain that was told that its lease is lost does not have it.
LostIsLost(d, m) == m.job # NoRequest /\ m.lost => ~Holds(d, m)

\* Only a row with an attempt left is put back for a later one.
PlanSpares(m) == m.plan = "reschedule" => m.seen < MaxAttempts

PInv ==
  /\ IInv
  /\ AttemptsArePaid
  /\ \A r \in Requests : Spare(r)
  /\ \A d \in Drains : LostIsLost(d, drain[d]) /\ PlanSpares(drain[d])

-----------------------------------------------------------------------------
(* SyncQueue implements WorkQueue *)

Stage(status) ==
  CASE status = "queued"      -> "pending"
    [] status = "processing"  -> "held"
    [] status = "completed"   -> "done"
    [] status = "dead_letter" -> "dead"
    [] OTHER                  -> status

Abstract == INSTANCE WorkQueue WITH
  Jobs   <- Requests,
  stage  <- [r \in Requests |-> Stage(row[r].status)],
  worked <- ran

\* The table and its drains behave as the queue WorkQueue promises.
ImplementsWorkQueue == Abstract!Spec

-----------------------------------------------------------------------------
(* What the documents say and the code does not do *)

\* drain.server.ts says that an item that kills its process still counts its
\* attempt "e non gira in tondo per sempre": its attempts would be bounded.
AttemptsBounded == \A r \in Requests : row[r].attempts <= MaxAttempts
=============================================================================
