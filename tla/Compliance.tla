----------------------------- MODULE Compliance -----------------------------
(***************************************************************************)
(* The privacy requests of Shopify: access to the data of a customer,      *)
(* erasure of a customer, erasure of a shop.  The route writes a row and   *)
(* answers 200 (receipt.server.ts, compliance-queue.server.ts); an item of *)
(* the queue or the drain of the cron claims the row under a lease and     *)
(* works it (process-compliance.server.ts, shop-record.server.ts), while   *)
(* the synchronisations hold the lock of the shop and the merchant may     *)
(* install the app again.                                                  *)
(*                                                                         *)
(* Abstractions.  One shop domain; every installation of it is a row of    *)
(* `shops' with an id of its own.  A request is the id of its delivery.    *)
(* `due' and `expired' stand for next_attempt_at <= now and for            *)
(* lease_expires_at <= now.  The lease of a row is the slot of the worker  *)
(* that claimed it: a slot that claims again has forgotten what it held.   *)
(* The lock is the one of ShopLock without its clock: a synchronisation,   *)
(* or a holder that died, may have it whenever it is asked for.  What is   *)
(* read and erased for a customer is one step, served or not.              *)
(***************************************************************************)
EXTENDS Integers, FiniteSets

CONSTANTS
  Requests,     \* the deliveries, numbered as they arrive
  Workers,      \* the slots in which invocations work
  NoRequest,
  Nobody,       \* no lease, no holder of the lock
  Practice,     \* data_request.id of each delivery
  MaxAttempts,  \* MAX_ATTEMPTS
  MaxInstalls,  \* bound: how often the shop is installed
  MaxFaults     \* bound: misfortunes in one behaviour

ASSUME ConstantsAssumption ==
  /\ Requests \subseteq Nat /\ NoRequest \notin Requests
  /\ Nobody \notin Workers
  /\ MaxAttempts \in Nat \ {0}
  /\ MaxInstalls \in Nat
  /\ MaxFaults \in Nat

VARIABLES
  shop,       \* the row of the shop: which installation (0 is no row), and whether it is `erasing'
  installs,   \* how many installations there have been
  lock,       \* shop_locks, by id of the shop
  topic,      \* what each delivery asks for
  feed,       \* whether each delivery was answered
  row,        \* the table compliance_requests
  proof,      \* the table shop_erasure_proofs, by id of the delivery
  worker,     \* the memory of each invocation
  served,     \* history: requests of a customer that were carried out to the end
  erased,     \* history: the installations each delivery erased
  overtaken,  \* history: requests one of whose invocations lost its lease
  unguarded,  \* history: installations of which somebody lost the lock
  swept,      \* history: requests removed with the shop before they were closed
  faults      \* how many misfortunes happened

vars == <<shop, installs, lock, topic, feed, row, proof, worker, served, erased, overtaken, unguarded, swept, faults>>
history == <<served, erased, overtaken, unguarded, swept>>
world == <<installs, topic, feed>>

Topics == {"access", "redact", "shop"}
Installs == 1 .. MaxInstalls
Statuses == {"absent", "queued", "processing", "failed", "completed", "dead_letter"}
Open == {"queued", "processing", "failed", "dead_letter"}

ShopType == [install : 0 .. MaxInstalls, erasing : BOOLEAN]
RowType == [status : Statuses, attempts : Nat, due : BOOLEAN, expired : BOOLEAN,
            owner : Workers \cup {Nobody}, export : BOOLEAN]

Locked == {"mark", "erase", "work"}
PCs == {"idle", "proof", "shop", "proofOnly", "lock", "collect", "save", "close",
        "remove", "fail"} \cup Locked
WorkerType == [pc : PCs, request : Requests \cup {NoRequest}, attempt : Nat,
               install : 0 .. MaxInstalls]

TypeOK ==
  /\ shop \in ShopType
  /\ installs \in 0 .. MaxInstalls
  /\ lock \in [Installs -> Workers \cup {Nobody}]
  /\ topic \in [Requests -> Topics]
  /\ feed \in [Requests -> {"unsent", "unanswered", "acked"}]
  /\ row \in [Requests -> RowType]
  /\ proof \in [Requests -> {"none", "skipped", "completed"}]
  /\ worker \in [Workers -> WorkerType]
  /\ served \subseteq Requests
  /\ erased \in [Requests -> SUBSET Installs]
  /\ overtaken \subseteq Requests
  /\ unguarded \subseteq Installs
  /\ swept \subseteq Requests
  /\ faults \in 0 .. MaxFaults

NoShop == [install |-> 0, erasing |-> FALSE]
NewShop(i) == [install |-> i, erasing |-> FALSE]

NoRow == [status |-> "absent", attempts |-> 0, due |-> FALSE, expired |-> FALSE,
          owner |-> Nobody, export |-> FALSE]

Idle == [pc |-> "idle", request |-> NoRequest, attempt |-> 0, install |-> 0]

Init ==
  /\ shop = NoShop
  /\ installs = 0
  /\ lock = [i \in Installs |-> Nobody]
  /\ topic \in [Requests -> Topics]
  /\ feed = [r \in Requests |-> "unsent"]
  /\ row = [r \in Requests |-> NoRow]
  /\ proof = [r \in Requests |-> "none"]
  /\ worker = [w \in Workers |-> Idle]
  /\ served = {}
  /\ erased = [r \in Requests |-> {}]
  /\ overtaken = {}
  /\ unguarded = {}
  /\ swept = {}
  /\ faults = 0

-----------------------------------------------------------------------------
(* Vocabulary *)

Misfortune ==
  /\ faults < MaxFaults
  /\ faults' = faults + 1

\* Fault: the attempt that has just failed is not counted.
ExhaustedLate(n) == n > MaxAttempts

\* isExhausted, statusAfterFailure.
Exhausted(n) == n >= MaxAttempts

StatusAfterFailure(attempt) == IF Exhausted(attempt) THEN "dead_letter" ELSE "failed"

\* Fault: nobody takes over the rows of dead invocations.
ClaimableUnlessTaken(r) == row[r].status \in {"queued", "failed"} /\ row[r].due

\* The condition of the claim.
Claimable(r) ==
  \/ row[r].status \in {"queued", "failed"} /\ row[r].due
  \/ row[r].status = "processing" /\ row[r].expired

\* `guardia': what every final write of one request carries.
Guardia(w) ==
  LET r == worker[w].request IN row[r].owner = w /\ row[r].status = "processing"

\* The invocation that claimed the row of r is still at it.
Attended(r) ==
  row[r].owner \in Workers /\ worker[row[r].owner].request = r

\* Slots are alike: an invocation starts in any free one.
FreeSlot == CHOOSE w \in Workers : worker[w].pc = "idle"

Update(w, changed) == worker' = [worker EXCEPT ![w] = changed]

Goto(w, pc) == Update(w, [worker[w] EXCEPT !.pc = pc])

\* The lock as w leaves it when its work under the lock ends.
Unlocked(w) ==
  LET i == worker[w].install
  IN  IF i \in Installs /\ lock[i] = w THEN [lock EXCEPT ![i] = Nobody] ELSE lock

-----------------------------------------------------------------------------
(* The shop *)

\* afterAuth: a row is created for a domain that has none; an installation that
\* finds a row changes nothing of what is modelled here, not even `erasing'.
Install ==
  /\ shop = NoShop
  /\ installs < MaxInstalls
  /\ installs' = installs + 1
  /\ shop' = NewShop(installs + 1)
  /\ UNCHANGED <<lock, topic, feed, row, proof, worker, history, faults>>

-----------------------------------------------------------------------------
(* enqueueComplianceRequest *)

\* Fault: the practice is looked for whatever the delivery asks.
DuplicateOfAnyTopic(r) ==
  \E q \in Requests : row[q].status # "absent" /\ Practice[q] = Practice[r]

\* The same delivery, or one of the same practice.
SameMatter(q, r) ==
  \/ q = r
  \/ topic[q] = "access" /\ topic[r] = "access" /\ Practice[q] = Practice[r]

\* findDuplicate.
Duplicate(r) == \E q \in Requests : SameMatter(q, r) /\ row[q].status # "absent"

Record(r) ==
  row' = IF Duplicate(r) THEN row
         ELSE [row EXCEPT ![r] = [NoRow EXCEPT !.status = "queued", !.due = TRUE]]

Receive(r) ==
  /\ feed[r] # "acked"
  /\ \A q \in Requests : q < r => feed[q] # "unsent"
  /\ Record(r)
  /\ feed' = [feed EXCEPT ![r] = "acked"]
  /\ UNCHANGED <<shop, installs, lock, topic, proof, worker, history, faults>>

\* The row is not written, or it is and the answer is lost.
ReceiveFails(r) ==
  /\ feed[r] = "unsent"
  /\ \A q \in Requests : q < r => feed[q] # "unsent"
  /\ Misfortune
  /\ Record(r) \/ UNCHANGED row
  /\ feed' = [feed EXCEPT ![r] = "unanswered"]
  /\ UNCHANGED <<shop, installs, lock, topic, proof, worker, history>>

\* The answer came late, and Shopify delivers again.
Redeliver(r) ==
  /\ feed[r] = "acked"
  /\ Misfortune
  /\ Record(r)
  /\ UNCHANGED <<shop, world, lock, proof, worker, history>>

-----------------------------------------------------------------------------
(* Time *)

BecomeDue(r) ==
  /\ row[r].status = "failed" /\ ~row[r].due
  /\ row' = [row EXCEPT ![r].due = TRUE]
  /\ UNCHANGED <<shop, world, lock, proof, worker, history, faults>>

\* The lease of a row nobody works any more runs out.
Expire(r) ==
  /\ row[r].status = "processing" /\ ~row[r].expired /\ ~Attended(r)
  /\ row' = [row EXCEPT ![r].expired = TRUE]
  /\ UNCHANGED <<shop, world, lock, proof, worker, history, faults>>

\* The lease is not renewed: a work longer than fifteen minutes outlives it.
Outlive(r) ==
  /\ row[r].status = "processing" /\ ~row[r].expired /\ Attended(r)
  /\ Misfortune
  /\ row' = [row EXCEPT ![r].expired = TRUE]
  /\ overtaken' = overtaken \cup {r}
  /\ UNCHANGED <<shop, world, lock, proof, worker, served, erased, unguarded, swept>>

\* w is paused for so long that its lock is taken for abandoned.
LoseLock(w) ==
  /\ worker[w].pc \in Locked
  /\ lock[worker[w].install] = w
  /\ Misfortune
  /\ lock' = Unlocked(w)
  /\ unguarded' = unguarded \cup {worker[w].install}
  /\ UNCHANGED <<shop, world, row, proof, worker, served, erased, overtaken, swept>>

\* pruneExpiredExports.
PruneExport(r) ==
  /\ row[r].export
  /\ row' = [row EXCEPT ![r].export = FALSE]
  /\ UNCHANGED <<shop, world, lock, proof, worker, history, faults>>

-----------------------------------------------------------------------------
(* processComplianceRequest *)

\* The claim is one statement, which counts the attempt and says its number.
Claim(w, r) ==
  /\ worker[w].pc = "idle" /\ w = FreeSlot
  /\ Claimable(r)
  /\ row' = [row EXCEPT ![r] = [@ EXCEPT !.status = "processing", !.owner = w, !.expired = FALSE,
                                         !.attempts = row[r].attempts + 1]]
  /\ Update(w, [Idle EXCEPT !.pc = IF topic[r] = "shop" THEN "proof" ELSE "shop",
                            !.request = r, !.attempt = row[r].attempts + 1])
  /\ UNCHANGED <<shop, world, lock, proof, history, faults>>

\* eraseShopRecord looks at the proof before anything else.
ReadProof(w) ==
  /\ worker[w].pc = "proof"
  /\ Goto(w, IF proof[worker[w].request] = "none" THEN "shop" ELSE "remove")
  /\ UNCHANGED <<shop, world, lock, row, proof, history, faults>>

\* The shop is looked for by its domain.  Without a shop there is nothing of the
\* customer, and a shop without a merchant database is answered without its lock.
FindShop(w) ==
  LET m == worker[w]
      found == [m EXCEPT !.install = shop.install]
  IN
  /\ m.pc = "shop"
  /\ \/ /\ topic[m.request] = "shop"
        /\ Update(w, [found EXCEPT !.pc = IF shop.install = 0 THEN "proofOnly" ELSE "lock"])
        /\ UNCHANGED served
     \/ /\ topic[m.request] # "shop" /\ shop.install # 0
        /\ Update(w, [found EXCEPT !.pc = "lock"])
        /\ UNCHANGED served
     \/ /\ topic[m.request] # "shop"
        /\ shop.install = 0 \/ topic[m.request] = "access"
        /\ Update(w, [found EXCEPT !.pc = "save"])
        /\ served' = served \cup {m.request}
  /\ UNCHANGED <<shop, world, lock, row, proof, erased, overtaken, unguarded, swept, faults>>

\* scriviProvaSenzaNegozio: the index on the delivery refuses a second proof.
WriteProofOnly(w) ==
  LET r == worker[w].request IN
  /\ worker[w].pc = "proofOnly"
  /\ IF proof[r] = "none"
     THEN proof' = [proof EXCEPT ![r] = "skipped"] /\ Goto(w, "remove")
     ELSE UNCHANGED proof /\ Goto(w, "fail")
  /\ UNCHANGED <<shop, world, lock, row, history, faults>>

\* The shop is closed to everybody but its own erasure.
Barred(w) ==
  /\ topic[worker[w].request] # "shop"
  /\ shop.install = worker[w].install /\ shop.erasing

\* Fault: a busy shop is taken for one that has nothing of the customer.
TakeLockOrSkip(w) ==
  LET m == worker[w] IN
  /\ m.pc = "lock"
  /\ \/ Goto(w, "save") /\ UNCHANGED lock
     \/ /\ lock[m.install] = Nobody /\ ~Barred(w)
        /\ lock' = [lock EXCEPT ![m.install] = w]
        /\ Goto(w, IF topic[m.request] = "shop" THEN "mark" ELSE "work")
  /\ UNCHANGED <<shop, world, row, proof, history, faults>>

\* runWithShopLease: a shop that is closed, or busy, with whatever work, is a
\* failed step.
TakeLock(w) ==
  LET m == worker[w] IN
  /\ m.pc = "lock"
  /\ \/ Goto(w, "fail") /\ UNCHANGED lock
     \/ /\ lock[m.install] = Nobody /\ ~Barred(w)
        /\ lock' = [lock EXCEPT ![m.install] = w]
        /\ Goto(w, IF topic[m.request] = "shop" THEN "mark" ELSE "work")
  /\ UNCHANGED <<shop, world, row, proof, history, faults>>

\* Fault: the proof is written with the mark, before what it proves.
MarkWithProof(w) ==
  LET m == worker[w] IN
  /\ m.pc = "mark"
  /\ IF lock[m.install] = w /\ shop.install = m.install
     THEN /\ shop' = [shop EXCEPT !.erasing = TRUE]
          /\ proof' = [proof EXCEPT ![m.request] = "completed"]
          /\ Goto(w, "erase") /\ UNCHANGED lock
     ELSE Goto(w, "fail") /\ lock' = Unlocked(w) /\ UNCHANGED <<shop, proof>>
  /\ UNCHANGED <<world, row, history, faults>>

\* assertHeld and beginShopErasure, a commit of its own that remains whatever
\* follows.  Both throw when what they ask for is not there.
Mark(w) ==
  LET i == worker[w].install IN
  /\ worker[w].pc = "mark"
  /\ IF lock[i] = w /\ shop.install = i
     THEN shop' = [shop EXCEPT !.erasing = TRUE] /\ Goto(w, "erase") /\ UNCHANGED lock
     ELSE Goto(w, "fail") /\ lock' = Unlocked(w) /\ UNCHANGED shop
  /\ UNCHANGED <<world, row, proof, history, faults>>

\* Fault: the proof is written by an upsert, outside what the transaction undoes.
EraseAnyway(w) ==
  LET m == worker[w] IN
  /\ m.pc = "erase"
  /\ proof' = [proof EXCEPT ![m.request] = "completed"]
  /\ IF shop.install # 0
     THEN /\ shop' = NoShop
          /\ erased' = [erased EXCEPT ![m.request] = @ \cup {shop.install}]
     ELSE UNCHANGED <<shop, erased>>
  /\ lock' = Unlocked(w)
  /\ Goto(w, "remove")
  /\ UNCHANGED <<world, row, served, overtaken, unguarded, swept, faults>>

\* cancellaInTransazione: the proof and the row of the shop, or nothing.  A row
\* that is no longer there is no error.
Erase(w) ==
  LET m == worker[w] IN
  /\ m.pc = "erase"
  /\ lock' = Unlocked(w)
  /\ IF proof[m.request] # "none"
     THEN Goto(w, "fail") /\ UNCHANGED <<shop, proof, erased>>
     ELSE /\ proof' = [proof EXCEPT ![m.request] = "completed"]
          /\ IF shop.install = m.install
             THEN /\ shop' = NoShop
                  /\ erased' = [erased EXCEPT ![m.request] = @ \cup {m.install}]
             ELSE UNCHANGED <<shop, erased>>
          /\ Goto(w, "remove")
  /\ UNCHANGED <<world, row, served, overtaken, unguarded, swept, faults>>

\* dataRequest, redactCustomer: assertHeld, and the work under the lock.  The
\* rows of an export are fetched after it is released.
Work(w) ==
  LET m == worker[w] IN
  /\ m.pc = "work"
  /\ lock' = Unlocked(w)
  /\ \/ lock[m.install] # w /\ Goto(w, "fail") /\ UNCHANGED served
     \/ /\ lock[m.install] = w /\ topic[m.request] = "access"
        /\ Goto(w, "collect") /\ UNCHANGED served
     \/ /\ lock[m.install] = w /\ topic[m.request] = "redact"
        /\ Goto(w, "save") /\ served' = served \cup {m.request}
  /\ UNCHANGED <<shop, world, row, proof, erased, overtaken, unguarded, swept, faults>>

Collect(w) ==
  /\ worker[w].pc = "collect"
  /\ served' = served \cup {worker[w].request}
  /\ Goto(w, "save")
  /\ UNCHANGED <<shop, world, lock, row, proof, erased, overtaken, unguarded, swept, faults>>

\* saveGdprOutcome: the record hangs on the row of the shop, and throws without it.
Save(w) ==
  /\ worker[w].pc = "save"
  /\ Goto(w, IF worker[w].install \in {0, shop.install} THEN "close" ELSE "fail")
  /\ UNCHANGED <<shop, world, lock, row, proof, history, faults>>

Close(w) ==
  LET r == worker[w].request IN
  /\ worker[w].pc = "close"
  /\ row' = IF Guardia(w)
            THEN [row EXCEPT ![r] = [@ EXCEPT !.status = "completed", !.owner = Nobody,
                                              !.expired = FALSE, !.export = topic[r] = "access"]]
            ELSE row
  /\ Update(w, Idle)
  /\ UNCHANGED <<shop, world, lock, proof, history, faults>>

\* After an erasure every request of the domain goes with it, whoever has it and
\* whatever its state.
RemoveRows(w) ==
  LET r == worker[w].request IN
  /\ worker[w].pc = "remove"
  /\ row' = [q \in Requests |-> NoRow]
  /\ swept' = swept \cup {q \in Requests \ {r} : row[q].status \in Open}
  /\ Update(w, Idle)
  /\ UNCHANGED <<shop, world, lock, proof, served, erased, overtaken, unguarded, faults>>

-----------------------------------------------------------------------------
(* Failure *)

\* Fault: the attempt is counted by the claim and by who decides.
GiveUpEarly(w) ==
  LET r == worker[w].request
      status == StatusAfterFailure(worker[w].attempt + 1)
  IN
  /\ worker[w].pc = "fail"
  /\ row' = IF Guardia(w)
            THEN [row EXCEPT ![r] = [@ EXCEPT !.status = status, !.due = FALSE,
                                              !.owner = Nobody, !.expired = FALSE]]
            ELSE row
  /\ Update(w, Idle)
  /\ UNCHANGED <<shop, world, lock, proof, history, faults>>

\* giveUpOrRetry.
GiveUpOrRetry(w) ==
  LET r == worker[w].request
      status == StatusAfterFailure(worker[w].attempt)
  IN
  /\ worker[w].pc = "fail"
  /\ row' = IF Guardia(w)
            THEN [row EXCEPT ![r] = [@ EXCEPT !.status = status, !.due = FALSE,
                                              !.owner = Nobody, !.expired = FALSE]]
            ELSE row
  /\ Update(w, Idle)
  /\ UNCHANGED <<shop, world, lock, proof, history, faults>>

\* Fault: whatever becomes of an erasure, it is taken for done.
StepFailsSilently(w) ==
  /\ worker[w].pc = "erase"
  /\ Misfortune
  /\ lock' = Unlocked(w)
  /\ Goto(w, "remove")
  /\ UNCHANGED <<shop, world, row, proof, history>>

\* A read, a write, the lock or the transaction fails: nothing of the step
\* remains, and the attempt has failed.
StepFails(w) ==
  /\ worker[w].pc \notin {"idle", "fail"}
  /\ Misfortune
  /\ lock' = Unlocked(w)
  /\ Goto(w, "fail")
  /\ UNCHANGED <<shop, world, row, proof, history>>

\* The invocation dies, or cannot even write that it failed.
Crash(w) ==
  /\ worker[w].pc # "idle"
  /\ Misfortune
  /\ lock' = Unlocked(w)
  /\ Update(w, Idle)
  /\ UNCHANGED <<shop, world, row, proof, history>>

-----------------------------------------------------------------------------

Progress(w) ==
  \/ ReadProof(w) \/ FindShop(w) \/ WriteProofOnly(w) \/ TakeLock(w) \/ Mark(w) \/ Erase(w)
  \/ Work(w) \/ Collect(w) \/ Save(w) \/ Close(w) \/ RemoveRows(w) \/ GiveUpOrRetry(w)

\* Time passes, the cron and the queue claim what is ready, a live invocation
\* goes on.  Nothing is asked of the synchronisations.
Ordinary ==
  \/ \E r \in Requests : BecomeDue(r) \/ Expire(r) \/ \E w \in Workers : Claim(w, r)
  \/ \E w \in Workers : Progress(w)

Next ==
  \/ Ordinary
  \/ Install
  \/ \E r \in Requests :
       Receive(r) \/ ReceiveFails(r) \/ Redeliver(r) \/ Outlive(r) \/ PruneExport(r)
  \/ \E w \in Workers : LoseLock(w) \/ StepFails(w) \/ Crash(w)

Spec == Init /\ [][Next]_vars

Fairness == WF_vars(Ordinary)

FairSpec == Spec /\ Fairness

-----------------------------------------------------------------------------
(* Properties *)

\* A request of a customer is declared completed only when its data were erased
\* or gathered to the end, or there was nothing to erase or gather, although an
\* invocation that lost its lease may still be at work on it.
CompletedIsServed ==
  \A r \in Requests : row[r].status = "completed" => r \in served

\* One delivery of shop/redact erases one installation at most, however often it
\* is repeated and whoever is overtaken: a merchant who comes back does not lose
\* the new shop to the old request (shop-record.server.ts, the reading of the
\* proof before everything else).
OneErasurePerDelivery ==
  \A r \in Requests : \A i, j \in erased[r] : i = j

\* An installation that was erased was erased for one delivery, and there is the
\* proof of it.  And the proof of an erasure tells the truth, as long as nobody
\* goes on without the lock.
ErasureIsProved ==
  \A r \in Requests :
    /\ erased[r] # {} => proof[r] = "completed"
    /\ \A q \in Requests \ {r} : erased[r] \cap erased[q] = {}
    /\ proof[r] = "completed" /\ unguarded = {} => erased[r] # {}

\* A request that was answered 200 is in the table until it is carried out, or is
\* a practice already taken, or went away with the shop.
AcceptedIsKept ==
  \A r \in Requests :
    feed[r] = "acked" =>
      \E q \in Requests :
        /\ SameMatter(q, r)
        /\ row[q].status # "absent" \/ q \in served \cup swept \/ proof[q] # "none"

\* A dead letter had all its attempts: none was counted twice, and none was
\* consumed by an invocation that had been superseded.
DeadLetterHadAllAttempts ==
  \A r \in Requests : row[r].status = "dead_letter" => row[r].attempts >= MaxAttempts

\* Somebody will go on with the erasure of a shop that was closed for it: an
\* invocation is at it, or the row of a delivery that some claim will take.
Pursued ==
  \/ \E w \in Workers : worker[w].pc = "erase"
  \/ \E r \in Requests : topic[r] = "shop" /\ row[r].status \in {"queued", "processing", "failed"}

\* A delivery that wrote no proof used all its attempts: nothing in the code takes
\* it again, and a shop it closed stays so until a person acts.
GivenUp ==
  \E r \in Requests :
    /\ topic[r] = "shop" /\ proof[r] = "none"
    /\ row[r].status = "dead_letter" /\ Exhausted(row[r].attempts)

\* A shop stays closed to every other work only while its erasure is pursued, or
\* because it was given up after all its attempts, where the dead letter says so:
\* no single failure or death leaves it closed with nothing to show for it.  Unless
\* the delivery was swept away by the end of another one, or the shop was closed by
\* an invocation that had lost its lease.
ClosedShopIsPursuedOrGivenUp ==
  shop.erasing /\ swept \cup overtaken = {} => Pursued \/ GivenUp

\* Every accepted request is in the end carried out, or put where somebody is
\* called, however busy the shop is.
EverySettled ==
  \A r \in Requests :
    row[r].status \in {"queued", "processing", "failed"}
      ~> row[r].status \in {"completed", "dead_letter", "absent"}

-----------------------------------------------------------------------------
(* The inductive invariant *)

\* What the invocation with the memory m is doing fits its request, and what it
\* is about to declare is true.
MemoryIsSound(m) ==
  /\ m.pc = "idle" <=> m.request = NoRequest
  /\ m.pc # "idle" => feed[m.request] # "unsent" /\ m.attempt >= 1
  /\ m.pc \in {"proof", "proofOnly", "mark", "erase", "remove"} => topic[m.request] = "shop"
  /\ m.pc \in {"work", "collect", "save", "close"} => topic[m.request] # "shop"
  /\ m.pc \in Locked \cup {"lock"} => m.install \in Installs
  /\ m.pc \in {"save", "close"} => m.request \in served
  /\ m.pc = "remove" => proof[m.request] # "none"

RowsAreSound ==
  \A r \in Requests :
    /\ feed[r] = "unsent" => row[r].status = "absent"
    /\ Attended(r) /\ row[r].status = "processing" /\ row[r].expired => r \in overtaken

\* The holder of a row knows the number of the attempt.
HoldersKnowTheAttempt ==
  \A w \in Workers :
    worker[w].pc # "idle" /\ Guardia(w) => worker[w].attempt = row[worker[w].request].attempts

InstallsAreCounted ==
  /\ shop.install <= installs
  /\ shop.install = 0 => ~shop.erasing
  /\ \A r \in Requests : \A i \in erased[r] : i <= installs /\ i # shop.install

\* Whoever works under a lock nobody lost still holds it, and its shop is there.
LockIsHeld ==
  unguarded = {} =>
    \A w \in Workers :
      /\ worker[w].pc \in Locked => lock[worker[w].install] = w
      /\ worker[w].pc = "erase" => shop.install = worker[w].install

Undisturbed == swept = {} /\ overtaken = {}

\* An invocation that was never superseded holds its row, and nobody else has
\* written the proof it is about to write.
HoldersAreAlone ==
  Undisturbed =>
    \A w \in Workers : worker[w].pc # "idle" =>
      /\ Guardia(w)
      /\ topic[worker[w].request] = "shop" /\ worker[w].pc \in {"shop", "proofOnly", "lock", "mark", "erase"}
           => proof[worker[w].request] = "none"

\* The delivery that closed the shop has still to write its proof, which it will
\* do only for this installation.
ClosedByAnOpenDelivery ==
  Undisturbed /\ shop.erasing =>
    \E r \in Requests :
      /\ topic[r] = "shop" /\ row[r].status \in Open /\ proof[r] = "none"
      /\ \A w \in Workers : worker[w].request = r =>
           /\ worker[w].pc # "proofOnly"
           /\ worker[w].pc = "erase" => worker[w].install = shop.install

IInv ==
  /\ TypeOK
  /\ \A w \in Workers : MemoryIsSound(worker[w])
  /\ RowsAreSound
  /\ HoldersKnowTheAttempt
  /\ InstallsAreCounted
  /\ LockIsHeld
  /\ HoldersAreAlone
  /\ ClosedByAnOpenDelivery

-----------------------------------------------------------------------------
(* What an attempt costs *)

\* No request has more attempts than MaxAttempts unless a misfortune paid for each
\* of the others: the claim does not look at the count, but takes over only rows
\* whose invocation died or outlived its lease (claimComplianceRequest).
AttemptsArePaid == \A r \in Requests : row[r].attempts <= MaxAttempts + faults

\* Somebody may take the row, or may when its lease has run out.
Takeable(r) ==
  \/ row[r].status \in {"absent", "queued", "failed"}
  \/ row[r].status = "processing" /\ (row[r].expired \/ ~Attended(r))

\* Such a row has one attempt to spare.
Spare(r) == Takeable(r) => row[r].attempts < MaxAttempts + faults

PInv == IInv /\ AttemptsArePaid /\ \A r \in Requests : Spare(r)
=============================================================================
