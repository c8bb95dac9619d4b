# kerdon: specifications, model checks and proofs

kerdon is a Shopify app that keeps a database of the merchant (Supabase) aligned
with the shop: products, customers and orders are copied by *runs* and by
*webhooks*, consent and privacy requests are honoured, and everything is driven
by a cron route, a fast lane and serverless invocations that may die at any
moment. This directory holds TLA+ models of the parts where that is hard, the
TLC configurations that check them, and TLAPS proofs about them.

Paths are relative to the repository (`src/` in PROJECT.json). `app/lib/` is
abbreviated to `lib/`.

## 1. Inventory

| Part | State it keeps | Operations | What is hard about it |
|---|---|---|---|
| Job queue, `lib/queue/{queue-store,drain}.server.ts`, `queue-model.ts` | table `sync_requests`: status, attempts, next attempt, lease (owner, token, expiry) | enqueue, claim, heartbeat, complete, release, reschedule, dead letter, replay, prune | drains in parallel; leases that expire under a living holder; lost answers; shutdown and run limit; attempts that must be counted once |
| Lock of a shop, `lib/queue/shop-lock.server.ts` | table `shop_locks`; in memory the last verification | acquire, heartbeat, `assertHeld`, release, prune | statements that land late; clocks carried by the sender; a verification cached for 5 s; the erasure of the shop going on at the same time |
| Erasure of a shop, `lib/gdpr/{erasure-guard,shop-record,erasure-proof}.server.ts` | `lifecycle_status`, `erasure_generation` of the shop | begin, delete in a transaction, proof | runs that started before it must not write after it |
| Sync run, `lib/workers/processors.server.ts`, `lib/sync/{repair-ledger,watermark,failure-taxonomy}.ts`, `repair-outbox.server.ts` | `sync_jobs.watermark_at`, table `sync_repairs`; in memory the ledger | bulk, periodic and manual run, commit, replay | nothing that was not written may be forgotten although the watermark moves; resources change while they are read |
| Webhook inbox, `lib/webhooks/{receive,inbox,inbox-model}*.ts`, handlers of orders and products | table `webhook_events`: status, attempts, started at; the rows of the merchant | record, claim, process, drain, stale reset, prune, replay | duplicates and reordering, two processors of one event, attempts cut between two writes, outcomes written by id alone |
| Privacy requests, `lib/gdpr/{receipt,compliance-queue,process-compliance,shop-record}*.ts` | tables `compliance_requests` (with a lease) and `shop_erasure_proofs`; the row of the shop | enqueue, claim, three topics, proof, retry, dead letter | lease not renewed, busy lock counted as failure, a shop that is installed again, the request removed with its shop |
| Consent register, `lib/consent/`, `lib/tracking/users.server.ts`, `routes/rest.v1.tracking_id.tsx` | table `consent_revocations`; rows and names of browsers in the merchant database | record, immediate attempt, drain, outcome, prune, replay; issue, touch, merge, remember | links in flight while a browser is forgotten, leases that expire, an identifier that must not come back |
| Billing, `lib/billing/`, `routes/billing.{subscribe,callback}.tsx`, `lib/webhooks/{handle-subscription-update,reconcile}.server.ts` | table `billing_charges`, `active_charge_id` of the shop; the subscriptions on Shopify | ask for a plan, callback, free plan, outbox of cancellations, delivery, reconciliation | four writers of one row, announcements late or lost, shops read before and written after, cancellations that fail |
| Pause and resume of the merchant database, `lib/supabase/` | pause state, keep-alive | resume, notify | retries against a slow external service |
| Import from integrations, `lib/integrations/` | cursor of the import, conflicts | page by page import | resumption after a crash |
| Cron route and worker, `routes/api.cron.sync.tsx`, `worker.ts` | none | the steps of one round, each in a try of its own | two rounds in parallel |
| Ingest, tracking, read proxy, feeds, statistics, UI | request-scoped | | see section 8 |

How they interact: producers (routes, webhooks, the cron) *enqueue*; a drain
*claims* a row and runs its handler *under the lock* of the shop; the handler is
a run, which reads Shopify, writes the merchant database after each `assertHeld`
and *commits* repairs and watermark; `shop/redact` takes the same lock, marks the
shop and deletes its rows, those of the queue included. Webhooks are *recorded*
before they are answered and worked by the invocation that took them or by the
drain of the cron, without the lock; privacy requests are recorded the same way
and worked under it; a withdrawal of consent is recorded, tried once at once, and
retried by the cron. The rows of the queue,
the lock, the lifecycle of the shop, its plan, the repairs and the watermark are shared
state in Postgres; the merchant database knows nothing of any of them.

PROJECT.json lists every component with its status, and under `hazards` each
place where the code is exposed, with the properties that watch it.

## 2. Modules

| Module | Models | Checked by | Proofs |
|---|---|---|---|
| `WorkQueue` | what the queue promises, without leases, drains or a database | refinement target | |
| `SyncQueue` | `sync_requests` and its drains | `sync_queue*.cfg` (`MCSyncQueue`) | `SyncQueueProofs` |
| `ShopLease` | what the lock promises, without clocks, tokens or messages | refinement target | |
| `ShopLock` | `shop_locks`, `assertHeld`, the erasure of the shop | `shop_lock*.cfg` (`MCShopLock`) | `ShopLockProofs` |
| `SyncRun` | a run, its ledger, `sync_repairs`, the watermark | `sync_run*.cfg` (`MCSyncRun`) | `SyncRunProofs` |
| `WebhookInbox` | `webhook_events`, its consumers, the processors of orders and products | `webhook_inbox.cfg` (`MCWebhookInbox`) | `WebhookInboxProofs`, `WebhookConvergenceProofs` |
| `Compliance` | `compliance_requests`, its workers, the life of a shop | `compliance.cfg` (`MCCompliance`) | `ComplianceProofs` |
| `ConsentRegister` | `consent_revocations`, its workers, the browsers in the merchant database | `consent.cfg` (`MCConsentRegister`) | `ConsentRegisterProofs` |
| `Billing` | `billing_charges`, the subscriptions of a shop and all who write of them | `billing*.cfg` (`MCBilling`) | `BillingProofs` |

### SyncQueue

`row` is the table, `drain` the local variables of `drainSyncRequests` and
`lavora`, `shops` the shops a foreign key can refer to. Each statement of the
store is one atomic update of `row` under the guard of its WHERE clause
(`Claimable`, `Guardia`), and each `await` of the drain is a point between two
actions: `Claim`, `Begin`, `LockGranted`/`LockBusy`/`LockUnavailable`/`LockAborted`,
`HandlerReturns`/`HandlerFails`/`HandlerObeys`, `Settle`. A statement whose
answer is lost (`ClaimFails`, `SettleFails`) may have been committed or not. The
heartbeat runs beside the handler. `TurnBack` and `Refuse` are the two early
branches, and the order of the tests after the handler (lost lease, shutdown,
run limit, success) is `PlanAfterReturn`.

Abstractions: there is no clock; `due` and `expired` stand for the comparisons
of `next_attempt_at` and `lease_expires_at` with now and are turned by
`BecomeDue`, `ExpireOrphan` and `ExpireHeld`. The drain takes the oldest due row,
the model any. A drain is its slot: the UUID it draws is new at each start, and
nothing remembers it after its end, since owner *and* token are compared. A token is
an element of a finite set, and a claim draws one that no drain remembers for that row
(`Fresh`), as the counter of the code would give it. A busy lock (`LockBusy`) is ordinary
and costs nothing, however often; a lock that cannot be had because the database
failed (`LockUnavailable`) is a misfortune.
`HandlerObeys` is the handler that throws when its signal is aborted.

### ShopLock

Time is explicit because the lock is about time: `now` is one clock for every
process, a statement carries the instant its sender read, and it is executed at
any later instant or, if it may be lost, never. The INSERT (`Ask`, then
`Acquire`, `Busy`, or `AskLost` and `OrphanLands`), the heartbeats (`Beat`,
`BeatLands`, `BeatFails`), the two reads of `assertHeld` (`AssertReadsLock`,
`AssertReadsShop`), its return (`AssertReturns`, any time after the second read) and
the DELETE of the release are separate steps. The abort signal (`Interrupt`) comes at
any time and is modelled where somebody looks at it: before the work and during it. `checked` is `ultimaVerifica`, counted from the
instant the verification *started*. Erasers skip the check of the shop
(`duringErasure`), mark it (`Mark`, `beginShopErasure`) and delete it (`Erase`).
`lostAt`, `endedAt`, `markedAt` are history variables for the properties.

### SyncRun

`src` is what Shopify says of each product and customer (a version, the date of
its last change, and whether it is eligible or has given consent), `copy` the
version the merchant's rows reflect, `repair` the table, `watermark` the greatest
`watermark_at`, `connected` the date of the connection (`supabaseConfig.updatedAt`),
`run` the memory of each run. A run starts (`Start`: lock,
watermark, open repairs), goes through the items (`Fetch`), looks for the
obsolete rows of a product (`Tidy`, `DeleteFails`), writes it (`Write`,
`WriteFails`), and at its end `Commit`s, `Overflows` or, anywhere, `Fails` or is
`Stopped` by `assertHeld`. `Commit` is the transaction of `commitSyncRun`:
`Committed` is the table after it, `OpenAfter` and `IsBoundary` the hold-back.
Beside it, items are modified (`Modify`) by a clock up to `Skew` away from ours,
webhooks write (`Deliver`, `DeliverLate`), dead repairs are replayed (`Replay`),
the row of the connection is written again, which moves its date (`Reconnect`),
and the lease of a paused run expires (`LoseLock`).

The history begins when the database was connected, with nothing synchronised and no
watermark; the items `Older` were last modified before that. Either kind of run may be
the first: the cron asks for periodic runs of a shop whose bulk runs all failed
(`hasPlanChanged` is false as long as nothing was synchronised). Without a watermark a
periodic run reads from `connected` (`DeltaFloor`), without subtracting the overlap.

Which site opens which repair follows `failure-taxonomy.ts`: in a periodic run
the failed upsert and the failed deletion of a product, in both kinds the failed
withdrawal of a consent; a failed write of a bulk run or of a consenting customer
ends the run. Customers are withdrawn *without* `assertHeld`, and the commit does
not ask for the lock either (`Asserts`).

Abstractions: a page is read item by item; `assertHeld` and the write behind it
are one step (what happens in between is `ShopLock`); products of a plan with a
quota, orders, the sweep of the catalogue and birth dates are left out;
`sourceUpdatedAt` is never null; a repair that is done has no row; the merchant
keeps one database for good, so that `Reconnect` empties no row; the page limit of a
bulk run is not modelled. `passed`, `overtaken`, `unheld` and `missed` are history
variables for the properties: `missed` are the items that a periodic run without a
watermark would not read, until they are modified or a bulk run under the lock ends well.

### WebhookInbox

`feed` is what Shopify sent and whether it was answered, `row` the table,
`consumer` an invocation: the immediate work of a receipt (`Launch`) or a round of
the drain with the list it has read (`StartDrain`, `NextInList`, `EndDrain`).
`Receive` is the route: it records (`Record`, with its unique delivery id) and
answers, or one of the two is lost (`ReceiveFails`) and Shopify delivers again.
`Claim` is the conditional update of `processWebhookEvent`, `Load` and `Read` the
reads behind it, and the processors write in the order of the code: an order
first its row (`WriteOrder`), then its lines (`WriteParts`), then the lines that
are left over (`Sweep`); a deletion its parts (`WipeParts`), then the order
(`WipeOrder`); a product only its parts. Each step can fail (`StepFails`) or be
the last of its process (`Crash`). `Conclude` writes by id alone, as `concludi`
does. `Reset` is the drain that puts back a row it has listed as stale.

Abstractions: a resource is its version on Shopify and a part the version that
wrote it. `Garble` is a body from which no trigger can be distilled. `Skip` is any
return of a processor that calls its delivery done before it has written: the
capability is denied, the shop is not connected or gone, the resource cannot be read or
has no id. Both are bounded as misfortunes, since each leaves the copy as it was; the
theorems hold for any number of them. A product without a row worth writing has its
rows removed, which `Sweep` stands for. The versions Shopify announces come in
deliveries of their own, one per change (`Announce`). `applied`, `skipped`,
`takenBack`, `overlapped` and `loose` are history variables.

### Compliance

`shop` is the row of the domain (which installation, and whether it is being
erased), `lock` the lock as the holder sees it, `row` the requests, `proof` the
proofs of erasure, `worker` the memory of an invocation of
`processComplianceRequest`. A worker `Claim`s, looks for the proof (`ReadProof`),
the shop (`FindShop`), the lock (`TakeLock`, which is refused when a run has it),
marks (`Mark`, a commit of its own) and erases with the proof in one transaction
(`Erase`); or works for one customer (`Work`, `Collect`). `Save` is the record of
the outcome, which must precede `Close`; after an erasure `RemoveRows` removes
all requests of the domain. Every failed step leads to `GiveUpOrRetry`, which
like `Close` carries the lease (`Guardia`); `RemoveRows` does not. The merchant
may install the app again at any moment (`Install`).

Abstractions: the lock is that of `ShopLock` without its clock: `LoseLock` is a
pause that outlasts the lease of the lock, `Outlive` one that outlasts that of the
request. What is gathered or erased for one customer is one step. `served`,
`erased`, `overtaken`, `unguarded` and `swept` are history variables.

### ConsentRegister

`user` and `customer` are the rows of the merchant that name a browser: its own
(with a link to the customer and a pointer to the browser it was merged into) and
`customers.external_id`. `row` is the register, `worker` an invocation that works
a revocation (`Read`, `FindShop`, then the three gestures of `forgetVisitor`:
`Unlink`, `Pointers`, `Delete`, then `Conclude`), begun by the route (`Revoke`,
which answers when it ends: `Answer`) or by the drain (`Drain`). `link` is an
invocation of `linkUserToCustomer` (`Identify`, `List`, `Merge`, `Remember`) or of
the route that gives a browser its identifier (`Visit`, `Check`); both run without
any lock beside the workers.

Abstractions: one shop and one customer; the oldest browser is the one issued
first. A customer has fewer browsers than the limit at which the oldest are
forgotten. `Connect` connects and disconnects the project of the merchant.
`answered`, `forgotten`, `spared`, `late`, `pruned` and `handed` are history variables.

### Billing

`sub` is each subscription on Shopify, `news` what Shopify announced and nobody has
worked to the end, `shop` is `active_charge_id`, `charge` the status of each row, and
`worker` the memory of an invocation: a request of the merchant or a delivery
(`Visitors`), or a round of the cron (`Rounds`). The merchant asks for a plan
(`Subscribe`, `WriteRow`), approves it on Shopify (`Approve`) and comes back
(`Return`), once or again: the transaction of the callback (`Spend`) spends the
attempt, moves the shop and marks the other rows superseded, in one step;
`AskActives` and `Enqueue` add what Shopify says is alive, and the outbox is
drained (`List`, `Cancel`, `Record`) by the callback and by the cron. The free plan
cancels first and writes afterwards (`CancelCurrent`, `WriteFree`). A delivery
(`Deliver`) and the reconciliation (`ReadShop`, `Ask`) read the shop, and write it
later and in two statements (`Apply`, `MarkActive`; `Downgrade`, `MarkEnded`),
whatever it has become.

Abstractions: one shop, each subscription for a plan of its own; prices, trials
and names are left out, and so is the uninstallation that the reconciliation may
find out. The reconciliation takes every shop at each round: its batch of twenty, whose
failing shops keep the head of the line (`reconcile.server.ts:89-120`), is not modelled.
What the code calls a cancellation without error is one of two things
(`CancelOnShopify`): the subscription ends (`End`), or Shopify refuses in words that
`isAlreadyGone` takes for success and it goes on living (`RefuseAsGone`), a pending one
included. A frozen subscription (`Freeze`) is announced as an end and recorded
'cancelled', but is only held: it may be paid and live again (`Thaw`), or end. `held`
and `refused` are history variables of these two; both are bounded as misfortunes.
The nonce of an attempt is not kept
apart from its status, since no row goes back to "pending". `Deliver` may have
nothing to say for a name that does not tell the plan. A delivery stays in `news`
until its work ended well, as `WebhookInbox` shows.

## 3. Runs and bounds

- `sync_queue`: one row, two drains (cron and fast lane), 2 attempts, 3
  misfortunes. Rows only meet through the dedup index and their shop, so one row
  shows every race between drains; two drains are the two parties of each race
  (holder and successor), and a slot is used again after its end, so a third
  drain is among the behaviours. Three tokens are one more than the drains that can
  remember one, so that a fresh one is always there. Three misfortunes allow a pause, a crash and a
  failed statement in one behaviour. Liveness is checked here.
- `sync_queue_kinds`: three rows, two with one dedup key and one of a type this
  version does not know, one drain with a batch of two: the dedup index, refused
  rows, replays of several dead letters, pruning, a second row after the first.
- `shop_lock`: an ordinary run and one of `shop/redact`, TTL 2, cache 2, clock to
  4, one heartbeat in flight, one misfortune. The numbers keep the order
  cache <= TTL of the code (5 s, 60 s) with every boundary (`<`, `<=`) reachable.
  Deadlock is not checked: the clock and the invocations of this model end.
- `sync_run`: a product and a customer (the three kinds of repairs), two runs, of
  which a second can start only when the first lost the lock; a ledger of one
  repair, so that it overflows; two attempts, so that a repair goes to dead
  letter; two versions and two misfortunes. Clock to 1, no overlap and no skew:
  this run is about interleavings. The product is older than the connection, the customer is
  not. The runs are symmetric.
- `sync_run_clocks`: the same with one run, an overlap and a skew of one instant
  and a clock to 2: this one is about dates, with `Skew = Overlap`, the limit of
  what the overlap can bear. `ConstantsAssumption` states `Skew <= Overlap`: the
  two minutes of `WATERMARK_OVERLAP_MS` are there to cover the skew of clocks.
- `webhook_inbox`: two deliveries about one resource (order or
  product, change or deletion, in any order of arrival), two invocations, two
  attempts, a drain that takes one row, two versions, one misfortune. Two
  deliveries are what it takes to reorder or overlap; a batch of one makes the
  other wait for the next drain. The failure of a first attempt is the misfortune, and
  those of later attempts are free, so that dead letter by repeated failure is in the run,
  and so is the replay of a row that used its attempts.
- `compliance`: two deliveries of any of the three topics
  (two requests for access are of one practice), two workers, two attempts, two
  installations of the shop, one misfortune besides a lock that may be busy every time.
- `consent`: two browsers of one customer, of which one withdraws, two workers,
  one link or visit in flight, two attempts, one misfortune.
- `billing`: two subscriptions, the old plan and the new one, requests and
  deliveries one after the other in any order, beside rounds of the cron that never
  end, one misfortune, which may be a freeze or a refusal taken for an end. Two invocations are the two parties of each race: whoever
  reads the shop, and whoever changes it meanwhile; the callback and the cron drain
  at once. `billing_double` is the same without misfortunes.
- the `violation` runs each check one sentence of the documentation; section 6.

Misfortunes (`MaxFaults`) bound what the code can do nothing about: crashes,
lost answers, failed statements, signals, replays by an operator. All bounds are
constants, and the proofs hold for every value of them. Not counted, because they are
ordinary: a busy lock, an expired delay, a handler that fails, the actions of merchants,
visitors and Shopify.

## 4. Properties

Each passing run of a whole module also checks the inductive invariant the proofs
use (section 7): `IInv` of `ShopLock` and `SyncRun`; of the others the stronger
`PInv` (`SyncQueue`, `Compliance`, `ConsentRegister`), `CInv` (`WebhookInbox`) and
`RInv` (`Billing`), which contain `IInv`.

SyncQueue. `CompletedWasRun`: a completed row was run to the end under its
*latest* claim. `DeadLetterEarned`: a row in dead letter was refused or has used
its attempts, although the decision is taken on a remembered count.
`ClosedByItsHolder`: a row leaves "processing" only by a statement of the drain
that made its latest claim. `ImplementsWorkQueue`: refinement of `WorkQueue`,
where a claim discards the work of the claim before. `EverySettled`: every
accepted request is completed, dead-lettered or gone with its shop, unless it is turned
away by a busy shop again and again for ever, since such an attempt is given back. Its
mutant gives back the attempt of a run that reached the time limit.

`AttemptsArePaid`, part of `PInv`: attempts pass `MAX_ATTEMPTS` only by as many as
there were misfortunes. It is what remains true of the sentence that
`sync_queue_crash_loop` refutes, and holds of `Compliance` and `ConsentRegister` too.

ShopLock. `ImplementsShopLease`: refinement of `ShopLease`, where the shop has one
holder, a lease that stands is ended by its holder alone, renewals and releases of
former holders do nothing, and only a shop that was given to somebody sends a run away.
`DeadHolderLetsGo`, `PermitFollowsLock`, `PermitFollowsErasure`: a dead holder, whatever
its messages in flight, closes the shop for at most one TTL after its end; a
permit to write is only given out of a verification that began before the loss
of the lock, or within the cache window; and the same for the erasure. A verification
that began before may give its permit arbitrarily later, when its answer was in flight
while the process was paused: the code does not look at the clock when it returns
(section 6). Proved, and not
listed in a run: `LiveLeaseIsSafe` (the same as the second promise, with the step of
the code that ends the lease) and `LostIsLost` (whoever lost the lock never has it again).

SyncRun. `NothingForgotten`: what the merchant's rows still miss lies after the
watermark or has an open or dead repair. It excuses the items that a run without
the lock has written or whose repair it has closed, and the products a slow
webhook overwrote, until they are written in order again; that the first excuse is
needed is the run `sync_run_late_commit`. It excuses also the items older than the
connection, until they are modified or a bulk run ends well under the lock: a first
periodic run leaves a watermark without having read them (section 6). `RepairsAreReread`: a pending repair of a
product is of a product that the next periodic run reads, since nothing else
retries it; it excuses replayed repairs (section 6) and whatever a run
committed without the lock. For the repair of a consent the second property is
not stated: a bulk run leaves it behind with a hold-back below a watermark that
exists already, and as with a replay the greatest watermark counts.
`NothingForgotten` says that such a consent had been withdrawn in the rows before, or
has its repair: the repair only stays open until a bulk run closes it.

WebhookInbox. `AcceptedIsKept`: what was answered 200 is in the table until it
is applied or skipped. `CompletedIsApplied`: a completed delivery was worked to its end,
or skipped by an early return of its processor, although its outcome is written by id. `OneProcessorPerDelivery`: two invocations
work one delivery only if a drain put its row back. `SerialWorkConverges`: in
whatever order deliveries are worked, repeated or cut, the copy ends up as Shopify
has it; excused are resources two processors worked at once (section 6
says why), those whose latest delivery was skipped, and those the code leaves to the
periodic run. `EverySettled`: at last no delivery is queued or being worked, since
deliveries and replays come to an end. Proved, and not
listed in a run: `DrainsGoOn` (a drain that starts while a row is ready lists one, its list
has a first row as long as it has rows, and is never longer than the batch).

Compliance. `CompletedIsServed`: a request is only declared completed when it was
carried out. `OneErasurePerDelivery`: however often a shop/redact is repeated or
overtaken, it erases one installation, so a merchant who comes back is safe from
the old request. `ErasureIsProved`: what was erased has its proof, and a proof is
of an erasure unless somebody lost the lock. `AcceptedIsKept`: an answered request
is in the table until it is carried out, known to be a repetition, or gone with
its shop. `DeadLetterHadAllAttempts`; all of them may have found the lock busy.
`ClosedShopIsPursuedOrGivenUp`: a shop that was closed for its erasure has an
invocation at work on it or a request that a claim will take, or else a request in dead
letter that has used all its attempts. No single failure or crash leaves it closed
with nothing to show for it; that it stays closed once the attempts are used up is what
the code does (section 6). It excuses behaviours in which a request was swept away by
the end of another or overtaken. `EverySettled`.

ConsentRegister. `AppliedIsForgotten`: what was applied leaves no row of the
browser and none comes back; the names of it that are written while the erasure
goes on or later are excused (section 6). `RevokedIsNotHandedBack`: an identifier
whose revocation was answered is not given back as long as the register has its
row. `AnsweredIsKept`, `DeadLetterHadAllAttempts`, `EverySettled`.

Billing. `CancelledWasAnswered`: a row is only closed on an answer of Shopify,
whichever of five writers closed it: the subscription has ended, or Shopify has said
what the code takes for that (it is frozen, or refuses in such words; section 6). A
call that failed or whose answer was lost closes nothing. `ReplacedIsCancelled`: what a
callback replaced is in the end cancelled on Shopify, whatever fails, unless its row
was marked active again meanwhile, or closed on what was taken for an end (section 6). `AlignedAtLast`: whatever was
announced late, twice or never, and whoever overwrote whom, the shop ends up with a
plan somebody pays for, or with none when nobody does. `PlanWasApproved`, part of
`RInv`: the shop is never moved to what the merchant did not approve. Proved, and not
listed in a run: `ExcessIsRemembered`, the safety half of `ReplacedIsCancelled` (what a
callback replaced stays in the outbox until it has ended, is taken for ended or is
marked active again), and `ApprovalIsSpentOnce` (a row that was spent never waits for its approval again).

## 5. Fairness

`sync_queue`. Assumed, with the code that justifies it: a
drain of every shop is started again and again (the cron calls the route every
half hour); a living drain goes on, since every await of `lavora` ends within
`MAX_RUN_MS` (`timeout`, abort signal) and the drain itself has no other wait;
the instants `next_attempt_at` and `lease_expires_at` of an orphan pass. No
fairness for producers, fast lanes, or the good outcome of any handler: a
handler that fails for ever ends in dead letter. Nothing is assumed of the lock: a shop
may be busy, or 'erasing', for ever, and then its rows go round as in the code. That is
the second disjunct of `EverySettled`, `[]<><<TurnedAway(r)>>_vars`, for each row.

`webhook_inbox`, `compliance` and `consent` assume weak fairness of `Ordinary`,
the disjunction of what goes on without anybody's help: a live invocation goes
on, instants pass, the cron drains what is ready (`routes/api.cron.sync.tsx` calls
the three drains at every round). One condition for all of it is enough because
these steps cannot go on for ever without settling a request: each claim counts
an attempt. Nothing is assumed of Shopify, of visitors, of the merchant, of the
lock of the shop or of the outcome of any step: a shop that is always busy ends
in dead letter.

`billing` assumes that the cron starts its rounds again and again and that a live
invocation goes on. Nothing is assumed of the merchant, of deliveries, which may
all be late or lost, or of Shopify beyond the bound of misfortunes: `AlignedAtLast` says
that the shop comes right once subscriptions are no longer frozen and announcements no
longer lost, which in a model without the bound would have to be assumed. A round finds the
shop due to be compared: the interval of the comparison only decides which round.

## 6. What the documents say and the code does not do

Each is a `finding` of PROJECT.json with its quotation; the ones headed by the
name of a run have a counterexample there, the others were read off the code.

- `sync_queue_crash_loop`: a row whose handler kills the process is claimed
  without end; only the failure path compares attempts with the limit.
- (shutdown, `drain.server.ts:427`) a shutdown that the handler obeys by throwing consumes
  the attempt.
- (time limit, `drain.server.ts:401`) a run that reaches the run limit consumes the attempt.
- (token, `shop-lock.server.ts:337`) the fencing token restarts at one after each release.
- (cache, `shop-lock.server.ts:281`) inside the cache window a run is permitted to write although
  the lock is already somebody else's, and, with the answer of the verification in flight,
  however late.
- `sync_run_late_commit`: a run that lost the lock commits without asking for it,
  and closes by id the repair a newer run has reopened: the item is lost.
- (replay, `repair-outbox.server.ts:308`) a replayed repair does not hold the boundary back, since the
  greatest watermark counts and it has passed already.
- (first watermark, `watermark.ts:49`) without a checkpoint the delta does not start at
  the connection but at the last update of its row, and the first periodic run of a shop
  without a bulk run leaves a watermark past everything older.
- (orphans, `processors.server.ts:1633`) the repair of a failed deletion is closed by a run that could
  not look for obsolete rows.
- (ineligible, `processors.server.ts:1596`) the repair of a product that is no
  longer eligible, or has no place in the quota, is never tried, counted or closed.
- (back-off, `repair-outbox.server.ts:105`) `nextAttemptAt` of a repair is read by
  a function nobody calls: repairs are retried at each run.
- (parallel, `handle-order.server.ts:330`) an upsert that has read a resource before its deletion
  brings it back after the deletion was worked.
- (busy, `shop-record.server.ts:208`) a busy lock costs the request an attempt, and
  five of them the request.
- (sweep, `process-compliance.server.ts:270`) the end of an erasure removes the
  open requests of the shop that was installed since.
- (closed, `erasure-guard.server.ts:107`) a shop stays closed for an erasure nobody will make.
- (given up, `process-compliance.server.ts:632`) after the last failed attempt of its
  erasure a shop stays "erasing" for ever, and its rows in the queue go round uncounted.
- (proof, `shop-record.server.ts:288`) an eraser that lost the lock may prove an
  erasure it did not make.
- (attempts, `process-compliance.server.ts:174`) the attempts of a privacy request
  are not bounded.
- (link, `users.server.ts:435`) a link in flight names a forgotten browser again,
  and a second revocation does nothing.
- (dead, `revoke-tracking.server.ts:83`) a revocation in dead letter is answered ok.
- (reuse, `rest.v1.$table.tsx:221`) the read proxy gives a revoked identifier back.
- (disconnected, `revocation-register.server.ts:184`) a revocation is closed while
  the project is disconnected, and the names are there when it is connected again.
- `billing_double`: the announcement of a new subscription is worked before the
  merchant is back, and the old one is neither cancelled nor known to be in excess.
- (overlap, `cancel-outbox.server.ts:198`) a callback marks superseded, and has
  cancelled, the subscription another callback has just moved the shop to.
- (refusal, `subscription.server.ts:433`) a refusal that mentions "cancelled" or "not
  active" closes the row of a subscription that may live.
- (frozen, `billing.callback.tsx:127`) a subscription that is only frozen is recorded
  cancelled, and is in no outbox when it lives again.
- (stale, `handle-subscription-update.server.ts:116`) an ended subscription takes the
  shop back to the free plan although a callback has moved it meanwhile.

## 7. Proofs

`SyncQueueProofs`, `ShopLockProofs`, `SyncRunProofs`, `WebhookInboxProofs`,
`WebhookConvergenceProofs`, `ComplianceProofs`, `ConsentRegisterProofs` and `BillingProofs`, checked by tlapm to the last leaf, for
all values of the constants (any number of rows, drains, shops, runs, items,
deliveries, requests, browsers, subscriptions; any TTL, cache, overlap, limits and bounds), from `ConstantsAssumption` of each module alone.

SyncQueue: `IInv` adds to the properties that a row carries a lease exactly
while in process (`LeaseShape`) and that what a drain remembers of a row *it
still holds* is what the row says, and that no statement is planned that is not
deserved (`MemoryIsSound`). Without the latter neither property is inductive: a
drain could be about to send "complete" for a row it never ran. `Holds` is what
makes it true in spite of superseded drains, whose memory says nothing. From
`IInv`: `CompletedMeansRun`, `DeadLetterMeansExhausted`, `ClosedOnlyByHolder`,
and step by step `Implementation` of `WorkQueue`.

Attempts (`SyncQueue`, `Compliance`, `ConsentRegister`): `AttemptsArePaid` is not inductive,
since the claim adds one without looking at the count. `PInv` adds that every row that
somebody may take, now or when its lease has run out, has one to spare
(`Takeable`, `Spare`): a row goes back to the queue on the ordinary ways only while its
attempts are below the limit, and on the others a misfortune has paid. The theorem
is `AttemptsPaid` of each proof module. Of `WebhookInbox` the same is not stated: two drains
that have listed one stale row each put it back and claim it, so that one
misfortune pays for several attempts.

ShopLock: `IInv` says that no process and no message knows a future instant
(`PastIsPast`), that a lease reaches at most one TTL from now and from the end
of its run, messages in flight included (`LeaseIsShort`), and that every
remembered verification, and every one that waits for its return, is older than the
loss (`VerifiedBeforeLoss`) or the erasure (`VerifiedBeforeErasure`). The action properties follow from it, and the
refinement of `ShopLease`: an INSERT that is executed finds no lease that stands because the
instant it carries has passed, a heartbeat renews for a run that waits for nothing any
more (`NotYet`), and every other action, the ticks that let the lease lapse
apart, leaves the lease as it is. `LostLocksAreLost` is then a fact about `ShopLease`.

SyncRun: neither property is inductive, since what a run has passed by without
writing is, until it commits, only in its memory. `IInv` therefore says of every
run, alive or superseded: its page is the item as it is, or the item was modified
so late that the boundary of this run cannot pass over it (`Fresh`, `PageIsSound`);
what it went through and is missing is in its ledger, in the table, or fresh
(`LedgerIsComplete`); its stamps are those of the past (`MemoryIsPast`). A periodic run
has passed by what lies below its floor from the moment it starts (`IsBehind`); with a
watermark that is remembered already, without one it is in `missed`, since as long as
there is no watermark every item outside `missed` is at least as recent as the
connection (`StampsAreReached`). Of the
*holder* it says more: it started last (`HolderIsLast`), what it resolved is not
missing, and it knows every pending repair (`HolderIsInformed`). A run that lost
the lock has only the first part, and that is exactly what the excuse of
`NothingForgotten` pays for. `CommitStep` is the heart of the proof.
`NothingIsForgotten` and `TheBoundaryWaits` follow from `IInv`.

WebhookInbox: `IInv` says of every invocation what it has applied so far
(`MemoryIsSound`), of every row that is closed that it was applied or skipped
(`ClosedIsApplied`), and that a row which nobody put back has one holder
(`HoldersAreAlone`). The claim is what makes the third inductive and `Reset` what
breaks it, hence `takenBack`.

`SerialWorkConverges` is about the merchant's rows and needs more, in `CInv`, proved in
`WebhookConvergenceProofs`: the last thing that happened to a resource was announced
(`FeedIsTrue`); a processor works what its delivery announces and has read nothing
Shopify did not have (`ProcessorFits`); what it wrote is still there at its next step
(`CopyFits`); two processors work a resource at once only where that was written down
(`WorkedAlone`). `AppliedAgrees` joins them: once the latest delivery was applied the copy
agrees, and whoever still works the resource writes what is there already. The
resources in `overlapped` and `loose` are excused, and those whose latest delivery was
only skipped, and no others.

`DrainsNeverStick` needs `RecordedInOrder`: `received_at` puts the finitely many recorded
rows in one line, so that each set of them has a first and a last one.

Compliance: the invariant has three layers, proved in this order because each needs
the one before. `MemoryIsSound`, `RowsAreSound` and `HoldersKnowTheAttempt` are about
one invocation and its row, and hold whatever is overtaken: whoever still holds the row
knows its attempt, whoever is about to close it has served it. `InstallsAreCounted`
and `LockIsHeld` are about the shop: an installation is erased once, and by the holder
of its lock as long as nobody lost it. `HoldersAreAlone` and `ClosedByAnOpenDelivery`
are about the lease: as long as no lease is outlived and no row swept away, the
delivery that closed a shop has neither its proof nor any way to end without the
erasure but by using up its attempts. For the last it is not enough that its row is open: it must not be on the
way to a proof that erases nothing (`proofOnly`), which is why the witness says where its
invocations are.

ConsentRegister: `AppliedIsForgotten` is only inductive together with what the
worker has erased so far, step by step: the name of the customer, the pointers,
the row (`MemoryIsSound`), where each may be undone by a link that was in flight,
which puts the browser in `late`. `HolderIsInformed` says that whoever still
holds a row knows its attempt and finds its subject, which is why a superseded
invocation cannot bring it to dead letter.

Billing: what makes `CancelledWasAnswered` inductive is that an invocation about to
close a row knows of Shopify something that cannot become untrue
(`MemoryIsSound`), and that what was announced has happened (`NewsIsSound`,
`FrozenIsHeld`): a shop may have changed since it was read, an ended subscription may
not, and that one was frozen or refused remains so. From `IInv`:
`CancelledAnswered` and `PlansWereApproved`. `ExcessRemembered` and `ApprovalSpentOnce` need
`RInv`: the row that a request for a plan is about to write is not there yet, and its
subscription known to nobody else (`RowsToWrite`). A late write could otherwise open a row
again that was spent or superseded.

`WebhookInbox`, `Compliance` and `ConsentRegister` have no refinement of `WorkQueue`: an
outcome is written by id in the first, rows are removed and recorded again in the
others, and `WorkQueue` allows neither. What they promise is stated by their own properties.

Every safety invariant and every action property a passing run checks is proved. Only
model-checked: the `EverySettled` of four modules, `ReplacedIsCancelled` and
`AlignedAtLast` (liveness under fairness is beyond the prover), and the violations.

## 8. Not modelled

See `components` in PROJECT.json for the reason of each. In short: rendering,
formatting and read-only queries (UI, feeds, statistics, i18n, legal texts);
stateless predicates (capabilities, limits, eligibility); wrappers of external
services (Shopify and Supabase clients, OAuth); request-scoped endpoints
(ingest, tracking, read proxy). The parts with state that are not modelled yet
are the plan.

## 9. Plan

1. `SyncRun` extended: the liveness of repairs (a resource whose writes succeed
   again ends without a repair), the quota, the page of a bulk run.
2. Composition of the drain and the lock: at most one run of a shop writes, and
   a run of the queue is a run of `SyncRun`.
3. `AutoResume`: the state of the database in the cache, the memory of the attempts,
   the project at Supabase, rounds of the cron beside the dashboard. Questions that
   reading the code leaves open, and a model has to answer: whether the attempts are
   given back at all (`resetAutoResumeAttempts` needs a round that finds the project
   active, but a sync that completes first renews the proof of life, and
   `vaInterrogato` then asks no more), whether a refresh that read the cache before
   the merchant pressed the button writes the request away
   (`refreshDatabasePauseState`), and whether a project that comes back through a state
   classified `sconosciuto` starts its sync again (`syncShouldRestart`). Then
   `IntegrationImport`.
4. Pure algorithms (back-off, dedup window) against reference definitions.
