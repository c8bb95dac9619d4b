---------------------------- MODULE WebhookInbox ----------------------------
(***************************************************************************)
(* The inbox of the webhooks: Shopify announces that an order or a product *)
(* changed, the route writes a receipt and answers 200 (receive.server.ts, *)
(* inbox.server.ts), and the receipt is worked at once by the invocation   *)
(* that took it, or later by the drain of the cron.  The processors read   *)
(* the resource again on Shopify and write it into the merchant database   *)
(* (handle-order.server.ts, handle-product.server.ts, order-write).        *)
(*                                                                         *)
(* Abstractions.  A resource is its version on Shopify.  In the merchant   *)
(* database it has a row of its own (orders only; 0 is no row) and parts   *)
(* (the lines of an order, the variants of a product), one per version     *)
(* that was written.  `due' and `stale' stand for nextAttemptAt <= now and *)
(* startedAt < now - WEBHOOK_STALE_MS.  A consumer is an invocation: the   *)
(* immediate work of one receipt, or one round of the drain.               *)
(***************************************************************************)
EXTENDS Integers, FiniteSets

CONSTANTS
  Events,       \* the deliveries of Shopify, numbered as it announces them
  NoEvent,
  Resources,    \* the orders and products they speak of
  Consumers,    \* the slots in which invocations run
  ResourceOf,   \* the resource of each delivery
  MaxAttempts,  \* MAX_WEBHOOK_ATTEMPTS
  DrainBatch,   \* DRAIN_BATCH
  MaxVersion,   \* bound: how often a resource changes
  MaxFaults     \* bound: misfortunes in one behaviour

Kinds == {"upsert", "delete", "unreadable"}
Shapes == {"order", "product"}

ASSUME ConstantsAssumption ==
  /\ Events \subseteq Nat
  /\ NoEvent \notin Events
  /\ ResourceOf \in [Events -> Resources]
  /\ MaxAttempts \in Nat \ {0}
  /\ DrainBatch \in Nat \ {0}
  /\ MaxVersion \in Nat
  /\ MaxFaults \in Nat

VARIABLES
  shopify,     \* each resource on Shopify, and whether it is an order or a product
  copy,        \* each resource in the merchant database
  feed,        \* where each delivery is, and what it announces
  row,         \* the table webhook_events
  consumer,    \* the memory of each invocation
  applied,     \* history: deliveries whose change a finished processor took into account
  skipped,     \* history: deliveries a processor closed without writing anything
  takenBack,   \* history: deliveries whose row a drain put back while it was processing
  overlapped,  \* history: resources two processors worked at the same time
  loose,       \* history: resources left for the periodic run to go over again
  faults       \* how many misfortunes happened

vars == <<shopify, copy, feed, row, consumer, takenBack, applied, skipped, overlapped,
          loose, faults>>
world == <<shopify, copy, skipped, overlapped, loose>>

Statuses == {"absent", "queued", "processing", "completed", "dead_letter", "pruned"}
InTable == {"queued", "processing", "completed", "dead_letter"}
Outcomes == {"none", "done", "retry", "dead_letter"}

ShopifyType == [shape : Shapes, version : 0 .. MaxVersion, gone : BOOLEAN]
CopyType == [order : 0 .. MaxVersion, parts : SUBSET (0 .. MaxVersion)]
FeedType ==
  [stage : {"unsent", "sent", "acked"}, kind : Kinds, version : 0 .. MaxVersion]
\* `after' stands for received_at: the deliveries that were recorded before.
RowType == [status : Statuses, attempts : Nat, due : BOOLEAN, stale : BOOLEAN,
            after : SUBSET Events]

\* The steps of the processors, between the claim and the outcome.
Working == {"read", "order", "parts", "sweep", "wipeParts", "wipeOrder"}
PCs == {"off", "loop", "reset", "claim", "load", "conclude"} \cup Working

ConsumerType ==
  [pc : PCs, drains : BOOLEAN, event : Events \cup {NoEvent}, todo : SUBSET Events,
   stuck : SUBSET Events, served : BOOLEAN, seen : Nat, read : 0 .. MaxVersion,
   out : Outcomes]

TypeOK ==
  /\ shopify \in [Resources -> ShopifyType]
  /\ copy \in [Resources -> CopyType]
  /\ feed \in [Events -> FeedType]
  /\ row \in [Events -> RowType]
  /\ consumer \in [Consumers -> ConsumerType]
  /\ applied \subseteq Events
  /\ skipped \subseteq Events
  /\ takenBack \subseteq Events
  /\ overlapped \subseteq Resources
  /\ loose \subseteq Resources
  /\ faults \in 0 .. MaxFaults

NoRow == [status |-> "absent", attempts |-> 0, due |-> FALSE, stale |-> FALSE, after |-> {}]

Off == [pc |-> "off", drains |-> FALSE, event |-> NoEvent, todo |-> {}, stuck |-> {},
        served |-> FALSE, seen |-> 0, read |-> 0, out |-> "none"]

Init ==
  /\ shopify \in [Resources -> {[shape |-> s, version |-> 0, gone |-> FALSE] : s \in Shapes}]
  /\ copy = [x \in Resources |-> [order |-> 0, parts |-> {}]]
  /\ feed = [e \in Events |-> [stage |-> "unsent", kind |-> "unreadable", version |-> 0]]
  /\ row = [e \in Events |-> NoRow]
  /\ consumer = [c \in Consumers |-> Off]
  /\ applied = {}
  /\ skipped = {}
  /\ takenBack = {}
  /\ overlapped = {}
  /\ loose = {}
  /\ faults = 0

-----------------------------------------------------------------------------
(* Vocabulary *)

Misfortune ==
  /\ faults < MaxFaults
  /\ faults' = faults + 1

Exhausted(n) == n >= MaxAttempts

StatusAfterAttempt(out, attempts) ==
  CASE out = "done"        -> "completed"
    [] out = "dead_letter" -> "dead_letter"
    [] OTHER               -> IF Exhausted(attempts) THEN "dead_letter" ELSE "queued"

\* Fault: nobody takes over the rows of dead invocations.
ReadyOnlyQueued(e) == row[e].status = "queued" /\ row[e].due

\* What a drain may take up: due rows, and rows whose invocation seems dead.
Ready(e) ==
  \/ row[e].status = "queued" /\ row[e].due
  \/ row[e].status = "processing" /\ row[e].stale

\* The list a drain works: the oldest DrainBatch of the ready rows.
ReadyList ==
  {e \in Events : Ready(e) /\ Cardinality({f \in row[e].after : Ready(f)}) < DrainBatch}

Target(c) == ResourceOf[consumer[c].event]

\* An invocation that believes it holds the row of its delivery.
Holding(m) == m.pc \in Working \cup {"load", "conclude"}

HeldInMemory(e) == \E c \in Consumers : consumer[c].event = e /\ Holding(consumer[c])

BusyWith(x) == \E c \in Consumers : consumer[c].pc \in Working /\ Target(c) = x

Update(c, changed) == consumer' = [consumer EXCEPT ![c] = changed]

Goto(c, pc) == Update(c, [consumer[c] EXCEPT !.pc = pc])

\* The processor has its outcome.
Ends(c, out) == Update(c, [consumer[c] EXCEPT !.pc = "conclude", !.read = 0, !.out = out])

\* What c becomes when it has no more to do with its event: an immediate
\* invocation is over, a drain goes on with its list.
Released(c) ==
  IF consumer[c].drains
  THEN [Off EXCEPT !.pc = "loop", !.drains = TRUE, !.todo = consumer[c].todo,
                   !.stuck = consumer[c].stuck, !.served = TRUE]
  ELSE Off

-----------------------------------------------------------------------------
(* Shopify *)

Announce(e, kind) ==
  /\ feed[e].stage = "unsent"
  /\ \A f \in Events : f < e => feed[f].stage # "unsent"
  /\ feed' = [feed EXCEPT ![e] = [stage |-> "sent", kind |-> kind,
                                  version |-> shopify'[ResourceOf[e]].version]]
  /\ UNCHANGED <<takenBack, skipped, copy, row, consumer, applied, overlapped, loose>>

\* The resource of e is created or changes.
Change(e) ==
  LET x == ResourceOf[e] IN
  /\ ~shopify[x].gone /\ shopify[x].version < MaxVersion
  /\ shopify' = [shopify EXCEPT ![x].version = @ + 1]
  /\ Announce(e, "upsert")
  /\ UNCHANGED faults

Remove(e) ==
  LET x == ResourceOf[e] IN
  /\ ~shopify[x].gone /\ shopify[x].version > 0
  /\ shopify' = [shopify EXCEPT ![x].gone = TRUE]
  /\ Announce(e, "delete")
  /\ UNCHANGED faults

\* A body that names no resource.
Garble(e) ==
  /\ Misfortune
  /\ UNCHANGED shopify
  /\ Announce(e, "unreadable")

-----------------------------------------------------------------------------
(* receiveShopifyWebhook *)

\* Fault: the route answers 200 and leaves the receipt for later.
RecordNothing(e) == row' = row

\* recordWebhookReceipt: the unique index keeps one row per delivery, and the
\* body of a repeated delivery changes nothing.
Record(e) ==
  row' = IF row[e].status = "absent"
         THEN [row EXCEPT ![e] = [NoRow EXCEPT
                 !.status = "queued", !.due = TRUE,
                 !.after = {f \in Events : row[f].status # "absent"}]]
         ELSE row

\* The invocation that answered 200 sets to work, on a repeated delivery too; or
\* it dies first.
Launch(e) ==
  \/ \E c \in Consumers :
       /\ consumer[c].pc = "off"
       /\ Update(c, [Off EXCEPT !.pc = "claim", !.event = e])
  \/ UNCHANGED consumer

Accept(e) ==
  /\ Record(e)
  /\ feed' = [feed EXCEPT ![e].stage = "acked"]
  /\ Launch(e)
  /\ UNCHANGED <<takenBack, skipped, shopify, copy, applied, overlapped, loose>>

Receive(e) ==
  /\ feed[e].stage = "sent"
  /\ Accept(e)
  /\ UNCHANGED faults

\* An answer that came late: the delivery is repeated.  The seven days of
\* pruneWebhookEvents are longer than Shopify goes on redelivering.
Redeliver(e) ==
  /\ feed[e].stage = "acked" /\ row[e].status # "pruned"
  /\ Misfortune
  /\ Accept(e)

\* The receipt is not written, or is written and the answer is lost: Shopify
\* will deliver again.
ReceiveFails(e) ==
  /\ feed[e].stage = "sent"
  /\ Misfortune
  /\ Record(e) \/ UNCHANGED row
  /\ UNCHANGED <<takenBack, world, feed, consumer, applied>>

-----------------------------------------------------------------------------
(* The table between two invocations *)

BecomeDue(e) ==
  /\ row[e].status = "queued" /\ ~row[e].due
  /\ row' = [row EXCEPT ![e].due = TRUE]
  /\ UNCHANGED <<takenBack, world, feed, consumer, applied, faults>>

\* Five minutes pass over a row whose invocation is dead.
GrowStale(e) ==
  /\ row[e].status = "processing" /\ ~row[e].stale /\ ~HeldInMemory(e)
  /\ row' = [row EXCEPT ![e].stale = TRUE]
  /\ UNCHANGED <<takenBack, world, feed, consumer, applied, faults>>

\* The same over one whose invocation is only slow.
Outlive(e) ==
  /\ row[e].status = "processing" /\ ~row[e].stale /\ HeldInMemory(e)
  /\ Misfortune
  /\ row' = [row EXCEPT ![e].stale = TRUE]
  /\ UNCHANGED <<takenBack, world, feed, consumer, applied>>

\* pruneWebhookEvents removes old completed rows, and no dead letter.
Prune(e) ==
  /\ row[e].status = "completed"
  /\ feed[e].stage = "acked"
  /\ row' = [row EXCEPT ![e] = [NoRow EXCEPT !.status = "pruned", !.after = row[e].after]]
  /\ UNCHANGED <<takenBack, world, feed, consumer, applied, faults>>

\* replayDeadWebhookEvents.  Of a row that has used its attempts it is not counted as
\* a misfortune: its first failure was, and the next one will be.
Replay(e) ==
  /\ row[e].status = "dead_letter"
  /\ Misfortune \/ (Exhausted(row[e].attempts) /\ UNCHANGED faults)
  /\ row' = [row EXCEPT ![e] = [@ EXCEPT !.status = "queued", !.attempts = 0, !.due = TRUE]]
  /\ UNCHANGED <<takenBack, world, feed, consumer, applied>>

-----------------------------------------------------------------------------
(* drainWebhookEvents *)

StartDrain(c) ==
  /\ consumer[c].pc = "off"
  /\ ReadyList # {}
  /\ Update(c, [Off EXCEPT !.pc = "loop", !.drains = TRUE, !.todo = ReadyList,
                           !.stuck = {e \in ReadyList : row[e].status = "processing"}])
  /\ UNCHANGED <<takenBack, world, feed, row, applied, faults>>

\* The budget is looked at before each event, so a drain serves at least one.
EndDrain(c) ==
  /\ consumer[c].pc = "loop"
  /\ consumer[c].todo = {} \/ consumer[c].served
  /\ Update(c, Off)
  /\ UNCHANGED <<takenBack, world, feed, row, applied, faults>>

NextInList(c, e) ==
  LET m == consumer[c] IN
  /\ m.pc = "loop"
  /\ e \in m.todo /\ m.todo \cap row[e].after = {}
  /\ Update(c, [m EXCEPT !.pc = IF e \in m.stuck THEN "reset" ELSE "claim",
                         !.event = e, !.todo = m.todo \ {e}, !.stuck = m.stuck \ {e}])
  /\ UNCHANGED <<takenBack, world, feed, row, applied, faults>>

\* A row that was processing when the list was read is put back first, whoever
\* has it now.
Reset(c) ==
  LET e == consumer[c].event IN
  /\ consumer[c].pc = "reset"
  /\ IF row[e].status = "processing"
     THEN /\ row' = [row EXCEPT ![e] = [@ EXCEPT !.status = "queued", !.stale = FALSE]]
          /\ takenBack' = takenBack \cup {e}
     ELSE UNCHANGED <<row, takenBack>>
  /\ Goto(c, "claim")
  /\ UNCHANGED <<world, feed, applied, faults>>

-----------------------------------------------------------------------------
(* processWebhookEvent *)

\* A row as the claim leaves it.
Taken(e) ==
  [row[e] EXCEPT !.status = "processing", !.attempts = @ + 1, !.stale = FALSE]

\* Fault: the claim names the row and not its status.
ClaimAnything(c) ==
  LET e == consumer[c].event IN
  /\ consumer[c].pc = "claim"
  /\ IF row[e].status \in InTable
     THEN /\ row' = [row EXCEPT ![e] = Taken(e)]
          /\ Goto(c, "load")
     ELSE Update(c, Released(c)) /\ UNCHANGED row
  /\ UNCHANGED <<takenBack, world, feed, applied, faults>>

\* The claim: whoever comes second updates no row and goes away.
Claim(c) ==
  LET e == consumer[c].event IN
  /\ consumer[c].pc = "claim"
  /\ IF row[e].status = "queued"
     THEN /\ row' = [row EXCEPT ![e] = Taken(e)]
          /\ Goto(c, "load")
     ELSE Update(c, Released(c)) /\ UNCHANGED row
  /\ UNCHANGED <<takenBack, world, feed, applied, faults>>

\* The row is read back, and the processor of its topic begins.
Load(c) ==
  LET m == consumer[c]
      loaded == [m EXCEPT !.seen = row[m.event].attempts]
  IN
  /\ m.pc = "load"
  /\ IF row[m.event].status \notin InTable
     THEN Update(c, Released(c)) /\ UNCHANGED overlapped
     ELSE IF feed[m.event].kind = "unreadable"
     THEN /\ Update(c, [loaded EXCEPT !.pc = "conclude", !.out = "dead_letter"])
          /\ UNCHANGED overlapped
     ELSE /\ Update(c, [loaded EXCEPT
                          !.pc = IF feed[m.event].kind = "upsert" THEN "read" ELSE "wipeParts"])
          /\ overlapped' = overlapped \cup (IF BusyWith(Target(c)) THEN {Target(c)} ELSE {})
  /\ UNCHANGED <<takenBack, skipped, shopify, copy, loose, feed, row, applied, faults>>

-----------------------------------------------------------------------------
(* handleOrderUpsert, handleProductUpsert *)

\* What the processor read is not older than the change its delivery announces.
Fresh(c) ==
  \/ consumer[c].read >= feed[consumer[c].event].version
  \/ shopify[Target(c)].gone

\* A processor ends well: it took the change of its delivery into account, if
\* its reading was fresh.
Apply(c) == applied' = applied \cup {e \in {consumer[c].event} : Fresh(c)}

\* Fault: the processor writes what its delivery says, without reading again.
ReadTrigger(c) ==
  /\ consumer[c].pc = "read"
  /\ Update(c, [consumer[c] EXCEPT
                  !.pc = IF shopify[Target(c)].shape = "order" THEN "order" ELSE "parts",
                  !.read = feed[consumer[c].event].version])
  /\ UNCHANGED <<takenBack, world, feed, row, applied, faults>>

\* The processor closes its delivery and writes nothing: the shop is not connected,
\* or is one whose copy stands still (suspended, uninstalled, without the plan,
\* being erased); or the resource, although it exists, cannot be read or written
\* as rows.  Of these an order leaves at most a repair for the periodic run.  It
\* is counted among the misfortunes to bound it.
Skip(c) ==
  /\ consumer[c].pc \in {"read", "wipeParts"}
  /\ Misfortune
  /\ skipped' = skipped \cup {consumer[c].event}
  /\ Ends(c, "done")
  /\ UNCHANGED <<takenBack, shopify, copy, overlapped, loose, feed, row, applied>>

\* The resource is read again.  When it is gone nothing is written: the delivery
\* that announces the deletion will do it.
Read(c) ==
  LET x == Target(c) IN
  /\ consumer[c].pc = "read"
  /\ IF shopify[x].gone
     THEN Ends(c, "done") /\ Apply(c)
     ELSE /\ Update(c, [consumer[c] EXCEPT
                          !.pc = IF shopify[x].shape = "order" THEN "order" ELSE "parts",
                          !.read = shopify[x].version])
          /\ UNCHANGED applied
  /\ UNCHANGED <<takenBack, world, feed, row, faults>>

WriteOrder(c) ==
  /\ consumer[c].pc = "order"
  /\ copy' = [copy EXCEPT ![Target(c)].order = consumer[c].read]
  /\ Goto(c, "parts")
  /\ UNCHANGED <<takenBack, skipped, shopify, overlapped, loose, feed, row, applied, faults>>

WriteParts(c) ==
  /\ consumer[c].pc = "parts"
  /\ copy' = [copy EXCEPT ![Target(c)].parts = @ \cup {consumer[c].read}]
  /\ Goto(c, "sweep")
  /\ UNCHANGED <<takenBack, skipped, shopify, overlapped, loose, feed, row, applied, faults>>

\* The parts the resource no longer has.
Sweep(c) ==
  /\ consumer[c].pc = "sweep"
  /\ copy' = [copy EXCEPT ![Target(c)].parts = @ \cap {consumer[c].read}]
  /\ Ends(c, "done")
  /\ Apply(c)
  /\ UNCHANGED <<takenBack, skipped, shopify, overlapped, loose, feed, row, faults>>

\* The list of parts was truncated, and then nothing is removed; or the parts of
\* an order could not be removed, which does not fail the delivery either.
LeaveParts(c) ==
  /\ consumer[c].pc = "sweep"
  /\ Misfortune
  /\ loose' = loose \cup {Target(c)}
  /\ Ends(c, "done")
  /\ Apply(c)
  /\ UNCHANGED <<takenBack, skipped, shopify, copy, overlapped, feed, row>>

\* handleOrderDelete, handleProductDelete: the parts first, then the order.
WipeParts(c) ==
  LET x == Target(c) IN
  /\ consumer[c].pc = "wipeParts"
  /\ copy' = [copy EXCEPT ![x].parts = {}]
  /\ IF shopify[x].shape = "order" THEN Goto(c, "wipeOrder") /\ UNCHANGED applied
                             ELSE Ends(c, "done") /\ Apply(c)
  /\ UNCHANGED <<takenBack, skipped, shopify, overlapped, loose, feed, row, faults>>

WipeOrder(c) ==
  /\ consumer[c].pc = "wipeOrder"
  /\ copy' = [copy EXCEPT ![Target(c)].order = 0]
  /\ Ends(c, "done")
  /\ Apply(c)
  /\ UNCHANGED <<takenBack, skipped, shopify, overlapped, loose, feed, row, faults>>

\* Fault: a call that fails is a warning in the log, as before cleanup.ts.
StepFailsSilently(c) ==
  /\ consumer[c].pc \in Working
  /\ Misfortune
  /\ Ends(c, "done")
  /\ UNCHANGED <<takenBack, world, feed, row, applied>>

\* A call of the processor fails, and the delivery is to be tried again.  Only a
\* first attempt that fails counts as a misfortune: what failed may go on failing.
\* The sweep of an order fails without failing the delivery: see LeaveParts.
StepFails(c) ==
  /\ consumer[c].pc \in Working
  /\ ~(consumer[c].pc = "sweep" /\ shopify[Target(c)].shape = "order")
  /\ Misfortune \/ (consumer[c].seen > 1 /\ UNCHANGED faults)
  /\ Ends(c, "retry")
  /\ UNCHANGED <<takenBack, world, feed, row, applied>>

-----------------------------------------------------------------------------
(* The end of an attempt *)

\* The row as `concludi' writes it, by its id and on what was read at the load.
Settled(c) ==
  LET m == consumer[c]
      status == StatusAfterAttempt(m.out, m.seen)
  IN  [row[m.event] EXCEPT !.status = status, !.due = status # "queued", !.stale = FALSE]

\* When the row is no longer there the update throws: an immediate invocation
\* and a drain both end.
Conclude(c) ==
  LET e == consumer[c].event IN
  /\ consumer[c].pc = "conclude"
  /\ IF row[e].status \in InTable
     THEN row' = [row EXCEPT ![e] = Settled(c)] /\ Update(c, Released(c))
     ELSE Update(c, Off) /\ UNCHANGED row
  /\ UNCHANGED <<takenBack, world, feed, applied, faults>>

\* The database fails under an invocation, which ends; or the platform ends it.
Crash(c) ==
  /\ consumer[c].pc # "off"
  /\ Misfortune
  /\ Update(c, Off)
  /\ UNCHANGED <<takenBack, world, feed, row, applied>>

-----------------------------------------------------------------------------

Progress(c) ==
  \/ (\E e \in Events : NextInList(c, e)) \/ EndDrain(c) \/ Reset(c) \/ Claim(c) \/ Load(c)
  \/ Read(c) \/ WriteOrder(c) \/ WriteParts(c) \/ Sweep(c)
  \/ WipeParts(c) \/ WipeOrder(c) \/ Conclude(c)

\* What happens without anybody's fault: Shopify delivers until it is answered,
\* time passes, the cron starts its drains, an invocation that is alive goes on.
Ordinary ==
  \/ \E e \in Events : Receive(e) \/ BecomeDue(e) \/ GrowStale(e)
  \/ \E c \in Consumers : StartDrain(c) \/ Progress(c)

Next ==
  \/ Ordinary
  \/ \E e \in Events :
       \/ Change(e) \/ Remove(e) \/ Garble(e)
       \/ Redeliver(e) \/ ReceiveFails(e) \/ Outlive(e) \/ Prune(e) \/ Replay(e)
  \/ \E c \in Consumers : Skip(c) \/ LeaveParts(c) \/ StepFails(c) \/ Crash(c)

Spec == Init /\ [][Next]_vars

\* As long as one of them can happen, one does.
Fairness == WF_vars(Ordinary)

FairSpec == Spec /\ Fairness

-----------------------------------------------------------------------------
(* Properties *)

\* What was answered 200 is in the table until it is applied, or skipped by a
\* processor that decided so: no accepted delivery disappears (inbox.server.ts, the
\* rule this file exists for), a dead letter included, which is the only trace of
\* what was not applied.
AcceptedIsKept ==
  \A e \in Events :
    feed[e].stage = "acked" => row[e].status \in InTable \/ e \in applied \cup skipped

\* A completed delivery was worked to its end on a reading that is not older
\* than the change it announces, or skipped on purpose, whoever closed its row: the
\* outcome is written by id alone, also by an invocation that was superseded.
CompletedIsApplied ==
  \A e \in Events : row[e].status = "completed" => e \in applied \cup skipped

\* The immediate work, the repeated deliveries and the drains never work the same
\* delivery at once, unless a drain put its row back as abandoned.
OneProcessorPerDelivery ==
  \A c1, c2 \in Consumers :
    /\ c1 # c2 /\ consumer[c1].event = consumer[c2].event
    /\ consumer[c1].pc \in Working /\ consumer[c2].pc \in Working
    => consumer[c1].event \in takenBack

\* The merchant has what Shopify has.
Agree(x) ==
  LET there == shopify[x].version > 0 /\ ~shopify[x].gone
  IN  /\ copy[x].parts = IF there THEN {shopify[x].version} ELSE {}
      /\ shopify[x].shape = "order" => copy[x].order = IF there THEN shopify[x].version ELSE 0

\* Everything Shopify said of x is completed, and nobody works on it.
Quiet(x) ==
  /\ \A e \in Events : ResourceOf[e] = x /\ feed[e].stage # "unsent" =>
       row[e].status \in {"completed", "pruned"}
  /\ ~BusyWith(x)

\* A delivery that announces the resource as Shopify has it now.
Latest(e) ==
  LET x == ResourceOf[e] IN
  \/ feed[e].kind = "delete"
  \/ feed[e].kind = "upsert" /\ ~shopify[x].gone /\ feed[e].version = shopify[x].version

\* The delivery that announces the resource as it is was only skipped: until the
\* resource changes again nothing of the inbox will write it.
LeftOut(x) ==
  \E e \in Events : ResourceOf[e] = x /\ Latest(e) /\ e \in skipped \ applied

\* In whatever order the deliveries of a resource are worked, however often, and
\* wherever their attempts are interrupted, the copy of the merchant ends up as
\* Shopify has it, unless two processors worked it at once, its latest delivery was
\* skipped, or the code itself left it for the periodic run.
SerialWorkConverges ==
  \A x \in Resources :
    Quiet(x) /\ x \notin overlapped \cup loose /\ ~LeftOut(x) => Agree(x)

\* Every accepted delivery is in the end completed or put where somebody is
\* called: neither a dead invocation nor a longer queue in front of it keeps it.
\* Deliveries and replays come to an end here, so that at last none is on its way.
EverySettled ==
  <>[](\A e \in Events : row[e].status \notin {"queued", "processing"})

-----------------------------------------------------------------------------
(* The inductive invariant *)

\* A delivery has a row only after it was announced, and what it announces is
\* never ahead of Shopify.
FeedIsSound ==
  \A e \in Events :
    /\ feed[e].stage = "unsent" => row[e].status = "absent"
    /\ feed[e].stage = "acked" => row[e].status # "absent"
    /\ feed[e].version <= shopify[ResourceOf[e]].version
    /\ feed[e].kind = "delete" => shopify[ResourceOf[e]].gone

\* What an invocation with the memory m holds was recorded, what it read is
\* fresh, and an outcome that says done is deserved.
MemoryIsSound(m) ==
  /\ m.event = NoEvent <=> m.pc \in {"off", "loop"}
  /\ m.event # NoEvent => row[m.event].status # "absent"
  /\ \A e \in m.todo : row[e].status # "absent"
  /\ m.pc \in {"order", "parts", "sweep"} => m.read >= feed[m.event].version
  /\ m.pc \in {"wipeParts", "wipeOrder"} => shopify[ResourceOf[m.event]].gone
  /\ m.pc = "conclude" /\ m.out = "done" => m.event \in applied \cup skipped

ClosedIsApplied ==
  \A e \in Events : row[e].status \in {"completed", "pruned"} => e \in applied \cup skipped

\* Whoever holds a row that was never put back holds it alone.
HoldersAreAlone ==
  \A c \in Consumers :
    Holding(consumer[c]) /\ consumer[c].event \notin takenBack =>
      /\ row[consumer[c].event].status = "processing"
      /\ \A c2 \in Consumers \ {c} :
           Holding(consumer[c2]) => consumer[c2].event # consumer[c].event

IInv ==
  /\ TypeOK
  /\ FeedIsSound
  /\ \A c \in Consumers : MemoryIsSound(consumer[c])
  /\ ClosedIsApplied
  /\ HoldersAreAlone

-----------------------------------------------------------------------------
(* The inductive invariant of the copy of the merchant *)

\* What was announced exists, only what was announced is applied, and the last
\* thing that happened to a resource was announced.
FeedIsTrue ==
  /\ \A e \in Events :
       /\ feed[e].kind # "unreadable" => feed[e].stage # "unsent" /\ feed[e].version > 0
       /\ e \in applied => feed[e].stage # "unsent"
  /\ \A x \in Resources :
       shopify[x].version > 0 => \E e \in Events : ResourceOf[e] = x /\ Latest(e)

\* A processor works what the delivery it was given for announces, and read
\* nothing that Shopify did not have.
ProcessorFits(m) ==
  LET x == ResourceOf[m.event] IN
  /\ m.pc \in {"read", "order", "parts", "sweep"} => feed[m.event].kind = "upsert"
  /\ m.pc \in {"wipeParts", "wipeOrder"} => feed[m.event].kind = "delete"
  /\ m.pc \in {"order", "wipeOrder"} => shopify[x].shape = "order"
  /\ m.pc \in {"order", "parts", "sweep"} => m.read <= shopify[x].version

\* What a processor wrote is still there at its next step.
CopyFits(m) ==
  LET x == ResourceOf[m.event] IN
  /\ m.pc \in {"parts", "sweep"} /\ shopify[x].shape = "order" => copy[x].order = m.read
  /\ m.pc = "sweep" => m.read \in copy[x].parts
  /\ m.pc = "wipeOrder" => copy[x].parts = {}

\* Two processors only work a resource at once where that was written down.
WorkedAlone ==
  \A c1, c2 \in Consumers :
    /\ c1 # c2 /\ consumer[c1].pc \in Working /\ consumer[c2].pc \in Working
    /\ Target(c1) = Target(c2)
    => Target(c1) \in overlapped

\* Once the latest delivery of a resource is applied the copy agrees, and stays
\* so: who still works on it writes what it already is.
AppliedAgrees ==
  \A e \in applied :
    Latest(e) /\ ResourceOf[e] \notin overlapped \cup loose =>
      /\ Agree(ResourceOf[e])
      /\ \A c \in Consumers :
           consumer[c].pc \in {"order", "parts", "sweep"} /\ Target(c) = ResourceOf[e] =>
             /\ consumer[c].read = shopify[ResourceOf[e]].version
             /\ ~shopify[ResourceOf[e]].gone

Convergence ==
  /\ FeedIsTrue
  /\ \A c \in Consumers : ProcessorFits(consumer[c])
  /\ \A c \in Consumers :
       consumer[c].pc \in Working /\ Target(c) \notin overlapped => CopyFits(consumer[c])
  /\ WorkedAlone
  /\ \A x \in Resources : shopify[x].version = 0 => Agree(x)
  /\ AppliedAgrees

\* Sound and convergent.
CInv == IInv /\ Convergence

-----------------------------------------------------------------------------
(* The order of the drains *)

Recorded == {e \in Events : row[e].status # "absent"}

\* received_at puts the rows in one line: what was recorded before a row was
\* recorded before all that came after it.
RecordedInOrder ==
  /\ \A e \in Events :
       /\ row[e].after \subseteq Recorded \ {e}
       /\ \A f \in row[e].after : row[f].after \subseteq row[e].after
  /\ \A e, f \in Recorded : e = f \/ e \in row[f].after \/ f \in row[e].after
  /\ IsFiniteSet(Recorded)

\* A drain that starts with a ready row finds one to list, a list with rows has a
\* head, and no list is longer than DRAIN_BATCH.
DrainsGoOn ==
  /\ (\E e \in Events : Ready(e)) => ReadyList # {}
  /\ \A c \in Consumers :
       consumer[c].pc = "loop" /\ consumer[c].todo # {} =>
         \E e \in consumer[c].todo : consumer[c].todo \cap row[e].after = {}
  /\ Cardinality(ReadyList) <= DrainBatch
=============================================================================
