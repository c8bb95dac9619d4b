------------------------------- MODULE Billing -------------------------------
(***************************************************************************)
(* The subscriptions of a shop.  The merchant asks for a plan              *)
(* (billing.subscribe), approves it on Shopify and comes back              *)
(* (billing.callback), which moves the shop to the new plan and queues the *)
(* subscriptions it replaces in a status of their rows, to be cancelled on *)
(* Shopify by the callback itself or by the cron (cancel-outbox.server).   *)
(* Shopify announces what happens to a subscription                        *)
(* (handle-subscription-update), and the cron compares the shop with       *)
(* Shopify, in case an announcement was lost (reconcile.server).           *)
(*                                                                         *)
(* Abstractions.  One shop, each subscription for a plan of its own: the   *)
(* plan of the shop is the one of its active charge, and free without one. *)
(* Shopify lets subscriptions live together, as cancel-outbox.server.ts    *)
(* says.  `declined' is `cancelled'.  A delivery is worked until its work  *)
(* has ended well, by any number of invocations (WebhookInbox).  A round   *)
(* of the cron finds the shop due to be compared; one that does not is one *)
(* that dies before.                                                       *)
(***************************************************************************)
EXTENDS Integers, FiniteSets

CONSTANTS
  Subs,      \* the subscriptions
  NoSub,
  Visitors,  \* slots for requests of the merchant and for deliveries
  Rounds,    \* slots for rounds of the cron
  MaxFaults  \* bound: misfortunes in one behaviour

ASSUME ConstantsAssumption ==
  /\ NoSub \notin Subs
  /\ Visitors \cap Rounds = {}
  /\ MaxFaults \in Nat

VARIABLES
  sub,      \* each subscription on Shopify
  news,     \* what Shopify announced and nobody has worked to the end
  shop,     \* shops.active_charge_id
  charge,   \* the table billing_charges
  worker,   \* the memory of each invocation
  held,     \* history: subscriptions Shopify has frozen and not ended
  refused,  \* history: those it has not ended, and would not in words taken for an end
  faults    \* how many misfortunes happened

vars == <<sub, news, shop, charge, worker, held, refused, faults>>
shopify == <<sub, news, held, refused>>
tables == <<shop, charge>>

Workers == Visitors \cup Rounds
AnySub == Subs \cup {NoSub}

SubStatuses == {"none", "pending", "active", "frozen", "ended"}
ChargeStatuses == {"absent", "pending", "active", "superseded", "cancelled"}

PCs == {"off", "row", "freeCancel", "freeWrite", "archive", "spend", "actives", "enqueue",
        "list", "drain", "record", "shop", "ask", "apply", "markActive", "downgrade", "markEnded"}
WorkerType == [pc : PCs, sub : AnySub, todo : SUBSET Subs]

TypeOK ==
  /\ sub \in [Subs -> SubStatuses]
  /\ news \subseteq Subs \X {"active", "ended"}
  /\ shop \in AnySub
  /\ charge \in [Subs -> ChargeStatuses]
  /\ worker \in [Workers -> WorkerType]
  /\ held \subseteq Subs
  /\ refused \subseteq Subs
  /\ faults \in 0 .. MaxFaults

Off == [pc |-> "off", sub |-> NoSub, todo |-> {}]

\* The shop may have a subscription from before there were rows of them.
Init ==
  /\ shop \in AnySub
  /\ sub = [s \in Subs |-> IF s = shop THEN "active" ELSE "none"]
  /\ news = {}
  /\ charge = [s \in Subs |-> "absent"]
  /\ worker = [w \in Workers |-> Off]
  /\ held = {}
  /\ refused = {}
  /\ faults = 0

-----------------------------------------------------------------------------
(* Vocabulary *)

Misfortune ==
  /\ faults < MaxFaults
  /\ faults' = faults + 1

Update(w, m) == worker' = [worker EXCEPT ![w] = m]

Goto(w, pc) == Update(w, [worker[w] EXCEPT !.pc = pc])

Active == {s \in Subs : sub[s] = "active"}

Superseded == {s \in Subs : charge[s] = "superseded"}

\* An updateMany of one row, which must be there.
Marked(s, status) ==
  IF s \in Subs /\ charge[s] # "absent" THEN [charge EXCEPT ![s] = status] ELSE charge

\* The merchant, or the application, ends s: what has ended is no error.
End(s) ==
  IF s \in Subs /\ sub[s] # "ended"
  THEN /\ sub' = [sub EXCEPT ![s] = "ended"]
       /\ news' = news \cup {<<s, "ended">>}
       /\ held' = held \ {s}
       /\ refused' = refused \ {s}
  ELSE UNCHANGED shopify

\* Shopify will not cancel s, and says so in words that isAlreadyGone reads as `it
\* has ended' (`not active', `cannot be cancelled'), though it has not.  Counted among
\* the misfortunes to bound it.
RefuseAsGone(s) ==
  /\ s \in Subs /\ sub[s] # "ended"
  /\ Misfortune
  /\ refused' = refused \cup {s}
  /\ UNCHANGED <<sub, news, held>>

\* cancelAppSubscription, when it does not throw.
CancelOnShopify(s) == (End(s) /\ UNCHANGED faults) \/ RefuseAsGone(s)

-----------------------------------------------------------------------------
(* Shopify and the merchant *)

\* The merchant has the address of the approval only if the row was written.
Approve(s) ==
  /\ sub[s] = "pending" /\ charge[s] # "absent"
  /\ sub' = [sub EXCEPT ![s] = "active"]
  /\ news' = news \cup {<<s, "active">>}
  /\ UNCHANGED <<tables, worker, held, refused, faults>>

\* Shopify holds a subscription that is not paid, and its announcement reads as an
\* end.  Counted among the misfortunes to bound it.
Freeze(s) ==
  /\ sub[s] = "active"
  /\ Misfortune
  /\ sub' = [sub EXCEPT ![s] = "frozen"]
  /\ news' = news \cup {<<s, "ended">>}
  /\ held' = held \cup {s}
  /\ UNCHANGED <<tables, worker, refused>>

\* The merchant has paid.
Thaw(s) ==
  /\ sub[s] = "frozen"
  /\ sub' = [sub EXCEPT ![s] = "active"]
  /\ news' = news \cup {<<s, "active">>}
  /\ UNCHANGED <<tables, worker, held, refused, faults>>

\* It is declined, cancelled in the admin, or expires.
Lapse(s) ==
  /\ sub[s] \in {"pending", "active", "frozen"}
  /\ End(s)
  /\ UNCHANGED <<tables, worker, faults>>

\* A delivery is not sent, or ends in dead letter.
Lose(n) ==
  /\ n \in news
  /\ Misfortune
  /\ news' = news \ {n}
  /\ UNCHANGED <<sub, tables, worker, held, refused>>

-----------------------------------------------------------------------------
(* billing.subscribe *)

\* createAppSubscription.
Subscribe(w, s) ==
  /\ worker[w] = Off
  /\ sub[s] = "none"
  /\ sub' = [sub EXCEPT ![s] = "pending"]
  /\ Update(w, [Off EXCEPT !.pc = "row", !.sub = s])
  /\ UNCHANGED <<news, tables, held, refused, faults>>

WriteRow(w) ==
  /\ worker[w].pc = "row"
  /\ charge' = [charge EXCEPT ![worker[w].sub] = "pending"]
  /\ Update(w, Off)
  /\ UNCHANGED <<shopify, shop, faults>>

\* The free plan: nothing is to be approved.
ChooseFree(w) ==
  /\ worker[w] = Off
  /\ shop # NoSub
  /\ Update(w, [Off EXCEPT !.pc = "freeCancel", !.sub = shop])
  /\ UNCHANGED <<shopify, tables, faults>>

CancelCurrent(w) ==
  /\ worker[w].pc = "freeCancel"
  /\ CancelOnShopify(worker[w].sub)
  /\ Goto(w, "freeWrite")
  /\ UNCHANGED tables

WriteFree(w) ==
  /\ worker[w].pc = "freeWrite"
  /\ charge' = Marked(worker[w].sub, "cancelled")
  /\ shop' = NoSub
  /\ Update(w, Off)
  /\ UNCHANGED <<shopify, faults>>

-----------------------------------------------------------------------------
(* billing.callback *)

\* Fault: what the address says is believed.
ReturnUnasked(w, s) ==
  /\ worker[w] = Off
  /\ charge[s] # "absent"
  /\ Update(w, [Off EXCEPT !.pc = "spend", !.sub = s])
  /\ UNCHANGED <<shopify, tables, faults>>

\* The merchant is back, or loads the page again: only Shopify is believed, which is
\* said to have ended what it holds.
Return(w, s) ==
  /\ worker[w] = Off
  /\ charge[s] # "absent"
  /\ \/ sub[s] = "active" /\ Update(w, [Off EXCEPT !.pc = "spend", !.sub = s])
     \/ /\ sub[s] \in {"frozen", "ended"}
        /\ Update(w, [Off EXCEPT !.pc = "archive", !.sub = s])
  /\ UNCHANGED <<shopify, tables, faults>>

Archive(w) ==
  /\ worker[w].pc = "archive"
  /\ charge' = Marked(worker[w].sub, "cancelled")
  /\ Update(w, Off)
  /\ UNCHANGED <<shopify, shop, faults>>

\* markSupersededCharges keeps s.
Replaced(s) ==
  [t \in Subs |-> IF t = s THEN "active"
                  ELSE IF charge[t] \in {"active", "pending"} THEN "superseded" ELSE charge[t]]

\* The transaction: the attempt is spent, the shop moved and the others queued.  The
\* nonce of the row is spent with its status, which never is pending again.
Spend(w) ==
  LET s == worker[w].sub IN
  /\ worker[w].pc = "spend"
  /\ charge[s] = "pending"
  /\ charge' = Replaced(s)
  /\ shop' = s
  /\ Goto(w, "actives")
  /\ UNCHANGED <<shopify, faults>>

\* The attempt was spent or is not pending, or does not match: nothing is written.
Refuse(w) ==
  /\ worker[w].pc = "spend"
  /\ Update(w, Off)
  /\ UNCHANGED <<shopify, tables, faults>>

\* enqueueUnknownActiveSubscriptions.
AskActives(w) ==
  /\ worker[w].pc = "actives"
  /\ Update(w, [worker[w] EXCEPT !.pc = "enqueue", !.todo = Active \ {worker[w].sub}])
  /\ UNCHANGED <<shopify, tables, faults>>

Enqueue(w) ==
  /\ worker[w].pc = "enqueue"
  /\ \/ worker[w].todo = {} /\ Update(w, [Off EXCEPT !.pc = "list"]) /\ UNCHANGED charge
     \/ \E t \in worker[w].todo :
          /\ charge' = IF charge[t] = "cancelled" THEN charge
                       ELSE [charge EXCEPT ![t] = "superseded"]
          /\ Update(w, [worker[w] EXCEPT !.todo = @ \ {t}])
  /\ UNCHANGED <<shopify, shop, faults>>

-----------------------------------------------------------------------------
(* drainSupersededCharges *)

List(w) ==
  /\ worker[w].pc = "list"
  /\ Update(w, [pc |-> "drain", sub |-> NoSub, todo |-> Superseded])
  /\ UNCHANGED <<shopify, tables, faults>>

Cancel(w) ==
  /\ worker[w].pc = "drain"
  /\ \E t \in worker[w].todo :
       /\ CancelOnShopify(t)
       /\ Update(w, [pc |-> "record", sub |-> t, todo |-> worker[w].todo \ {t}])
  /\ UNCHANGED tables

\* By id, when the cancellation has not thrown.
Record(w) ==
  /\ worker[w].pc = "record"
  /\ charge' = Marked(worker[w].sub, "cancelled")
  /\ Update(w, [worker[w] EXCEPT !.pc = "drain", !.sub = NoSub])
  /\ UNCHANGED <<shopify, shop, faults>>

\* The round of the cron goes on to compare the shop.
Drained(w) == IF w \in Rounds THEN [Off EXCEPT !.pc = "shop"] ELSE Off

EndDrain(w) ==
  /\ worker[w].pc = "drain" /\ worker[w].todo = {}
  /\ Update(w, Drained(w))
  /\ UNCHANGED <<shopify, tables, faults>>

-----------------------------------------------------------------------------
(* The cron *)

\* Fault: only the callback drains.
StartRoundWithoutDrain(r) ==
  /\ worker[r] = Off
  /\ Update(r, [Off EXCEPT !.pc = "shop"])
  /\ UNCHANGED <<shopify, tables, faults>>

StartRound(r) ==
  /\ worker[r] = Off
  /\ Update(r, [Off EXCEPT !.pc = "list"])
  /\ UNCHANGED <<shopify, tables, faults>>

ReadShop(w) ==
  /\ worker[w].pc = "shop"
  /\ Update(w, [Off EXCEPT !.pc = "ask", !.sub = shop])
  /\ UNCHANGED <<shopify, tables, faults>>

\* Fault: only shops that pay are compared.
AskIfPaying(w) ==
  LET seen == worker[w].sub IN
  /\ worker[w].pc = "ask"
  /\ \/ seen = NoSub /\ Update(w, Off)
     \/ Active = {} /\ seen # NoSub /\ Goto(w, "downgrade")
     \/ seen # NoSub /\ \E t \in Active :
          Update(w, IF t = seen THEN Off ELSE [Off EXCEPT !.pc = "apply", !.sub = t])
  /\ UNCHANGED <<shopify, tables, faults>>

\* riconcilia: the first subscription of the answer counts, whichever it is.
Ask(w) ==
  LET seen == worker[w].sub IN
  /\ worker[w].pc = "ask"
  /\ \/ Active = {} /\ Update(w, IF seen = NoSub THEN Off ELSE [Off EXCEPT !.pc = "downgrade", !.sub = seen])
     \/ \E t \in Active :
          Update(w, IF t = seen THEN Off ELSE [Off EXCEPT !.pc = "apply", !.sub = t])
  /\ UNCHANGED <<shopify, tables, faults>>

-----------------------------------------------------------------------------
(* handleSubscriptionUpdate, and what reconcile shares with it *)

\* The shop is read, and the delivery has nothing to say, or is to be applied.  Of
\* some names the delivery does not tell the plan, and the comparison is to do it.
Deliver(w, n) ==
  LET s == n[1] IN
  /\ worker[w] = Off
  /\ n \in news
  /\ \/ /\ n[2] = "active" \/ shop # s
        /\ news' = news \ {n}
        /\ UNCHANGED worker
     \/ /\ n[2] = "active" /\ shop # s
        /\ Update(w, [Off EXCEPT !.pc = "apply", !.sub = s])
        /\ UNCHANGED news
     \/ /\ n[2] = "ended" /\ shop = s
        /\ Update(w, [Off EXCEPT !.pc = "downgrade", !.sub = s])
        /\ UNCHANGED news
  /\ UNCHANGED <<sub, tables, held, refused, faults>>

\* applyPlanToShop, whatever the shop has become since it was read.
Apply(w) ==
  /\ worker[w].pc = "apply"
  /\ shop' = worker[w].sub
  /\ Goto(w, "markActive")
  /\ UNCHANGED <<shopify, charge, faults>>

Worked(w, what) == IF w \in Rounds THEN news ELSE news \ {<<worker[w].sub, what>>}

MarkActive(w) ==
  LET s == worker[w].sub IN
  /\ worker[w].pc = "markActive"
  /\ charge' = Marked(s, "active")
  /\ news' = Worked(w, "active")
  /\ Update(w, Off)
  /\ UNCHANGED <<sub, shop, held, refused, faults>>

Downgrade(w) ==
  /\ worker[w].pc = "downgrade"
  /\ shop' = NoSub
  /\ Goto(w, "markEnded")
  /\ UNCHANGED <<shopify, charge, faults>>

MarkEnded(w) ==
  /\ worker[w].pc = "markEnded"
  /\ charge' = Marked(worker[w].sub, "cancelled")
  /\ news' = Worked(w, "ended")
  /\ Update(w, Off)
  /\ UNCHANGED <<sub, shop, held, refused, faults>>

-----------------------------------------------------------------------------
(* Failure *)

\* Where the invocation w goes on when a step fails.
AfterFailure(w) ==
  LET m == worker[w] IN
  CASE m.pc \in {"actives", "enqueue"} -> [Off EXCEPT !.pc = "list"]
    [] m.pc = "record" -> [m EXCEPT !.pc = "drain", !.sub = NoSub]
    [] m.pc = "list" -> Drained(w)
    [] OTHER -> Off

\* Fault: the row is taken for cancelled whatever Shopify answers.
CancelFailsSilently(w) ==
  /\ worker[w].pc = "drain"
  /\ Misfortune
  /\ \E t \in worker[w].todo :
       Update(w, [pc |-> "record", sub |-> t, todo |-> worker[w].todo \ {t}])
  /\ UNCHANGED <<shopify, tables>>

\* Shopify refuses, or does it and the answer is lost: the others are tried.
CancelFails(w) ==
  /\ worker[w].pc = "drain"
  /\ Misfortune
  /\ \E t \in worker[w].todo :
       /\ End(t) \/ UNCHANGED shopify
       /\ Update(w, [worker[w] EXCEPT !.todo = @ \ {t}])
  /\ UNCHANGED tables

\* Any other read or write fails.
StepFails(w) ==
  /\ worker[w].pc \notin {"off", "drain"}
  /\ Misfortune
  /\ IF worker[w].pc = "freeCancel" THEN End(worker[w].sub) \/ UNCHANGED shopify
     ELSE UNCHANGED shopify
  /\ Update(w, AfterFailure(w))
  /\ UNCHANGED tables

Crash(w) ==
  /\ worker[w].pc # "off"
  /\ Misfortune
  /\ Update(w, Off)
  /\ UNCHANGED <<shopify, tables>>

-----------------------------------------------------------------------------

Progress(w) ==
  \/ WriteRow(w) \/ CancelCurrent(w) \/ WriteFree(w)
  \/ Archive(w) \/ Spend(w) \/ Refuse(w) \/ AskActives(w) \/ Enqueue(w)
  \/ List(w) \/ Cancel(w) \/ Record(w) \/ EndDrain(w) \/ ReadShop(w) \/ Ask(w)
  \/ Apply(w) \/ MarkActive(w) \/ Downgrade(w) \/ MarkEnded(w)

Next ==
  \/ \E s \in Subs : Approve(s) \/ Freeze(s) \/ Thaw(s) \/ Lapse(s)
  \/ \E n \in news : Lose(n)
  \/ \E v \in Visitors :
       \/ \E s \in Subs : Subscribe(v, s) \/ Return(v, s)
       \/ ChooseFree(v)
       \/ \E n \in news : Deliver(v, n)
  \/ \E r \in Rounds : StartRound(r)
  \/ \E w \in Workers : Progress(w) \/ CancelFails(w) \/ StepFails(w) \/ Crash(w)

Spec == Init /\ [][Next]_vars

\* The cron starts again and again, and a live invocation goes on.
Fairness ==
  /\ \A r \in Rounds : WF_vars(StartRound(r))
  /\ \A w \in Workers : WF_vars(Progress(w))

FairSpec == Spec /\ Fairness

-----------------------------------------------------------------------------
(* Properties *)

\* What the code takes for an end although the subscription may live: a refusal
\* that reads as `already gone', and a subscription that is only frozen.
TakenForEnded == refused \cup held

\* s has ended, or was taken for ended.
Answered(s) == s \in Subs /\ (sub[s] = "ended" \/ s \in TakenForEnded)

\* The row of a charge says that it is closed only on an answer of Shopify: it has
\* ended the subscription, or said what the code takes for that.  A cancellation
\* that failed, or whose answer was lost, does not close the row, whoever else
\* works on it (drainSupersededCharges).
CancelledWasAnswered == \A s \in Subs : charge[s] = "cancelled" => Answered(s)

\* A subscription that was replaced is in the end cancelled on Shopify, whatever
\* fails in the callback that replaced it; unless its row was marked active again
\* after that, or closed on what was taken for an end (cancel-outbox.server.ts, the
\* outbox the cron empties).
ReplacedIsCancelled ==
  \A s \in Subs :
    charge[s] = "superseded" ~>
      \/ sub[s] = "ended" \/ charge[s] = "active"
      \/ charge[s] = "cancelled" /\ s \in TakenForEnded

\* The shop has a plan somebody pays for exactly when there is such a plan.
Aligned == IF Active = {} THEN shop = NoSub ELSE shop \in Active

\* Whatever announcements are lost, come late or are worked on a shop that has
\* changed since it was read, the shop ends up with what Shopify says
\* (reconcile.server.ts).
AlignedAtLast == <>[]Aligned

-----------------------------------------------------------------------------
(* The inductive invariant *)

\* The merchant has approved s at some time.
Approved(s) == s \in Subs /\ sub[s] \in {"active", "frozen", "ended"}

\* s has ended, or was frozen at some time.
Stopped(s) == s \in Subs /\ (sub[s] = "ended" \/ s \in held)

\* The shop is never on a plan the merchant has not approved, and what Shopify
\* announced has happened.
PlanWasApproved == shop = NoSub \/ Approved(shop)

NewsIsSound ==
  \A n \in news : IF n[2] = "ended" THEN Stopped(n[1]) ELSE Approved(n[1])

\* What Shopify holds was announced as an end.
FrozenIsHeld == \A s \in Subs : sub[s] = "frozen" => s \in held

\* What the invocation with the memory m knows of Shopify was true, and what it
\* is about to write of it still is.
MemoryIsSound(m) ==
  /\ m.pc = "row" => m.sub \in Subs
  /\ m.pc \in {"spend", "apply", "markActive", "freeCancel", "actives"} => Approved(m.sub)
  /\ m.pc \in {"archive", "downgrade", "markEnded"} => Stopped(m.sub)
  /\ m.pc \in {"freeWrite", "record"} => Answered(m.sub)
  /\ m.pc = "ask" => m.sub = NoSub \/ Approved(m.sub)

IInv ==
  /\ TypeOK
  /\ CancelledWasAnswered
  /\ PlanWasApproved
  /\ NewsIsSound
  /\ FrozenIsHeld
  /\ \A w \in Workers : MemoryIsSound(worker[w])

-----------------------------------------------------------------------------
(* What the comments say and the code does not do *)

\* Nothing is happening, and no merchant is about to come back from an approval.
Quiet ==
  /\ news = {}
  /\ \A w \in Workers : worker[w] = Off
  /\ \A s \in Active : charge[s] # "pending"

\* cancel-outbox.server.ts: when a merchant changes the plan the old one is to be
\* cancelled on Shopify, and no failure makes that forgotten.  Then, of the
\* subscriptions that are alive, all but one are known to be in excess, or were
\* taken for ended.
ExcessIsKnown == Quiet => Cardinality(Active \ (Superseded \cup TakenForEnded)) <= 1

-----------------------------------------------------------------------------
(* What is in excess, and what was spent *)

\* A subscription known to be in excess stays known until it has ended, or is taken
\* for ended, or its row is marked active again: no approval, no plan chosen
\* meanwhile and no failure takes it out of the outbox (cancel-outbox.server.ts).
ExcessIsRemembered ==
  [][\A s \in Subs : charge[s] = "superseded" =>
       \/ charge'[s] \in {"superseded", "active"}
       \/ sub[s] = "ended" \/ s \in TakenForEnded]_vars

\* An approval is spent once: a row that was spent, archived or queued never waits
\* for its approval again, so that no address of return moves the shop twice
\* (billing.callback).
ApprovalIsSpentOnce ==
  [][\A s \in Subs : charge[s] \notin {"absent", "pending"} => charge'[s] # "pending"]_vars

\* A row about to be written is not there yet, nor is its subscription known to
\* anybody else; and what is queued or listed exists on Shopify.
RowsToWrite ==
  /\ \A s \in Subs : sub[s] = "none" =>
       charge[s] = "absent" /\ \A w \in Workers : s \notin worker[w].todo
  /\ \A v \in Workers : worker[v].pc = "row" =>
       /\ charge[worker[v].sub] = "absent" /\ sub[worker[v].sub] \in {"pending", "ended"}
       /\ \A w \in Workers :
            /\ worker[v].sub \notin worker[w].todo
            /\ worker[w].pc = "row" /\ worker[w].sub = worker[v].sub => w = v

RInv == IInv /\ RowsToWrite
=============================================================================
