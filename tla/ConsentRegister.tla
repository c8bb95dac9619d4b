--------------------------- MODULE ConsentRegister ---------------------------
(***************************************************************************)
(* The register of consent revocations.  A visitor withdraws the consent   *)
(* to be recognised: the route writes a row (recordRevocation), tries at   *)
(* once to apply it (processRevocation) and answers ok whatever becomes of *)
(* the attempt; the drain of the cron retries.  To apply it is to take the *)
(* identifier of the browser out of the database of the merchant in three  *)
(* steps (forgetVisitor), while other routes and the orders link the same  *)
(* browser to its customer (linkUserToCustomer) and the browser returns    *)
(* (rest.v1.tracking_id).                                                  *)
(*                                                                         *)
(* Abstractions.  One shop and one customer.  The identifiers of browsers  *)
(* are numbered in the order in which they are issued.  A row of the       *)
(* register is the one of its identifier (the idempotency key).  `due' and *)
(* `expired' stand for next_attempt_at <= now and lease_expires_at < now;  *)
(* the lease is the slot of the worker that claimed the row: a slot that   *)
(* claims again has forgotten what it held.  A customer has no more        *)
(* browsers than MAX_BROWSERS_PER_CUSTOMER: forgetOldestBrowsers deletes   *)
(* none.                                                                   *)
(***************************************************************************)
EXTENDS Integers, FiniteSets

CONSTANTS
  Browsers,     \* the identifiers, numbered in the order in which they are issued
  NoBrowser,
  Withdrawing,  \* bound: those whose visitor withdraws the consent
  Workers,      \* slots for invocations that work a revocation
  Links,        \* slots for invocations that link a browser, or receive it
  Nobody,       \* no lease
  MaxAttempts,  \* MAX_REVOCATION_ATTEMPTS
  MaxFaults     \* bound: misfortunes in one behaviour

ASSUME ConstantsAssumption ==
  /\ Browsers \subseteq Nat /\ NoBrowser \notin Browsers
  /\ Withdrawing \subseteq Browsers
  /\ Nobody \notin Workers
  /\ MaxAttempts \in Nat \ {0}
  /\ MaxFaults \in Nat

VARIABLES
  connected,  \* whether the shop has a project
  minted,     \* the identifiers issued so far
  user,       \* the table users of the merchant
  customer,   \* customers.external_id
  row,        \* the table consent_revocations
  worker,     \* the memory of the invocations that work a revocation
  link,       \* the memory of those that link or receive a browser
  answered,   \* history: identifiers whose revocation was answered with ok
  forgotten,  \* history: those whose revocation was applied to the end
  spared,     \* history: those whose revocation was skipped, the shop having no project
  late,       \* history: those whose name was written during or after the erasure
  pruned,     \* history: those whose row left the register
  handed,     \* history: those given back to a visit that began after the answer
  faults      \* how many misfortunes happened

vars == <<connected, minted, user, customer, row, worker, link, answered, forgotten, spared, late, pruned, handed, faults>>
merchant == <<connected, minted, user, customer>>
history == <<answered, forgotten, spared, late, pruned, handed>>

Names == Browsers \cup {NoBrowser}
Statuses == {"absent", "queued", "processing", "completed", "dead_letter"}

UserType == [issued : BOOLEAN, linked : BOOLEAN, merged : Names]
RowType == [status : Statuses, attempts : Nat, due : BOOLEAN, expired : BOOLEAN,
            owner : Workers \cup {Nobody}, subject : BOOLEAN]

Applying == {"unlink", "pointers", "delete"}
WorkerPCs == {"off", "read", "shop", "close"} \cup Applying
WorkerType == [pc : WorkerPCs, browser : Names, route : BOOLEAN, attempt : Nat,
               outcome : {"done", "skip", "retry", "dead_letter"}]

LinkPCs == {"off", "check", "list", "merge", "remember"}
LinkType == [pc : LinkPCs, browser : Names, canonical : Names, toMerge : SUBSET Browsers,
             warned : BOOLEAN]

TypeOK ==
  /\ connected \in BOOLEAN
  /\ minted \subseteq Browsers
  /\ user \in [Browsers -> UserType]
  /\ customer \in Names
  /\ row \in [Browsers -> RowType]
  /\ worker \in [Workers -> WorkerType]
  /\ link \in [Links -> LinkType]
  /\ answered \subseteq Browsers /\ forgotten \subseteq Browsers /\ spared \subseteq Browsers
  /\ late \subseteq Browsers /\ pruned \subseteq Browsers /\ handed \subseteq Browsers
  /\ faults \in 0 .. MaxFaults

NoUser == [issued |-> FALSE, linked |-> FALSE, merged |-> NoBrowser]

NoRow == [status |-> "absent", attempts |-> 0, due |-> FALSE, expired |-> FALSE,
          owner |-> Nobody, subject |-> FALSE]

Off == [pc |-> "off", browser |-> NoBrowser, route |-> FALSE, attempt |-> 0, outcome |-> "done"]

Away == [pc |-> "off", browser |-> NoBrowser, canonical |-> NoBrowser, toMerge |-> {},
         warned |-> FALSE]

Init ==
  /\ connected = TRUE
  /\ minted = {}
  /\ user = [b \in Browsers |-> NoUser]
  /\ customer = NoBrowser
  /\ row = [b \in Browsers |-> NoRow]
  /\ worker = [w \in Workers |-> Off]
  /\ link = [l \in Links |-> Away]
  /\ answered = {} /\ forgotten = {} /\ spared = {}
  /\ late = {} /\ pruned = {} /\ handed = {}
  /\ faults = 0

-----------------------------------------------------------------------------
(* Vocabulary *)

Misfortune ==
  /\ faults < MaxFaults
  /\ faults' = faults + 1

\* Fault: the attempt that has just failed is not counted.
ExhaustedLate(n) == n > MaxAttempts

\* isExhausted.
Exhausted(n) == n >= MaxAttempts

StatusAfterAttempt(outcome, attempts) ==
  CASE outcome \in {"done", "skip"} -> "completed"
    [] outcome = "dead_letter" -> "dead_letter"
    [] outcome = "retry" -> IF Exhausted(attempts) THEN "dead_letter" ELSE "queued"

\* Fault: nobody takes over the rows of dead invocations.
ClaimableUnlessTaken(b) == row[b].status = "queued" /\ row[b].due

\* The condition of the claim.
Claimable(b) ==
  \/ row[b].status = "queued" /\ row[b].due
  \/ row[b].status = "processing" /\ row[b].expired

Taken(r, w) ==
  [r EXCEPT !.status = "processing", !.owner = w, !.expired = FALSE, !.attempts = @ + 1]

\* Fault: the outcome is written by the id of the row.
GuardiaById(w) == row[worker[w].browser].status # "absent"

\* The WHERE of concludi.
Guardia(w) ==
  LET r == row[worker[w].browser] IN r.owner = w /\ r.status = "processing"

\* The invocation that claimed the row of b is still at it.
Attended(b) == row[b].owner \in Workers /\ worker[row[b].owner].browser = b

\* Slots are alike: an invocation starts in any free one.
FreeSlot == CHOOSE w \in Workers : worker[w].pc = "off"
FreeLink == CHOOSE l \in Links : link[l].pc = "off"

Update(w, changed) == worker' = [worker EXCEPT ![w] = changed]
Goto(w, pc) == Update(w, [worker[w] EXCEPT !.pc = pc])
Proceed(l, pc) == link' = [link EXCEPT ![l] = [@ EXCEPT !.pc = pc]]
Leave(l) == link' = [link EXCEPT ![l] = Away]

\* The name of b is being taken away, or has been.
Erasing(b) ==
  \/ b \in forgotten
  \/ \E w \in Workers : worker[w].browser = b /\ worker[w].pc \in {"pointers", "delete", "close"}

-----------------------------------------------------------------------------
(* The visitors: rest.v1.tracking_id *)

\* A browser without an identifier that can be used again gets a new one, and its
\* row if the database answers.
Mint(b) ==
  /\ b \notin minted /\ \A a \in Browsers : a < b => a \in minted
  /\ minted' = minted \cup {b}
  /\ \/ user' = [user EXCEPT ![b] = [NoUser EXCEPT !.issued = TRUE]] /\ UNCHANGED faults
     \/ Misfortune /\ UNCHANGED user
  /\ UNCHANGED <<connected, customer, row, worker, link, history>>

\* Fault: when the register does not answer, the identifier is taken for good.
VisitIgnoringFailures(l, b) ==
  /\ link[l].pc = "off" /\ l = FreeLink
  /\ b \in minted
  /\ \/ row[b].status = "absent" /\ UNCHANGED faults
     \/ Misfortune
  /\ link' = [link EXCEPT ![l] = [Away EXCEPT !.pc = "check", !.browser = b,
                                              !.warned = b \in answered]]
  /\ UNCHANGED <<merchant, row, worker, history>>

\* A browser returns with its identifier.  isTrackingIdentityRevoked: one that was
\* revoked is not used again, nor is any when the register does not answer.
Visit(l, b) ==
  /\ link[l].pc = "off" /\ l = FreeLink
  /\ b \in minted
  /\ row[b].status = "absent"
  /\ link' = [link EXCEPT ![l] = [Away EXCEPT !.pc = "check", !.browser = b,
                                              !.warned = b \in answered]]
  /\ UNCHANGED <<merchant, row, worker, history, faults>>

\* verifyIssued: the identifier is given back if it has a row, or if the database
\* does not answer.
Check(l) ==
  LET n == link[l] IN
  /\ n.pc = "check"
  /\ \/ user[n.browser].issued /\ UNCHANGED faults
        /\ handed' = IF n.warned THEN handed \cup {n.browser} ELSE handed
     \/ ~user[n.browser].issued /\ UNCHANGED <<faults, handed>>
     \/ Misfortune
        /\ handed' = IF n.warned THEN handed \cup {n.browser} ELSE handed
  /\ Leave(l)
  /\ UNCHANGED <<merchant, row, worker, answered, forgotten, spared, late, pruned>>

-----------------------------------------------------------------------------
(* The links: rest.v1.identify, and the orders *)

\* Fault: the passage is recorded by an upsert, as it used to be.
IdentifyOrCreate(l, b) ==
  /\ link[l].pc = "off" /\ l = FreeLink
  /\ b \in minted
  /\ user' = [user EXCEPT ![b] = [@ EXCEPT !.issued = TRUE, !.linked = TRUE]]
  /\ link' = [link EXCEPT ![l] = [Away EXCEPT !.pc = "list", !.browser = b]]
  /\ UNCHANGED <<connected, minted, customer, row, worker, history, faults>>

\* touchIssuedUser: an update, which creates nothing; without a row nothing follows.
Identify(l, b) ==
  /\ link[l].pc = "off" /\ l = FreeLink
  /\ user[b].issued
  /\ user' = [user EXCEPT ![b].linked = TRUE]
  /\ link' = [link EXCEPT ![l] = [Away EXCEPT !.pc = "list", !.browser = b]]
  /\ UNCHANGED <<connected, minted, customer, row, worker, history, faults>>

Linked == {a \in Browsers : user[a].issued /\ user[a].linked}

\* oldestExternalId, planMerge.
IsOldest(a) == \A c \in Linked : a <= c

ToMerge(a) == {c \in Linked : c # a /\ user[c].merged # a}

\* The browsers of the customer are read.
List(l) ==
  /\ link[l].pc = "list"
  /\ \/ Linked = {} /\ Proceed(l, "remember")
     \/ \E a \in Linked :
          /\ IsOldest(a)
          /\ IF ToMerge(a) = {} THEN Proceed(l, "remember")
             ELSE link' = [link EXCEPT ![l] = [@ EXCEPT !.pc = "merge", !.canonical = a,
                                                        !.toMerge = ToMerge(a)]]
  /\ UNCHANGED <<merchant, row, worker, history, faults>>

\* mergeBrowsersOfCustomer, its update.
Merge(l) ==
  LET n == link[l] IN
  /\ n.pc = "merge"
  /\ user' = [a \in Browsers |-> IF a \in n.toMerge /\ user[a].issued
                                 THEN [user[a] EXCEPT !.merged = n.canonical] ELSE user[a]]
  /\ late' = IF user' # user /\ Erasing(n.canonical) THEN late \cup {n.canonical} ELSE late
  /\ Proceed(l, "remember")
  /\ UNCHANGED <<connected, minted, customer, row, worker, answered, forgotten, spared, pruned, handed, faults>>

\* rememberLatestExternalId.
Remember(l) ==
  LET b == link[l].browser IN
  /\ link[l].pc = "remember"
  /\ customer' = b
  /\ late' = IF Erasing(b) THEN late \cup {b} ELSE late
  /\ Leave(l)
  /\ UNCHANGED <<connected, minted, user, row, worker, answered, forgotten, spared, pruned, handed, faults>>

\* One of the statements fails, and is passed over.
LinkFails(l) ==
  /\ link[l].pc \in {"list", "merge", "remember"}
  /\ Misfortune
  /\ IF link[l].pc \in {"list", "merge"} THEN Proceed(l, "remember") ELSE Leave(l)
  /\ UNCHANGED <<merchant, row, worker, history>>

LinkDies(l) ==
  /\ link[l].pc # "off"
  /\ Misfortune
  /\ Leave(l)
  /\ UNCHANGED <<merchant, row, worker, history>>

\* pruneAnonymousUsers.
PruneAnonymous(b) ==
  /\ user[b].issued /\ ~user[b].linked
  /\ user' = [user EXCEPT ![b] = NoUser]
  /\ UNCHANGED <<connected, minted, customer, row, worker, link, history, faults>>

-----------------------------------------------------------------------------
(* recordRevocation, revokeTrackingIdentity *)

NewRow == [NoRow EXCEPT !.status = "queued", !.due = TRUE, !.subject = TRUE]

\* The index on the idempotency key: a second row is not written, and the first
\* is not opened again.
Recorded(b) == IF row[b].status = "absent" THEN NewRow ELSE row[b]

\* The route writes the row and claims it; when somebody has it, or it is done, or
\* given up, or not due, the answer is ok all the same.  That the invocation ends
\* between the two is in RevokeFails, that a drain is faster is in the repetitions.
Revoke(w, b) ==
  /\ worker[w].pc = "off" /\ w = FreeSlot
  /\ b \in minted \cap Withdrawing
  /\ IF row[b].status = "absent" \/ Claimable(b)
     THEN /\ row' = [row EXCEPT ![b] = Taken(Recorded(b), w)]
          /\ Update(w, [Off EXCEPT !.pc = "read", !.browser = b, !.route = TRUE])
          /\ UNCHANGED answered
     ELSE UNCHANGED <<row, worker>> /\ answered' = answered \cup {b}
  /\ UNCHANGED <<merchant, link, forgotten, spared, late, pruned, handed, faults>>

\* Fault: the failure is logged, and the answer is ok.
RevokeFailsQuietly(b) ==
  /\ b \in minted \cap Withdrawing
  /\ Misfortune
  /\ row' \in {row, [row EXCEPT ![b] = Recorded(b)]}
  /\ answered' = answered \cup {b}
  /\ UNCHANGED <<merchant, worker, link, forgotten, spared, late, pruned, handed>>

\* not_recorded, with 503: the row was not written, or it was and the answer to
\* the route, or its own, is lost.
RevokeFails(b) ==
  /\ b \in minted \cap Withdrawing
  /\ Misfortune
  /\ row' \in {row, [row EXCEPT ![b] = Recorded(b)]}
  /\ UNCHANGED <<merchant, worker, link, history>>

-----------------------------------------------------------------------------
(* processRevocation *)

\* drainRevocations claims what is ready.
Drain(w, b) ==
  /\ worker[w].pc = "off" /\ w = FreeSlot
  /\ Claimable(b)
  /\ row' = [row EXCEPT ![b] = Taken(@, w)]
  /\ Update(w, [Off EXCEPT !.pc = "read", !.browser = b])
  /\ UNCHANGED <<merchant, link, history, faults>>

\* What a route answers when its attempt has ended, however it ended.
Answer(w) ==
  answered' = IF worker[w].route THEN answered \cup {worker[w].browser} ELSE answered

\* The row is read after the claim; without a subject there is nothing to retry.
Read(w) ==
  LET r == row[worker[w].browser] IN
  /\ worker[w].pc = "read"
  /\ IF r.status = "absent"
     THEN Update(w, Off) /\ Answer(w)
     ELSE /\ Update(w, [worker[w] EXCEPT !.attempt = r.attempts,
                                         !.pc = IF r.subject THEN "shop" ELSE "close",
                                         !.outcome = IF r.subject THEN "done" ELSE "dead_letter"])
          /\ UNCHANGED answered
  /\ UNCHANGED <<merchant, row, link, forgotten, spared, late, pruned, handed, faults>>

\* applyRevocation: without a project there is nothing to erase.
FindShop(w) ==
  /\ worker[w].pc = "shop"
  /\ Update(w, IF connected THEN [worker[w] EXCEPT !.pc = "unlink"]
               ELSE [worker[w] EXCEPT !.pc = "close", !.outcome = "skip"])
  /\ UNCHANGED <<merchant, row, link, history, faults>>

\* The three steps of forgetVisitor.
Unlink(w) ==
  /\ worker[w].pc = "unlink"
  /\ customer' = IF customer = worker[w].browser THEN NoBrowser ELSE customer
  /\ Goto(w, "pointers")
  /\ UNCHANGED <<connected, minted, user, row, link, history, faults>>

Pointers(w) ==
  /\ worker[w].pc = "pointers"
  /\ user' = [a \in Browsers |-> IF user[a].merged = worker[w].browser
                                 THEN [user[a] EXCEPT !.merged = NoBrowser] ELSE user[a]]
  /\ Goto(w, "delete")
  /\ UNCHANGED <<connected, minted, customer, row, link, history, faults>>

Delete(w) ==
  /\ worker[w].pc = "delete"
  /\ user' = [user EXCEPT ![worker[w].browser] = NoUser]
  /\ Goto(w, "close")
  /\ UNCHANGED <<connected, minted, customer, row, link, history, faults>>

After == [shop |-> "close", unlink |-> "pointers", pointers |-> "delete", delete |-> "close"]

\* A step fails, as often as it likes: the others are done all the same, and the
\* attempt has failed.
StepFails(w) ==
  /\ worker[w].pc \in Applying \cup {"shop"}
  /\ Update(w, [worker[w] EXCEPT !.pc = After[worker[w].pc], !.outcome = "retry"])
  /\ UNCHANGED <<merchant, row, link, history, faults>>

\* concludi: the subject leaves the register in the statement that says completed.
Concluded(w) ==
  LET m == worker[w]
      status == StatusAfterAttempt(m.outcome, m.attempt)
  IN
  [row EXCEPT ![m.browser] = [@ EXCEPT !.status = status, !.due = FALSE, !.expired = FALSE,
                                       !.owner = Nobody,
                                       !.subject = row[m.browser].subject /\ status # "completed"]]

Conclude(w) ==
  LET m == worker[w] IN
  /\ m.pc = "close"
  /\ IF Guardia(w)
     THEN /\ row' = Concluded(w)
          /\ forgotten' = IF m.outcome = "done" THEN forgotten \cup {m.browser} ELSE forgotten
          /\ spared' = IF m.outcome = "skip" THEN spared \cup {m.browser} ELSE spared
     ELSE UNCHANGED <<row, forgotten, spared>>
  /\ Answer(w)
  /\ Update(w, Off)
  /\ UNCHANGED <<merchant, link, late, pruned, handed, faults>>

\* The invocation dies, or the register does not take its statement: nothing is
\* answered.
Crash(w) ==
  /\ worker[w].pc # "off"
  /\ Misfortune
  /\ Update(w, Off)
  /\ UNCHANGED <<merchant, row, link, history>>

-----------------------------------------------------------------------------
(* Time, the operator, the shop *)

BecomeDue(b) ==
  /\ row[b].status = "queued" /\ ~row[b].due
  /\ row' = [row EXCEPT ![b].due = TRUE]
  /\ UNCHANGED <<merchant, worker, link, history, faults>>

Expire(b) ==
  /\ row[b].status = "processing" /\ ~row[b].expired /\ ~Attended(b)
  /\ row' = [row EXCEPT ![b].expired = TRUE]
  /\ UNCHANGED <<merchant, worker, link, history, faults>>

\* The invocation is paused for longer than its lease.
Outlive(b) ==
  /\ row[b].status = "processing" /\ ~row[b].expired /\ Attended(b)
  /\ Misfortune
  /\ row' = [row EXCEPT ![b].expired = TRUE]
  /\ UNCHANGED <<merchant, worker, link, history>>

\* pruneRevocations.
Prune(b) ==
  /\ row[b].status = "completed"
  /\ row' = [row EXCEPT ![b] = NoRow]
  /\ pruned' = pruned \cup {b}
  /\ UNCHANGED <<merchant, worker, link, answered, forgotten, spared, late, handed, faults>>

PurgeSubject(b) ==
  /\ row[b].status = "dead_letter" /\ row[b].subject
  /\ row' = [row EXCEPT ![b].subject = FALSE]
  /\ UNCHANGED <<merchant, worker, link, history, faults>>

\* replayDeadRevocations.
Replay(b) ==
  /\ row[b].status = "dead_letter" /\ row[b].subject
  /\ Misfortune
  /\ row' = [row EXCEPT ![b] = [@ EXCEPT !.status = "queued", !.attempts = 0, !.due = TRUE,
                                         !.owner = Nobody, !.expired = FALSE]]
  /\ UNCHANGED <<merchant, worker, link, history>>

\* The merchant disconnects the project, or connects it again.
Connect ==
  /\ connected \/ spared # {}
  /\ connected => faults < MaxFaults
  /\ connected' = ~connected
  /\ faults' = IF connected THEN faults + 1 ELSE faults
  /\ UNCHANGED <<minted, user, customer, row, worker, link, history>>

-----------------------------------------------------------------------------

Progress(w) ==
  \/ Read(w) \/ FindShop(w) \/ Unlink(w) \/ Pointers(w) \/ Delete(w) \/ Conclude(w)

\* Time passes, the cron drains what is ready, a live invocation goes on.
Ordinary ==
  \/ \E b \in Browsers : BecomeDue(b) \/ Expire(b) \/ \E w \in Workers : Drain(w, b)
  \/ \E w \in Workers : Progress(w)

Next ==
  \/ Ordinary
  \/ \E b \in Browsers :
       \/ Mint(b) \/ PruneAnonymous(b) \/ RevokeFails(b) \/ Outlive(b) \/ Prune(b)
       \/ PurgeSubject(b) \/ Replay(b)
       \/ \E w \in Workers : Revoke(w, b)
       \/ \E l \in Links : Visit(l, b) \/ Identify(l, b)
  \/ \E w \in Workers : StepFails(w) \/ Crash(w)
  \/ \E l \in Links :
       Check(l) \/ List(l) \/ Merge(l) \/ Remember(l) \/ LinkFails(l) \/ LinkDies(l)
  \/ Connect

Spec == Init /\ [][Next]_vars

Fairness == WF_vars(Ordinary)

FairSpec == Spec /\ Fairness

-----------------------------------------------------------------------------
(* Properties *)

\* Nothing in the database of the merchant names the browser b.
Unnamed(b) == customer # b /\ \A a \in Browsers : user[a].merged # b

\* A revocation applied to the end leaves no row of the browser, and none comes
\* back afterwards, whoever links or receives it; and nothing names it any more
\* but what was written while the erasure was going on or later (forgetVisitor;
\* touchIssuedUser, which never creates).
AppliedIsForgotten ==
  \A b \in forgotten : ~user[b].issued /\ (b \notin late => Unnamed(b))

\* An identifier whose revocation was answered with ok is not given back to a
\* visit that begins afterwards, whatever fails, as long as the register
\* remembers it (rest.v1.tracking_id, isTrackingIdentityRevoked).
RevokedIsNotHandedBack == handed \subseteq pruned

\* A revocation that was answered with ok is in the register until it was applied
\* or there was nowhere to apply it (revokeTrackingIdentity: first it is written).
AnsweredIsKept ==
  \A b \in answered : row[b].status # "absent" \/ b \in forgotten \cup spared

\* A dead letter had all its attempts: none was given up by an invocation that
\* had lost its lease, or for want of the subject that another one took away.
DeadLetterHadAllAttempts ==
  \A b \in Browsers : row[b].status = "dead_letter" => row[b].attempts >= MaxAttempts

\* Every revocation is in the end applied, or put where somebody is called.
EverySettled ==
  \A b \in Withdrawing :
    row[b].status \in {"queued", "processing"} ~> row[b].status \in {"completed", "dead_letter"}

-----------------------------------------------------------------------------
(* The inductive invariant *)

RowIsSound(b) ==
  LET r == row[b] IN
  /\ r.status # "absent" \/ user[b].issued => b \in minted
  /\ r.owner # Nobody => r.status = "processing"
  /\ r.status \in {"queued", "processing"} => r.subject
  /\ r.status = "completed" => b \in forgotten \cup spared
  /\ b \in pruned => b \in forgotten \cup spared
  /\ b \in answered => r.status # "absent" \/ b \in pruned

RowsAreSound == \A b \in Browsers : RowIsSound(b)

\* What the invocation with the memory m has done so far is done.
MemoryIsSound(m) ==
  /\ m.pc = "off" <=> m.browser = NoBrowser
  /\ m.pc # "off" =>
       m.browser \in minted /\ (row[m.browser].status # "absent" \/ m.browser \in pruned)
  /\ m.outcome = "done" /\ m.pc \in {"pointers", "delete", "close"} =>
       customer # m.browser \/ m.browser \in late
  /\ m.outcome = "done" /\ m.pc \in {"delete", "close"} =>
       m.browser \in late \/ \A a \in Browsers : user[a].merged # m.browser
  /\ m.outcome = "done" /\ m.pc = "close" => ~user[m.browser].issued

\* Whoever still holds its row knows the number of the attempt, and has its subject.
HolderIsInformed(w) ==
  worker[w].pc # "off" /\ Guardia(w) =>
    /\ worker[w].outcome # "dead_letter"
    /\ worker[w].pc # "read" => worker[w].attempt = row[worker[w].browser].attempts

LinkIsSound(n) ==
  /\ n.pc # "off" => n.browser \in minted
  /\ n.pc = "merge" => n.canonical \in Browsers
  /\ n.warned => n.browser \in pruned

IInv ==
  /\ TypeOK
  /\ RowsAreSound
  /\ \A w \in Workers : MemoryIsSound(worker[w]) /\ HolderIsInformed(w)
  /\ \A l \in Links : LinkIsSound(link[l])
  /\ forgotten \subseteq minted /\ AppliedIsForgotten
  /\ RevokedIsNotHandedBack
  /\ DeadLetterHadAllAttempts

-----------------------------------------------------------------------------
(* What an attempt costs *)

\* No revocation has more attempts than MaxAttempts unless a misfortune paid for
\* each of the others: the claim does not look at the count, but takes over only
\* rows whose invocation died or outlived its lease (claimRevocation).
AttemptsArePaid == \A b \in Browsers : row[b].attempts <= MaxAttempts + faults

\* Somebody may take the row, or may when its lease has run out.
Takeable(b) ==
  \/ row[b].status \in {"absent", "queued"}
  \/ row[b].status = "processing" /\ (row[b].expired \/ ~Attended(b))

\* Such a row has one attempt to spare.
Spare(b) == Takeable(b) => row[b].attempts < MaxAttempts + faults

PInv == IInv /\ AttemptsArePaid /\ \A b \in Browsers : Spare(b)
=============================================================================
