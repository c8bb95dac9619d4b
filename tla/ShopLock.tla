------------------------------- MODULE ShopLock -------------------------------
(***************************************************************************)
(* The lock of one shop (shop-lock.server.ts): a row with an owner, a      *)
(* fencing token and an expiry, taken by the invocations that work the     *)
(* shop, renewed by their heartbeat and checked by assertHeld before each  *)
(* write on the database of the merchant; and the erasure of the shop      *)
(* (erasure-guard.server.ts, shop-record.server.ts), which takes the same  *)
(* lock and stops whoever was already working with a generation.           *)
(*                                                                         *)
(* Time is `now', the same for every process and for the database.  A      *)
(* statement carries the instant its process read when it sent it, and is  *)
(* executed at any later instant, or, where it may fail, never: the delay  *)
(* is not bounded, so that of a paused process is one of the behaviours.   *)
(***************************************************************************)
EXTENDS Integers, FiniteSets

CONSTANTS
  Runs,       \* the invocations that ask for the lock, one UUID each
  Erasers,    \* those of shop/redact, which pass duringErasure
  NoRun,
  Ttl,        \* LEASE_TTL_MS
  Cache,      \* ASSERT_CACHE_MS
  Grace,      \* how long pruneExpiredShopLocks leaves an expired row alone
  MaxTime,    \* bound: the instants of the clock
  MaxBeats,   \* bound: heartbeats of one run sent and not yet executed
  MaxFaults   \* bound: misfortunes (see Misfortune) in one behaviour

ASSUME ConstantsAssumption ==
  /\ NoRun \notin Runs
  /\ Erasers \subseteq Runs
  /\ Ttl \in Nat \ {0} /\ Cache \in Nat /\ Grace \in Nat
  /\ MaxTime \in Nat /\ MaxBeats \in Nat /\ MaxFaults \in Nat

VARIABLES
  now,
  lock,      \* the row of shop_locks, or Free
  shop,      \* lifecycle_status and erasure_generation of the shop
  run,       \* the memory of each invocation
  beats,     \* the instants carried by the heartbeats in flight, per run
  lostAt,    \* history: when the row stopped being that of a run at work,
  endedAt,   \* when the run ended,
  markedAt,  \* and when the erasure of the shop began
  faults

past == <<lostAt, endedAt, markedAt>>
vars == <<now, lock, shop, run, beats, past, faults>>

Time == 0 .. MaxTime
Never == -1

LockType == [owner : Runs \cup {NoRun}, token : Nat, expires : Nat]
Free == [owner |-> NoRun, token |-> 0, expires |-> 0]

\* "asking" and "orphan": the INSERT is in flight, and in the second case nobody
\* waits for it.  "checkingLock" and "checkingShop": the two reads of assertHeld.
\* "verified": both were executed and answered well, and the last answer has not
\* reached the process.  "permitted": assertHeld returned.  "marked": the eraser
\* closed the shop.
PCs == {"idle", "asking", "orphan", "granted", "working", "checkingLock",
        "checkingShop", "verified", "permitted", "marked", "releasing", "ended"}

\* While the callback runs the heartbeat does.
AtWork == {"working", "checkingLock", "checkingShop", "verified", "permitted", "marked"}

\* token = 0: no row came back.  generation = Never: null.
RunType ==
  [pc : PCs, token : Nat, generation : Nat \cup {Never}, asked : Time,
   checked : Int, halted : BOOLEAN]

TypeOK ==
  /\ now \in Time
  /\ lock \in LockType
  /\ shop \in [life : {"active", "erasing", "gone"}, generation : Nat]
  /\ run \in [Runs -> RunType]
  /\ beats \in [Runs -> SUBSET Time]
  /\ lostAt \in [Runs -> Time \cup {Never}]
  /\ endedAt \in [Runs -> Time \cup {Never}]
  /\ markedAt \in Time \cup {Never}
  /\ faults \in 0 .. MaxFaults

\* checked = -Cache stands for ultimaVerifica = 0: nothing was ever verified.
Blank(pc, token) == [pc |-> pc, token |-> token, generation |-> Never, asked |-> 0,
                     checked |-> -Cache, halted |-> FALSE]

Init ==
  /\ now = 0
  /\ lock = Free
  /\ shop = [life |-> "active", generation |-> 0]
  /\ run = [x \in Runs |-> Blank("idle", 0)]
  /\ beats = [x \in Runs |-> {}]
  /\ lostAt = [x \in Runs |-> Never] /\ endedAt = [x \in Runs |-> Never]
  /\ markedAt = Never
  /\ faults = 0

-----------------------------------------------------------------------------
(* Vocabulary *)

Misfortune ==
  /\ faults < MaxFaults
  /\ faults' = faults + 1

\* Fault: the WHERE names the shop and not the holder.
MineOrNot(x) == lock.owner # NoRun

\* The WHERE of the heartbeat, of the release and of the read of assertHeld.
Mine(x) == lock.owner = x /\ lock.token = run[x].token

\* The ON CONFLICT of the INSERT, on the clock of the one who asks.
Takeable(stamp) == lock.owner = NoRun \/ lock.expires <= stamp

\* The row as the INSERT of x leaves it: inserted with token 1, or taken over.
TakenBy(x) == [owner |-> x, token |-> lock.token + 1, expires |-> run[x].asked + Ttl]

\* Fault: the DELETE is by shop.
AfterReleaseOfAnybody(x) == Free

\* The row as the conditional DELETE of x leaves it.
AfterRelease(x) == IF Mine(x) THEN Free ELSE lock

Goes(x, pc) == run' = [run EXCEPT ![x].pc = pc]

\* arrendi
Halts(x) == run' = [run EXCEPT ![x].halted = TRUE]

\* x leaves its callback, or ends: only its owner and token are still of use.
Closes(x, pc) == run' = [run EXCEPT ![x] = Blank(pc, run[x].token)]

\* assertHeld throws: shop/redact gives up, another handler may catch and go on.
Throws(x, halted) ==
  IF x \in Erasers THEN Closes(x, "releasing")
  ELSE run' = [run EXCEPT ![x].pc = "working", ![x].halted = @ \/ halted]

\* Bookkeeping of the histories: x ends now; the row stops being somebody's.
Ends(x) == endedAt' = [endedAt EXCEPT ![x] = now]

Loses ==
  lostAt' = [y \in Runs |-> IF lock.owner = y /\ lock'.owner # y /\ run[y].pc \in AtWork
                            THEN now ELSE lostAt[y]]

-----------------------------------------------------------------------------
(* runWithShopLease: taking the lock *)

Ask(x) ==
  /\ run[x].pc = "idle"
  /\ run' = [run EXCEPT ![x].pc = "asking", ![x].asked = now]
  /\ UNCHANGED <<now, lock, shop, beats, past, faults>>

\* The INSERT takes the row and the run goes on.
Acquire(x) ==
  /\ run[x].pc = "asking" /\ Takeable(run[x].asked)
  /\ lock' = TakenBy(x)
  /\ run' = [run EXCEPT ![x].pc = "granted", ![x].token = lock.token + 1]
  /\ Loses
  /\ UNCHANGED <<now, shop, beats, faults, endedAt, markedAt>>

\* No row came back: 'occupato'.
Busy(x) ==
  /\ run[x].pc = "asking" /\ ~Takeable(run[x].asked)
  /\ Closes(x, "ended") /\ Ends(x)
  /\ UNCHANGED <<now, lock, shop, beats, faults, lostAt, markedAt>>

\* The answer never comes: 'non-disponibile', or the process died.  The INSERT may
\* still be executed, when nobody waits for it any more.
AskLost(x) ==
  /\ run[x].pc = "asking"
  /\ Misfortune
  /\ Goes(x, "orphan") /\ Ends(x)
  /\ UNCHANGED <<now, lock, shop, beats, lostAt, markedAt>>

OrphanLands(x) ==
  /\ run[x].pc = "orphan" /\ Takeable(run[x].asked)
  /\ lock' = TakenBy(x)
  /\ Closes(x, "ended") /\ Loses
  /\ UNCHANGED <<now, shop, beats, faults, endedAt, markedAt>>

\* The generation is read after the lock was taken.  A shop in erasure is not
\* worked, a missing one gives null, and a signal already aborted starts nothing.
ReadShop(x) ==
  /\ run[x].pc = "granted" /\ x \notin Erasers
  /\ IF shop.life = "erasing" \/ run[x].halted
     THEN Closes(x, "releasing")
     ELSE run' = [run EXCEPT
            ![x].pc = "working",
            ![x].generation = IF shop.life = "active" THEN shop.generation ELSE Never]
  /\ UNCHANGED <<now, lock, shop, beats, past, faults>>

\* shop/redact does not read it.
EraserStarts(x) ==
  /\ run[x].pc = "granted" /\ x \in Erasers
  /\ IF run[x].halted THEN Closes(x, "releasing") ELSE Goes(x, "working")
  /\ UNCHANGED <<now, lock, shop, beats, past, faults>>

ReadShopFails(x) ==
  /\ run[x].pc = "granted" /\ x \notin Erasers
  /\ Misfortune
  /\ Closes(x, "releasing")
  /\ UNCHANGED <<now, lock, shop, beats, past>>

-----------------------------------------------------------------------------
(* The heartbeat and the signal *)

\* setInterval fires, however late; it does not wait for the answer before.
Beat(x) ==
  /\ run[x].pc \in AtWork
  /\ Cardinality(beats[x] \cup {now}) <= MaxBeats
  /\ beats' = [beats EXCEPT ![x] = @ \cup {now}]
  /\ UNCHANGED <<now, lock, shop, run, past, faults>>

\* Fault: the new expiry is counted from the execution.
BeatLandsOnItsClock(x, t) ==
  /\ t \in beats[x]
  /\ beats' = [beats EXCEPT ![x] = @ \ {t}]
  /\ Mine(x) /\ lock' = [lock EXCEPT !.expires = now + Ttl]
  /\ UNCHANGED <<now, shop, run, past, faults>>

\* The UPDATE, even after its sender ended; zero rows stop the run.
BeatLands(x, t) ==
  /\ t \in beats[x]
  /\ beats' = [beats EXCEPT ![x] = @ \ {t}]
  /\ IF Mine(x)
     THEN lock' = [lock EXCEPT !.expires = t + Ttl] /\ UNCHANGED run
     ELSE UNCHANGED lock /\ IF run[x].pc \in AtWork THEN Halts(x) ELSE UNCHANGED run
  /\ UNCHANGED <<now, shop, past, faults>>

\* An error of the heartbeat is swallowed.
BeatFails(x, t) ==
  /\ t \in beats[x]
  /\ Misfortune
  /\ beats' = [beats EXCEPT ![x] = @ \ {t}]
  /\ UNCHANGED <<now, lock, shop, run, past>>

\* maxRunMs passes, or the signal of the caller is aborted: at any time, but only
\* noticed where the signal is looked at, after the lock was taken and by assertHeld.
Interrupt(x) ==
  /\ run[x].pc \in {"granted", "working"} /\ ~run[x].halted
  /\ Halts(x)
  /\ UNCHANGED <<now, lock, shop, beats, past, faults>>

-----------------------------------------------------------------------------
(* assertHeld *)

\* Inside the window of the last verification nothing is read.
AssertCached(x) ==
  /\ run[x].pc = "working" /\ ~run[x].halted
  /\ now - run[x].checked < Cache
  /\ Goes(x, "permitted")
  /\ UNCHANGED <<now, lock, shop, beats, past, faults>>

AssertAsks(x) ==
  /\ run[x].pc = "working" /\ ~run[x].halted
  /\ ~(now - run[x].checked < Cache)
  /\ run' = [run EXCEPT ![x].pc = "checkingLock", ![x].asked = now]
  /\ UNCHANGED <<now, lock, shop, beats, past, faults>>

\* A run of shop/redact, and one that found no shop, compare no generation.
AssertReadsLock(x) ==
  /\ run[x].pc = "checkingLock"
  /\ IF Mine(x) /\ lock.expires > run[x].asked
     THEN Goes(x, IF x \notin Erasers /\ run[x].generation # Never
                  THEN "checkingShop" ELSE "verified")
     ELSE Throws(x, TRUE)
  /\ UNCHANGED <<now, lock, shop, beats, past, faults>>

\* Fault: a shop whose row is gone is not noticed.
AssertReadsShopIfAny(x) ==
  /\ run[x].pc = "checkingShop"
  /\ IF shop.life # "erasing" THEN Goes(x, "verified") ELSE Throws(x, TRUE)
  /\ UNCHANGED <<now, lock, shop, beats, past, faults>>

AssertReadsShop(x) ==
  /\ run[x].pc = "checkingShop"
  /\ IF shop.life = "active" /\ shop.generation = run[x].generation
     THEN Goes(x, "verified") ELSE Throws(x, TRUE)
  /\ UNCHANGED <<now, lock, shop, beats, past, faults>>

\* Fault: the window is counted from the answer.
AssertReturnsFromNow(x) ==
  /\ run[x].pc = "verified"
  /\ run' = [run EXCEPT ![x].pc = "permitted", ![x].checked = now]
  /\ UNCHANGED <<now, lock, shop, beats, past, faults>>

\* The answer of the last read reaches the process, however late, and assertHeld
\* returns: it looks at nothing again, and counts its window from its start.
AssertReturns(x) ==
  /\ run[x].pc = "verified"
  /\ run' = [run EXCEPT ![x].pc = "permitted", ![x].checked = run[x].asked]
  /\ UNCHANGED <<now, lock, shop, beats, past, faults>>

AssertFails(x) ==
  /\ run[x].pc \in {"checkingLock", "checkingShop", "verified"}
  /\ Misfortune
  /\ Throws(x, FALSE)
  /\ UNCHANGED <<now, lock, shop, beats, past>>

-----------------------------------------------------------------------------
(* What the invocations do with their permit *)

\* A write on the database of the merchant, which does not know the lock.
Write(x) ==
  /\ run[x].pc = "permitted" /\ x \notin Erasers
  /\ Goes(x, "working")
  /\ UNCHANGED <<now, lock, shop, beats, past, faults>>

\* beginShopErasure, in a write of its own; it throws when the shop is gone.
Mark(x) ==
  /\ run[x].pc = "permitted" /\ x \in Erasers
  /\ IF shop.life = "gone"
     THEN Closes(x, "releasing") /\ UNCHANGED <<shop, markedAt>>
     ELSE /\ shop' = [life |-> "erasing", generation |-> shop.generation + 1]
          /\ markedAt' = IF markedAt = Never THEN now ELSE markedAt
          /\ Goes(x, "marked")
  /\ UNCHANGED <<now, lock, beats, faults, lostAt, endedAt>>

\* cancellaInTransazione: proof and rows, all or nothing.
Erase(x) ==
  /\ run[x].pc = "marked"
  /\ shop' = [shop EXCEPT !.life = "gone"]
  /\ Closes(x, "releasing")
  /\ UNCHANGED <<now, lock, beats, past, faults>>

\* One of the two fails; the mark of a failed erasure stays.
EraseFails(x) ==
  /\ x \in Erasers /\ run[x].pc \in {"permitted", "marked"}
  /\ Misfortune
  /\ Closes(x, "releasing")
  /\ UNCHANGED <<now, lock, shop, beats, past>>

\* The callback returns or throws.  That of shop/redact only does so early when
\* assertHeld stopped it.
Finish(x) ==
  /\ run[x].pc = "working"
  /\ x \in Erasers => run[x].halted
  /\ Closes(x, "releasing")
  /\ UNCHANGED <<now, lock, shop, beats, past, faults>>

\* The finally of runWithShopLease, and the early releases.
Release(x) ==
  /\ run[x].pc = "releasing"
  /\ lock' = AfterRelease(x)
  /\ Closes(x, "ended")
  /\ Ends(x) /\ Loses
  /\ UNCHANGED <<now, shop, beats, faults, markedAt>>

\* An error of the release is swallowed.
ReleaseFails(x) ==
  /\ run[x].pc = "releasing"
  /\ Misfortune
  /\ Closes(x, "ended") /\ Ends(x)
  /\ UNCHANGED <<now, lock, shop, beats, lostAt, markedAt>>

Crash(x) ==
  /\ run[x].pc \notin {"idle", "asking", "orphan", "ended"}
  /\ Misfortune
  /\ Closes(x, "ended") /\ Ends(x)
  /\ UNCHANGED <<now, lock, shop, beats, lostAt, markedAt>>

-----------------------------------------------------------------------------
(* The cron and the clock *)

PruneExpired ==
  /\ lock.owner # NoRun /\ lock.expires < now - Grace
  /\ lock' = Free
  /\ Loses
  /\ UNCHANGED <<now, shop, run, beats, faults, endedAt, markedAt>>

Tick ==
  /\ now < MaxTime
  /\ now' = now + 1
  /\ UNCHANGED <<lock, shop, run, beats, past, faults>>

-----------------------------------------------------------------------------

Taking(x) ==
  \/ Ask(x) \/ Acquire(x) \/ Busy(x) \/ AskLost(x) \/ OrphanLands(x)
  \/ ReadShop(x) \/ EraserStarts(x) \/ ReadShopFails(x)

Renewing(x) ==
  \/ Beat(x) \/ Interrupt(x)
  \/ \E t \in beats[x] : BeatLands(x, t) \/ BeatFails(x, t)

Asserting(x) ==
  \/ AssertCached(x) \/ AssertAsks(x)
  \/ AssertReadsLock(x) \/ AssertReadsShop(x)
  \/ AssertReturns(x) \/ AssertFails(x)

Working(x) ==
  \/ Write(x) \/ Mark(x) \/ Erase(x) \/ EraseFails(x)
  \/ Finish(x) \/ Release(x) \/ ReleaseFails(x) \/ Crash(x)

Next ==
  \/ \E x \in Runs : Taking(x) \/ Renewing(x) \/ Asserting(x) \/ Working(x)
  \/ PruneExpired \/ Tick

Spec == Init /\ [][Next]_vars

-----------------------------------------------------------------------------
(* Properties *)

\* Nobody takes the row away while the lease in it is alive, on the clock of that
\* instant, but the run that owns it, when it is over: neither a run that asks
\* with an old clock, nor the late DELETE of a former owner, nor the cron.
LiveLeaseIsSafe ==
  [][\A x \in Runs :
       lock.owner = x /\ lock.expires > now /\ lock'.owner # x
       => run[x].pc = "releasing" /\ run'[x].pc = "ended"]_vars

\* An invocation that is over, however it ended, keeps the shop closed for one
\* TTL from its end and no longer, even if its INSERT or its heartbeats are
\* executed afterwards ("un'invocazione morta lo libera in un minuto").
DeadHolderLetsGo ==
  \A x \in Runs :
    lock.owner = x /\ run[x].pc = "ended" => lock.expires <= endedAt[x] + Ttl

Permits(x) == run[x].pc # "permitted" /\ run'[x].pc = "permitted"

\* Whoever lost the lock gets no permit to write any more, except out of a
\* verification that began before the loss: one whose answer was in flight, or one
\* younger than ASSERT_CACHE_MS.  However long the process was paused.
PermitFollowsLock ==
  [][\A x \in Runs : Permits(x) =>
       \/ lostAt[x] = Never
       \/ run[x].pc # "working" /\ lostAt[x] >= run[x].asked
       \/ now < lostAt[x] + Cache]_vars

\* The same for the erasure: once shop/redact closed the shop, no run that found it
\* open gets a permit, but out of a verification that began before the mark: one
\* whose answer was in flight, however long, or one younger than ASSERT_CACHE_MS.
\* Whether or not the erasure succeeded since and the row of the shop is gone.
PermitFollowsErasure ==
  [][\A x \in Runs \ Erasers : Permits(x) /\ run[x].generation # Never =>
       \/ markedAt = Never
       \/ run[x].pc # "working" /\ markedAt >= run[x].asked
       \/ now < markedAt + Cache]_vars

-----------------------------------------------------------------------------
(* The lease without its clock *)

Standing == lock.owner # NoRun /\ lock.expires > now

\* A run whose INSERT may still be executed waits, even if nobody waits for it.
Stage(pc) ==
  CASE pc \in {"idle", "asking", "orphan"} -> "waiting"
    [] pc = "ended"                        -> "over"
    [] OTHER                               -> "inside"

Lease == INSTANCE ShopLease WITH
  holder   <- lock.owner,
  standing <- Standing,
  stage    <- [x \in Runs |-> Stage(run[x].pc)]

\* The row of shop_locks, the statements in flight and the clocks they carry behave
\* as the lease ShopLease promises: one holder at a time, a lease that stands ended
\* by its holder alone, renewals and releases of former holders without effect.
ImplementsShopLease == Lease!Spec

\* A run that was granted the lock, or ended, and does not have it, never has it
\* again: no late INSERT or heartbeat of its own brings it back.
LostIsLost ==
  [][\A x \in Runs :
       Stage(run[x].pc) # "waiting" /\ lock.owner # x => lock'.owner # x]_vars

-----------------------------------------------------------------------------
(* The inductive invariant *)

\* No process and no message knows an instant to come.
PastIsPast ==
  \A x \in Runs :
    /\ run[x].asked <= now /\ run[x].checked <= now
    /\ \A t \in beats[x] : t <= now
    /\ lostAt[x] <= now /\ endedAt[x] <= now /\ markedAt <= now

\* A run that was not granted the lock owns nothing and sent nothing.
NotYet ==
  \A x \in Runs : run[x].pc \in {"idle", "asking", "orphan"} =>
    /\ lock.owner # x /\ lostAt[x] = Never
    /\ run[x].checked = -Cache /\ beats[x] = {}

\* A lease never reaches further than one TTL from now, nor from the end of a
\* run that is over, nor can a message in flight make it.
LeaseIsShort ==
  /\ lock.owner # NoRun => lock.expires <= now + Ttl
  /\ \A x \in Runs :
       /\ run[x].pc = "orphan" => run[x].asked <= endedAt[x]
       /\ run[x].pc = "ended" => \A t \in beats[x] : t <= endedAt[x]

\* The lock was still there at the last instant a run remembers it verified.
VerifiedBeforeLoss ==
  \A x \in Runs :
    /\ lock.owner = x => lostAt[x] = Never
    /\ lostAt[x] # Never =>
         /\ run[x].checked <= lostAt[x]
         /\ run[x].pc \in {"checkingShop", "verified"} => run[x].asked <= lostAt[x]

\* And so was the shop.
VerifiedBeforeErasure ==
  /\ shop.life = "active" <=> markedAt = Never
  /\ \A x \in Runs \ Erasers :
       markedAt # Never /\ run[x].generation # Never
       => /\ run[x].checked <= markedAt
          /\ run[x].pc = "verified" => run[x].asked <= markedAt
  /\ \A x \in Runs :
       /\ run[x].pc = "checkingShop" => x \notin Erasers /\ run[x].generation # Never
       /\ run[x].pc = "marked" => markedAt # Never

IInv ==
  /\ TypeOK
  /\ PastIsPast /\ NotYet
  /\ LeaseIsShort /\ DeadHolderLetsGo
  /\ VerifiedBeforeLoss /\ VerifiedBeforeErasure
=============================================================================
