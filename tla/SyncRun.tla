------------------------------- MODULE SyncRun -------------------------------
(***************************************************************************)
(* The synchronisation of one shop: runs (processors.server.ts) read what  *)
(* changed on Shopify since the watermark, write it to the database of the *)
(* merchant, and at their end commit, in one transaction, a new watermark  *)
(* and a repair for each resource they could not write                     *)
(* (repair-ledger.ts, repair-outbox.server.ts, watermark.ts).              *)
(*                                                                         *)
(* Abstractions.  An item is a product or a customer of a plan without a   *)
(* quota, and its content is a version number.  The lock of the shop is a  *)
(* variable: how it is kept is ShopLock.  assertHeld and the write after   *)
(* it are one step.  The obsolete rows of a product are not part of the    *)
(* state: a run that looks for them may find some or not.  A repair whose  *)
(* row is done is one that has no row.                                     *)
(***************************************************************************)
EXTENDS Integers, FiniteSets

CONSTANTS
  Products, Customers,
  Runs,          \* the invocations in which runs of this shop execute
  NoRun, NoItem,
  Older,         \* the items that were last modified before the connection
  Overlap,       \* WATERMARK_OVERLAP_MS
  Skew,          \* how far the clock of Shopify may be from ours
  MaxAttempts,   \* MAX_REPAIR_ATTEMPTS
  MaxRepairs,    \* MAX_REPAIRS_PER_RUN
  MaxTime,       \* bound: the instants of the clock
  MaxVersion,    \* bound: the versions of one item
  MaxFaults      \* bound: misfortunes (see Misfortune) in one behaviour

Items == Products \cup Customers

ASSUME ConstantsAssumption ==
  /\ Products \cap Customers = {}
  /\ NoRun \notin Runs /\ NoItem \notin Items /\ Older \subseteq Items
  /\ Overlap \in Nat /\ Skew \in Nat /\ Skew <= Overlap
  /\ MaxAttempts \in Nat \ {0} /\ MaxRepairs \in Nat
  /\ MaxTime \in Nat /\ MaxVersion \in Nat \ {0} /\ MaxFaults \in Nat

VARIABLES
  now,
  src,        \* the items on Shopify
  copy,       \* the version of each item that the merchant's rows reflect
  connected,  \* supabase_configs.updated_at: from where to read without a watermark
  watermark,  \* the greatest watermark_at among the jobs of the shop
  repair,     \* the table sync_repairs
  holder,     \* the run that has the lock of the shop
  run,        \* the memory of each run
  passed,     \* history: items whose row was written, or whose repair was
              \* closed, by a run that had lost the lock, and not written since
  overtaken,  \* history: products to which a webhook wrote what it had read
              \* before they were modified, and not written since
  unheld,     \* history: items whose repairs the watermark need not wait for
  missed,     \* history: items modified before the connection while there was no
              \* watermark, which only a bulk run or a modification brings back
  faults

history == <<passed, overtaken, unheld, missed>>
vars == <<now, src, copy, connected, watermark, repair, holder, run, history, faults>>

Keys == (Products \X {"upsert", "delete"}) \cup (Customers \X {"revoke"})

\* An instant before the connection, on any clock.
Before == -1 - Skew

\* No run ever earned a watermark.  A resource has no draft in the ledger.
Never == Before - 1
NoDraft == Never

\* ok: the product has a row worth writing, the customer has given consent.
ItemType == [ver : Nat, stamp : Int, ok : BOOLEAN]

RepairType == [status : {"closed", "pending", "dead"}, stamp : Int, attempts : Nat]
Closed == [status |-> "closed", stamp |-> 0, attempts |-> 0]

\* page: the item as it was read.  existing: the open repairs read at the start.
\* opened and closed are the ledger, full says that it overflowed, and failed that
\* a deletion failed for the product under work.
RunType ==
  [pc : {"off", "pages", "rows", "writing"}, kind : {"bulk", "periodic"},
   started : Nat, floor : Int, existing : [Keys -> RepairType], todo : SUBSET Items,
   item : Items \cup {NoItem}, page : ItemType,
   opened : [Keys -> Int], closed : SUBSET Keys, full : BOOLEAN, failed : BOOLEAN]

TypeOK ==
  /\ now \in 0 .. MaxTime
  /\ src \in [Items -> ItemType]
  /\ copy \in [Items -> Nat]
  /\ connected \in 0 .. MaxTime
  /\ watermark \in Int
  /\ repair \in [Keys -> RepairType]
  /\ holder \in Runs \cup {NoRun}
  /\ run \in [Runs -> RunType]
  /\ passed \subseteq Items /\ overtaken \subseteq Items
  /\ unheld \subseteq Items /\ missed \subseteq Items
  /\ faults \in 0 .. MaxFaults

NoPage == [ver |-> 0, stamp |-> 0, ok |-> FALSE]

Off == [pc |-> "off", kind |-> "periodic", started |-> 0, floor |-> 0,
        existing |-> [k \in Keys |-> Closed], todo |-> {}, item |-> NoItem,
        page |-> NoPage, opened |-> [k \in Keys |-> NoDraft], closed |-> {},
        full |-> FALSE, failed |-> FALSE]

\* The database was just connected, and nothing was ever synchronised.
Init ==
  /\ now = 0 /\ connected = 0
  /\ src = [i \in Items |->
       [ver |-> 1, stamp |-> IF i \in Older THEN Before ELSE 0, ok |-> TRUE]]
  /\ copy = [i \in Items |-> 0]
  /\ watermark = Never
  /\ repair = [k \in Keys |-> Closed]
  /\ holder = NoRun
  /\ run = [r \in Runs |-> Off]
  /\ passed = {} /\ overtaken = {} /\ unheld = {}
  /\ missed = Older
  /\ faults = 0

-----------------------------------------------------------------------------
(* Vocabulary *)

Misfortune ==
  /\ faults < MaxFaults
  /\ faults' = faults + 1

\* Fault: the window for the clock of Shopify is left out.
FloorAtMark(mark) == mark

\* From where a run reads that begins at a watermark.
Floor(mark) == mark - Overlap

\* deltaFloor: without a watermark the window is not subtracted.
DeltaFloor(mark, fallback) == IF mark = Never THEN fallback ELSE Floor(mark)

Reads(r, i) == run[r].kind = "bulk" \/ src[i].stamp >= run[r].floor

\* Fault: the limit is not looked at.
OpenedForgetting(m, k, stamp) ==
  IF Cardinality({q \in Keys : m.opened[q] # NoDraft}) >= MaxRepairs
  THEN m ELSE [m EXCEPT !.opened[k] = stamp]

\* RepairLedger.open, for a key the ledger does not have yet.
Opened(m, k, stamp) ==
  IF Cardinality({q \in Keys : m.opened[q] # NoDraft}) >= MaxRepairs
  THEN [m EXCEPT !.full = TRUE]
  ELSE [m EXCEPT !.opened[k] = stamp]

\* RepairLedger.resolve
Resolved(m, S) == [m EXCEPT !.closed = @ \cup S]

\* The run goes to its next item.
Onward(m) == [m EXCEPT !.pc = "pages", !.item = NoItem, !.page = NoPage, !.failed = FALSE]

Goes(r, m) == run' = [run EXCEPT ![r] = m]

\* The lock is asserted before the rows of products are touched and before
\* customers are written, not before the consent of customers is withdrawn.
Asserts(m) == m.item \in Products \/ m.page.ok

\* The run ends; its runWithShopLease releases what is still its own.
Ends(r) ==
  /\ run' = [run EXCEPT ![r] = Off]
  /\ holder' = IF holder = r THEN NoRun ELSE holder

-----------------------------------------------------------------------------
(* A run *)

\* The connection, the checkpoint and the open repairs are read at the start.  The
\* cron asks for a periodic run, also when no run of the shop ever ended well.
Start(r, kind) ==
  /\ run[r].pc = "off" /\ holder = NoRun
  /\ holder' = r
  /\ Goes(r, [Off EXCEPT
       !.pc = "pages", !.kind = kind, !.started = now,
       !.floor = DeltaFloor(watermark, connected),
       !.existing = [k \in Keys |-> IF repair[k].status = "pending" THEN repair[k] ELSE Closed],
       !.todo = Items])
  /\ UNCHANGED <<now, src, copy, connected, watermark, repair, history, faults>>

\* Products come first.  A product of a bulk run without a row worth writing, and
\* what has not changed since the floor of a periodic one, is left alone.
Fetch(r, i) ==
  LET m == run[r] IN
  /\ m.pc = "pages" /\ i \in m.todo
  /\ i \in Customers => m.todo \cap Products = {}
  /\ IF ~Reads(r, i) \/ (m.kind = "bulk" /\ i \in Products /\ ~src[i].ok)
     THEN Goes(r, [m EXCEPT !.todo = @ \ {i}])
     ELSE Goes(r, [m EXCEPT
            !.pc = IF m.kind = "periodic" /\ i \in Products THEN "rows" ELSE "writing",
            !.todo = @ \ {i}, !.item = i, !.page = src[i]])
  /\ UNCHANGED <<now, src, copy, connected, watermark, repair, holder, history, faults>>

\* A product without a row worth writing ends here.
AfterRows(m) == IF m.page.ok THEN [m EXCEPT !.pc = "writing"] ELSE Onward(m)

\* The existing rows were read and there was nothing to delete, or it was deleted;
\* or they could not be read, nothing was found, and nothing was deleted.
Tidy(r) ==
  /\ run[r].pc = "rows"
  /\ Goes(r, AfterRows(run[r]))
  /\ UNCHANGED <<now, src, copy, connected, watermark, repair, holder, history, faults>>

\* The deletion failed.
DeleteFails(r) ==
  LET m == run[r] IN
  /\ m.pc = "rows" /\ holder = r
  /\ Misfortune
  /\ Goes(r, AfterRows([Opened(m, <<m.item, "delete">>, m.page.stamp) EXCEPT !.failed = TRUE]))
  /\ UNCHANGED <<now, src, copy, connected, watermark, repair, holder, history>>

\* What a successful write resolves: nothing in a bulk run, the two repairs of a
\* product in a periodic one, that of a customer whose consent was withdrawn.
Resolves(m) ==
  {k \in Keys :
    /\ k[1] = m.item
    /\ \/ m.kind = "periodic" /\ k[2] = "upsert"
       \/ m.kind = "periodic" /\ k[2] = "delete" /\ ~m.failed
       \/ k[2] = "revoke" /\ ~m.page.ok}

Write(r) ==
  LET m == run[r] IN
  /\ m.pc = "writing"
  /\ Asserts(m) => holder = r
  /\ copy' = [copy EXCEPT ![m.item] = m.page.ver]
  /\ Goes(r, Onward(Resolved(m, Resolves(m))))
  /\ passed' = IF holder = r THEN passed \ {m.item} ELSE passed \cup {m.item}
  /\ overtaken' = overtaken \ {m.item}
  /\ UNCHANGED <<now, src, connected, watermark, repair, holder, unheld, missed, faults>>

\* Fault: a product that could not be written is only logged.
WriteFailsSilently(r) ==
  LET m == run[r] IN
  /\ m.pc = "writing"
  /\ Asserts(m) => holder = r
  /\ Misfortune
  /\ Goes(r, Onward(m))
  /\ UNCHANGED <<now, src, copy, connected, watermark, repair, holder, history>>

\* A failure the run survives: it leaves a draft in the ledger.
WriteFails(r) ==
  LET m == run[r] IN
  /\ m.pc = "writing"
  /\ Asserts(m) => holder = r
  /\ Misfortune
  /\ \/ /\ m.item \in Products /\ m.kind = "periodic"
        /\ Goes(r, Onward(Opened(m, <<m.item, "upsert">>, m.page.stamp)))
     \/ /\ m.item \in Customers /\ ~m.page.ok
        /\ Goes(r, Onward(Opened(m, <<m.item, "revoke">>, m.page.stamp)))
  /\ UNCHANGED <<now, src, copy, connected, watermark, repair, holder, history>>

\* A critical failure, an unreadable page, a signal, the end of the process.
Fails(r) ==
  /\ run[r].pc # "off"
  /\ Misfortune
  /\ Ends(r)
  /\ UNCHANGED <<now, src, copy, connected, watermark, repair, history>>

\* assertHeld throws.
Stopped(r) ==
  /\ run[r].pc \in {"rows", "writing"} /\ holder # r
  /\ Asserts(run[r])
  /\ Ends(r)
  /\ UNCHANGED <<now, src, copy, connected, watermark, repair, history, faults>>

Done(m) == m.pc = "pages" /\ m.todo = {}

\* Too many repairs: the run fails.
Overflows(r) ==
  /\ Done(run[r]) /\ run[r].full
  /\ Ends(r)
  /\ UNCHANGED <<now, src, copy, connected, watermark, repair, history, faults>>

-----------------------------------------------------------------------------
(* commitSyncRun *)

\* The later of the stamp a repair had and the new one.
Stamped(m, k) ==
  IF m.existing[k].status = "pending" /\ m.existing[k].stamp >= m.opened[k]
  THEN m.existing[k].stamp ELSE m.opened[k]

\* A draft as the upsert of the transaction leaves its row.
Drafted(m, k) ==
  [status |-> IF m.existing[k].attempts + 1 >= MaxAttempts THEN "dead" ELSE "pending",
   stamp |-> Stamped(m, k), attempts |-> m.existing[k].attempts + 1]

\* The rows closed by id: those read as open at the start, whatever they are now.
ClosedBy(m) == {k \in m.closed : m.existing[k].status = "pending"}

Committed(m) ==
  [k \in Keys |-> IF m.opened[k] # NoDraft THEN Drafted(m, k)
                  ELSE IF k \in ClosedBy(m) THEN Closed
                  ELSE repair[k]]

\* Fault: only the repairs of this run hold the watermark back.
OpenAfterOwn(m) ==
  {Stamped(m, k) : k \in {q \in Keys :
     m.opened[q] # NoDraft /\ Drafted(m, q).status = "pending"}}

\* planRepairCommit: the stamps of the repairs that stay open, as this run knows
\* them: its own, and those of the start that it neither wrote nor closed.
OpenAfter(m) ==
  {Stamped(m, k) : k \in {q \in Keys :
     m.opened[q] # NoDraft /\ Drafted(m, q).status = "pending"}}
  \cup {m.existing[k].stamp : k \in {q \in Keys :
     m.existing[q].status = "pending" /\ m.opened[q] = NoDraft /\ q \notin m.closed}}

\* watermarkToCommit: the start of the run, or the oldest stamp before it.
IsBoundary(mark, m) ==
  \A other \in {m.started} \cup OpenAfter(m) : mark <= other

\* The transaction, which asks nobody whether the lock is still held; the jobs
\* keep their watermarks, and the greatest counts.
Commit(r) ==
  LET m == run[r] IN
  /\ Done(m) /\ ~m.full
  /\ repair' = Committed(m)
  /\ \E mark \in {m.started} \cup OpenAfter(m) :
       /\ IsBoundary(mark, m)
       /\ watermark' = IF mark > watermark THEN mark ELSE watermark
  /\ passed' = IF holder = r THEN passed ELSE passed \cup {k[1] : k \in ClosedBy(m)}
  /\ unheld' = IF holder = r THEN unheld ELSE Items
  /\ missed' = IF holder = r /\ m.kind = "bulk" THEN {} ELSE missed
  /\ Ends(r)
  /\ UNCHANGED <<now, src, copy, connected, overtaken, faults>>

-----------------------------------------------------------------------------
(* The rest of the world *)

\* Somebody changes an item; its date is that of a clock that is not ours.
Modify(i) ==
  /\ src[i].ver < MaxVersion
  /\ \E stamp \in (now - Skew) .. (now + Skew), ok \in BOOLEAN :
       /\ stamp >= src[i].stamp
       /\ src' = [src EXCEPT ![i] = [ver |-> src[i].ver + 1, stamp |-> stamp, ok |-> ok]]
       /\ missed' = IF watermark = Never /\ stamp < connected THEN missed \cup {i}
                    ELSE missed \ {i}
  /\ UNCHANGED <<now, copy, connected, watermark, repair, holder, run,
                 passed, overtaken, unheld, faults>>

\* The row of the connection is written again: by the update of the schema at the
\* beginning of a run, by the creation of tables, by the choice of the project.
Reconnect ==
  /\ connected' = now
  /\ missed' = IF watermark = Never THEN missed \cup {i \in Items : src[i].stamp < now}
               ELSE missed
  /\ UNCHANGED <<now, src, copy, watermark, repair, holder, run,
                 passed, overtaken, unheld, faults>>

\* A webhook: the product is read again and written, and no lock is taken.
Deliver(p) ==
  /\ src[p].ok
  /\ copy' = [copy EXCEPT ![p] = src[p].ver]
  /\ passed' = passed \ {p} /\ overtaken' = overtaken \ {p}
  /\ UNCHANGED <<now, src, connected, watermark, repair, holder, run, unheld, missed, faults>>

\* A webhook that was slow: the product has changed since it was read.
DeliverLate(p) ==
  /\ Misfortune
  /\ \E ver \in 1 .. (src[p].ver - 1) : copy' = [copy EXCEPT ![p] = ver]
  /\ overtaken' = overtaken \cup {p}
  /\ UNCHANGED <<now, src, connected, watermark, repair, holder, run, passed, unheld, missed>>

\* replayDeadRepairs, by hand.
Replay(k) ==
  /\ repair[k].status = "dead"
  /\ repair' = [repair EXCEPT ![k].status = "pending", ![k].attempts = 0]
  /\ unheld' = unheld \cup {k[1]}
  /\ UNCHANGED <<now, src, copy, connected, watermark, holder, run,
                 passed, overtaken, missed, faults>>

\* The lease of a run that is paused expires.
LoseLock(r) ==
  /\ holder = r
  /\ Misfortune
  /\ holder' = NoRun
  /\ UNCHANGED <<now, src, copy, connected, watermark, repair, run, history>>

Tick ==
  /\ now < MaxTime
  /\ now' = now + 1
  /\ UNCHANGED <<src, copy, connected, watermark, repair, holder, run, history, faults>>

-----------------------------------------------------------------------------

Progress(r) ==
  \/ \E i \in Items : Fetch(r, i)
  \/ Tidy(r) \/ Write(r) \/ Stopped(r) \/ Overflows(r) \/ Commit(r)

Mishap(r) == DeleteFails(r) \/ WriteFails(r) \/ Fails(r) \/ LoseLock(r)

World ==
  \/ \E i \in Items : Modify(i)
  \/ \E p \in Products : Deliver(p) \/ DeliverLate(p)
  \/ \E k \in Keys : Replay(k)
  \/ Reconnect
  \/ Tick

Next ==
  \/ \E r \in Runs :
       (\E kind \in {"bulk", "periodic"} : Start(r, kind)) \/ Progress(r) \/ Mishap(r)
  \/ World

Spec == Init /\ [][Next]_vars

-----------------------------------------------------------------------------
(* Properties *)

\* The repair that stands for the write of an item.
KeyOf(i) == <<i, IF i \in Products THEN "upsert" ELSE "revoke">>

\* The merchant's rows are not those of the item as it is now.
Owed(i) == copy[i] # src[i].ver /\ (i \in Products => src[i].ok)

\* The next periodic run reads the item, or the repairs speak of it.
Reread(i) == src[i].stamp >= DeltaFloor(watermark, connected)
Remembered(i) == Reread(i) \/ repair[KeyOf(i)].status # "closed"

\* Nothing is forgotten: although the watermark moves over items that could not
\* be written, and items change, are read and are delivered in any order, what
\* the merchant's rows still miss lies after the watermark or has an open or a
\* dead repair (commitSyncRun, planRepairCommit).  Excused, until they are written
\* in order, are the items on which a run acted without the lock or a webhook late;
\* and those older than the connection, until they are modified or a bulk run under
\* the lock has ended well: a periodic run that finds no watermark does not read
\* them, and leaves one (deltaFloor).
Excused == passed \cup overtaken
NothingForgotten == \A i \in Items \ (Excused \cup missed) : Owed(i) => Remembered(i)

\* The boundary waits: a pending repair of a product is of an item that the next
\* periodic run reads again, since nothing else retries it (planRepairCommit).
\* Excused are the repairs an operator replayed, and all of them once a run has
\* committed without the lock.
RepairsAreReread ==
  \A k \in Keys :
    k[1] \in Products \ unheld /\ repair[k].status = "pending" => Reread(k[1])

\* Stated by repair-ledger.ts:8-14 without excusing runs: either a run ended, and
\* what it could not write has its repair, or it did not, and the watermark did
\* not move; "there is no third way in which something gets lost".
NothingLostByRuns == \A i \in Items \ (overtaken \cup missed) : Owed(i) => Remembered(i)

-----------------------------------------------------------------------------
(* The inductive invariant *)

\* The holder is the run that started last, and no boundary is later than that.
HolderIsLast ==
  /\ watermark <= now
  /\ holder # NoRun =>
       /\ run[holder].pc # "off" /\ watermark <= run[holder].started
       /\ \A r \in Runs : run[r].pc # "off" => run[r].started <= run[holder].started

\* No item, and no repair, has a stamp its item has not reached; and before the first
\* watermark there are no repairs, and what the connection passes over is known.
StampsAreReached ==
  /\ \A i \in Items : src[i].stamp > Never
  /\ \A k \in Keys : repair[k].status # "closed" =>
       Never < repair[k].stamp /\ repair[k].stamp <= src[k[1]].stamp
  /\ watermark = Never =>
       /\ \A k \in Keys : repair[k].status = "closed"
       /\ \A i \in Items \ missed : src[i].stamp >= connected

\* The item was modified too late for the boundary of the run to pass over it.
Fresh(i, m) == src[i].stamp >= Floor(m.started)

\* The memory m of a run, with respect to all that was modified since it began:
\* it is of the past,
MemoryIsPast(m) ==
  /\ m.pc # "off" => m.started <= now
  /\ \A k \in Keys :
       /\ Never <= m.opened[k] /\ m.opened[k] <= src[k[1]].stamp
       /\ m.existing[k].status = "pending" =>
            Never < m.existing[k].stamp /\ m.existing[k].stamp <= src[k[1]].stamp

\* the page is the item as it is, or the item is fresh,
PageIsSound(m) ==
  /\ m.pc \in {"rows", "writing"} <=> m.item # NoItem
  /\ m.pc = "rows" => m.item \in Products /\ m.kind = "periodic"
  /\ m.item # NoItem =>
       /\ m.page.stamp > Never /\ m.page.stamp <= src[m.item].stamp
       /\ m.page = src[m.item] \/ Fresh(m.item, m)
       /\ m.item \in Products /\ m.kind = "periodic" => m.page.stamp >= m.floor

\* and what the run has been through, or will pass by, and is missing is in its
\* ledger or in the table, unless it is older than the connection and the run not bulk.
IsBehind(i, m) ==
  \/ i \notin m.todo /\ i # m.item
  \/ m.kind = "periodic" /\ src[i].stamp < m.floor
IsMissed(i, m) == m.kind = "periodic" /\ i \in missed
LedgerIsComplete(m) ==
  \A i \in Items \ Excused :
    m.pc # "off" /\ IsBehind(i, m) /\ Owed(i) =>
      \/ m.full \/ m.opened[KeyOf(i)] # NoDraft
      \/ repair[KeyOf(i)].status # "closed"
      \/ Fresh(i, m) \/ IsMissed(i, m)

\* The drafts of products are of items that a periodic run has to read.
DraftsAreDue(m) ==
  \A k \in Keys : k[1] \in Products /\ m.opened[k] # NoDraft => m.opened[k] >= m.floor

\* What the holder resolved is not missing; it knows the pending repairs, and
\* nobody has moved the watermark since it read it.
HolderIsInformed(m) ==
  /\ \A k \in m.closed : k[1] \in Excused \/ ~Owed(k[1]) \/ Fresh(k[1], m)
  /\ \A k \in Keys : k[1] \in Products \ unheld =>
       /\ watermark # Never => m.floor = Floor(watermark)
       /\ repair[k].status = "pending" => m.existing[k] = repair[k]

RunIsSound(r, m) ==
  /\ MemoryIsPast(m) /\ PageIsSound(m) /\ LedgerIsComplete(m) /\ DraftsAreDue(m)
  /\ holder = r => HolderIsInformed(m)

IInv ==
  /\ TypeOK /\ HolderIsLast /\ StampsAreReached
  /\ \A r \in Runs : RunIsSound(r, run[r])
  /\ NothingForgotten /\ RepairsAreReread
=============================================================================
