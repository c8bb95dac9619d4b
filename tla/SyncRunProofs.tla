---------------------------- MODULE SyncRunProofs ----------------------------
(***************************************************************************)
(* Proofs about SyncRun, for any products, customers and runs of a shop,   *)
(* any window, skew, limits of attempts and of repairs, and any number of  *)
(* instants, versions and misfortunes.                                     *)
(***************************************************************************)
EXTENDS SyncRun, TLAPS

-----------------------------------------------------------------------------
(* The operators that change the memory of a run *)

\* A repair that is not there is a repair, and a key has an item.
LEMMA SmallTypes ==
  /\ Closed \in RepairType /\ Off \in RunType /\ NoPage \in ItemType
  /\ \A k \in Keys : k[1] \in Items
  /\ \A i \in Items : KeyOf(i) \in Keys /\ KeyOf(i)[1] = i
<1>1. Closed \in RepairType /\ NoPage \in ItemType
  BY DEF Closed, RepairType, NoPage, ItemType
<1>2. Off \in RunType
  BY <1>1, ConstantsAssumption DEF Off, RunType, NoDraft, Never, Before
<1>3. \A k \in Keys : k[1] \in Items
  BY DEF Keys, Items
<1>4. \A i \in Items : KeyOf(i) \in Keys /\ KeyOf(i)[1] = i
  BY ConstantsAssumption DEF Keys, Items, KeyOf
<1> QED
  BY <1>1, <1>2, <1>3, <1>4

\* One field after the other.
LEMMA FieldTypes ==
  ASSUME NEW m \in RunType
  PROVE  /\ \A pc \in {"off", "pages", "rows", "writing"} : [m EXCEPT !.pc = pc] \in RunType
         /\ \A S \in SUBSET Items : [m EXCEPT !.todo = S] \in RunType
         /\ \A i \in Items \cup {NoItem} : [m EXCEPT !.item = i] \in RunType
         /\ \A g \in ItemType : [m EXCEPT !.page = g] \in RunType
         /\ \A k \in Keys, t \in Int : [m EXCEPT !.opened[k] = t] \in RunType
         /\ \A S \in SUBSET Keys : [m EXCEPT !.closed = S] \in RunType
         /\ \A b \in BOOLEAN : [m EXCEPT !.full = b] \in RunType
         /\ \A b \in BOOLEAN : [m EXCEPT !.failed = b] \in RunType
         /\ \A kind \in {"bulk", "periodic"} : [m EXCEPT !.kind = kind] \in RunType
         /\ \A t \in Nat : [m EXCEPT !.started = t] \in RunType
         /\ \A t \in Int : [m EXCEPT !.floor = t] \in RunType
         /\ \A f \in [Keys -> RepairType] : [m EXCEPT !.existing = f] \in RunType
<1>1. \A pc \in {"off", "pages", "rows", "writing"} : [m EXCEPT !.pc = pc] \in RunType
  BY Zenon DEF RunType
<1>2. \A S \in SUBSET Items : [m EXCEPT !.todo = S] \in RunType
  BY Zenon DEF RunType
<1>3. \A i \in Items \cup {NoItem} : [m EXCEPT !.item = i] \in RunType
  BY Zenon DEF RunType
<1>4. \A g \in ItemType : [m EXCEPT !.page = g] \in RunType
  BY Zenon DEF RunType
<1>5. \A k \in Keys, t \in Int : [m EXCEPT !.opened[k] = t] \in RunType
  BY Zenon DEF RunType
<1>6. \A S \in SUBSET Keys : [m EXCEPT !.closed = S] \in RunType
  BY Zenon DEF RunType
<1>7. \A b \in BOOLEAN : [m EXCEPT !.full = b] \in RunType
  BY Zenon DEF RunType
<1>8. \A b \in BOOLEAN : [m EXCEPT !.failed = b] \in RunType
  BY Zenon DEF RunType
<1>9. \A kind \in {"bulk", "periodic"} : [m EXCEPT !.kind = kind] \in RunType
  BY Zenon DEF RunType
<1>10. \A t \in Nat : [m EXCEPT !.started = t] \in RunType
  BY Zenon DEF RunType
<1>11. \A t \in Int : [m EXCEPT !.floor = t] \in RunType
  BY Zenon DEF RunType
<1>12. \A f \in [Keys -> RepairType] : [m EXCEPT !.existing = f] \in RunType
  BY Zenon DEF RunType
<1> QED
  BY <1>1, <1>2, <1>3, <1>4, <1>5, <1>6, <1>7, <1>8, <1>9, <1>10, <1>11, <1>12

\* The fields that no action but Start touches.
SameRun(m, n) ==
  m.kind = n.kind /\ m.started = n.started /\ m.floor = n.floor /\ m.existing = n.existing

\* Onward only drops the item at hand.
LEMMA OnwardFields ==
  ASSUME NEW m \in RunType
  PROVE  LET n == Onward(m) IN
         /\ n \in RunType /\ SameRun(m, n)
         /\ n.pc = "pages" /\ n.item = NoItem /\ n.page = NoPage /\ n.failed = FALSE
         /\ n.todo = m.todo /\ n.opened = m.opened /\ n.closed = m.closed /\ n.full = m.full
<1>1. Onward(m) = [[[[m EXCEPT !.pc = "pages"] EXCEPT !.item = NoItem]
                     EXCEPT !.page = NoPage] EXCEPT !.failed = FALSE]
  BY DEF Onward
<1>2. Onward(m) \in RunType
  <2>1. [m EXCEPT !.pc = "pages"] \in RunType
    BY FieldTypes
  <2>2. [[m EXCEPT !.pc = "pages"] EXCEPT !.item = NoItem] \in RunType
    BY <2>1, FieldTypes
  <2>3. [[[m EXCEPT !.pc = "pages"] EXCEPT !.item = NoItem] EXCEPT !.page = NoPage] \in RunType
    BY <2>2, FieldTypes, SmallTypes
  <2> QED
    BY <1>1, <2>3, FieldTypes
<1> QED
  BY <1>2, SmallTypes DEF Onward, SameRun, RunType

\* A draft is added to the ledger, or the ledger is full.
LEMMA OpenedFields ==
  ASSUME NEW m \in RunType, NEW k \in Keys, NEW stamp \in Int
  PROVE  LET n == Opened(m, k, stamp) IN
         /\ n \in RunType /\ SameRun(m, n)
         /\ n.pc = m.pc /\ n.item = m.item /\ n.page = m.page /\ n.failed = m.failed
         /\ n.todo = m.todo /\ n.closed = m.closed
         /\ \/ n.full = TRUE /\ n.opened = m.opened
            \/ n.full = m.full /\ n.opened = [m.opened EXCEPT ![k] = stamp]
<1>1. Opened(m, k, stamp) \in RunType
  BY FieldTypes DEF Opened
<1>2. CASE Opened(m, k, stamp) = [m EXCEPT !.full = TRUE]
  BY <1>1, <1>2 DEF SameRun, RunType
<1>3. CASE Opened(m, k, stamp) = [m EXCEPT !.opened[k] = stamp]
  BY <1>1, <1>3 DEF SameRun, RunType
<1> QED
  BY <1>2, <1>3 DEF Opened

\* The set of resolved keys grows.
LEMMA ResolvedFields ==
  ASSUME NEW m \in RunType, NEW S \in SUBSET Keys
  PROVE  LET n == Resolved(m, S) IN
         /\ n \in RunType /\ SameRun(m, n)
         /\ n.pc = m.pc /\ n.item = m.item /\ n.page = m.page /\ n.failed = m.failed
         /\ n.todo = m.todo /\ n.opened = m.opened /\ n.full = m.full
         /\ n.closed = m.closed \cup S
<1>1. m.closed \cup S \in SUBSET Keys
  BY DEF RunType
<1>2. Resolved(m, S) = [m EXCEPT !.closed = m.closed \cup S]
  BY DEF Resolved
<1>3. Resolved(m, S) \in RunType
  BY <1>1, <1>2, FieldTypes
<1> QED
  BY <1>2, <1>3 DEF SameRun, RunType
-----------------------------------------------------------------------------
(* Steps that only change the memory of one run *)

\* The tables and the shop are left alone.
SharedUnchanged ==
  /\ UNCHANGED <<now, src, copy, connected, watermark, repair,
                 passed, overtaken, unheld, missed>>
  /\ faults' = faults \/ Misfortune

\* The misfortune of a step stays within its budget.
LEMMA FaultsBounded ==
  ASSUME TypeOK, faults' = faults \/ Misfortune
  PROVE  faults' \in 0 .. MaxFaults
  BY ConstantsAssumption DEF TypeOK, Misfortune

\* All that is required of a memory whether or not its run holds the lock.
MemoryIsSound(m) ==
  MemoryIsPast(m) /\ PageIsSound(m) /\ LedgerIsComplete(m) /\ DraftsAreDue(m)

\* A memory is as sound as it was.
LEMMA SoundnessStays ==
  ASSUME SharedUnchanged, NEW m
  PROVE  /\ MemoryIsSound(m) => MemoryIsSound(m)'
         /\ HolderIsInformed(m) => HolderIsInformed(m)'
<1>1. MemoryIsSound(m) => MemoryIsSound(m)'
  BY DEF SharedUnchanged, MemoryIsSound, MemoryIsPast, PageIsSound, LedgerIsComplete,
     DraftsAreDue, Fresh, Owed, Excused, IsBehind, IsMissed
<1>2. HolderIsInformed(m) => HolderIsInformed(m)'
  BY DEF SharedUnchanged, HolderIsInformed, Fresh, Owed, Excused
<1> QED
  BY <1>1, <1>2

\* So are the memories of the runs that a step does not move.
LEMMA OthersAreSound ==
  ASSUME IInv, SharedUnchanged, NEW r \in Runs, run'[r] = run[r],
         holder' = r => holder = r
  PROVE  RunIsSound(r, run[r])'
<1>1. PICK m : m = run[r]
  OBVIOUS
<1>2. MemoryIsSound(m) /\ (holder = r => HolderIsInformed(m)) /\ run'[r] = m
  BY <1>1 DEF IInv, RunIsSound, MemoryIsSound
<1>3. MemoryIsSound(m)' /\ (holder = r => HolderIsInformed(m))'
  BY <1>2, SoundnessStays
<1> QED
  BY <1>2, <1>3 DEF RunIsSound, MemoryIsSound

\* What is forgotten does not depend on the memory of runs.
LEMMA TablesAreSound ==
  ASSUME IInv, SharedUnchanged
  PROVE  StampsAreReached' /\ NothingForgotten' /\ RepairsAreReread'
  BY DEF IInv, SharedUnchanged, StampsAreReached, NothingForgotten, RepairsAreReread,
     Owed, Remembered, Reread, DeltaFloor, Excused

\* An active run goes on with a sound memory.
LEMMA MemoryStep ==
  ASSUME IInv, NEW r \in Runs, NEW m \in RunType, Goes(r, m),
         SharedUnchanged, UNCHANGED holder,
         m.pc # "off", run[r].pc # "off", m.started = run[r].started, RunIsSound(r, m)
  PROVE  IInv'
<1>1. \A x \in Runs : run'[x] = IF x = r THEN m ELSE run[x]
  BY DEF IInv, TypeOK, Goes
<1>2. run' \in [Runs -> RunType]
  BY DEF IInv, TypeOK, Goes
<1>3. TypeOK'
  BY <1>2, FaultsBounded DEF IInv, TypeOK, SharedUnchanged
<1>4. HolderIsLast'
  <2>1. \A x \in Runs : run'[x].pc # "off" =>
          run[x].pc # "off" /\ run'[x].started = run[x].started
    BY <1>1
  <2>2. holder # NoRun => holder \in Runs /\ run'[holder].pc # "off"
    BY <1>1 DEF IInv, TypeOK, HolderIsLast
  <2> QED
    BY <2>1, <2>2 DEF IInv, HolderIsLast, SharedUnchanged
<1>5. ASSUME NEW x \in Runs PROVE RunIsSound(x, run[x])'
  <2>1. CASE x # r
    BY <1>1, <2>1, OthersAreSound
  <2>2. CASE x = r
    <3>1. run'[x] = m
      BY <1>1, <2>2
    <3>2. MemoryIsSound(m)' /\ (holder = x => HolderIsInformed(m))'
      BY <2>2, SoundnessStays DEF RunIsSound, MemoryIsSound
    <3> QED
      BY <3>1, <3>2 DEF RunIsSound, MemoryIsSound
  <2> QED
    BY <2>1, <2>2
<1> QED
  BY <1>3, <1>4, <1>5, TablesAreSound DEF IInv

\* The memory of a run that is off is sound.
LEMMA OffIsSound ==
  ASSUME TypeOK, StampsAreReached
  PROVE  MemoryIsSound(Off)
<1>1. \A k \in Keys : Never <= src[k[1]].stamp /\ Never \in Int
  BY SmallTypes, ConstantsAssumption DEF StampsAreReached, TypeOK, ItemType, Never, Before
<1>2. MemoryIsPast(Off)
  BY <1>1 DEF MemoryIsPast, Off, NoDraft, Closed
<1>3. PageIsSound(Off) /\ LedgerIsComplete(Off) /\ DraftsAreDue(Off)
  BY DEF PageIsSound, LedgerIsComplete, DraftsAreDue, Off, Excused
<1> QED
  BY <1>2, <1>3 DEF MemoryIsSound

\* A run ends in whatever way, but for its commit.
LEMMA EndStep ==
  ASSUME IInv, NEW r \in Runs, Ends(r), SharedUnchanged
  PROVE  IInv'
<1>1. \A x \in Runs : run'[x] = IF x = r THEN Off ELSE run[x]
  BY DEF IInv, TypeOK, Ends
<1>2. run' \in [Runs -> RunType]
  BY SmallTypes DEF IInv, TypeOK, Ends
<1>3. holder' \in Runs \cup {NoRun} /\ (holder' # NoRun => holder' = holder /\ holder # r)
  BY DEF IInv, TypeOK, Ends
<1>4. TypeOK'
  BY <1>2, <1>3, FaultsBounded DEF IInv, TypeOK, SharedUnchanged
<1>5. HolderIsLast'
  <2>1. ASSUME NEW x \in Runs, run'[x].pc # "off"
        PROVE  run'[x] = run[x]
    BY <1>1, <2>1 DEF Off
  <2> QED
    BY <1>1, <1>3, <2>1 DEF IInv, HolderIsLast, SharedUnchanged
<1>6. ASSUME NEW x \in Runs PROVE RunIsSound(x, run[x])'
  <2>1. CASE x # r
    BY <1>1, <1>3, <2>1, OthersAreSound, ConstantsAssumption
  <2>2. CASE x = r
    <3>1. MemoryIsSound(Off)'
      BY OffIsSound, SoundnessStays DEF IInv
    <3>2. run'[x] = Off /\ holder' # x
      BY <1>1, <1>3, <2>2, ConstantsAssumption
    <3> QED
      BY <3>1, <3>2 DEF RunIsSound, MemoryIsSound
  <2> QED
    BY <2>1, <2>2
<1> QED
  BY <1>4, <1>5, <1>6, TablesAreSound DEF IInv
-----------------------------------------------------------------------------
(* What the operators on memories preserve *)

\* What a run has gone through is accounted for.
Accounted(i, m) ==
  \/ i \in Excused \/ ~Owed(i) \/ m.full \/ m.opened[KeyOf(i)] # NoDraft
  \/ repair[KeyOf(i)].status # "closed" \/ Fresh(i, m) \/ IsMissed(i, m)

\* A run may go on once the item at hand is accounted for.
LEMMA OnwardIsSound ==
  ASSUME NEW m \in RunType, MemoryIsSound(m), m.pc # "off",
         m.item # NoItem => Accounted(m.item, m)
  PROVE  /\ MemoryIsSound(Onward(m))
         /\ HolderIsInformed(m) => HolderIsInformed(Onward(m))
<1> DEFINE n == Onward(m)
<1>1. /\ n \in RunType /\ SameRun(m, n) /\ n.pc = "pages" /\ n.item = NoItem
      /\ n.todo = m.todo /\ n.opened = m.opened /\ n.closed = m.closed /\ n.full = m.full
  BY OnwardFields
<1> HIDE DEF n
<1>2. MemoryIsPast(n)
  BY <1>1 DEF MemoryIsSound, MemoryIsPast, SameRun
<1>3. PageIsSound(n)
  BY <1>1 DEF PageIsSound
<1>4. LedgerIsComplete(n)
  BY <1>1, ConstantsAssumption
     DEF MemoryIsSound, LedgerIsComplete, SameRun, Accounted, Fresh, Excused, IsBehind, IsMissed
<1>5. DraftsAreDue(n)
  BY <1>1 DEF MemoryIsSound, DraftsAreDue, SameRun
<1>6. HolderIsInformed(m) => HolderIsInformed(n)
  BY <1>1 DEF HolderIsInformed, SameRun, Fresh, Excused
<1> QED
  BY <1>2, <1>3, <1>4, <1>5, <1>6 DEF MemoryIsSound, n

\* A draft may be opened with a stamp its item has reached and the run had to read.
LEMMA OpenedIsSound ==
  ASSUME NEW m \in RunType, NEW k \in Keys, NEW stamp \in Int, MemoryIsSound(m),
         Never < stamp, stamp <= src[k[1]].stamp, k[1] \in Products => stamp >= m.floor
  PROVE  /\ MemoryIsSound(Opened(m, k, stamp))
         /\ HolderIsInformed(m) => HolderIsInformed(Opened(m, k, stamp))
         /\ Opened(m, k, stamp).full \/ Opened(m, k, stamp).opened[k] # NoDraft
<1> DEFINE n == Opened(m, k, stamp)
<1>1. /\ n \in RunType /\ SameRun(m, n)
      /\ n.pc = m.pc /\ n.item = m.item /\ n.page = m.page /\ n.todo = m.todo
      /\ n.closed = m.closed
      /\ \/ n.full = TRUE /\ n.opened = m.opened
         \/ n.full = m.full /\ n.opened = [m.opened EXCEPT ![k] = stamp]
  BY OpenedFields
<1> HIDE DEF n
<1>2. /\ m.opened \in [Keys -> Int] /\ stamp # NoDraft /\ Never \in Int
      /\ \A q \in Keys : n.opened[q] = m.opened[q] \/ (q = k /\ n.opened[q] = stamp)
  BY <1>1, ConstantsAssumption DEF RunType, NoDraft, Never, Before
<1>3. MemoryIsPast(n)
  BY <1>1, <1>2 DEF MemoryIsSound, MemoryIsPast, SameRun
<1>4. PageIsSound(n)
  BY <1>1 DEF MemoryIsSound, PageIsSound, SameRun, Fresh
<1>5. LedgerIsComplete(n)
  <2>1. \A i \in Items : m.full \/ m.opened[KeyOf(i)] # NoDraft =>
                         n.full \/ n.opened[KeyOf(i)] # NoDraft
    BY <1>1, <1>2, SmallTypes
  <2> QED
    BY <1>1, <2>1 DEF MemoryIsSound, LedgerIsComplete, SameRun, Fresh, Excused, IsBehind, IsMissed
<1>6. DraftsAreDue(n)
  BY <1>1, <1>2 DEF MemoryIsSound, DraftsAreDue, SameRun
<1>7. HolderIsInformed(m) => HolderIsInformed(n)
  BY <1>1 DEF HolderIsInformed, SameRun, Fresh, Excused
<1>8. n.full \/ n.opened[k] # NoDraft
  BY <1>1, <1>2
<1> QED
  BY <1>3, <1>4, <1>5, <1>6, <1>7, <1>8 DEF MemoryIsSound, n

\* After the rows of a product the run writes it, or goes on if it has no row
\* worth writing.
LEMMA AfterRowsIsSound ==
  ASSUME NEW m \in RunType, MemoryIsSound(m), m.pc = "rows"
  PROVE  LET n == AfterRows(m) IN
         /\ n \in RunType /\ SameRun(m, n) /\ n.pc # "off"
         /\ MemoryIsSound(n) /\ (HolderIsInformed(m) => HolderIsInformed(n))
<1>1. m.item \in Products /\ (m.page = src[m.item] \/ Fresh(m.item, m)) /\ m.item # NoItem
  BY ConstantsAssumption DEF MemoryIsSound, PageIsSound, Items
<1>2. CASE m.page.ok
  <2> DEFINE n == [m EXCEPT !.pc = "writing"]
  <2>1. n \in RunType
    BY FieldTypes
  <2>2. /\ SameRun(m, n) /\ n.pc = "writing" /\ n.item = m.item /\ n.page = m.page
        /\ n.todo = m.todo /\ n.opened = m.opened /\ n.closed = m.closed /\ n.full = m.full
    BY DEF SameRun, RunType
  <2>3. AfterRows(m) = n
    BY <1>2 DEF AfterRows
  <2> HIDE DEF n
  <2>4. MemoryIsSound(n)
    BY <1>1, <2>2 DEF MemoryIsSound, MemoryIsPast, PageIsSound, LedgerIsComplete,
       DraftsAreDue, SameRun, Fresh, Excused, IsBehind, IsMissed
  <2>5. HolderIsInformed(m) => HolderIsInformed(n)
    BY <2>2 DEF HolderIsInformed, SameRun, Fresh, Excused
  <2> QED
    BY <2>1, <2>2, <2>3, <2>4, <2>5
<1>3. CASE ~m.page.ok
  <2>1. Accounted(m.item, m)
    BY <1>1, <1>3 DEF Accounted, Owed
  <2> QED
    BY <1>3, <2>1, OnwardIsSound, OnwardFields DEF AfterRows
<1> QED
  BY <1>2, <1>3
-----------------------------------------------------------------------------
(* The actions of a run that touch nothing but its memory *)

\* The memory of a run, in the state of the induction.
LEMMA MemoryOf ==
  ASSUME IInv, NEW r \in Runs
  PROVE  /\ run[r] \in RunType /\ MemoryIsSound(run[r])
         /\ holder = r => HolderIsInformed(run[r])
  BY DEF IInv, TypeOK, RunIsSound, MemoryIsSound

\* A run that goes on in memory m does a step that keeps the invariant if m is as
\* sound as its memory was.
LEMMA GoesOn ==
  ASSUME IInv, NEW r \in Runs, NEW m \in RunType, Goes(r, m),
         SharedUnchanged, UNCHANGED holder, run[r].pc # "off",
         m.pc # "off", SameRun(run[r], m), MemoryIsSound(m),
         HolderIsInformed(run[r]) => HolderIsInformed(m)
  PROVE  IInv'
<1>1. RunIsSound(r, m)
  BY MemoryOf DEF RunIsSound, MemoryIsSound
<1> QED
  BY <1>1, MemoryStep DEF SameRun

LEMMA FetchStep ==
  ASSUME IInv, NEW r \in Runs, NEW i \in Items, Fetch(r, i)
  PROVE  IInv'
<1>1. PICK m : m = run[r]
  OBVIOUS
<1>2. m \in RunType /\ MemoryIsSound(m) /\ m.pc = "pages" /\ i \in m.todo
  BY <1>1, MemoryOf DEF Fetch
<1>3. m.item = NoItem
  BY <1>2 DEF MemoryIsSound, PageIsSound
<1>4. SharedUnchanged /\ UNCHANGED holder
  BY DEF Fetch, history, SharedUnchanged, IInv, TypeOK
<1>5. m.todo \ {i} \in SUBSET Items /\ src[i] \in ItemType
  BY <1>2 DEF RunType, IInv, TypeOK
<1>6. CASE ~Reads(r, i) \/ (m.kind = "bulk" /\ i \in Products /\ ~src[i].ok)
  <2> DEFINE n == [m EXCEPT !.todo = m.todo \ {i}]
  <2>1. Goes(r, n)
    BY <1>1, <1>6 DEF Fetch
  <2>2. n \in RunType
    BY <1>2, <1>5, FieldTypes
  <2>3. /\ SameRun(m, n) /\ n.pc = m.pc /\ n.item = m.item /\ n.page = m.page
        /\ n.todo = m.todo \ {i} /\ n.opened = m.opened /\ n.closed = m.closed
        /\ n.full = m.full
    BY <1>2 DEF SameRun, RunType
  <2> HIDE DEF n
  <2>4. Accounted(i, m)
    <3>1. CASE m.kind = "bulk" /\ i \in Products /\ ~src[i].ok
      BY <3>1 DEF Accounted, Owed
    <3>2. CASE ~Reads(r, i)
      <4>1. IsBehind(i, m)
        BY <1>1, <1>2, <1>5, <3>2 DEF IsBehind, Reads, RunType, ItemType
      <4> QED
        BY <1>2, <4>1 DEF MemoryIsSound, LedgerIsComplete, Accounted
    <3> QED
      BY <1>6, <3>1, <3>2
  <2>5. MemoryIsSound(n)
    BY <1>2, <2>3, <2>4 DEF MemoryIsSound, MemoryIsPast, PageIsSound, LedgerIsComplete,
       DraftsAreDue, SameRun, Fresh, Accounted, Excused, IsBehind, IsMissed
  <2>6. HolderIsInformed(m) => HolderIsInformed(n)
    BY <2>3 DEF HolderIsInformed, SameRun, Fresh, Excused
  <2> QED
    BY <1>1, <1>2, <1>4, <2>1, <2>2, <2>3, <2>5, <2>6, GoesOn
<1>7. CASE ~(~Reads(r, i) \/ (m.kind = "bulk" /\ i \in Products /\ ~src[i].ok))
  <2> DEFINE pc == IF m.kind = "periodic" /\ i \in Products THEN "rows" ELSE "writing"
             n == [[[[m EXCEPT !.pc = pc] EXCEPT !.todo = m.todo \ {i}]
                    EXCEPT !.item = i] EXCEPT !.page = src[i]]
  <2>1. Goes(r, n)
    BY <1>1, <1>2, <1>7 DEF Fetch, Goes
  <2>2. n \in RunType
    BY <1>2, <1>5, FieldTypes
  <2>3. /\ SameRun(m, n) /\ n.pc = pc /\ n.item = i /\ n.page = src[i]
        /\ n.todo = m.todo \ {i} /\ n.opened = m.opened /\ n.closed = m.closed
        /\ n.full = m.full
    BY <1>2 DEF SameRun, RunType
  <2> HIDE DEF n
  <2>4. m.kind = "periodic" => src[i].stamp >= m.floor
    BY <1>1, <1>7 DEF Reads
  <2>5. src[i].stamp > Never /\ src[i].stamp <= src[i].stamp
    BY <1>5 DEF IInv, StampsAreReached, ItemType
  <2>6. PageIsSound(n)
    BY <2>3, <2>4, <2>5, ConstantsAssumption DEF PageIsSound, SameRun, Fresh
  <2>7. MemoryIsSound(n)
    BY <1>2, <1>3, <2>3, <2>6, ConstantsAssumption
       DEF MemoryIsSound, MemoryIsPast, LedgerIsComplete, DraftsAreDue, SameRun, Fresh, Excused,
           IsBehind, IsMissed
  <2>8. HolderIsInformed(m) => HolderIsInformed(n)
    BY <2>3 DEF HolderIsInformed, SameRun, Fresh, Excused
  <2> QED
    BY <1>1, <1>2, <1>4, <2>1, <2>2, <2>3, <2>7, <2>8, GoesOn
<1> QED
  BY <1>6, <1>7

\* The rows were looked at, or could not be.
LEMMA RowsStep ==
  ASSUME IInv, NEW r \in Runs, Tidy(r)
  PROVE  IInv'
<1>1. run[r].pc = "rows" /\ Goes(r, AfterRows(run[r])) /\ UNCHANGED holder
  BY DEF Tidy
<1>2. SharedUnchanged
  BY DEF Tidy, SharedUnchanged, history
<1> QED
  BY <1>1, <1>2, MemoryOf, AfterRowsIsSound, GoesOn

LEMMA DeleteFailsStep ==
  ASSUME IInv, NEW r \in Runs, DeleteFails(r)
  PROVE  IInv'
<1>1. PICK m : m = run[r]
  OBVIOUS
<1>2. m \in RunType /\ MemoryIsSound(m) /\ m.pc = "rows"
  BY <1>1, MemoryOf DEF DeleteFails
<1>3. SharedUnchanged /\ UNCHANGED holder
  BY DEF DeleteFails, history, SharedUnchanged, IInv, TypeOK
<1> DEFINE k == <<m.item, "delete">>
           o == Opened(m, k, m.page.stamp)
           n == [o EXCEPT !.failed = TRUE]
<1>4. /\ k \in Keys /\ k[1] = m.item /\ m.page.stamp \in Int /\ Never < m.page.stamp
      /\ m.page.stamp <= src[k[1]].stamp /\ m.page.stamp >= m.floor
  <2>1. m.item \in Products /\ m.item # NoItem /\ m.kind = "periodic"
    BY <1>2, ConstantsAssumption DEF MemoryIsSound, PageIsSound, Items
  <2> QED
    BY <1>2, <2>1 DEF MemoryIsSound, PageIsSound, Keys, RunType, ItemType
<1>5. o \in RunType /\ SameRun(m, o) /\ o.pc = "rows" /\ o.item = m.item
  BY <1>2, <1>4, OpenedFields
<1>6. MemoryIsSound(o) /\ (HolderIsInformed(m) => HolderIsInformed(o))
  BY <1>2, <1>4, OpenedIsSound
<1>7. Goes(r, AfterRows(n))
  BY <1>1 DEF DeleteFails
<1> HIDE DEF o
<1>8. n \in RunType
  BY <1>5, FieldTypes
<1>9. /\ SameRun(o, n) /\ n.pc = o.pc /\ n.item = o.item /\ n.page = o.page
      /\ n.todo = o.todo /\ n.opened = o.opened /\ n.closed = o.closed /\ n.full = o.full
  BY <1>5 DEF SameRun, RunType
<1> HIDE DEF n
<1>10. MemoryIsSound(n) /\ (HolderIsInformed(o) => HolderIsInformed(n))
  BY <1>6, <1>9 DEF MemoryIsSound, MemoryIsPast, PageIsSound, LedgerIsComplete,
     DraftsAreDue, HolderIsInformed, SameRun, Fresh, Excused, IsBehind, IsMissed
<1>11. LET a == AfterRows(n) IN
       /\ a \in RunType /\ SameRun(n, a) /\ a.pc # "off"
       /\ MemoryIsSound(a) /\ (HolderIsInformed(n) => HolderIsInformed(a))
  BY <1>5, <1>8, <1>9, <1>10, AfterRowsIsSound
<1>12. SameRun(m, AfterRows(n))
  BY <1>5, <1>9, <1>11 DEF SameRun
<1> QED
  BY <1>1, <1>2, <1>3, <1>6, <1>7, <1>10, <1>11, <1>12, GoesOn

LEMMA WriteFailsStep ==
  ASSUME IInv, NEW r \in Runs, WriteFails(r)
  PROVE  IInv'
<1>1. PICK m : m = run[r]
  OBVIOUS
<1>2. m \in RunType /\ MemoryIsSound(m) /\ m.pc = "writing"
  BY <1>1, MemoryOf DEF WriteFails
<1>3. SharedUnchanged /\ UNCHANGED holder
  BY DEF WriteFails, history, SharedUnchanged, IInv, TypeOK
<1>4. /\ m.item # NoItem /\ m.page.stamp \in Int /\ Never < m.page.stamp
      /\ m.page.stamp <= src[m.item].stamp
      /\ m.item \in Products /\ m.kind = "periodic" => m.page.stamp >= m.floor
  BY <1>2 DEF MemoryIsSound, PageIsSound, RunType, ItemType
<1>5. PICK k \in Keys : /\ Goes(r, Onward(Opened(m, k, m.page.stamp)))
                        /\ k = KeyOf(m.item) /\ k[1] = m.item
                        /\ m.item \in Products => m.kind = "periodic"
  <2>1. CASE m.item \in Products /\ m.kind = "periodic"
             /\ Goes(r, Onward(Opened(m, <<m.item, "upsert">>, m.page.stamp)))
    <3>1. KeyOf(m.item) = <<m.item, "upsert">> /\ m.item \in Items
      BY <2>1 DEF KeyOf, Items
    <3> QED
      BY <2>1, <3>1, SmallTypes
  <2>2. CASE m.item \in Customers
             /\ Goes(r, Onward(Opened(m, <<m.item, "revoke">>, m.page.stamp)))
    <3>1. m.item \notin Products
      BY <2>2, ConstantsAssumption
    <3>2. KeyOf(m.item) = <<m.item, "revoke">> /\ m.item \in Items
      BY <2>2, <3>1 DEF KeyOf, Items
    <3> QED
      BY <2>2, <3>1, <3>2, SmallTypes
  <2> QED
    BY <1>1, <2>1, <2>2 DEF WriteFails
<1> DEFINE o == Opened(m, k, m.page.stamp)
<1>6. o \in RunType /\ SameRun(m, o) /\ o.pc = m.pc /\ o.item = m.item
  BY <1>2, <1>4, OpenedFields
<1>7. /\ MemoryIsSound(o) /\ (HolderIsInformed(m) => HolderIsInformed(o))
      /\ o.full \/ o.opened[k] # NoDraft
  BY <1>2, <1>4, <1>5, OpenedIsSound
<1>8. Goes(r, Onward(o))
  BY <1>5
<1> HIDE DEF o
<1>9. Accounted(o.item, o)
  BY <1>5, <1>6, <1>7 DEF Accounted
<1>10. /\ MemoryIsSound(Onward(o)) /\ (HolderIsInformed(o) => HolderIsInformed(Onward(o)))
       /\ Onward(o) \in RunType /\ SameRun(o, Onward(o)) /\ Onward(o).pc # "off"
  BY <1>2, <1>6, <1>7, <1>9, OnwardIsSound, OnwardFields
<1>11. SameRun(m, Onward(o))
  BY <1>6, <1>10 DEF SameRun
<1> QED
  BY <1>1, <1>2, <1>3, <1>7, <1>8, <1>10, <1>11, GoesOn

LEMMA EndingStep ==
  ASSUME IInv, NEW r \in Runs, Fails(r) \/ Stopped(r) \/ Overflows(r)
  PROVE  IInv'
<1>1. Ends(r) /\ SharedUnchanged
  BY DEF Fails, Stopped, Overflows, history, SharedUnchanged, IInv, TypeOK
<1> QED
  BY <1>1, EndStep
-----------------------------------------------------------------------------
(* The beginning of a run *)

LEMMA StartStep ==
  ASSUME IInv, NEW r \in Runs, NEW kind \in {"bulk", "periodic"}, Start(r, kind)
  PROVE  IInv'
<1> DEFINE floor == DeltaFloor(watermark, connected)
<1>1. TypeOK /\ now \in Nat /\ floor \in Int
  BY ConstantsAssumption DEF IInv, TypeOK, Floor, DeltaFloor
<1>2. PICK known :
        known = [k \in Keys |-> IF repair[k].status = "pending" THEN repair[k] ELSE Closed]
  OBVIOUS
<1>3. PICK n : n = [Off EXCEPT
        !.pc = "pages", !.kind = kind, !.started = now, !.floor = floor,
        !.existing = known, !.todo = Items]
  OBVIOUS
<1>4. known \in [Keys -> RepairType]
  BY <1>1, <1>2, SmallTypes DEF TypeOK
<1>5. /\ n.pc = "pages" /\ n.kind = kind /\ n.started = now /\ n.floor = floor
      /\ n.existing = known /\ n.todo = Items /\ n.item = NoItem
      /\ n.opened = [k \in Keys |-> NoDraft] /\ n.closed = {} /\ n.full = FALSE
  BY <1>3 DEF Off
<1>6. n \in RunType
  <2>1. n = [[[[[[Off EXCEPT !.pc = "pages"] EXCEPT !.kind = kind] EXCEPT !.started = now]
              EXCEPT !.floor = floor] EXCEPT !.existing = known]
             EXCEPT !.todo = Items]
    BY <1>3
  <2>2. now \in Nat /\ Items \in SUBSET Items
    BY <1>1
  <2> QED
    BY <1>1, <1>4, <2>1, <2>2, SmallTypes, FieldTypes
<1>7. Goes(r, n) /\ run[r].pc = "off" /\ holder = NoRun /\ holder' = r
  BY <1>2, <1>3 DEF Start
<1>8. \A x \in Runs : run'[x] = IF x = r THEN n ELSE run[x]
  BY <1>1, <1>7 DEF Goes, TypeOK
<1>9. SharedUnchanged
  BY <1>1 DEF Start, history, SharedUnchanged, TypeOK
<1>10. TypeOK'
  BY <1>1, <1>6, <1>7, <1>9, FaultsBounded DEF TypeOK, Goes, SharedUnchanged
<1>11. HolderIsLast'
  <2>1. \A x \in Runs : run'[x].pc # "off" => run'[x].started <= now
    BY <1>1, <1>5, <1>8 DEF IInv, RunIsSound, MemoryIsPast
  <2>2. run'[r].pc # "off" /\ run'[r].started = now /\ watermark <= now
    BY <1>5, <1>8 DEF IInv, HolderIsLast
  <2> QED
    BY <1>7, <1>9, <2>1, <2>2 DEF HolderIsLast, SharedUnchanged
<1>12. MemoryIsSound(n)
  <2>1. \A k \in Keys : Never <= src[k[1]].stamp /\ Never \in Int
    BY <1>1, SmallTypes, ConstantsAssumption
       DEF IInv, StampsAreReached, TypeOK, ItemType, Never, Before
  <2>2. MemoryIsPast(n)
    BY <1>1, <1>2, <1>5, <2>1 DEF MemoryIsPast, NoDraft, Closed, IInv, StampsAreReached
\* What the run will pass by is what is not read again after the watermark.
  <2>3. LedgerIsComplete(n)
    <3>1. SUFFICES ASSUME NEW i \in Items \ Excused, IsBehind(i, n), Owed(i)
                   PROVE  repair[KeyOf(i)].status # "closed" \/ IsMissed(i, n)
      BY DEF LedgerIsComplete
    <3>2. n.kind = "periodic" /\ src[i].stamp < floor /\ src[i].stamp \in Int
      BY <1>1, <1>5, <3>1 DEF IsBehind, TypeOK, ItemType
    <3>3. ~Reread(i)
      BY <1>1, <3>2 DEF Reread
    <3> QED
      BY <3>1, <3>2, <3>3 DEF IInv, NothingForgotten, Remembered, IsMissed
  <2> QED
    BY <1>5, <2>2, <2>3 DEF MemoryIsSound, PageIsSound, DraftsAreDue
<1>13. HolderIsInformed(n)
  BY <1>2, <1>5 DEF HolderIsInformed, Excused, DeltaFloor
<1>14. ASSUME NEW x \in Runs PROVE RunIsSound(x, run[x])'
  <2>1. CASE x # r
    BY <1>7, <1>8, <1>9, <2>1, OthersAreSound
  <2>2. CASE x = r
    <3>1. MemoryIsSound(n)' /\ HolderIsInformed(n)' /\ run'[x] = n
      BY <1>8, <1>9, <1>12, <1>13, <2>2, SoundnessStays
    <3> QED
      BY <3>1 DEF RunIsSound, MemoryIsSound
  <2> QED
    BY <2>1, <2>2
<1> QED
  BY <1>9, <1>10, <1>11, <1>14, TablesAreSound DEF IInv

-----------------------------------------------------------------------------
(* A successful write *)

LEMMA WriteStep ==
  ASSUME IInv, NEW r \in Runs, Write(r)
  PROVE  IInv'
<1>1. PICK m : m = run[r]
  OBVIOUS
<1>2. m \in RunType /\ MemoryIsSound(m) /\ m.pc = "writing"
  BY <1>1, MemoryOf DEF Write
<1>3. PICK i : i = m.item
  OBVIOUS
<1>4. /\ i \in Items /\ m.page \in ItemType
      /\ m.page = src[i] \/ Fresh(i, m)
  BY <1>2, <1>3 DEF MemoryIsSound, PageIsSound, RunType
<1>5. /\ \A j \in Items : copy'[j] = IF j = i THEN m.page.ver ELSE copy[j]
      /\ copy' \in [Items -> Nat]
  BY <1>1, <1>3, <1>4 DEF Write, IInv, TypeOK, ItemType
<1>6. /\ UNCHANGED <<now, src, connected, watermark, repair, holder, unheld, missed, faults>>
      /\ passed' = IF holder = r THEN passed \ {i} ELSE passed \cup {i}
      /\ overtaken' = overtaken \ {i}
  BY <1>1, <1>3 DEF Write
<1>7. TypeOK
  BY DEF IInv
<1> DEFINE o == Resolved(m, Resolves(m))
           n == Onward(o)
<1>8. Goes(r, n)
  BY <1>1 DEF Write
<1>9. Resolves(m) \in SUBSET Keys /\ \A k \in Resolves(m) : k[1] = i
  BY <1>3 DEF Resolves
<1>10. /\ o \in RunType /\ SameRun(m, o)
       /\ o.todo = m.todo /\ o.opened = m.opened /\ o.full = m.full
       /\ o.closed = m.closed \cup Resolves(m)
  BY <1>2, <1>9, ResolvedFields
<1> HIDE DEF o
<1>11. /\ n \in RunType /\ SameRun(m, n) /\ n.pc = "pages" /\ n.item = NoItem
       /\ n.todo = m.todo /\ n.opened = m.opened /\ n.full = m.full
       /\ n.closed = m.closed \cup Resolves(m)
  BY <1>10, OnwardFields DEF SameRun
<1> HIDE DEF n
<1>12. \A x \in Runs : run'[x] = IF x = r THEN n ELSE run[x]
  BY <1>7, <1>8 DEF Goes, TypeOK
<1>13. TypeOK'
  <2>1. passed' \subseteq Items /\ overtaken' \subseteq Items
    BY <1>4, <1>6, <1>7 DEF TypeOK
  <2>2. run' \in [Runs -> RunType]
    BY <1>7, <1>8, <1>11 DEF TypeOK, Goes
  <2> QED
    BY <1>5, <1>6, <1>7, <2>1, <2>2 DEF TypeOK
\* The item was written by the holder and is not missing any more, or is fresh.
<1>14. /\ \A j \in Items \ {i} : (Owed(j)' <=> Owed(j)) /\ (j \in Excused' <=> j \in Excused)
       /\ i \notin Excused' => holder = r /\ (~Owed(i)' \/ Fresh(i, m))
       /\ holder # r => i \in Excused'
  <2>1. \A j \in Items \ {i} : j \in Excused' <=> j \in Excused
    BY <1>6 DEF Excused
  <2>2. \A j \in Items \ {i} : Owed(j)' <=> Owed(j)
    BY <1>5, <1>6 DEF Owed
  <2>3. holder # r => i \in Excused'
    BY <1>6 DEF Excused
  <2>4. ~Owed(i)' \/ Fresh(i, m)
    BY <1>4, <1>5, <1>6 DEF Owed
  <2> QED
    BY <2>1, <2>2, <2>3, <2>4
<1>15. HolderIsLast'
  BY <1>1, <1>2, <1>6, <1>11, <1>12 DEF IInv, HolderIsLast, SameRun, TypeOK
<1>16. Fresh(i, m) /\ holder = r =>
         /\ Reread(i) \/ i \in missed
         /\ \A x \in Runs : run[x].pc # "off" => Fresh(i, run[x])
  <2>1. holder = r => watermark <= m.started /\ \A x \in Runs : run[x].pc # "off" => run[x].started <= m.started
    BY <1>1, ConstantsAssumption DEF IInv, HolderIsLast
  <2>2. /\ watermark \in Int /\ m.started \in Int /\ src[i].stamp \in Int
        /\ \A x \in Runs : run[x].started \in Int
    BY <1>2, <1>4, <1>7 DEF TypeOK, RunType, ItemType
  <2> QED
    BY <1>4, <2>1, <2>2, ConstantsAssumption
       DEF Fresh, Reread, DeltaFloor, Floor, IInv, StampsAreReached
<1>17. StampsAreReached' /\ RepairsAreReread'
  BY <1>6 DEF IInv, StampsAreReached, RepairsAreReread, Reread, DeltaFloor
<1>18. NothingForgotten'
  BY <1>6, <1>14, <1>16 DEF IInv, NothingForgotten, Remembered, Reread, DeltaFloor
<1>19. ASSUME NEW x \in Runs, x # r PROVE RunIsSound(x, run[x])'
  <2>1. PICK u : u = run[x]
    OBVIOUS
  <2>2. /\ MemoryIsSound(u) /\ (holder = x => HolderIsInformed(u)) /\ u = run'[x]
        /\ u \in RunType
    BY <1>12, <1>19, <2>1, MemoryOf
  <2>3. i \notin Excused' => ~Owed(i)' \/ u.pc = "off" \/ Fresh(i, u)
    BY <1>14, <1>16, <2>1
  <2>4. MemoryIsPast(u)' /\ PageIsSound(u)' /\ DraftsAreDue(u)'
    BY <1>6, <2>2 DEF MemoryIsSound, MemoryIsPast, PageIsSound, DraftsAreDue, Fresh
  <2>5. LedgerIsComplete(u)'
    BY <1>6, <1>14, <2>2, <2>3 DEF MemoryIsSound, LedgerIsComplete, Fresh, IsBehind, IsMissed
  <2>6. holder' = x => HolderIsInformed(u)'
    <3>1. SUFFICES ASSUME holder = x PROVE HolderIsInformed(u)'
      BY <1>6
    <3>2. i \in Excused'
      BY <1>14, <1>19, <3>1
    <3>3. \A k \in u.closed : k[1] \in Items
      BY <2>2, SmallTypes DEF RunType
    <3> QED
      BY <1>6, <1>14, <2>2, <3>1, <3>2, <3>3 DEF HolderIsInformed, Fresh
  <2> QED
    BY <2>2, <2>4, <2>5, <2>6 DEF RunIsSound
<1>20. RunIsSound(r, run[r])'
  <2>1. run'[r] = n
    BY <1>12
  <2>2. MemoryIsPast(n)' /\ PageIsSound(n)' /\ DraftsAreDue(n)'
    BY <1>2, <1>6, <1>11 DEF MemoryIsSound, MemoryIsPast, PageIsSound, DraftsAreDue, SameRun
  <2>3. LedgerIsComplete(n)'
    <3>1. \A j \in Items : Fresh(j, m) => Fresh(j, n)'
      BY <1>6, <1>11 DEF Fresh, SameRun
    <3> QED
      BY <1>2, <1>3, <1>6, <1>11, <1>14, <3>1
         DEF MemoryIsSound, LedgerIsComplete, IsBehind, IsMissed, SameRun
  <2>4. holder' = r => HolderIsInformed(n)'
    <3>1. SUFFICES ASSUME holder = r PROVE HolderIsInformed(n)'
      BY <1>6
    <3>2. HolderIsInformed(m)
      BY <1>1, <3>1, MemoryOf
    <3>3. \A k \in n.closed : k[1] \in Excused' \/ ~Owed(k[1])' \/ Fresh(k[1], n)'
      <4>1. ASSUME NEW k \in n.closed, k[1] = i
            PROVE  k[1] \in Excused' \/ ~Owed(k[1])' \/ Fresh(k[1], n)'
        BY <1>6, <1>11, <1>14, <4>1 DEF Fresh, SameRun
      <4>2. ASSUME NEW k \in n.closed, k[1] # i
            PROVE  k[1] \in Excused' \/ ~Owed(k[1])' \/ Fresh(k[1], n)'
        <5>1. k \in m.closed /\ k[1] \in Items
          BY <1>2, <1>9, <1>11, <4>2, SmallTypes DEF RunType
        <5>2. (Owed(k[1])' <=> Owed(k[1])) /\ (k[1] \in Excused' <=> k[1] \in Excused)
          BY <1>14, <4>2, <5>1
        <5> QED
          BY <1>6, <1>11, <3>1, <3>2, <5>1, <5>2 DEF HolderIsInformed, Fresh, SameRun
      <4> QED
        BY <4>1, <4>2
    <3> QED
      BY <1>6, <1>11, <3>2, <3>3 DEF HolderIsInformed, SameRun
  <2> QED
    BY <2>1, <2>2, <2>3, <2>4 DEF RunIsSound
<1> QED
  BY <1>13, <1>15, <1>17, <1>18, <1>19, <1>20 DEF IInv
-----------------------------------------------------------------------------
(* The commit *)

LEMMA CommitStep ==
  ASSUME IInv, NEW r \in Runs, Commit(r)
  PROVE  IInv'
<1>1. PICK m : m = run[r]
  OBVIOUS
<1>2. /\ m \in RunType /\ MemoryIsSound(m) /\ m.pc = "pages" /\ m.todo = {} /\ ~m.full
      /\ holder = r => HolderIsInformed(m)
  BY <1>1, MemoryOf DEF Commit, Done
<1>3. TypeOK
  BY DEF IInv
<1>4. PICK mark \in {m.started} \cup OpenAfter(m) :
        /\ IsBoundary(mark, m)
        /\ watermark' = IF mark > watermark THEN mark ELSE watermark
  BY <1>1 DEF Commit
<1>5. /\ UNCHANGED <<now, src, copy, connected, overtaken, faults>>
      /\ repair' = Committed(m) /\ Ends(r)
      /\ missed' = IF holder = r /\ m.kind = "bulk" THEN {} ELSE missed
      /\ passed' = IF holder = r THEN passed ELSE passed \cup {k[1] : k \in ClosedBy(m)}
      /\ unheld' = IF holder = r THEN unheld ELSE Items
  BY <1>1 DEF Commit
\* The moves of the run and of the lock.
<1>6. /\ \A x \in Runs : run'[x] = IF x = r THEN Off ELSE run[x]
      /\ run' \in [Runs -> RunType]
      /\ holder' \in Runs \cup {NoRun}
      /\ holder' # NoRun => holder' = holder /\ holder # r
  BY <1>3, <1>5, SmallTypes DEF Ends, TypeOK
\* The repairs of the run.
<1>7. \A k \in Keys :
        /\ Stamped(m, k) \in Int /\ Drafted(m, k) \in RepairType
        /\ Drafted(m, k).status # "closed" /\ Drafted(m, k).stamp = Stamped(m, k)
        /\ Stamped(m, k) <= src[k[1]].stamp
        /\ m.opened[k] # NoDraft => Never < Stamped(m, k)
  <2>1. SUFFICES ASSUME NEW k \in Keys
                 PROVE  /\ Stamped(m, k) \in Int /\ Drafted(m, k) \in RepairType
                        /\ Drafted(m, k).status # "closed" /\ Drafted(m, k).stamp = Stamped(m, k)
                        /\ Stamped(m, k) <= src[k[1]].stamp
                        /\ m.opened[k] # NoDraft => Never < Stamped(m, k)
    OBVIOUS
  <2>2. m.existing[k] \in RepairType /\ m.opened[k] \in Int
    BY <1>2 DEF RunType
  <2>3. Stamped(m, k) \in Int
    BY <2>2 DEF Stamped, RepairType
  <2>4. Stamped(m, k) <= src[k[1]].stamp
    BY <1>2 DEF Stamped, MemoryIsSound, MemoryIsPast
  <2>5. Drafted(m, k) \in RepairType
    BY <2>2, <2>3, ConstantsAssumption DEF Drafted, RepairType
  <2>6. Drafted(m, k).status # "closed" /\ Drafted(m, k).stamp = Stamped(m, k)
    BY DEF Drafted
  <2>7. m.opened[k] # NoDraft => Never < Stamped(m, k)
    <3>1. Never \in Int
      BY ConstantsAssumption DEF Never, Before
    <3> QED
      BY <1>2, <2>2, <3>1 DEF Stamped, NoDraft, MemoryIsSound, MemoryIsPast
  <2> QED
    BY <2>3, <2>4, <2>5, <2>6, <2>7
<1>8. \A k \in Keys : repair'[k] = IF m.opened[k] # NoDraft THEN Drafted(m, k)
                                   ELSE IF k \in ClosedBy(m) THEN Closed ELSE repair[k]
  BY <1>5 DEF Committed
<1>9. \A k \in ClosedBy(m) : k \in m.closed /\ k \in Keys /\ m.existing[k].status = "pending"
  BY <1>2 DEF ClosedBy, RunType
\* The new watermark.
<1>10. /\ mark \in Int /\ mark <= m.started
       /\ \A k \in Keys : m.opened[k] # NoDraft /\ Drafted(m, k).status = "pending"
                          => mark <= Stamped(m, k)
       /\ \A k \in Keys : /\ m.existing[k].status = "pending"
                          /\ m.opened[k] = NoDraft /\ k \notin m.closed
                          => mark <= m.existing[k].stamp
       /\ Never < mark
  <2>1. OpenAfter(m) \subseteq Int /\ m.started \in Int
    BY <1>2, <1>7 DEF OpenAfter, RunType, RepairType
  <2>2. \A other \in {m.started} \cup OpenAfter(m) : mark <= other
    BY <1>4 DEF IsBoundary
  <2>3. Never < m.started
    BY <1>2, ConstantsAssumption DEF Never, Before, RunType
  <2>4. \A other \in OpenAfter(m) : Never < other
    BY <1>2, <1>7 DEF OpenAfter, MemoryIsSound, MemoryIsPast
  <2> QED
    BY <1>4, <2>1, <2>2, <2>3, <2>4 DEF OpenAfter
<1>11. watermark \in Int /\ watermark' \in Int /\ m.started \in Int /\ Never \in Int
  BY <1>2, <1>3, <1>4, <1>10, ConstantsAssumption DEF TypeOK, RunType, Never, Before
<1>12. /\ watermark' >= watermark /\ (watermark' # watermark => watermark' = mark)
       /\ watermark' # Never /\ watermark' >= mark
  BY <1>4, <1>10, <1>11
<1>13. TypeOK'
  <2>1. repair' \in [Keys -> RepairType]
    BY <1>3, <1>5, <1>7, SmallTypes DEF Committed, TypeOK
  <2>2. passed' \subseteq Items /\ unheld' \subseteq Items /\ missed' \subseteq Items
    BY <1>3, <1>5, <1>9, SmallTypes DEF TypeOK
  <2> QED
    BY <1>3, <1>5, <1>6, <1>11, <2>1, <2>2 DEF TypeOK
<1>14. HolderIsLast'
  <2>1. mark <= now
    BY <1>1, <1>2, <1>3, <1>10, <1>11 DEF MemoryIsSound, MemoryIsPast, TypeOK
  <2>2. ASSUME NEW x \in Runs, run'[x].pc # "off"
        PROVE  run'[x] = run[x]
    BY <1>6, <2>2 DEF Off
  <2>3. ASSUME holder' # NoRun
        PROVE  /\ holder' = holder /\ run'[holder] = run[holder] /\ holder \in Runs
               /\ m.started <= run[holder].started
    BY <1>1, <1>2, <1>3, <1>6, <2>3 DEF IInv, HolderIsLast, TypeOK
  <2>4. ASSUME holder' # NoRun
        PROVE  watermark' <= run'[holder'].started
    <3>1. run[holder].started \in Int /\ watermark <= run[holder].started
      BY <1>3, <2>3, <2>4 DEF TypeOK, RunType, IInv, HolderIsLast
    <3> QED
      BY <1>10, <1>11, <1>12, <2>3, <2>4, <3>1
  <2>5. watermark' <= now'
    BY <1>5, <1>12, <2>1 DEF IInv, HolderIsLast
  <2> QED
    BY <2>2, <2>3, <2>4, <2>5 DEF IInv, HolderIsLast
<1>15. StampsAreReached'
  BY <1>5, <1>7, <1>8, <1>12 DEF IInv, StampsAreReached, Closed
\* Whom the commit excuses.
<1>16. /\ Excused \subseteq Excused'
       /\ holder = r => Excused' = Excused
       /\ holder # r => \A k \in ClosedBy(m) : k[1] \in Excused'
  BY <1>5 DEF Excused
\* What the holder closed is written or fresh, for it and for older runs.
<1>17. ASSUME NEW i \in Items \ Excused', Owed(i), KeyOf(i) \in ClosedBy(m)
       PROVE  holder = r /\ Fresh(i, m)
  <2>1. KeyOf(i)[1] = i
    BY SmallTypes
  <2>2. holder = r
    BY <1>17, <1>16, <2>1
  <2> QED
    BY <1>2, <1>9, <1>17, <1>16, <2>1, <2>2 DEF HolderIsInformed
<1>18. holder = r => watermark <= m.started
  BY <1>1, ConstantsAssumption DEF IInv, HolderIsLast
\* What stays without a repair, and is not older than the connection, is fresh.
<1>19. ASSUME NEW i \in Items \ Excused', Owed(i), repair'[KeyOf(i)].status = "closed",
              m.kind = "bulk" \/ i \notin missed
       PROVE  Fresh(i, m)
  <2>1. i \notin Excused /\ KeyOf(i) \in Keys
    BY <1>16, <1>19, SmallTypes
  <2>2. /\ m.opened[KeyOf(i)] = NoDraft
        /\ KeyOf(i) \in ClosedBy(m) \/ repair[KeyOf(i)].status = "closed"
    BY <1>7, <1>8, <1>19, <2>1
  <2>3. CASE KeyOf(i) \in ClosedBy(m)
    BY <1>17, <1>19, <2>3
  <2>4. CASE repair[KeyOf(i)].status = "closed"
    <3>1. IsBehind(i, m) /\ ~IsMissed(i, m)
      BY <1>2, <1>19, ConstantsAssumption DEF IsBehind, IsMissed, MemoryIsSound, PageIsSound
    <3> QED
      BY <1>2, <1>19, <2>1, <2>2, <2>4, <3>1 DEF MemoryIsSound, LedgerIsComplete
  <2> QED
    BY <2>2, <2>3, <2>4
<1>20. NothingForgotten'
  <2>1. SUFFICES ASSUME NEW i \in Items \ Excused', i \notin missed', Owed(i),
                        repair'[KeyOf(i)].status = "closed"
                 PROVE  src[i].stamp >= Floor(watermark')
    BY <1>5, <1>12 DEF NothingForgotten, Remembered, Reread, DeltaFloor, Owed
  <2>2. i \notin Excused /\ KeyOf(i) \in Keys /\ src[i].stamp \in Int
    BY <1>3, <1>16, <2>1, SmallTypes DEF TypeOK, ItemType
  <2>3. Fresh(i, m)
    BY <1>5, <1>19, <2>1
  <2>4. CASE watermark' # watermark
    BY <1>10, <1>11, <1>12, <2>2, <2>3, <2>4, ConstantsAssumption DEF Fresh, Floor
  <2>5. CASE watermark' = watermark /\ holder = r
    BY <1>11, <1>18, <2>2, <2>3, <2>5, ConstantsAssumption DEF Fresh, Floor
  <2>6. CASE watermark' = watermark /\ holder # r
    <3>1. KeyOf(i) \notin ClosedBy(m)
      BY <1>17, <2>1, <2>6
    <3>2. repair[KeyOf(i)].status = "closed" /\ i \notin missed
      BY <1>5, <1>7, <1>8, <2>1, <2>2, <2>6, <3>1
    <3> QED
      BY <1>12, <2>1, <2>2, <2>6, <3>2 DEF IInv, NothingForgotten, Remembered, Reread, DeltaFloor
  <2> QED
    BY <2>4, <2>5, <2>6
<1>21. RepairsAreReread'
  <2>1. SUFFICES ASSUME NEW k \in Keys, k[1] \in Products, k[1] \notin unheld',
                        repair'[k].status = "pending"
                 PROVE  src[k[1]].stamp >= Floor(watermark')
    BY <1>5, <1>12 DEF RepairsAreReread, Reread, DeltaFloor
  <2>2. k[1] \in Items /\ src[k[1]].stamp \in Int
    BY <1>3, SmallTypes DEF TypeOK, ItemType
  <2>3. holder = r /\ k[1] \notin unheld
    BY <1>5, <2>1, <2>2
  <2>4. /\ watermark # Never => m.floor = Floor(watermark)
        /\ repair[k].status = "pending" => m.existing[k] = repair[k]
    BY <1>2, <2>1, <2>3 DEF HolderIsInformed
  <2>5. ASSUME NEW stamp \in Int, mark <= stamp, stamp <= src[k[1]].stamp,
               watermark' # watermark
        PROVE  src[k[1]].stamp >= Floor(watermark')
    BY <1>10, <1>12, <2>2, <2>5, ConstantsAssumption DEF Floor
  <2>6. CASE m.opened[k] # NoDraft
    <3>1. mark <= Stamped(m, k) /\ Stamped(m, k) \in Int /\ Stamped(m, k) <= src[k[1]].stamp
      BY <1>7, <1>8, <1>10, <2>1, <2>6
    <3>2. CASE watermark' # watermark
      BY <2>5, <3>1, <3>2
    <3>3. CASE watermark' = watermark
      <4>1. m.opened[k] \in Int /\ m.opened[k] <= src[k[1]].stamp /\ m.opened[k] >= m.floor
        BY <1>2, <2>1, <2>6 DEF MemoryIsSound, MemoryIsPast, DraftsAreDue, RunType
      <4>2. Floor(watermark) \in Int
        BY <1>11, ConstantsAssumption DEF Floor
      <4> QED
        BY <1>12, <2>2, <2>4, <3>3, <4>1, <4>2
    <3> QED
      BY <3>2, <3>3
  <2>7. CASE m.opened[k] = NoDraft
    <3>1. repair'[k] = repair[k] /\ k \notin ClosedBy(m)
      BY <1>8, <2>1, <2>7 DEF Closed
    <3>2. m.existing[k] = repair[k] /\ m.existing[k].status = "pending" /\ k \notin m.closed
      BY <2>1, <2>4, <3>1 DEF ClosedBy
    <3>3. /\ mark <= m.existing[k].stamp /\ m.existing[k].stamp <= src[k[1]].stamp
          /\ m.existing[k].stamp \in Int
      BY <1>2, <1>10, <2>7, <3>2 DEF MemoryIsSound, MemoryIsPast, RunType, RepairType
    <3>4. CASE watermark' # watermark
      BY <2>5, <3>3, <3>4
    <3>5. CASE watermark' = watermark
      BY <1>12, <2>1, <2>3, <3>2, <3>5 DEF IInv, RepairsAreReread, Reread, DeltaFloor
    <3> QED
      BY <3>4, <3>5
  <2> QED
    BY <2>6, <2>7
<1>22. ASSUME NEW x \in Runs, x # r PROVE RunIsSound(x, run[x])'
  <2>1. PICK u : u = run[x]
    OBVIOUS
  <2>2. u \in RunType /\ MemoryIsSound(u) /\ u = run'[x]
    BY <1>6, <1>22, <2>1, MemoryOf
  <2>3. MemoryIsPast(u)'
    BY <1>5, <2>2 DEF MemoryIsSound, MemoryIsPast
  <2>4. PageIsSound(u)' /\ DraftsAreDue(u)'
    BY <1>5, <2>2 DEF MemoryIsSound, PageIsSound, DraftsAreDue, Fresh
  <2>5. LedgerIsComplete(u)'
    <3>1. SUFFICES ASSUME NEW i \in Items, i \notin Excused', u.pc # "off", IsBehind(i, u),
                          Owed(i), ~u.full, u.opened[KeyOf(i)] = NoDraft,
                          repair'[KeyOf(i)].status = "closed",
                          ~(u.kind = "periodic" /\ i \in missed')
                   PROVE  Fresh(i, u)
      BY <1>5 DEF LedgerIsComplete, Owed, Fresh, IsBehind, IsMissed
    <3>2. i \notin Excused /\ KeyOf(i) \in Keys /\ src[i].stamp \in Int
      BY <1>3, <1>16, <3>1, SmallTypes DEF TypeOK, ItemType
    <3>3. CASE holder = r /\ Fresh(i, m)
      <4>1. u.started \in Int
        BY <2>2 DEF RunType
      <4>2. HolderIsLast /\ holder # NoRun /\ run[x] = u /\ run[holder] = m
        BY <1>1, <2>1, <3>3, ConstantsAssumption DEF IInv
      <4>3. u.started <= m.started
        BY <3>1, <4>2 DEF HolderIsLast
      <4> QED
        BY <1>11, <3>2, <3>3, <4>1, <4>3, ConstantsAssumption DEF Fresh, Floor
    <3>4. CASE ~(holder = r /\ Fresh(i, m))
      <4>1. repair[KeyOf(i)].status = "closed"
        BY <1>7, <1>8, <1>17, <3>1, <3>2, <3>4
      <4>2. missed' = missed
        BY <1>5, <1>19, <3>1, <3>4
      <4> QED
        BY <2>2, <3>1, <3>2, <4>1, <4>2 DEF MemoryIsSound, LedgerIsComplete, IsMissed
    <3> QED
      BY <3>3, <3>4
  <2>6. holder' = x => HolderIsInformed(u)'
    <3>1. SUFFICES ASSUME holder' = x PROVE HolderIsInformed(u)'
      OBVIOUS
    <3>2. holder = x /\ holder # r
      BY <1>6, <3>1, ConstantsAssumption
    <3>3. HolderIsInformed(u) /\ unheld' = Items /\ Excused \subseteq Excused'
      BY <1>5, <1>16, <2>1, <3>2, MemoryOf
    <3>4. \A k \in u.closed : k[1] \in Excused' \/ ~Owed(k[1])' \/ Fresh(k[1], u)'
      BY <1>5, <3>3 DEF HolderIsInformed, Owed, Fresh
    <3> QED
      BY <3>3, <3>4, SmallTypes DEF HolderIsInformed
  <2> QED
    BY <2>2, <2>3, <2>4, <2>5, <2>6 DEF RunIsSound
<1>23. RunIsSound(r, run[r])'
  <2>1. run'[r] = Off /\ holder' # r
    BY <1>6, ConstantsAssumption
  <2>2. \A k \in Keys : Never <= src[k[1]].stamp /\ Never \in Int
    BY <1>3, SmallTypes, ConstantsAssumption DEF IInv, StampsAreReached, TypeOK, ItemType, Never, Before
  <2>3. MemoryIsPast(Off)'
    BY <1>5, <2>2 DEF MemoryIsPast, Off, NoDraft, Closed
  <2>4. PageIsSound(Off)' /\ LedgerIsComplete(Off)' /\ DraftsAreDue(Off)'
    BY DEF PageIsSound, LedgerIsComplete, DraftsAreDue, Off
  <2> QED
    BY <2>1, <2>3, <2>4 DEF RunIsSound
<1> QED
  BY <1>13, <1>14, <1>15, <1>20, <1>21, <1>22, <1>23 DEF IInv
-----------------------------------------------------------------------------
(* The rest of the world *)

LEMMA ModifyStep ==
  ASSUME IInv, NEW i \in Items, Modify(i)
  PROVE  IInv'
<1>1. TypeOK
  BY DEF IInv
<1>2. PICK stamp \in (now - Skew) .. (now + Skew), ok \in BOOLEAN :
        /\ stamp >= src[i].stamp
        /\ src' = [src EXCEPT ![i] = [ver |-> src[i].ver + 1, stamp |-> stamp, ok |-> ok]]
        /\ missed' = IF watermark = Never /\ stamp < connected THEN missed \cup {i}
                     ELSE missed \ {i}
  BY DEF Modify
<1>3. UNCHANGED <<now, copy, connected, watermark, repair, holder, run,
                  passed, overtaken, unheld, faults>>
  BY DEF Modify, history
<1>4. now \in Int /\ connected \in Int /\ stamp \in Int /\ stamp >= now - Skew
  BY <1>1, <1>2, ConstantsAssumption DEF TypeOK
<1>5. /\ \A j \in Items : j # i => src'[j] = src[j]
      /\ \A j \in Items : src[j].stamp \in Int /\ src'[j].stamp \in Int
                          /\ src[j].stamp <= src'[j].stamp
      /\ src'[i].stamp = stamp
      /\ src' \in [Items -> ItemType]
  BY <1>1, <1>2, <1>4 DEF TypeOK, ItemType
<1>6. TypeOK'
  BY <1>1, <1>2, <1>3, <1>5 DEF TypeOK
\* A modification is fresh for every run, and lies after the watermark.
<1>7. src'[i].stamp >= Floor(watermark)
  BY <1>1, <1>4, <1>5, ConstantsAssumption DEF TypeOK, Floor, IInv, HolderIsLast
<1>8. \A x \in Runs : run[x].pc # "off" => src'[i].stamp >= Floor(run[x].started)
  <2>1. \A x \in Runs : run[x].started \in Int /\ (run[x].pc # "off" => run[x].started <= now)
    BY <1>1 DEF TypeOK, RunType, IInv, RunIsSound, MemoryIsPast
  <2> QED
    BY <1>4, <1>5, <2>1, ConstantsAssumption DEF Floor
<1>9. HolderIsLast'
  BY <1>3 DEF IInv, HolderIsLast
<1>10. StampsAreReached'
  <2>1. \A j \in Items : src'[j].stamp > Never
    BY <1>5, ConstantsAssumption DEF IInv, StampsAreReached, Never, Before
  <2>2. \A k \in Keys : repair[k].stamp \in Int
    BY <1>1 DEF TypeOK, RepairType
  <2>3. \A k \in Keys : repair[k].status # "closed" => repair[k].stamp <= src'[k[1]].stamp
    BY <1>5, <2>2, SmallTypes DEF IInv, StampsAreReached
  <2>4. watermark = Never => \A j \in Items \ missed' : src'[j].stamp >= connected
    BY <1>2, <1>4, <1>5 DEF IInv, StampsAreReached
  <2> QED
    BY <1>3, <2>1, <2>3, <2>4 DEF IInv, StampsAreReached
<1>11. NothingForgotten'
  <2>1. \A j \in Items \ missed' : j # i => j \notin missed
    BY <1>2
  <2>2. i \notin missed' => Reread(i)'
    BY <1>2, <1>3, <1>4, <1>5, <1>7 DEF Reread, DeltaFloor
  <2> QED
    BY <1>3, <1>5, <2>1, <2>2
       DEF IInv, NothingForgotten, Owed, Remembered, Reread, DeltaFloor, Excused
<1>12. RepairsAreReread'
  <2>1. watermark # Never => \A j \in Items : Reread(j) => Reread(j)'
    BY <1>3, <1>5, <1>7 DEF Reread, DeltaFloor
  <2> QED
    BY <1>3, <2>1, SmallTypes DEF IInv, RepairsAreReread, StampsAreReached
<1>13. ASSUME NEW x \in Runs PROVE RunIsSound(x, run[x])'
  <2>1. PICK u : u = run[x]
    OBVIOUS
  <2>2. /\ u \in RunType /\ MemoryIsSound(u) /\ u = run'[x]
        /\ holder = x => HolderIsInformed(u)
    BY <1>3, <2>1, MemoryOf
  <2>3. u.pc # "off" => Fresh(i, u)'
    BY <1>8, <2>1 DEF Fresh
  <2>4. \A j \in Items : j # i => (Fresh(j, u) => Fresh(j, u)') /\ (Owed(j) <=> Owed(j)')
    BY <1>3, <1>5 DEF Fresh, Owed
  <2>5. MemoryIsPast(u)'
    <3>1. ASSUME NEW k \in Keys
          PROVE  /\ u.opened[k] <= src'[k[1]].stamp
                 /\ u.existing[k].status = "pending" => u.existing[k].stamp <= src'[k[1]].stamp
      <4>1. u.opened[k] \in Int /\ u.existing[k].stamp \in Int /\ k[1] \in Items
        BY <2>2, SmallTypes DEF RunType, RepairType
      <4> QED
        BY <1>5, <2>2, <4>1 DEF MemoryIsSound, MemoryIsPast
    <3> QED
      BY <1>3, <2>2, <3>1 DEF MemoryIsSound, MemoryIsPast
  <2>6. PageIsSound(u)'
    <3>1. u.item # NoItem => u.item \in Items /\ u.pc # "off" /\ u.page.stamp \in Int
      BY <2>2 DEF MemoryIsSound, PageIsSound, RunType, ItemType
    <3>2. u.item # NoItem => u.page.stamp <= src'[u.item].stamp
      BY <1>5, <2>2, <3>1 DEF MemoryIsSound, PageIsSound
    <3>3. u.item # NoItem => u.page = src'[u.item] \/ Fresh(u.item, u)'
      BY <1>5, <2>2, <2>3, <2>4, <3>1 DEF MemoryIsSound, PageIsSound
    <3> QED
      BY <2>2, <3>2, <3>3 DEF MemoryIsSound, PageIsSound
  <2>7. LedgerIsComplete(u)'
    BY <1>2, <1>3, <1>5, <2>2, <2>3, <2>4
       DEF MemoryIsSound, LedgerIsComplete, Excused, IsBehind, IsMissed
  <2>8. DraftsAreDue(u)'
    BY <2>2 DEF MemoryIsSound, DraftsAreDue
  <2>9. holder' = x => HolderIsInformed(u)'
    <3>1. SUFFICES ASSUME holder = x PROVE HolderIsInformed(u)'
      BY <1>3
    <3>2. u.pc # "off" /\ HolderIsInformed(u) /\ \A k \in u.closed : k[1] \in Items
      BY <2>1, <2>2, <3>1, SmallTypes, ConstantsAssumption DEF IInv, HolderIsLast, RunType
    <3> QED
      BY <1>3, <2>3, <2>4, <3>2 DEF HolderIsInformed, Excused
  <2> QED
    BY <2>2, <2>5, <2>6, <2>7, <2>8, <2>9 DEF RunIsSound, MemoryIsSound
<1> QED
  BY <1>6, <1>9, <1>10, <1>11, <1>12, <1>13 DEF IInv

\* A row is written beside the runs: with what the product is, or at the price of
\* an excuse.
LEMMA RowStep ==
  ASSUME IInv, TypeOK', NEW p \in Items,
         UNCHANGED <<now, src, connected, watermark, repair, holder, run, unheld, missed>>,
         \A j \in Items \ {p} : copy'[j] = copy[j] /\ (j \in Excused' <=> j \in Excused),
         p \in Excused' \/ ~Owed(p)'
  PROVE  IInv'
<1>1. \A j \in Items : Owed(j)' /\ j \notin Excused' => Owed(j) /\ j \notin Excused
  BY DEF Owed
<1>2. HolderIsLast' /\ StampsAreReached' /\ RepairsAreReread'
  BY DEF IInv, HolderIsLast, StampsAreReached, RepairsAreReread, Reread, DeltaFloor
<1>3. NothingForgotten'
  BY <1>1 DEF IInv, NothingForgotten, Remembered, Reread, DeltaFloor
<1>4. ASSUME NEW x \in Runs PROVE RunIsSound(x, run[x])'
  <2>1. PICK u : u = run[x]
    OBVIOUS
  <2>2. /\ u \in RunType /\ MemoryIsSound(u) /\ u = run'[x]
        /\ holder = x => HolderIsInformed(u)
    BY <2>1, MemoryOf
  <2>3. MemoryIsPast(u)' /\ PageIsSound(u)' /\ DraftsAreDue(u)'
    BY <2>2 DEF MemoryIsSound, MemoryIsPast, PageIsSound, DraftsAreDue, Fresh
  <2>4. LedgerIsComplete(u)'
    BY <1>1, <2>2 DEF MemoryIsSound, LedgerIsComplete, Fresh, IsBehind, IsMissed
  <2>5. holder' = x => HolderIsInformed(u)'
    <3>1. \A k \in u.closed : k[1] \in Items
      BY <2>2, SmallTypes DEF RunType
    <3> QED
      BY <1>1, <2>2, <3>1 DEF HolderIsInformed, Fresh
  <2> QED
    BY <2>2, <2>3, <2>4, <2>5 DEF RunIsSound
<1> QED
  BY <1>2, <1>3, <1>4 DEF IInv

LEMMA DeliverStep ==
  ASSUME IInv, NEW p \in Products, Deliver(p) \/ DeliverLate(p)
  PROVE  IInv'
<1>1. TypeOK /\ p \in Items
  BY DEF IInv, Items
<1>2. CASE Deliver(p)
  <2>1. /\ UNCHANGED <<now, src, connected, watermark, repair, holder, run,
                       unheld, missed, faults>>
        /\ passed' = passed \ {p} /\ overtaken' = overtaken \ {p}
    BY <1>2 DEF Deliver
  <2>2. /\ copy' \in [Items -> Nat] /\ \A j \in Items \ {p} : copy'[j] = copy[j]
        /\ ~Owed(p)'
    BY <1>1, <1>2 DEF Deliver, TypeOK, ItemType, Owed
  <2>3. \A j \in Items \ {p} : j \in Excused' <=> j \in Excused
    BY <2>1 DEF Excused
  <2>4. TypeOK'
    BY <1>1, <2>1, <2>2 DEF TypeOK
  <2> QED
    BY <1>1, <2>1, <2>2, <2>3, <2>4, RowStep
<1>3. CASE DeliverLate(p)
  <2>1. /\ UNCHANGED <<now, src, connected, watermark, repair, holder, run,
                       passed, unheld, missed>>
        /\ Misfortune /\ overtaken' = overtaken \cup {p}
    BY <1>3 DEF DeliverLate
  <2>2. copy' \in [Items -> Nat] /\ \A j \in Items \ {p} : copy'[j] = copy[j]
    BY <1>1, <1>3 DEF DeliverLate, TypeOK, ItemType
  <2>3. p \in Excused' /\ \A j \in Items \ {p} : j \in Excused' <=> j \in Excused
    BY <2>1 DEF Excused
  <2>4. TypeOK'
    BY <1>1, <2>1, <2>2, FaultsBounded DEF TypeOK
  <2> QED
    BY <1>1, <2>1, <2>2, <2>3, <2>4, RowStep
<1> QED
  BY <1>2, <1>3

LEMMA ReplayStep ==
  ASSUME IInv, NEW q \in Keys, Replay(q)
  PROVE  IInv'
<1>1. TypeOK /\ q[1] \in Items
  BY SmallTypes DEF IInv
<1>2. /\ UNCHANGED <<now, src, copy, connected, watermark, holder, run,
                     passed, overtaken, missed, faults>>
      /\ unheld' = unheld \cup {q[1]} /\ repair[q].status = "dead"
  BY DEF Replay
<1>3. \A k \in Keys : repair'[k] = IF k = q THEN [repair[q] EXCEPT !.status = "pending", !.attempts = 0]
                                   ELSE repair[k]
  BY <1>1 DEF Replay, TypeOK
<1>4. repair' \in [Keys -> RepairType]
  <2>1. [repair[q] EXCEPT !.status = "pending", !.attempts = 0] \in RepairType
    BY <1>1 DEF TypeOK, RepairType
  <2> QED
    BY <1>1, <2>1 DEF Replay, TypeOK
<1>5. \A k \in Keys : /\ repair'[k].status = "closed" <=> repair[k].status = "closed"
                      /\ repair'[k].stamp = repair[k].stamp
  <2>1. repair[q] \in RepairType
    BY <1>1 DEF TypeOK
  <2>2. repair'[q].status = "pending" /\ repair'[q].stamp = repair[q].stamp
    BY <1>3, <2>1 DEF RepairType
  <2> QED
    BY <1>2, <1>3, <2>2
<1>6. TypeOK'
  BY <1>1, <1>2, <1>4 DEF TypeOK
<1>7. HolderIsLast' /\ StampsAreReached'
  BY <1>2, <1>5 DEF IInv, HolderIsLast, StampsAreReached
<1>8. NothingForgotten'
  BY <1>2, <1>5, SmallTypes
     DEF IInv, NothingForgotten, Remembered, Reread, DeltaFloor, Owed, Excused
<1>9. RepairsAreReread'
  BY <1>2, <1>3 DEF IInv, RepairsAreReread, Reread, DeltaFloor
<1>10. ASSUME NEW x \in Runs PROVE RunIsSound(x, run[x])'
  <2>1. PICK u : u = run[x]
    OBVIOUS
  <2>2. /\ u \in RunType /\ MemoryIsSound(u) /\ u = run'[x]
        /\ holder = x => HolderIsInformed(u)
    BY <1>2, <2>1, MemoryOf
  <2>3. MemoryIsPast(u)' /\ PageIsSound(u)' /\ DraftsAreDue(u)'
    BY <1>2, <2>2 DEF MemoryIsSound, MemoryIsPast, PageIsSound, DraftsAreDue, Fresh
  <2>4. LedgerIsComplete(u)'
    BY <1>2, <1>5, <2>2, SmallTypes
       DEF MemoryIsSound, LedgerIsComplete, Owed, Fresh, Excused, IsBehind, IsMissed
  <2>5. holder' = x => HolderIsInformed(u)'
    BY <1>2, <1>3, <2>2 DEF HolderIsInformed, Owed, Fresh, Excused
  <2> QED
    BY <2>2, <2>3, <2>4, <2>5 DEF RunIsSound
<1> QED
  BY <1>6, <1>7, <1>8, <1>9, <1>10 DEF IInv

LEMMA LoseLockStep ==
  ASSUME IInv, NEW r \in Runs, LoseLock(r)
  PROVE  IInv'
<1>1. SharedUnchanged /\ UNCHANGED run /\ holder' = NoRun
  BY DEF LoseLock, history, SharedUnchanged, IInv, TypeOK
<1>2. TypeOK'
  BY <1>1, FaultsBounded DEF IInv, TypeOK, SharedUnchanged
<1>3. HolderIsLast'
  BY <1>1 DEF IInv, HolderIsLast, SharedUnchanged
<1>4. \A x \in Runs : RunIsSound(x, run[x])'
  BY <1>1, OthersAreSound, ConstantsAssumption
<1> QED
  BY <1>1, <1>2, <1>3, <1>4, TablesAreSound DEF IInv

\* What lay after the date of the connection may now lie before it, and is missed.
LEMMA ReconnectStep ==
  ASSUME IInv, Reconnect
  PROVE  IInv'
<1>1. /\ UNCHANGED <<now, src, copy, watermark, repair, holder, run,
                     passed, overtaken, unheld, faults>>
      /\ connected' = now /\ TypeOK
      /\ missed' = IF watermark = Never THEN missed \cup {i \in Items : src[i].stamp < now}
                   ELSE missed
  BY DEF Reconnect, IInv
<1>2. TypeOK'
  BY <1>1 DEF TypeOK
<1>3. HolderIsLast'
  BY <1>1 DEF IInv, HolderIsLast
<1>4. watermark = Never => \A i \in Items \ missed' : src[i].stamp >= now
  <2>1. now \in Int /\ \A i \in Items : src[i].stamp \in Int
    BY <1>1 DEF TypeOK, ItemType
  <2> QED
    BY <1>1, <2>1
<1>5. StampsAreReached'
  BY <1>1, <1>4 DEF IInv, StampsAreReached
<1>6. watermark # Never => \A i \in Items : Reread(i)' <=> Reread(i)
  BY <1>1 DEF Reread, DeltaFloor
<1>7. NothingForgotten'
  <2>1. CASE watermark = Never
    BY <1>1, <1>4, <2>1 DEF NothingForgotten, Remembered, Reread, DeltaFloor
  <2>2. CASE watermark # Never
    BY <1>1, <1>6, <2>2 DEF IInv, NothingForgotten, Remembered, Owed, Excused
  <2> QED
    BY <2>1, <2>2
<1>8. RepairsAreReread'
  BY <1>1, <1>6, SmallTypes DEF IInv, RepairsAreReread, StampsAreReached
<1>9. ASSUME NEW x \in Runs PROVE RunIsSound(x, run[x])'
  <2>1. PICK u : u = run[x]
    OBVIOUS
  <2>2. /\ u \in RunType /\ MemoryIsSound(u) /\ u = run'[x]
        /\ holder = x => HolderIsInformed(u)
    BY <1>1, <2>1, MemoryOf
  <2>3. MemoryIsPast(u)' /\ PageIsSound(u)' /\ DraftsAreDue(u)'
    BY <1>1, <2>2 DEF MemoryIsSound, MemoryIsPast, PageIsSound, DraftsAreDue, Fresh
  <2>4. LedgerIsComplete(u)'
    BY <1>1, <2>2 DEF MemoryIsSound, LedgerIsComplete, Owed, Fresh, Excused, IsBehind, IsMissed
  <2>5. holder' = x => HolderIsInformed(u)'
    BY <1>1, <2>2 DEF HolderIsInformed, Owed, Fresh, Excused
  <2> QED
    BY <2>2, <2>3, <2>4, <2>5 DEF RunIsSound
<1> QED
  BY <1>2, <1>3, <1>5, <1>7, <1>8, <1>9 DEF IInv

LEMMA TickStep ==
  ASSUME IInv, Tick
  PROVE  IInv'
<1>1. /\ UNCHANGED <<src, copy, connected, watermark, repair, holder, run,
                     passed, overtaken, unheld, missed, faults>>
      /\ now' = now + 1 /\ now < MaxTime /\ TypeOK
  BY DEF Tick, history, IInv
<1>2. TypeOK'
  BY <1>1, ConstantsAssumption DEF TypeOK
<1>3. HolderIsLast'
  BY <1>1 DEF IInv, HolderIsLast, TypeOK
<1>4. StampsAreReached' /\ NothingForgotten' /\ RepairsAreReread'
  BY <1>1 DEF IInv, StampsAreReached, NothingForgotten, RepairsAreReread, Owed, Remembered,
     Reread, DeltaFloor, Excused
<1>5. ASSUME NEW x \in Runs PROVE RunIsSound(x, run[x])'
  <2>1. PICK u : u = run[x]
    OBVIOUS
  <2>2. /\ u \in RunType /\ MemoryIsSound(u) /\ u = run'[x]
        /\ holder = x => HolderIsInformed(u)
    BY <1>1, <2>1, MemoryOf
  <2>3. MemoryIsPast(u)'
    <3>1. u.pc # "off" => u.started <= now'
      BY <1>1, <2>2 DEF MemoryIsSound, MemoryIsPast, RunType, TypeOK
    <3> QED
      BY <1>1, <2>2, <3>1 DEF MemoryIsSound, MemoryIsPast
  <2>4. PageIsSound(u)' /\ LedgerIsComplete(u)' /\ DraftsAreDue(u)'
    BY <1>1, <2>2 DEF MemoryIsSound, PageIsSound, LedgerIsComplete, DraftsAreDue, Owed, Fresh,
       Excused, IsBehind, IsMissed
  <2>5. holder' = x => HolderIsInformed(u)'
    BY <1>1, <2>2 DEF HolderIsInformed, Owed, Fresh, Excused
  <2> QED
    BY <2>2, <2>3, <2>4, <2>5 DEF RunIsSound
<1> QED
  BY <1>2, <1>3, <1>4, <1>5 DEF IInv

-----------------------------------------------------------------------------
(* The theorems *)

LEMMA InitialState ==
  Init => IInv
<1> SUFFICES ASSUME Init PROVE IInv
  OBVIOUS
<1>1. TypeOK
  BY SmallTypes, ConstantsAssumption DEF Init, TypeOK, ItemType, Never, Before
<1>2. HolderIsLast
  BY ConstantsAssumption DEF Init, HolderIsLast, Never, Before
<1>3. \A i \in Items : src[i].stamp = IF i \in Older THEN Before ELSE 0
  BY DEF Init
<1>4. StampsAreReached /\ NothingForgotten
  <2>1. Never < Before /\ Never < 0
    BY ConstantsAssumption DEF Never, Before
  <2>2. \A i \in Items : src[i].stamp > Never
    BY <1>3, <2>1
  <2>3. \A k \in Keys : repair[k].status = "closed"
    BY DEF Init, Closed
  <2>4. \A i \in Items \ missed : src[i].stamp >= connected
    BY <1>3 DEF Init
  <2>5. StampsAreReached
    BY <2>2, <2>3, <2>4 DEF StampsAreReached
  <2>6. NothingForgotten
    BY <2>4 DEF Init, NothingForgotten, Remembered, Reread, DeltaFloor
  <2> QED
    BY <2>5, <2>6
<1>5. RepairsAreReread
  BY DEF Init, RepairsAreReread, Closed
<1>6. \A r \in Runs : RunIsSound(r, run[r])
  <2>1. MemoryIsSound(Off)
    BY <1>1, <1>4, OffIsSound
  <2> QED
    BY <2>1, ConstantsAssumption DEF Init, RunIsSound, MemoryIsSound
<1> QED
  BY <1>1, <1>2, <1>4, <1>5, <1>6 DEF IInv

LEMMA Step ==
  IInv /\ [Next]_vars => IInv'
<1> SUFFICES ASSUME IInv, [Next]_vars PROVE IInv'
  OBVIOUS
<1>1. ASSUME NEW r \in Runs, NEW kind \in {"bulk", "periodic"}, Start(r, kind)
      PROVE  IInv'
  BY <1>1, StartStep
<1>2. ASSUME NEW r \in Runs, Progress(r)
      PROVE  IInv'
  BY <1>2, FetchStep, RowsStep, WriteStep, EndingStep, CommitStep DEF Progress
<1>3. ASSUME NEW r \in Runs, Mishap(r)
      PROVE  IInv'
  BY <1>3, RowsStep, DeleteFailsStep, WriteFailsStep, EndingStep, LoseLockStep DEF Mishap
<1>4. CASE World
  BY <1>4, ModifyStep, DeliverStep, ReplayStep, ReconnectStep, TickStep DEF World
<1>5. CASE UNCHANGED vars
  <2>1. /\ UNCHANGED <<holder, run>> /\ SharedUnchanged
    BY <1>5 DEF vars, history, SharedUnchanged, IInv, TypeOK
  <2>2. TypeOK' /\ HolderIsLast'
    BY <1>5 DEF vars, history, IInv, TypeOK, HolderIsLast
  <2>3. \A x \in Runs : RunIsSound(x, run[x])'
    BY <2>1, OthersAreSound
  <2> QED
    BY <2>1, <2>2, <2>3, TablesAreSound DEF IInv
<1> QED
  BY <1>1, <1>2, <1>3, <1>4, <1>5 DEF Next

\* The inductive invariant, for every shop and every number of runs.
THEOREM Invariant ==
  Spec => []IInv
<1> QED
  BY InitialState, Step, PTL DEF Spec

\* Every reachable state has its type.
THEOREM TypeCorrect ==
  Spec => []TypeOK
<1>1. IInv => TypeOK
  BY DEF IInv
<1> QED
  BY <1>1, Invariant, PTL

\* What the rows of the merchant still miss lies after the watermark or has an
\* open or dead repair, but for what runs did without the lock, and for what is
\* older than the connection until a bulk run ends well.
THEOREM NothingIsForgotten ==
  Spec => []NothingForgotten
<1>1. IInv => NothingForgotten
  BY DEF IInv
<1> QED
  BY <1>1, Invariant, PTL

\* The watermark waits for every pending repair of a product, but for those that
\* were replayed, and until a run commits without the lock.
THEOREM TheBoundaryWaits ==
  Spec => []RepairsAreReread
<1>1. IInv => RepairsAreReread
  BY DEF IInv
<1> QED
  BY <1>1, Invariant, PTL
=============================================================================
