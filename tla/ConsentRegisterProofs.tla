----------------------- MODULE ConsentRegisterProofs -----------------------
(***************************************************************************)
(* Theorems about ConsentRegister, for any browsers, invocations and       *)
(* bounds.                                                                 *)
(***************************************************************************)
EXTENDS ConsentRegister, TLAPS

\* The initial state satisfies the inductive invariant.
LEMMA InitIInv == Init => IInv
<1> SUFFICES ASSUME Init PROVE IInv
  OBVIOUS
<1>1. TypeOK
  <2>1. NoUser \in UserType
    BY DEF NoUser, UserType, Names
  <2>2. NoRow \in RowType
    BY DEF NoRow, RowType, Statuses
  <2>3. Off \in WorkerType
    BY DEF Off, WorkerType, WorkerPCs, Applying, Names
  <2>4. Away \in LinkType
    BY DEF Away, LinkType, LinkPCs, Names
  <2> QED
    BY <2>1, <2>2, <2>3, <2>4, ConstantsAssumption DEF Init, TypeOK, Names
<1>2. RowsAreSound
  BY DEF Init, RowsAreSound, RowIsSound, NoRow, NoUser
<1>3. \A w \in Workers : MemoryIsSound(worker[w]) /\ HolderIsInformed(w)
  BY DEF Init, MemoryIsSound, HolderIsInformed, Off
<1>4. \A l \in Links : LinkIsSound(link[l])
  BY DEF Init, LinkIsSound, Away
<1>5. /\ forgotten \subseteq minted /\ AppliedIsForgotten
      /\ RevokedIsNotHandedBack /\ DeadLetterHadAllAttempts
  BY DEF Init, AppliedIsForgotten, RevokedIsNotHandedBack, DeadLetterHadAllAttempts, NoRow
<1> QED
  BY <1>1, <1>2, <1>3, <1>4, <1>5 DEF IInv

\* A misfortune stays within its bound.
LEMMA MisfortuneType == ASSUME TypeOK, Misfortune PROVE faults' \in 0 .. MaxFaults
  BY ConstantsAssumption DEF TypeOK, Misfortune

-----------------------------------------------------------------------------
(* What the steps write has its type *)

\* Every field of a row takes the values of its type.
LEMMA RowFields ==
  ASSUME NEW r \in RowType
  PROVE  /\ \A v \in Statuses : [r EXCEPT !.status = v] \in RowType
         /\ \A v \in Nat : [r EXCEPT !.attempts = v] \in RowType
         /\ \A v \in BOOLEAN : [r EXCEPT !.due = v] \in RowType
         /\ \A v \in BOOLEAN : [r EXCEPT !.expired = v] \in RowType
         /\ \A v \in Workers \cup {Nobody} : [r EXCEPT !.owner = v] \in RowType
         /\ \A v \in BOOLEAN : [r EXCEPT !.subject = v] \in RowType
<1>1. \A v \in Statuses : [r EXCEPT !.status = v] \in RowType
  BY Zenon DEF RowType
<1>2. \A v \in Nat : [r EXCEPT !.attempts = v] \in RowType
  BY Zenon DEF RowType
<1>3. \A v \in BOOLEAN : [r EXCEPT !.due = v] \in RowType
  BY Zenon DEF RowType
<1>4. \A v \in BOOLEAN : [r EXCEPT !.expired = v] \in RowType
  BY Zenon DEF RowType
<1>5. \A v \in Workers \cup {Nobody} : [r EXCEPT !.owner = v] \in RowType
  BY Zenon DEF RowType
<1>6. \A v \in BOOLEAN : [r EXCEPT !.subject = v] \in RowType
  BY Zenon DEF RowType
<1> QED
  BY <1>1, <1>2, <1>3, <1>4, <1>5, <1>6

\* Every field of a memory takes the values of its type.
LEMMA WorkerFields ==
  ASSUME NEW m \in WorkerType
  PROVE  /\ \A v \in WorkerPCs : [m EXCEPT !.pc = v] \in WorkerType
         /\ \A v \in Names : [m EXCEPT !.browser = v] \in WorkerType
         /\ \A v \in BOOLEAN : [m EXCEPT !.route = v] \in WorkerType
         /\ \A v \in Nat : [m EXCEPT !.attempt = v] \in WorkerType
         /\ \A v \in {"done", "skip", "retry", "dead_letter"} :
              [m EXCEPT !.outcome = v] \in WorkerType
<1>1. \A v \in WorkerPCs : [m EXCEPT !.pc = v] \in WorkerType
  BY Zenon DEF WorkerType
<1>2. \A v \in Names : [m EXCEPT !.browser = v] \in WorkerType
  BY Zenon DEF WorkerType
<1>3. \A v \in BOOLEAN : [m EXCEPT !.route = v] \in WorkerType
  BY Zenon DEF WorkerType
<1>4. \A v \in Nat : [m EXCEPT !.attempt = v] \in WorkerType
  BY Zenon DEF WorkerType
<1>5. \A v \in {"done", "skip", "retry", "dead_letter"} : [m EXCEPT !.outcome = v] \in WorkerType
  BY Zenon DEF WorkerType
<1> QED
  BY <1>1, <1>2, <1>3, <1>4, <1>5

\* The fields of a row of users.
LEMMA UserFields ==
  ASSUME NEW u \in UserType
  PROVE  /\ \A v \in BOOLEAN : [u EXCEPT !.issued = v] \in UserType
         /\ \A v \in BOOLEAN : [u EXCEPT !.linked = v] \in UserType
         /\ \A v \in Names : [u EXCEPT !.merged = v] \in UserType
<1>1. \A v \in BOOLEAN : [u EXCEPT !.issued = v] \in UserType
  BY Zenon DEF UserType
<1>2. \A v \in BOOLEAN : [u EXCEPT !.linked = v] \in UserType
  BY Zenon DEF UserType
<1>3. \A v \in Names : [u EXCEPT !.merged = v] \in UserType
  BY Zenon DEF UserType
<1> QED
  BY <1>1, <1>2, <1>3

\* The fields of the memory of a link.
LEMMA LinkFields ==
  ASSUME NEW n \in LinkType
  PROVE  /\ \A v \in LinkPCs : [n EXCEPT !.pc = v] \in LinkType
         /\ \A v \in Names : [n EXCEPT !.browser = v] \in LinkType
         /\ \A v \in Names : [n EXCEPT !.canonical = v] \in LinkType
         /\ \A v \in SUBSET Browsers : [n EXCEPT !.toMerge = v] \in LinkType
         /\ \A v \in BOOLEAN : [n EXCEPT !.warned = v] \in LinkType
<1>1. \A v \in LinkPCs : [n EXCEPT !.pc = v] \in LinkType
  BY Zenon DEF LinkType
<1>2. \A v \in Names : [n EXCEPT !.browser = v] \in LinkType
  BY Zenon DEF LinkType
<1>3. \A v \in Names : [n EXCEPT !.canonical = v] \in LinkType
  BY Zenon DEF LinkType
<1>4. \A v \in SUBSET Browsers : [n EXCEPT !.toMerge = v] \in LinkType
  BY Zenon DEF LinkType
<1>5. \A v \in BOOLEAN : [n EXCEPT !.warned = v] \in LinkType
  BY Zenon DEF LinkType
<1> QED
  BY <1>1, <1>2, <1>3, <1>4, <1>5

\* The values that no step changes.
LEMMA Blanks ==
  /\ NoUser \in UserType /\ NoRow \in RowType /\ Off \in WorkerType /\ Away \in LinkType
<1>1. NoUser \in UserType
  BY DEF NoUser, UserType, Names
<1>2. NoRow \in RowType
  BY DEF NoRow, RowType, Statuses
<1>3. Off \in WorkerType
  BY DEF Off, WorkerType, WorkerPCs, Applying, Names
<1>4. Away \in LinkType
  BY DEF Away, LinkType, LinkPCs, Names
<1> QED
  BY <1>1, <1>2, <1>3, <1>4

\* The row that a route writes.
LEMMA RecordedType ==
  ASSUME TypeOK, NEW b \in Browsers
  PROVE  NewRow \in RowType /\ Recorded(b) \in RowType
<1>1. NewRow \in RowType
  BY DEF NewRow, NoRow, RowType, Statuses
<1> QED
  BY <1>1 DEF Recorded, TypeOK

\* The row that a claim writes.
LEMMA TakenType ==
  ASSUME NEW r \in RowType, NEW w \in Workers
  PROVE  /\ Taken(r, w) \in RowType
         /\ Taken(r, w).status = "processing" /\ Taken(r, w).owner = w
         /\ Taken(r, w).subject = r.subject
<1>1. r.attempts + 1 \in Nat /\ "processing" \in Statuses /\ FALSE \in BOOLEAN
  BY DEF RowType, Statuses
<1>2. [r EXCEPT !.status = "processing"] \in RowType
  BY <1>1, RowFields
<1>3. [r EXCEPT !.status = "processing", !.owner = w] \in RowType
  BY <1>2, RowFields
<1>4. [r EXCEPT !.status = "processing", !.owner = w, !.expired = FALSE] \in RowType
  BY <1>3, RowFields
<1>5. [r EXCEPT !.status = "processing", !.owner = w, !.expired = FALSE, !.attempts = r.attempts + 1]
      \in RowType
  BY <1>1, <1>4, RowFields
<1>6. Taken(r, w) = [r EXCEPT !.status = "processing", !.owner = w, !.expired = FALSE,
                              !.attempts = r.attempts + 1]
  BY DEF Taken
<1>7. Taken(r, w).status = "processing" /\ Taken(r, w).owner = w
      /\ Taken(r, w).subject = r.subject
  BY <1>6 DEF RowType
<1> QED
  BY <1>5, <1>6, <1>7

-----------------------------------------------------------------------------
(* The frames of the steps *)

\* The step writes the name of b nowhere, or after the erasure began; and its row
\* of users does not come into being.
NoNewName(b) ==
  /\ customer' = b => customer = b \/ b \in late'
  /\ \A a \in Browsers : user'[a].merged = b => user[a].merged = b \/ b \in late'
  /\ user'[b].issued => user[b].issued

\* What an invocation has done is not undone by a step that names nobody who is
\* being erased.
LEMMA MemoryStep ==
  ASSUME TypeOK, NEW m \in WorkerType, MemoryIsSound(m),
         minted \subseteq minted', pruned \subseteq pruned', late \subseteq late',
         \A b \in Browsers : row[b].status # "absent" => row'[b].status # "absent" \/ b \in pruned',
         m.pc \in {"pointers", "delete", "close"} => NoNewName(m.browser)
  PROVE  MemoryIsSound(m)'
<1>1. m.pc # "off" => m.browser \in Browsers
  BY DEF MemoryIsSound, WorkerType, Names
<1>2. m.pc = "off" <=> m.browser = NoBrowser
  BY DEF MemoryIsSound
<1>3. m.pc # "off" => m.browser \in minted' /\ (row'[m.browser].status # "absent" \/ m.browser \in pruned')
  BY <1>1 DEF MemoryIsSound
<1>4. m.outcome = "done" /\ m.pc \in {"pointers", "delete", "close"} =>
        customer' # m.browser \/ m.browser \in late'
  BY DEF MemoryIsSound, NoNewName
<1>5. m.outcome = "done" /\ m.pc \in {"delete", "close"} =>
        m.browser \in late' \/ \A a \in Browsers : user'[a].merged # m.browser
  BY DEF MemoryIsSound, NoNewName
<1>6. m.outcome = "done" /\ m.pc = "close" => ~user'[m.browser].issued
  BY DEF MemoryIsSound, NoNewName
<1> QED
  BY <1>2, <1>3, <1>4, <1>5, <1>6 DEF MemoryIsSound

\* A holder stays informed as long as its claim on the row is not renewed.
LEMMA HolderStep ==
  ASSUME NEW w \in Workers, HolderIsInformed(w), worker'[w] = worker[w],
         LET b == worker[w].browser IN
           worker[w].pc = "off"
           \/ row'[b].owner # w
           \/ row'[b].status # "processing"
           \/ (row'[b].owner = row[b].owner /\ row'[b].status = row[b].status
               /\ row'[b].attempts = row[b].attempts)
  PROVE  HolderIsInformed(w)'
  BY DEF HolderIsInformed, Guardia

\* A row that is not touched stays sound.
LEMMA RowsStep ==
  ASSUME RowsAreSound,
         minted \subseteq minted', pruned \subseteq pruned', forgotten \subseteq forgotten', spared \subseteq spared',
         \A b \in Browsers :
           \/ RowIsSound(b)'
           \/ row'[b] = row[b] /\ (b \in pruned' => b \in pruned)
              /\ (b \in answered' => b \in answered) /\ (user'[b].issued => user[b].issued)
  PROVE  RowsAreSound'
<1>1. ASSUME NEW b \in Browsers PROVE RowIsSound(b)'
  <2>1. CASE row'[b] = row[b] /\ (b \in pruned' => b \in pruned)
             /\ (b \in answered' => b \in answered) /\ (user'[b].issued => user[b].issued)
    <3>1. RowIsSound(b)
      BY DEF RowsAreSound
    <3>2. row'[b].status # "absent" \/ user'[b].issued => b \in minted'
      BY <2>1, <3>1, Zenon DEF RowIsSound
    <3>3. /\ row'[b].owner # Nobody => row'[b].status = "processing"
          /\ row'[b].status \in {"queued", "processing"} => row'[b].subject
      BY <2>1, <3>1, Zenon DEF RowIsSound
    <3>4. /\ row'[b].status = "completed" => b \in forgotten' \cup spared'
          /\ b \in pruned' => b \in forgotten' \cup spared'
      BY <2>1, <3>1 DEF RowIsSound
    <3>5. b \in answered' => row'[b].status # "absent" \/ b \in pruned'
      <4>1. b \in answered' => row[b].status # "absent" \/ b \in pruned
        BY <2>1, <3>1 DEF RowIsSound
      <4> QED
        BY <2>1, <4>1
    <3> QED
      BY <3>2, <3>3, <3>4, <3>5 DEF RowIsSound
  <2> QED
    BY <1>1, <2>1
<1> QED
  BY <1>1 DEF RowsAreSound

\* The steps in which nothing is applied to the end keep the invariant if they
\* leave every memory as it was or sound, and name nobody who is being erased.
LEMMA KeptStep ==
  ASSUME IInv, TypeOK', RowsAreSound', RevokedIsNotHandedBack', DeadLetterHadAllAttempts',
         forgotten' = forgotten,
         minted \subseteq minted', pruned \subseteq pruned', late \subseteq late',
         \A b \in Browsers : row[b].status # "absent" => row'[b].status # "absent" \/ b \in pruned',
         \A b \in Browsers : Erasing(b) => NoNewName(b),
         \A w \in Workers : worker'[w] = worker[w] \/ MemoryIsSound(worker[w])',
         \A w \in Workers : HolderIsInformed(w)',
         \A l \in Links : link'[l] = link[l] \/ LinkIsSound(link[l])'
  PROVE  IInv'
<1>1. ASSUME NEW w \in Workers PROVE MemoryIsSound(worker[w])'
  <2>1. CASE worker'[w] = worker[w]
    <3>1. PICK m : m = worker[w]
      OBVIOUS
    <3>2. m \in WorkerType /\ MemoryIsSound(m) /\ TypeOK
      BY <1>1, <3>1 DEF IInv, TypeOK
    <3>3. m.pc \in {"pointers", "delete", "close"} => m.browser \in Browsers /\ Erasing(m.browser)
      BY <1>1, <3>1, <3>2 DEF MemoryIsSound, WorkerType, Names, Erasing
    <3>4. MemoryIsSound(m)'
      BY <3>2, <3>3, MemoryStep
    <3> QED
      BY <2>1, <3>1, <3>4
  <2> QED
    BY <1>1, <2>1
<1>2. ASSUME NEW l \in Links PROVE LinkIsSound(link[l])'
  <2>1. CASE link'[l] = link[l]
    BY <1>2, <2>1 DEF LinkIsSound, IInv
  <2> QED
    BY <1>2, <2>1
<1>3. forgotten' \subseteq minted' /\ AppliedIsForgotten'
  <2>1. ASSUME NEW b \in forgotten PROVE ~user'[b].issued /\ (b \notin late' => Unnamed(b)')
    <3>1. NoNewName(b) /\ ~user[b].issued /\ (b \notin late => Unnamed(b))
      BY <2>1 DEF IInv, TypeOK, Erasing, AppliedIsForgotten
    <3> QED
      BY <3>1 DEF NoNewName, Unnamed
  <2> QED
    BY <2>1 DEF IInv, AppliedIsForgotten, Unnamed
<1> QED
  BY <1>1, <1>2, <1>3 DEF IInv

\* An invocation that has ended remembers nothing.
LEMMA OffIsSound ==
  ASSUME NEW w \in Workers, worker'[w] = Off
  PROVE  MemoryIsSound(worker[w])' /\ HolderIsInformed(w)'
  BY DEF MemoryIsSound, HolderIsInformed, Off

LEMMA AwayIsSound ==
  ASSUME NEW l \in Links, link'[l] = Away
  PROVE  LinkIsSound(link[l])'
  BY DEF LinkIsSound, Away

-----------------------------------------------------------------------------
(* The steps that write only the register: time, the operator, lost answers *)

LEMMA RowOnlyStep ==
  ASSUME IInv, NEW b \in Browsers, NEW r \in RowType,
         row' = [row EXCEPT ![b] = r],
         UNCHANGED <<merchant, worker, link, history>>,
         faults' \in 0 .. MaxFaults,
         r.status # "absent", b \in minted,
         r.owner # Nobody => r.status = "processing",
         r.status \in {"queued", "processing"} => r.subject,
         r.status = "completed" => row[b].status = "completed",
         r.status = "dead_letter" => row[b].status = "dead_letter" /\ r.attempts = row[b].attempts,
         r.owner = Nobody
         \/ (r.owner = row[b].owner /\ r.status = row[b].status /\ r.attempts = row[b].attempts)
  PROVE  IInv'
<1>1. TypeOK'
  BY DEF IInv, TypeOK, merchant, history
<1>2. row'[b] = r /\ \A a \in Browsers : a # b => row'[a] = row[a]
  BY DEF IInv, TypeOK
<1>3. RowsAreSound'
  <2>1. RowIsSound(b)
    BY DEF IInv, RowsAreSound
  <2>2. RowIsSound(b)'
    BY <1>2, <2>1 DEF RowIsSound, merchant, history
  <2> QED
    BY <1>2, <2>2, RowsStep DEF IInv, merchant, history
<1>4. RevokedIsNotHandedBack' /\ DeadLetterHadAllAttempts'
  BY <1>2 DEF IInv, RevokedIsNotHandedBack, DeadLetterHadAllAttempts, history
<1>5. \A a \in Browsers : NoNewName(a)
  BY DEF NoNewName, merchant
<1>6. ASSUME NEW w \in Workers PROVE HolderIsInformed(w)'
  <2>1. worker'[w] = worker[w] /\ HolderIsInformed(w)
    BY <1>6 DEF IInv
  <2>2. worker[w].pc # "off" => worker[w].browser \in Browsers
    BY <1>6 DEF IInv, MemoryIsSound, TypeOK, WorkerType, Names
  <2>3. r.owner # w \/ (r.owner = row[b].owner /\ r.status = row[b].status /\ r.attempts = row[b].attempts)
    BY <1>6, ConstantsAssumption
  <2> QED
    BY <1>2, <1>6, <2>1, <2>2, <2>3, HolderStep
<1> QED
  BY <1>1, <1>2, <1>3, <1>4, <1>5, <1>6, KeptStep DEF merchant, history

LEMMA BecomeDueKeeps == ASSUME IInv, NEW b \in Browsers, BecomeDue(b) PROVE IInv'
<1>1. row[b] \in RowType /\ RowIsSound(b) /\ faults \in 0 .. MaxFaults
  BY DEF IInv, TypeOK, RowsAreSound
<1>2. [row[b] EXCEPT !.due = TRUE] \in RowType
  BY <1>1, RowFields
<1>3. row' = [row EXCEPT ![b] = [row[b] EXCEPT !.due = TRUE]]
      /\ row[b].status = "queued"
      /\ UNCHANGED <<merchant, worker, link, history, faults>>
  BY DEF BecomeDue
<1> QED
  BY <1>1, <1>2, <1>3, RowOnlyStep DEF RowIsSound, RowType

LEMMA ExpireKeeps ==
  ASSUME IInv, NEW b \in Browsers, Expire(b) \/ Outlive(b) PROVE IInv'
<1>1. row[b] \in RowType /\ RowIsSound(b) /\ faults' \in 0 .. MaxFaults
  BY MisfortuneType DEF IInv, TypeOK, RowsAreSound, Expire, Outlive
<1>2. [row[b] EXCEPT !.expired = TRUE] \in RowType
  BY <1>1, RowFields
<1>3. row' = [row EXCEPT ![b] = [row[b] EXCEPT !.expired = TRUE]]
      /\ row[b].status = "processing"
      /\ UNCHANGED <<merchant, worker, link, history>>
  BY DEF Expire, Outlive
<1> QED
  BY <1>1, <1>2, <1>3, RowOnlyStep DEF RowIsSound, RowType

LEMMA PurgeSubjectKeeps == ASSUME IInv, NEW b \in Browsers, PurgeSubject(b) PROVE IInv'
<1>1. row[b] \in RowType /\ RowIsSound(b) /\ faults \in 0 .. MaxFaults
  BY DEF IInv, TypeOK, RowsAreSound
<1>2. [row[b] EXCEPT !.subject = FALSE] \in RowType
  BY <1>1, RowFields
<1>3. row' = [row EXCEPT ![b] = [row[b] EXCEPT !.subject = FALSE]]
      /\ row[b].status = "dead_letter"
      /\ UNCHANGED <<merchant, worker, link, history, faults>>
  BY DEF PurgeSubject
<1> QED
  BY <1>1, <1>2, <1>3, RowOnlyStep DEF RowIsSound, RowType

LEMMA ReplayKeeps == ASSUME IInv, NEW b \in Browsers, Replay(b) PROVE IInv'
<1>1. row[b] \in RowType /\ RowIsSound(b) /\ faults' \in 0 .. MaxFaults
  BY MisfortuneType DEF IInv, TypeOK, RowsAreSound, Replay
<1> DEFINE r == [row[b] EXCEPT !.status = "queued", !.attempts = 0, !.due = TRUE,
                               !.owner = Nobody, !.expired = FALSE]
<1>2. r \in RowType
  <2>1. "queued" \in Statuses /\ 0 \in Nat
    BY DEF Statuses
  <2>2. [row[b] EXCEPT !.status = "queued"] \in RowType
    BY <1>1, <2>1, RowFields
  <2>3. [row[b] EXCEPT !.status = "queued", !.attempts = 0] \in RowType
    BY <2>1, <2>2, RowFields
  <2>4. [row[b] EXCEPT !.status = "queued", !.attempts = 0, !.due = TRUE] \in RowType
    BY <2>3, RowFields
  <2>5. [row[b] EXCEPT !.status = "queued", !.attempts = 0, !.due = TRUE, !.owner = Nobody]
        \in RowType
    BY <2>4, RowFields
  <2> QED
    BY <2>5, RowFields
<1>3. row' = [row EXCEPT ![b] = r]
      /\ row[b].status = "dead_letter" /\ row[b].subject
      /\ UNCHANGED <<merchant, worker, link, history>>
  BY DEF Replay
<1>4. r.status = "queued" /\ r.owner = Nobody /\ r.subject = row[b].subject
  BY <1>1 DEF RowType
<1> HIDE DEF r
<1> QED
  BY <1>1, <1>2, <1>3, <1>4, RowOnlyStep DEF RowIsSound

LEMMA RevokeFailsKeeps == ASSUME IInv, NEW b \in Browsers, RevokeFails(b) PROVE IInv'
<1>1. row[b] \in RowType /\ RowIsSound(b) /\ faults' \in 0 .. MaxFaults /\ b \in minted
  BY MisfortuneType DEF IInv, TypeOK, RowsAreSound, RevokeFails
<1>2. UNCHANGED <<merchant, worker, link, history>>
  BY DEF RevokeFails
<1>3. CASE row' = row
  <2>1. row' = [row EXCEPT ![b] = row[b]]
    BY <1>3 DEF IInv, TypeOK
  <2>2. CASE row[b].status = "absent"
    <3>1. TypeOK' /\ RowsAreSound' /\ RevokedIsNotHandedBack' /\ DeadLetterHadAllAttempts'
      BY <1>1, <1>2, <1>3 DEF IInv, TypeOK, RowsAreSound, RowIsSound, merchant, history,
         RevokedIsNotHandedBack, DeadLetterHadAllAttempts
    <3>2. \A w \in Workers : HolderIsInformed(w)'
      BY <1>2, <1>3 DEF IInv, HolderIsInformed, Guardia
    <3>3. \A a \in Browsers : NoNewName(a)
      BY <1>2 DEF NoNewName, merchant
    <3> QED
      BY <1>2, <1>3, <3>1, <3>2, <3>3, KeptStep DEF merchant, history
  <2>3. CASE row[b].status # "absent"
    BY <1>1, <1>2, <2>1, <2>3, RowOnlyStep DEF RowIsSound
  <2> QED
    BY <2>2, <2>3
<1>4. CASE row' = [row EXCEPT ![b] = Recorded(b)]
  <2>1. Recorded(b) \in RowType
    BY RecordedType DEF IInv
  <2>2. row[b].status = "absent" => Recorded(b).status = "queued" /\ Recorded(b).owner = Nobody
                                    /\ Recorded(b).subject
    BY DEF Recorded, NewRow, NoRow
  <2>3. row[b].status # "absent" => Recorded(b) = row[b]
    BY DEF Recorded
  <2> QED
    BY <1>1, <1>2, <1>4, <2>1, <2>2, <2>3, RowOnlyStep DEF RowIsSound
<1> QED
  BY <1>3, <1>4 DEF RevokeFails

-----------------------------------------------------------------------------
(* The steps of the visitors and of the links *)

\* A step that leaves the register and its invocations alone, and names nobody who
\* is being erased.
LEMMA MerchantStep ==
  ASSUME IInv,
         UNCHANGED <<connected, row, worker, answered, forgotten, spared, pruned>>,
         minted' \subseteq Browsers, minted \subseteq minted',
         user' \in [Browsers -> UserType],
         customer' \in Names,
         link' \in [Links -> LinkType],
         late' \subseteq Browsers, late \subseteq late',
         handed' \subseteq pruned,
         faults' \in 0 .. MaxFaults,
         \A b \in Browsers : user'[b].issued => user[b].issued \/ b \in minted',
         \A b \in Browsers : Erasing(b) => NoNewName(b),
         \A l \in Links : link'[l] = link[l] \/ LinkIsSound(link[l])'
  PROVE  IInv'
<1>1. TypeOK'
  BY DEF IInv, TypeOK
<1>2. RowsAreSound'
  <2>1. ASSUME NEW b \in Browsers PROVE RowIsSound(b)'
    BY <2>1 DEF IInv, RowsAreSound, RowIsSound
  <2> QED
    BY <2>1 DEF RowsAreSound
<1>3. RevokedIsNotHandedBack' /\ DeadLetterHadAllAttempts'
  BY DEF IInv, RevokedIsNotHandedBack, DeadLetterHadAllAttempts
<1>4. \A w \in Workers : HolderIsInformed(w)'
  BY DEF IInv, HolderIsInformed, Guardia
<1> QED
  BY <1>1, <1>2, <1>3, <1>4, KeptStep

LEMMA MintKeeps == ASSUME IInv, NEW b \in Browsers, Mint(b) PROVE IInv'
<1>1. TypeOK /\ faults' \in 0 .. MaxFaults
  BY MisfortuneType DEF IInv, TypeOK, Mint
<1>2. /\ UNCHANGED <<connected, customer, row, worker, link, history>>
      /\ minted' = minted \cup {b} /\ b \notin minted
      /\ user' = user \/ user' = [user EXCEPT ![b] = [NoUser EXCEPT !.issued = TRUE]]
  BY DEF Mint
<1>3. [NoUser EXCEPT !.issued = TRUE] \in UserType
  BY Blanks, UserFields
<1>4. user' \in [Browsers -> UserType]
  BY <1>1, <1>2, <1>3 DEF TypeOK
<1>5. ASSUME NEW a \in Browsers PROVE Erasing(a) => NoNewName(a)
  <2> SUFFICES ASSUME Erasing(a) PROVE NoNewName(a)
    OBVIOUS
  <2>1. a # b
    BY <1>2 DEF Erasing, IInv, MemoryIsSound
  <2>2. user'[a] = user[a]
    BY <1>1, <1>2, <2>1 DEF TypeOK
  <2>3. ASSUME NEW c \in Browsers PROVE user'[c].merged = a => user[c].merged = a
    <3>1. user'[c] = user[c] \/ user'[c].merged = NoBrowser
      BY <1>1, <1>2 DEF TypeOK, NoUser
    <3> QED
      BY <3>1, <1>5, ConstantsAssumption
  <2> QED
    BY <1>2, <2>2, <2>3 DEF NoNewName
<1>6. \A a \in Browsers : user'[a].issued => user[a].issued \/ a \in minted'
  BY <1>1, <1>2 DEF TypeOK
<1> QED
  BY <1>1, <1>2, <1>4, <1>5, <1>6, MerchantStep
     DEF history, IInv, TypeOK, RevokedIsNotHandedBack

\* Nothing is named by a step that writes neither customers nor users.
LEMMA LinkOnlyStep ==
  ASSUME IInv, UNCHANGED <<merchant, row, worker, answered, forgotten, spared, late, pruned>>,
         NEW l \in Links, NEW n \in LinkType, link' = [link EXCEPT ![l] = n], LinkIsSound(n),
         handed' \subseteq pruned, faults' \in 0 .. MaxFaults
  PROVE  IInv'
<1>1. link' \in [Links -> LinkType]
  BY DEF IInv, TypeOK
<1>2. \A k \in Links : link'[k] = link[k] \/ LinkIsSound(link[k])'
  <2>1. link'[l] = n /\ \A k \in Links : k # l => link'[k] = link[k]
    BY DEF IInv, TypeOK
  <2>2. LinkIsSound(n)'
    BY DEF LinkIsSound, merchant
  <2>3. LinkIsSound(link[l])'
    BY <2>1, <2>2 DEF LinkIsSound
  <2> QED
    BY <2>1, <2>3
<1>3. \A b \in Browsers : NoNewName(b)
  BY DEF NoNewName, merchant
<1> QED
  BY <1>1, <1>2, <1>3, MerchantStep DEF merchant, IInv, TypeOK

LEMMA AwaySound == LinkIsSound(Away)
  BY DEF LinkIsSound, Away

LEMMA VisitKeeps == ASSUME IInv, NEW l \in Links, NEW b \in Browsers, Visit(l, b) PROVE IInv'
<1> DEFINE n == [Away EXCEPT !.pc = "check", !.browser = b, !.warned = b \in answered]
<1>1. n \in LinkType
  <2>1. "check" \in LinkPCs /\ b \in Names /\ (b \in answered) \in BOOLEAN
    BY DEF LinkPCs, Names
  <2>2. [Away EXCEPT !.pc = "check"] \in LinkType
    BY <2>1, Blanks, LinkFields
  <2>3. [Away EXCEPT !.pc = "check", !.browser = b] \in LinkType
    BY <2>1, <2>2, LinkFields
  <2> QED
    BY <2>1, <2>3, LinkFields
<1>2. link' = [link EXCEPT ![l] = n] /\ row[b].status = "absent" /\ b \in minted
      /\ UNCHANGED <<merchant, row, worker, history, faults>>
  BY DEF Visit
<1>3. LinkIsSound(n)
  <2>1. n.pc = "check" /\ n.browser = b /\ n.warned = (b \in answered)
    BY DEF Away
  <2>2. b \in answered => b \in pruned
    BY <1>2 DEF IInv, RowsAreSound, RowIsSound
  <2> QED
    BY <1>2, <2>1, <2>2 DEF LinkIsSound
<1> HIDE DEF n
<1> QED
  BY <1>1, <1>2, <1>3, LinkOnlyStep DEF history, IInv, TypeOK, RevokedIsNotHandedBack

LEMMA CheckKeeps == ASSUME IInv, NEW l \in Links, Check(l) PROVE IInv'
<1>1. /\ UNCHANGED <<merchant, row, worker, answered, forgotten, spared, late, pruned>>
      /\ link' = [link EXCEPT ![l] = Away]
      /\ faults' \in 0 .. MaxFaults
      /\ link[l].pc = "check"
  BY MisfortuneType DEF Check, Leave, IInv, TypeOK
<1>2. handed' = handed \/ (link[l].warned /\ handed' = handed \cup {link[l].browser})
  BY DEF Check
<1>3. handed' \subseteq pruned
  BY <1>2 DEF IInv, LinkIsSound, RevokedIsNotHandedBack
<1> QED
  BY <1>1, <1>3, Blanks, AwaySound, LinkOnlyStep

LEMMA LinkFailsKeeps == ASSUME IInv, NEW l \in Links, LinkFails(l) PROVE IInv'
<1>1. /\ UNCHANGED <<merchant, row, worker, history>>
      /\ faults' \in 0 .. MaxFaults
  BY MisfortuneType DEF LinkFails, IInv
<1>2. link[l] \in LinkType /\ LinkIsSound(link[l]) /\ link[l].pc # "off"
  BY DEF IInv, TypeOK, LinkFails
<1>3. CASE link' = [link EXCEPT ![l] = [link[l] EXCEPT !.pc = "remember"]]
  <2>1. [link[l] EXCEPT !.pc = "remember"] \in LinkType
    BY <1>2, LinkFields DEF LinkPCs
  <2>2. LinkIsSound([link[l] EXCEPT !.pc = "remember"])
    BY <1>2 DEF LinkIsSound, LinkType
  <2> QED
    BY <1>1, <1>3, <2>1, <2>2, LinkOnlyStep DEF history, IInv, RevokedIsNotHandedBack
<1>4. CASE link' = [link EXCEPT ![l] = Away]
  BY <1>1, <1>4, Blanks, AwaySound, LinkOnlyStep DEF history, IInv, RevokedIsNotHandedBack
<1> QED
  BY <1>3, <1>4 DEF LinkFails, Proceed, Leave

LEMMA LinkDiesKeeps == ASSUME IInv, NEW l \in Links, LinkDies(l) PROVE IInv'
<1>1. /\ UNCHANGED <<merchant, row, worker, history>>
      /\ faults' \in 0 .. MaxFaults
      /\ link' = [link EXCEPT ![l] = Away]
  BY MisfortuneType DEF LinkDies, Leave, IInv
<1> QED
  BY <1>1, Blanks, AwaySound, LinkOnlyStep DEF history, IInv, RevokedIsNotHandedBack

LEMMA ListKeeps == ASSUME IInv, NEW l \in Links, List(l) PROVE IInv'
<1>1. UNCHANGED <<merchant, row, worker, history, faults>> /\ link[l].pc = "list"
  BY DEF List
<1>2. link[l] \in LinkType /\ LinkIsSound(link[l])
  BY DEF IInv, TypeOK
<1>3. CASE link' = [link EXCEPT ![l] = [link[l] EXCEPT !.pc = "remember"]]
  <2>1. [link[l] EXCEPT !.pc = "remember"] \in LinkType
    BY <1>2, LinkFields DEF LinkPCs
  <2>2. LinkIsSound([link[l] EXCEPT !.pc = "remember"])
    BY <1>1, <1>2 DEF LinkIsSound, LinkType
  <2> QED
    BY <1>1, <1>3, <2>1, <2>2, LinkOnlyStep
       DEF history, IInv, TypeOK, RevokedIsNotHandedBack
<1>4. CASE \E a \in Linked :
             link' = [link EXCEPT ![l] = [link[l] EXCEPT !.pc = "merge", !.canonical = a,
                                                         !.toMerge = ToMerge(a)]]
  <2>1. PICK a \in Linked :
          link' = [link EXCEPT ![l] = [link[l] EXCEPT !.pc = "merge", !.canonical = a,
                                                      !.toMerge = ToMerge(a)]]
    BY <1>4
  <2>2. a \in Browsers /\ a \in Names /\ ToMerge(a) \in SUBSET Browsers /\ "merge" \in LinkPCs
    BY DEF Linked, ToMerge, Names, LinkPCs
  <2> DEFINE n == [link[l] EXCEPT !.pc = "merge", !.canonical = a, !.toMerge = ToMerge(a)]
  <2>3. n \in LinkType
    <3>1. [link[l] EXCEPT !.pc = "merge"] \in LinkType
      BY <1>2, <2>2, LinkFields
    <3>2. [link[l] EXCEPT !.pc = "merge", !.canonical = a] \in LinkType
      BY <2>2, <3>1, LinkFields
    <3> QED
      BY <2>2, <3>2, LinkFields
  <2>4. n.pc = "merge" /\ n.canonical = a /\ n.browser = link[l].browser
        /\ n.warned = link[l].warned
    BY <1>2 DEF LinkType
  <2>5. LinkIsSound(n)
    BY <1>1, <1>2, <2>2, <2>4 DEF LinkIsSound
  <2>6. link' = [link EXCEPT ![l] = n]
    BY <2>1
  <2> HIDE DEF n
  <2> QED
    BY <1>1, <2>3, <2>5, <2>6, LinkOnlyStep
       DEF history, IInv, TypeOK, RevokedIsNotHandedBack
<1> QED
  BY <1>3, <1>4 DEF List, Proceed

LEMMA IdentifyKeeps ==
  ASSUME IInv, NEW l \in Links, NEW b \in Browsers, Identify(l, b) PROVE IInv'
<1> DEFINE n == [Away EXCEPT !.pc = "list", !.browser = b]
<1>1. /\ UNCHANGED <<connected, minted, customer, row, worker, history, faults>>
      /\ link' = [link EXCEPT ![l] = n]
      /\ user' = [user EXCEPT ![b] = [user[b] EXCEPT !.linked = TRUE]]
      /\ user[b].issued
  BY DEF Identify
<1>2. n \in LinkType
  <2>1. [Away EXCEPT !.pc = "list"] \in LinkType
    BY Blanks, LinkFields DEF LinkPCs
  <2> QED
    BY <2>1, LinkFields DEF Names
<1>3. n.pc = "list" /\ n.browser = b /\ n.warned = FALSE
  BY DEF Away
<1> HIDE DEF n
<1>4. user[b] \in UserType /\ link' \in [Links -> LinkType]
  BY <1>1, <1>2 DEF IInv, TypeOK
<1>5. user' \in [Browsers -> UserType]
  <2>1. [user[b] EXCEPT !.linked = TRUE] \in UserType
    BY <1>4, UserFields
  <2> QED
    BY <1>1, <2>1 DEF IInv, TypeOK
<1>6. \A a \in Browsers : user'[a].issued = user[a].issued /\ user'[a].merged = user[a].merged
  BY <1>1, <1>4 DEF IInv, TypeOK, UserType
<1>7. \A k \in Links : link'[k] = link[k] \/ LinkIsSound(link[k])'
  <2>1. link'[l] = n /\ \A k \in Links : k # l => link'[k] = link[k]
    BY <1>1 DEF IInv, TypeOK
  <2>2. b \in minted'
    BY <1>1 DEF IInv, RowsAreSound, RowIsSound
  <2>3. LinkIsSound(link[l])'
    BY <1>3, <2>1, <2>2 DEF LinkIsSound
  <2> QED
    BY <2>1, <2>3
<1>8. \A a \in Browsers : NoNewName(a)
  BY <1>1, <1>6 DEF NoNewName
<1> QED
  BY <1>1, <1>4, <1>5, <1>6, <1>7, <1>8, MerchantStep
     DEF history, IInv, TypeOK, RevokedIsNotHandedBack

LEMMA MergeKeeps == ASSUME IInv, NEW l \in Links, Merge(l) PROVE IInv'
<1> DEFINE n == link[l]
<1> DEFINE d == [n EXCEPT !.pc = "remember"]
<1>1. /\ UNCHANGED <<connected, minted, customer, row, worker, answered, forgotten, spared,
                     pruned, handed, faults>>
      /\ link' = [link EXCEPT ![l] = d]
      /\ user' = [a \in Browsers |-> IF a \in n.toMerge /\ user[a].issued
                                     THEN [user[a] EXCEPT !.merged = n.canonical] ELSE user[a]]
      /\ n.pc = "merge"
  BY DEF Merge, Proceed
<1>2. n \in LinkType /\ LinkIsSound(n) /\ n.canonical \in Browsers /\ n.browser \in minted
  BY <1>1 DEF IInv, TypeOK, LinkIsSound
<1>3. d \in LinkType
  BY <1>2, LinkFields DEF LinkPCs
<1>4. d.pc = "remember" /\ d.browser = n.browser /\ d.warned = n.warned
  BY <1>2 DEF LinkType
<1>5. late' = (IF user' # user /\ Erasing(n.canonical) THEN late \cup {n.canonical} ELSE late)
  BY DEF Merge
<1> HIDE DEF n, d
<1>6. user' \in [Browsers -> UserType]
  <2>1. ASSUME NEW a \in Browsers PROVE user'[a] \in UserType
    <3>1. [user[a] EXCEPT !.merged = n.canonical] \in UserType
      BY <1>2, UserFields DEF IInv, TypeOK, Names
    <3> QED
      BY <1>1, <3>1 DEF IInv, TypeOK
  <2> QED
    BY <1>1, <2>1
<1>7. \A a \in Browsers :
        /\ user'[a].issued = user[a].issued
        /\ user'[a].merged = user[a].merged \/ user'[a].merged = n.canonical
  <2>1. \A a \in Browsers : user[a] \in UserType
    BY DEF IInv, TypeOK
  <2> QED
    BY <1>1, <2>1 DEF UserType
<1>8. ASSUME NEW b \in Browsers, Erasing(b) PROVE NoNewName(b)
  <2>1. ASSUME NEW a \in Browsers, user'[a].merged = b, user[a].merged # b PROVE b \in late'
    BY <1>5, <1>7, <1>8, <2>1
  <2> QED
    BY <1>1, <1>7, <2>1 DEF NoNewName
<1>9. \A k \in Links : link'[k] = link[k] \/ LinkIsSound(link[k])'
  <2>1. link'[l] = d /\ \A k \in Links : k # l => link'[k] = link[k]
    BY <1>1 DEF IInv, TypeOK
  <2>2. LinkIsSound(link[l])'
    BY <1>1, <1>2, <1>4, <2>1 DEF LinkIsSound
  <2> QED
    BY <2>1, <2>2
<1>10. late' \subseteq Browsers /\ late \subseteq late' /\ link' \in [Links -> LinkType]
  BY <1>1, <1>2, <1>3, <1>5 DEF IInv, TypeOK
<1> QED
  BY <1>1, <1>6, <1>7, <1>8, <1>9, <1>10, MerchantStep
     DEF IInv, TypeOK, RevokedIsNotHandedBack

LEMMA RememberKeeps == ASSUME IInv, NEW l \in Links, Remember(l) PROVE IInv'
<1> DEFINE b == link[l].browser
<1>1. /\ UNCHANGED <<connected, minted, user, row, worker, answered, forgotten, spared,
                     pruned, handed, faults>>
      /\ link' = [link EXCEPT ![l] = Away]
      /\ customer' = b
      /\ late' = IF Erasing(b) THEN late \cup {b} ELSE late
      /\ link[l].pc = "remember"
  BY DEF Remember, Leave
<1>2. b \in Browsers
  BY <1>1 DEF IInv, TypeOK, LinkIsSound
<1> HIDE DEF b
<1>3. ASSUME NEW a \in Browsers, Erasing(a) PROVE NoNewName(a)
  BY <1>1, <1>3 DEF NoNewName
<1>4. \A k \in Links : link'[k] = link[k] \/ LinkIsSound(link[k])'
  BY <1>1, AwayIsSound DEF IInv, TypeOK
<1>5. late' \subseteq Browsers /\ late \subseteq late' /\ link' \in [Links -> LinkType]
      /\ customer' \in Names
  BY <1>1, <1>2, Blanks DEF IInv, TypeOK, Names
<1> QED
  BY <1>1, <1>3, <1>4, <1>5, MerchantStep DEF IInv, TypeOK, RevokedIsNotHandedBack

LEMMA PruneAnonymousKeeps == ASSUME IInv, NEW b \in Browsers, PruneAnonymous(b) PROVE IInv'
<1>1. /\ UNCHANGED <<connected, minted, customer, row, worker, link, history, faults>>
      /\ user' = [user EXCEPT ![b] = NoUser]
  BY DEF PruneAnonymous
<1>2. user' \in [Browsers -> UserType]
  BY <1>1, Blanks DEF IInv, TypeOK
<1>3. NoUser.issued = FALSE /\ NoUser.merged = NoBrowser
  BY DEF NoUser
<1>4. \A a \in Browsers : user'[a].issued => user[a].issued
  BY <1>1, <1>3 DEF IInv, TypeOK
<1>5. \A a, c \in Browsers : user'[a].merged = c => user[a].merged = c
  BY <1>1, <1>3, ConstantsAssumption DEF IInv, TypeOK
<1>6. \A a \in Browsers : NoNewName(a)
  BY <1>1, <1>4, <1>5 DEF NoNewName
<1> QED
  BY <1>1, <1>2, <1>4, <1>6, MerchantStep
     DEF history, IInv, TypeOK, RevokedIsNotHandedBack

-----------------------------------------------------------------------------
(* The steps of the invocations that work a revocation *)

\* A claim: the row is taken by an invocation that has done nothing yet.
LEMMA ClaimStep ==
  ASSUME IInv, NEW w \in Workers, NEW b \in Browsers, NEW r \in RowType, NEW m \in WorkerType,
         row' = [row EXCEPT ![b] = Taken(r, w)], r.subject, b \in minted,
         worker' = [worker EXCEPT ![w] = m],
         m.pc = "read", m.browser = b, m.outcome = "done",
         UNCHANGED <<merchant, link, history, faults>>
  PROVE  IInv'
<1> DEFINE t == Taken(r, w)
<1>1. t \in RowType /\ t.status = "processing" /\ t.owner = w /\ t.subject
  BY TakenType
<1>2. row' = [row EXCEPT ![b] = t]
  OBVIOUS
<1> HIDE DEF t
<1>3. TypeOK'
  BY <1>1, <1>2 DEF IInv, TypeOK, merchant, history
<1>4. row'[b] = t /\ \A a \in Browsers : a # b => row'[a] = row[a]
  BY <1>2 DEF IInv, TypeOK
<1>5. worker'[w] = m /\ \A z \in Workers : z # w => worker'[z] = worker[z]
  BY DEF IInv, TypeOK
<1>6. RowsAreSound'
  <2>1. RowIsSound(b)
    BY DEF IInv, RowsAreSound
  <2>2. RowIsSound(b)'
    BY <1>1, <1>4, <2>1 DEF RowIsSound, merchant, history
  <2> QED
    BY <1>4, <2>2, RowsStep DEF IInv, merchant, history
<1>7. RevokedIsNotHandedBack' /\ DeadLetterHadAllAttempts'
  BY <1>1, <1>4 DEF IInv, RevokedIsNotHandedBack, DeadLetterHadAllAttempts, history
<1>8. \A a \in Browsers : NoNewName(a)
  BY DEF NoNewName, merchant
<1>9. MemoryIsSound(worker[w])'
  BY <1>1, <1>4, <1>5, ConstantsAssumption DEF MemoryIsSound, merchant
<1>10. ASSUME NEW z \in Workers PROVE HolderIsInformed(z)'
  <2>1. CASE z = w
    BY <1>5, <2>1 DEF HolderIsInformed
  <2>2. CASE z # w
    <3>1. worker'[z] = worker[z] /\ HolderIsInformed(z)
      BY <1>5, <1>10, <2>2 DEF IInv
    <3>2. worker[z].pc # "off" => worker[z].browser \in Browsers
      BY <1>10 DEF IInv, MemoryIsSound, TypeOK, WorkerType, Names
    <3> QED
      BY <1>1, <1>4, <1>10, <2>2, <3>1, <3>2, HolderStep
  <2> QED
    BY <2>1, <2>2
<1> QED
  BY <1>1, <1>3, <1>4, <1>5, <1>6, <1>7, <1>8, <1>9, <1>10, KeptStep DEF merchant, history

\* A step of one invocation that leaves the register alone and names nobody.
LEMMA WorkerStep ==
  ASSUME IInv, NEW w \in Workers, NEW m \in WorkerType,
         worker' = [worker EXCEPT ![w] = m],
         MemoryIsSound(worker[w])', HolderIsInformed(w)',
         UNCHANGED <<connected, minted, row, link, forgotten, spared, late, pruned, handed>>,
         user' \in [Browsers -> UserType], customer' \in Names,
         answered' \subseteq Browsers,
         \A b \in answered' \ answered : row[b].status # "absent" \/ b \in pruned,
         \A b \in Browsers : NoNewName(b),
         faults' \in 0 .. MaxFaults
  PROVE  IInv'
<1>1. TypeOK'
  BY DEF IInv, TypeOK
<1>2. RowsAreSound'
  <2>1. ASSUME NEW b \in Browsers PROVE RowIsSound(b)'
    <3>1. RowIsSound(b) /\ (user'[b].issued => user[b].issued)
      BY <2>1 DEF IInv, RowsAreSound, NoNewName
    <3>2. b \in answered' => row[b].status # "absent" \/ b \in pruned
      BY <3>1 DEF RowIsSound
    <3> QED
      BY <3>1, <3>2 DEF RowIsSound
  <2> QED
    BY <2>1 DEF RowsAreSound
<1>3. RevokedIsNotHandedBack' /\ DeadLetterHadAllAttempts'
  BY DEF IInv, RevokedIsNotHandedBack, DeadLetterHadAllAttempts
<1>4. \A z \in Workers : z # w => worker'[z] = worker[z]
  BY DEF IInv, TypeOK
<1>5. \A z \in Workers : HolderIsInformed(z)'
  <2>1. ASSUME NEW z \in Workers, z # w PROVE HolderIsInformed(z)'
    BY <1>4, <2>1 DEF IInv, HolderIsInformed, Guardia
  <2> QED
    BY <2>1
<1> QED
  BY <1>1, <1>2, <1>3, <1>4, <1>5, KeptStep

LEMMA RevokeKeeps == ASSUME IInv, NEW w \in Workers, NEW b \in Browsers, Revoke(w, b) PROVE IInv'
<1>1. RowIsSound(b) /\ Recorded(b) \in RowType /\ b \in minted
  BY RecordedType DEF IInv, RowsAreSound, Revoke
<1>2. UNCHANGED <<merchant, link, forgotten, spared, late, pruned, handed, faults>>
  BY DEF Revoke
<1>3. CASE row[b].status = "absent" \/ Claimable(b)
  <2> DEFINE m == [Off EXCEPT !.pc = "read", !.browser = b, !.route = TRUE]
  <2>1. m \in WorkerType
    <3>1. [Off EXCEPT !.pc = "read"] \in WorkerType
      BY Blanks, WorkerFields DEF WorkerPCs
    <3>2. [Off EXCEPT !.pc = "read", !.browser = b] \in WorkerType
      BY <3>1, WorkerFields DEF Names
    <3> QED
      BY <3>2, WorkerFields
  <2>2. m.pc = "read" /\ m.browser = b /\ m.outcome = "done"
    BY DEF Off
  <2>3. row' = [row EXCEPT ![b] = Taken(Recorded(b), w)] /\ worker' = [worker EXCEPT ![w] = m]
        /\ UNCHANGED <<merchant, link, history, faults>>
    BY <1>2, <1>3 DEF Revoke, Update, history
  <2>4. Recorded(b).subject
    BY <1>1, <1>3 DEF Recorded, NewRow, NoRow, RowIsSound, Claimable
  <2> HIDE DEF m
  <2> QED
    BY <1>1, <2>1, <2>2, <2>3, <2>4, ClaimStep
<1>4. CASE ~(row[b].status = "absent" \/ Claimable(b))
  <2>1. UNCHANGED <<row, worker>> /\ answered' = answered \cup {b} /\ row[b].status # "absent"
    BY <1>4 DEF Revoke
  <2>2. TypeOK'
    BY <1>2, <2>1 DEF IInv, TypeOK, merchant
  <2>3. RowsAreSound'
    <3>1. ASSUME NEW a \in Browsers PROVE RowIsSound(a)'
      BY <1>2, <2>1, <3>1 DEF IInv, RowsAreSound, RowIsSound, merchant
    <3> QED
      BY <3>1 DEF RowsAreSound
  <2>4. RevokedIsNotHandedBack' /\ DeadLetterHadAllAttempts'
    BY <1>2, <2>1 DEF IInv, RevokedIsNotHandedBack, DeadLetterHadAllAttempts
  <2>5. \A a \in Browsers : NoNewName(a)
    BY <1>2 DEF NoNewName, merchant
  <2>6. \A z \in Workers : HolderIsInformed(z)'
    BY <2>1 DEF IInv, HolderIsInformed, Guardia
  <2> QED
    BY <1>2, <2>1, <2>2, <2>3, <2>4, <2>5, <2>6, KeptStep DEF merchant
<1> QED
  BY <1>3, <1>4

LEMMA DrainKeeps == ASSUME IInv, NEW w \in Workers, NEW b \in Browsers, Drain(w, b) PROVE IInv'
<1> DEFINE m == [Off EXCEPT !.pc = "read", !.browser = b]
<1>1. m \in WorkerType
  <2>1. [Off EXCEPT !.pc = "read"] \in WorkerType
    BY Blanks, WorkerFields DEF WorkerPCs
  <2> QED
    BY <2>1, WorkerFields DEF Names
<1>2. m.pc = "read" /\ m.browser = b /\ m.outcome = "done"
  BY DEF Off
<1>3. row' = [row EXCEPT ![b] = Taken(row[b], w)] /\ worker' = [worker EXCEPT ![w] = m]
      /\ UNCHANGED <<merchant, link, history, faults>> /\ Claimable(b)
  BY DEF Drain, Update
<1>4. row[b] \in RowType /\ row[b].subject /\ b \in minted
  BY <1>3 DEF IInv, TypeOK, RowsAreSound, RowIsSound, Claimable
<1> HIDE DEF m
<1> QED
  BY <1>1, <1>2, <1>3, <1>4, ClaimStep

\* What an invocation at work knows of its row.
LEMMA AtWork ==
  ASSUME IInv, NEW w \in Workers, worker[w].pc # "off"
  PROVE  /\ worker[w] \in WorkerType /\ MemoryIsSound(worker[w]) /\ HolderIsInformed(w)
         /\ worker[w].browser \in Browsers /\ worker[w].browser # NoBrowser
         /\ row[worker[w].browser] \in RowType /\ RowIsSound(worker[w].browser)
         /\ row[worker[w].browser].status # "absent" \/ worker[w].browser \in pruned
<1>1. worker[w] \in WorkerType /\ MemoryIsSound(worker[w]) /\ HolderIsInformed(w)
  BY DEF IInv, TypeOK
<1>2. worker[w].browser \in Browsers
  BY <1>1 DEF MemoryIsSound, WorkerType, Names
<1> QED
  BY <1>1, <1>2, ConstantsAssumption DEF IInv, TypeOK, RowsAreSound, MemoryIsSound

\* What a route adds to the answers.
LEMMA AnswerStep ==
  ASSUME IInv, NEW w \in Workers, worker[w].pc # "off", Answer(w)
  PROVE  /\ answered' \subseteq Browsers
         /\ \A b \in answered' \ answered : row[b].status # "absent" \/ b \in pruned
  BY AtWork DEF Answer, IInv, TypeOK

LEMMA ReadKeeps == ASSUME IInv, NEW w \in Workers, Read(w) PROVE IInv'
<1> DEFINE r == row[worker[w].browser]
<1>1. /\ worker[w].pc = "read"
      /\ UNCHANGED <<merchant, row, link, forgotten, spared, late, pruned, handed, faults>>
  BY DEF Read
<1>2. \A b \in Browsers : NoNewName(b)
  BY <1>1 DEF NoNewName, merchant
<1>3. CASE r.status = "absent"
  <2>1. worker' = [worker EXCEPT ![w] = Off] /\ Answer(w)
    BY <1>3 DEF Read, Update
  <2>2. worker'[w] = Off
    BY <2>1 DEF IInv, TypeOK
  <2> QED
    BY <1>1, <1>2, <2>1, <2>2, AnswerStep, OffIsSound, Blanks, WorkerStep
       DEF merchant, IInv, TypeOK
<1>4. CASE r.status # "absent"
  <2> DEFINE pc == IF r.subject THEN "shop" ELSE "close"
             out == IF r.subject THEN "done" ELSE "dead_letter"
             m == [worker[w] EXCEPT !.attempt = r.attempts, !.pc = pc, !.outcome = out]
  <2>1. worker' = [worker EXCEPT ![w] = m] /\ answered' = answered
    BY <1>4 DEF Read, Update
  <2>2. r.attempts \in Nat /\ pc \in WorkerPCs /\ out \in {"done", "skip", "retry", "dead_letter"}
    BY <1>1, AtWork DEF RowType, WorkerPCs
  <2>3. m \in WorkerType
    <3> HIDE DEF r, pc, out
    <3>1. [worker[w] EXCEPT !.attempt = r.attempts] \in WorkerType
      BY <1>1, <2>2, AtWork, WorkerFields
    <3>2. [worker[w] EXCEPT !.attempt = r.attempts, !.pc = pc] \in WorkerType
      BY <2>2, <3>1, WorkerFields
    <3> QED
      BY <2>2, <3>2, WorkerFields
  <2>4. m.pc = pc /\ m.outcome = out /\ m.attempt = r.attempts /\ m.browser = worker[w].browser
    BY <1>1, AtWork DEF WorkerType
  <2> HIDE DEF m
  <2>5. worker'[w] = m
    BY <2>1 DEF IInv, TypeOK
  <2>6. MemoryIsSound(worker[w])'
    BY <1>1, <2>4, <2>5, AtWork DEF MemoryIsSound, merchant
  <2>7. HolderIsInformed(w)'
    <3>1. r.owner = w /\ r.status = "processing" => r.subject
      BY <1>1, AtWork DEF RowIsSound
    <3> QED
      BY <1>1, <2>4, <2>5, <3>1 DEF HolderIsInformed, Guardia
  <2> QED
    BY <1>1, <1>2, <2>1, <2>3, <2>6, <2>7, WorkerStep DEF merchant, IInv, TypeOK
<1> QED
  BY <1>3, <1>4

\* An invocation that only goes on remains informed.
LEMMA GoneOn ==
  ASSUME IInv, NEW w \in Workers, worker[w].pc # "off", worker[w].pc # "read",
         NEW m, m.pc # "off", m.pc # "read",
         m.browser = worker[w].browser, m.attempt = worker[w].attempt,
         m.outcome = "dead_letter" => worker[w].outcome = "dead_letter",
         worker' = [worker EXCEPT ![w] = m],
         row' = row
  PROVE  worker'[w] = m /\ HolderIsInformed(w)'
<1>1. worker'[w] = m
  BY DEF IInv, TypeOK
<1> QED
  BY <1>1, AtWork DEF HolderIsInformed, Guardia

LEMMA FindShopKeeps == ASSUME IInv, NEW w \in Workers, FindShop(w) PROVE IInv'
<1>1. /\ worker[w].pc = "shop"
      /\ UNCHANGED <<merchant, row, link, history, faults>>
  BY DEF FindShop
<1>2. worker[w] \in WorkerType
  BY <1>1, AtWork
<1>3. PICK m : /\ worker' = [worker EXCEPT ![w] = m] /\ m \in WorkerType
               /\ m.browser = worker[w].browser /\ m.attempt = worker[w].attempt
               /\ \/ m.pc = "unlink" /\ m.outcome = worker[w].outcome
                  \/ m.pc = "close" /\ m.outcome = "skip"
  <2>1. CASE connected
    <3>1. worker' = [worker EXCEPT ![w] = [worker[w] EXCEPT !.pc = "unlink"]]
      BY <2>1 DEF FindShop, Update
    <3>2. [worker[w] EXCEPT !.pc = "unlink"] \in WorkerType
      BY <1>2, WorkerFields DEF WorkerPCs, Applying
    <3> QED
      BY <1>2, <3>1, <3>2 DEF WorkerType
  <2>2. CASE ~connected
    <3>1. worker' = [worker EXCEPT ![w] = [worker[w] EXCEPT !.pc = "close", !.outcome = "skip"]]
      BY <2>2 DEF FindShop, Update
    <3>2. [worker[w] EXCEPT !.pc = "close"] \in WorkerType
      BY <1>2, WorkerFields DEF WorkerPCs
    <3>3. [worker[w] EXCEPT !.pc = "close", !.outcome = "skip"] \in WorkerType
      BY <3>2, WorkerFields
    <3> QED
      BY <1>2, <3>1, <3>3 DEF WorkerType
  <2> QED
    BY <2>1, <2>2
<1>4. worker'[w] = m /\ HolderIsInformed(w)'
  BY <1>1, <1>3, GoneOn
<1>5. MemoryIsSound(worker[w])'
  BY <1>1, <1>3, <1>4, AtWork DEF MemoryIsSound, merchant, history
<1>6. \A b \in Browsers : NoNewName(b)
  BY <1>1 DEF NoNewName, merchant
<1> QED
  BY <1>1, <1>3, <1>4, <1>5, <1>6, WorkerStep DEF merchant, history, IInv, TypeOK

\* A step of an erasure that leaves the outcome alone.
LEMMA GotoStep ==
  ASSUME IInv, NEW w \in Workers, NEW pc \in WorkerPCs \ {"off", "read"},
         worker[w].pc \in Applying, Goto(w, pc), row' = row
  PROVE  LET m == [worker[w] EXCEPT !.pc = pc] IN
         /\ m \in WorkerType /\ worker' = [worker EXCEPT ![w] = m] /\ worker'[w] = m
         /\ m.pc = pc /\ m.outcome = worker[w].outcome /\ m.browser = worker[w].browser
         /\ HolderIsInformed(w)'
<1>1. worker[w] \in WorkerType /\ worker[w].pc # "off" /\ worker[w].pc # "read"
  BY AtWork DEF Applying
<1>2. PICK m : m = [worker[w] EXCEPT !.pc = pc]
  OBVIOUS
<1>3. m \in WorkerType
  BY <1>1, <1>2, WorkerFields
<1>4. m.pc = pc /\ m.outcome = worker[w].outcome /\ m.browser = worker[w].browser
      /\ m.attempt = worker[w].attempt
  BY <1>1, <1>2 DEF WorkerType
<1>5. worker' = [worker EXCEPT ![w] = m]
  BY <1>2 DEF Goto, Update
<1>6. worker'[w] = m /\ HolderIsInformed(w)'
  BY <1>1, <1>4, <1>5, GoneOn
<1> QED
  BY <1>2, <1>3, <1>4, <1>5, <1>6

LEMMA UnlinkKeeps == ASSUME IInv, NEW w \in Workers, Unlink(w) PROVE IInv'
<1>1. /\ worker[w].pc = "unlink" /\ Goto(w, "pointers")
      /\ UNCHANGED <<connected, minted, user, row, link, history, faults>>
      /\ customer' = IF customer = worker[w].browser THEN NoBrowser ELSE customer
  BY DEF Unlink
<1>2. PICK m : m = [worker[w] EXCEPT !.pc = "pointers"]
  OBVIOUS
<1>3. /\ m \in WorkerType /\ worker' = [worker EXCEPT ![w] = m] /\ worker'[w] = m
      /\ m.pc = "pointers" /\ m.browser = worker[w].browser
      /\ HolderIsInformed(w)'
  <2>1. "pointers" \in WorkerPCs \ {"off", "read"} /\ worker[w].pc \in Applying
    BY <1>1 DEF WorkerPCs, Applying
  <2> QED
    BY <1>1, <1>2, <2>1, GotoStep
<1>4. MemoryIsSound(worker[w])'
  BY <1>1, <1>3, AtWork DEF MemoryIsSound, history
<1>5. \A b \in Browsers : NoNewName(b)
  BY <1>1, ConstantsAssumption DEF NoNewName
<1>6. customer' \in Names
  BY <1>1 DEF IInv, TypeOK, Names
<1> QED
  BY <1>1, <1>3, <1>4, <1>5, <1>6, WorkerStep DEF history, IInv, TypeOK

LEMMA PointersKeeps == ASSUME IInv, NEW w \in Workers, Pointers(w) PROVE IInv'
<1>1. /\ worker[w].pc = "pointers" /\ Goto(w, "delete")
      /\ UNCHANGED <<connected, minted, customer, row, link, history, faults>>
      /\ user' = [a \in Browsers |-> IF user[a].merged = worker[w].browser
                                     THEN [user[a] EXCEPT !.merged = NoBrowser] ELSE user[a]]
  BY DEF Pointers
<1>2. PICK m : m = [worker[w] EXCEPT !.pc = "delete"]
  OBVIOUS
<1>3. /\ m \in WorkerType /\ worker' = [worker EXCEPT ![w] = m] /\ worker'[w] = m
      /\ m.pc = "delete" /\ m.outcome = worker[w].outcome /\ m.browser = worker[w].browser
      /\ HolderIsInformed(w)'
  <2>1. "delete" \in WorkerPCs \ {"off", "read"} /\ worker[w].pc \in Applying
    BY <1>1 DEF WorkerPCs, Applying
  <2> QED
    BY <1>1, <1>2, <2>1, GotoStep
<1>4. \A a \in Browsers : user[a] \in UserType
  BY DEF IInv, TypeOK
<1>5. user' \in [Browsers -> UserType]
  <2>1. ASSUME NEW a \in Browsers PROVE user'[a] \in UserType
    <3>1. [user[a] EXCEPT !.merged = NoBrowser] \in UserType
      BY <1>4, UserFields DEF Names
    <3> QED
      BY <1>1, <1>4, <3>1
  <2> QED
    BY <1>1, <2>1
<1>6. \A a \in Browsers :
        /\ user'[a].issued = user[a].issued
        /\ \/ user'[a].merged = user[a].merged /\ user[a].merged # worker[w].browser
           \/ user'[a].merged = NoBrowser
  BY <1>1, <1>4 DEF UserType
<1>7. \A b \in Browsers : NoNewName(b)
  BY <1>1, <1>6, ConstantsAssumption DEF NoNewName
<1>8. \A a \in Browsers : user'[a].merged # worker[w].browser
  BY <1>1, <1>6, AtWork
<1>9. MemoryIsSound(worker[w])'
  BY <1>1, <1>3, <1>8, AtWork DEF MemoryIsSound, history
<1> QED
  BY <1>1, <1>3, <1>5, <1>7, <1>9, WorkerStep DEF history, IInv, TypeOK

LEMMA DeleteKeeps == ASSUME IInv, NEW w \in Workers, Delete(w) PROVE IInv'
<1> DEFINE b == worker[w].browser
<1>1. /\ worker[w].pc = "delete" /\ Goto(w, "close")
      /\ UNCHANGED <<connected, minted, customer, row, link, history, faults>>
      /\ user' = [user EXCEPT ![b] = NoUser]
  BY DEF Delete
<1>2. PICK m : m = [worker[w] EXCEPT !.pc = "close"]
  OBVIOUS
<1>3. /\ m \in WorkerType /\ worker' = [worker EXCEPT ![w] = m] /\ worker'[w] = m
      /\ m.pc = "close" /\ m.outcome = worker[w].outcome /\ m.browser = worker[w].browser
      /\ HolderIsInformed(w)'
  <2>1. "close" \in WorkerPCs \ {"off", "read"} /\ worker[w].pc \in Applying
    BY <1>1 DEF WorkerPCs, Applying
  <2> QED
    BY <1>1, <1>2, <2>1, GotoStep
<1>4. user' \in [Browsers -> UserType] /\ b \in Browsers
  BY <1>1, Blanks, AtWork DEF IInv, TypeOK
<1>5. \A a \in Browsers : user'[a] = user[a]
                          \/ (a = b /\ ~user'[a].issued /\ user'[a].merged = NoBrowser)
  BY <1>1 DEF IInv, TypeOK, NoUser
<1>6. ~user'[b].issued
  BY <1>1, <1>4 DEF IInv, TypeOK, NoUser
<1>7. \A a \in Browsers : NoNewName(a)
  BY <1>1, <1>5, ConstantsAssumption DEF NoNewName
<1>8. /\ m.outcome = "done" => customer' # b \/ b \in late'
      /\ m.outcome = "done" => b \in late' \/ \A a \in Browsers : user'[a].merged # b
  BY <1>1, <1>3, <1>5, AtWork DEF MemoryIsSound, history
<1>9. MemoryIsSound(worker[w])'
  BY <1>1, <1>3, <1>6, <1>8, AtWork DEF MemoryIsSound, history
<1> QED
  BY <1>1, <1>3, <1>4, <1>7, <1>9, WorkerStep DEF history, IInv, TypeOK

LEMMA StepFailsKeeps == ASSUME IInv, NEW w \in Workers, StepFails(w) PROVE IInv'
<1>1. /\ worker[w].pc \in Applying \cup {"shop"}
      /\ UNCHANGED <<merchant, row, link, history, faults>>
  BY DEF StepFails
<1>2. PICK pc : pc = After[worker[w].pc]
  OBVIOUS
<1>3. pc \in WorkerPCs \ {"off", "read"}
  BY <1>1, <1>2 DEF After, WorkerPCs, Applying
<1>4. PICK m : m = [worker[w] EXCEPT !.pc = pc, !.outcome = "retry"]
  OBVIOUS
<1>5. worker' = [worker EXCEPT ![w] = m]
  BY <1>2, <1>4 DEF StepFails, Update
<1>6. /\ m \in WorkerType /\ worker'[w] = m
      /\ m.pc = pc /\ m.outcome = "retry" /\ m.browser = worker[w].browser
      /\ HolderIsInformed(w)'
  <2>1. worker[w] \in WorkerType /\ worker[w].pc # "off" /\ worker[w].pc # "read"
    BY <1>1, AtWork DEF Applying
  <2>2. m \in WorkerType
    <3>1. [worker[w] EXCEPT !.pc = pc] \in WorkerType
      BY <1>3, <2>1, WorkerFields
    <3> QED
      BY <1>4, <3>1, WorkerFields
  <2>3. m.pc = pc /\ m.outcome = "retry" /\ m.browser = worker[w].browser
        /\ m.attempt = worker[w].attempt
    BY <1>4, <2>1 DEF WorkerType
  <2>4. worker'[w] = m /\ HolderIsInformed(w)'
    BY <1>1, <1>3, <1>5, <2>1, <2>3, GoneOn
  <2> QED
    BY <2>2, <2>3, <2>4
<1>7. MemoryIsSound(worker[w])'
  BY <1>1, <1>3, <1>6, AtWork DEF MemoryIsSound, merchant, history, Applying
<1>8. \A b \in Browsers : NoNewName(b)
  BY <1>1 DEF NoNewName, merchant
<1> QED
  BY <1>1, <1>5, <1>6, <1>7, <1>8, WorkerStep DEF merchant, history, IInv, TypeOK

LEMMA CrashKeeps == ASSUME IInv, NEW w \in Workers, Crash(w) PROVE IInv'
<1>1. /\ worker' = [worker EXCEPT ![w] = Off]
      /\ UNCHANGED <<merchant, row, link, history>>
      /\ faults' \in 0 .. MaxFaults
  BY MisfortuneType DEF Crash, Update, IInv
<1>2. worker'[w] = Off
  BY <1>1 DEF IInv, TypeOK
<1>3. \A b \in Browsers : NoNewName(b)
  BY <1>1 DEF NoNewName, merchant
<1> QED
  BY <1>1, <1>2, <1>3, OffIsSound, Blanks, WorkerStep DEF merchant, history, IInv, TypeOK

\* The row that a holder writes at the end.
LEMMA ConcludedRow ==
  ASSUME IInv, NEW w \in Workers, worker[w].pc = "close", Guardia(w)
  PROVE  LET b == worker[w].browser
             out == worker[w].outcome
             r == Concluded(w)[b] IN
         /\ Concluded(w) \in [Browsers -> RowType]
         /\ \A a \in Browsers : a # b => Concluded(w)[a] = row[a]
         /\ r.owner = Nobody
         /\ \/ r.status = "completed" /\ out \in {"done", "skip"}
            \/ r.status = "queued" /\ r.subject
            \/ r.status = "dead_letter" /\ r.attempts >= MaxAttempts
         /\ out \in {"done", "skip"} => r.status = "completed"
<1> DEFINE b == worker[w].browser
           m == worker[w]
           st == StatusAfterAttempt(m.outcome, m.attempt)
           r == [row[b] EXCEPT !.status = st, !.due = FALSE, !.expired = FALSE,
                               !.owner = Nobody,
                               !.subject = row[b].subject /\ st # "completed"]
<1>1. /\ m \in WorkerType /\ b \in Browsers /\ row[b] \in RowType
      /\ row[b].status = "processing" /\ row[b].owner = w /\ row[b].subject
      /\ m.outcome # "dead_letter" /\ m.attempt = row[b].attempts
  BY AtWork DEF Guardia, RowIsSound, HolderIsInformed
<1>2. m.outcome \in {"done", "skip", "retry"} /\ m.attempt \in Nat
  BY <1>1 DEF WorkerType
<1>3. /\ st \in {"completed", "queued", "dead_letter"}
      /\ st = "completed" <=> m.outcome \in {"done", "skip"}
      /\ st = "dead_letter" => m.attempt >= MaxAttempts
  BY <1>2 DEF StatusAfterAttempt, Exhausted
<1>4. Concluded(w) = [row EXCEPT ![b] = r]
  BY DEF Concluded
<1> HIDE DEF st
<1>5. r \in RowType
  <2>1. st \in Statuses /\ (row[b].subject /\ st # "completed") \in BOOLEAN
    BY <1>3 DEF Statuses
  <2>2. [row[b] EXCEPT !.status = st] \in RowType
    BY <1>1, <2>1, RowFields
  <2>3. [row[b] EXCEPT !.status = st, !.due = FALSE] \in RowType
    BY <2>2, RowFields
  <2>4. [row[b] EXCEPT !.status = st, !.due = FALSE, !.expired = FALSE] \in RowType
    BY <2>3, RowFields
  <2>5. [row[b] EXCEPT !.status = st, !.due = FALSE, !.expired = FALSE, !.owner = Nobody] \in RowType
    BY <2>4, RowFields
  <2> QED
    BY <2>1, <2>5, RowFields
<1>6. /\ r.status = st /\ r.owner = Nobody /\ r.attempts = row[b].attempts
      /\ r.subject = (row[b].subject /\ st # "completed")
  BY <1>1 DEF RowType
<1> HIDE DEF r
<1>7. Concluded(w) \in [Browsers -> RowType] /\ Concluded(w)[b] = r
      /\ \A a \in Browsers : a # b => Concluded(w)[a] = row[a]
  BY <1>1, <1>4, <1>5 DEF IInv, TypeOK
<1>8. \/ r.status = "completed" /\ m.outcome \in {"done", "skip"}
      \/ r.status = "queued" /\ r.subject
      \/ r.status = "dead_letter" /\ r.attempts >= MaxAttempts
  BY <1>1, <1>3, <1>6
<1>9. m.outcome \in {"done", "skip"} => r.status = "completed"
  BY <1>3, <1>6
<1> QED
  BY <1>6, <1>7, <1>8, <1>9

LEMMA ConcludeKeeps == ASSUME IInv, NEW w \in Workers, Conclude(w) PROVE IInv'
<1>0. PICK b : b = worker[w].browser
  OBVIOUS
<1>1. /\ worker[w].pc = "close" /\ Answer(w)
      /\ worker' = [worker EXCEPT ![w] = Off]
      /\ UNCHANGED <<merchant, link, late, pruned, handed, faults>>
  BY DEF Conclude, Update
<1>2. worker'[w] = Off /\ \A z \in Workers : z # w => worker'[z] = worker[z]
  BY <1>1 DEF IInv, TypeOK
<1>3. \A a \in Browsers : NoNewName(a)
  BY <1>1 DEF NoNewName, merchant
<1>4. CASE ~Guardia(w)
  <2>1. UNCHANGED <<row, forgotten, spared>>
    BY <1>4 DEF Conclude
  <2> QED
    BY <1>1, <1>2, <1>3, <2>1, AnswerStep, OffIsSound, Blanks, WorkerStep
       DEF merchant, IInv, TypeOK
<1>5. CASE Guardia(w)
  <2>1. /\ row' = Concluded(w)
        /\ forgotten' = IF worker[w].outcome = "done" THEN forgotten \cup {b} ELSE forgotten
        /\ spared' = IF worker[w].outcome = "skip" THEN spared \cup {b} ELSE spared
    BY <1>0, <1>5 DEF Conclude
  <2>2. /\ b \in Browsers /\ RowIsSound(b) /\ MemoryIsSound(worker[w])
        /\ row[b].status = "processing"
    BY <1>0, <1>1, <1>5, AtWork DEF Guardia
  <2>3. /\ row' \in [Browsers -> RowType]
        /\ \A a \in Browsers : a # b => row'[a] = row[a]
        /\ row'[b].owner = Nobody
        /\ \/ row'[b].status = "completed" /\ worker[w].outcome \in {"done", "skip"}
           \/ row'[b].status = "queued" /\ row'[b].subject
           \/ row'[b].status = "dead_letter" /\ row'[b].attempts >= MaxAttempts
    BY <1>0, <1>1, <1>5, <2>1, ConcludedRow
  <2>4. TypeOK'
    <3>1. answered' \subseteq Browsers
      BY <1>1, AnswerStep
    <3> QED
      BY <1>1, <2>1, <2>2, <2>3, <3>1, Blanks DEF IInv, TypeOK, merchant
  <2>5. RowsAreSound'
    <3>1. RowIsSound(b)'
      <4>1. user'[b] = user[b] /\ b \in minted'
        BY <1>1, <2>2 DEF RowIsSound, merchant
      <4>2. row'[b].status = "completed" => b \in forgotten' \cup spared'
        BY <2>1, <2>3
      <4>3. b \in pruned' => b \in forgotten' \cup spared'
        BY <1>1, <2>1, <2>2 DEF RowIsSound
      <4>4. row'[b].status \in {"queued", "processing"} => row'[b].subject
        <5>1. row'[b].status \in {"queued", "processing"} =>
                row'[b].status # "completed" /\ row'[b].status # "dead_letter"
          OBVIOUS
        <5> QED
          BY <2>3, <5>1, Zenon
      <4>5. row'[b].status # "absent"
        BY <2>3
      <4>6. row'[b].owner # Nobody => row'[b].status = "processing"
        BY <2>3
      <4>7. row'[b].status # "absent" \/ user'[b].issued => b \in minted'
        BY <4>1
      <4>8. b \in answered' => row'[b].status # "absent" \/ b \in pruned'
        BY <4>5
      <4> QED
        BY <4>2, <4>3, <4>4, <4>6, <4>7, <4>8 DEF RowIsSound
    <3>2. ASSUME NEW a \in Browsers, a # b PROVE RowIsSound(a)'
      <4>1. RowIsSound(a) /\ row'[a] = row[a] /\ user' = user /\ minted' = minted
        BY <1>1, <2>3, <3>2 DEF IInv, RowsAreSound, merchant
      <4>2. a \in answered' => a \in answered
        BY <1>0, <1>1, <3>2 DEF Answer
      <4>3. a \in forgotten \cup spared => a \in forgotten' \cup spared'
        BY <2>1
      <4>4. row'[a].status # "absent" \/ user'[a].issued => a \in minted'
        BY <4>1, Zenon DEF RowIsSound
      <4>5. /\ row'[a].owner # Nobody => row'[a].status = "processing"
            /\ row'[a].status \in {"queued", "processing"} => row'[a].subject
        BY <4>1, Zenon DEF RowIsSound
      <4>6. /\ row'[a].status = "completed" => a \in forgotten' \cup spared'
            /\ a \in pruned' => a \in forgotten' \cup spared'
        BY <1>1, <4>1, <4>3 DEF RowIsSound
      <4>7. a \in answered' => row'[a].status # "absent" \/ a \in pruned'
        <5>1. a \in answered => row[a].status # "absent" \/ a \in pruned
          BY <4>1 DEF RowIsSound
        <5> QED
          BY <1>1, <4>1, <4>2, <5>1
      <4>8. a \in answered' => row'[a].status # "absent" \/ a \in pruned'
        BY <1>1, <4>7
      <4> QED
        BY <4>4, <4>5, <4>6, <4>8 DEF RowIsSound
    <3> QED
      BY <3>1, <3>2 DEF RowsAreSound
  <2>6. ASSUME NEW z \in Workers PROVE MemoryIsSound(worker[z])' /\ HolderIsInformed(z)'
    <3>1. CASE z = w
      BY <1>2, <3>1, OffIsSound
    <3>2. CASE z # w
      <4>1. PICK m : m = worker[z]
        OBVIOUS
      <4>2. m \in WorkerType /\ MemoryIsSound(m) /\ worker'[z] = m
        BY <1>2, <2>6, <3>2, <4>1 DEF IInv, TypeOK
      <4>3. m.pc \in {"pointers", "delete", "close"} => m.browser \in Browsers
        BY <4>2 DEF MemoryIsSound, WorkerType, Names
      <4>4. \A a \in Browsers : row[a].status # "absent" => row'[a].status # "absent"
        BY <2>3
      <4>5. MemoryIsSound(m)'
        BY <1>1, <1>3, <4>2, <4>3, <4>4, MemoryStep DEF IInv, merchant
      <4>6. HolderIsInformed(z)'
        <5>1. HolderIsInformed(z) /\ worker'[z] = worker[z]
          BY <2>6, <4>1, <4>2 DEF IInv
        <5>2. worker[z].pc # "off" => worker[z].browser \in Browsers
          BY <4>1, <4>2 DEF MemoryIsSound, WorkerType, Names
        <5> QED
          BY <2>3, <2>6, <5>1, <5>2, ConstantsAssumption, HolderStep
      <4> QED
        BY <4>2, <4>5, <4>6
    <3> QED
      BY <3>1, <3>2
  <2>7. forgotten' \subseteq minted' /\ AppliedIsForgotten'
    <3>1. user' = user /\ customer' = customer /\ late' = late /\ minted' = minted
      BY <1>1 DEF merchant
    <3>2. worker[w].outcome = "done" =>
            b \in minted /\ ~user[b].issued /\ (b \notin late => Unnamed(b))
      BY <1>0, <1>1, <2>2 DEF MemoryIsSound, Unnamed
    <3>3. \A a \in forgotten' :
            a \in minted /\ ~user[a].issued /\ (a \notin late => Unnamed(a))
      BY <2>1, <3>2 DEF IInv, AppliedIsForgotten
    <3> QED
      BY <3>1, <3>3 DEF AppliedIsForgotten, Unnamed
  <2>8. RevokedIsNotHandedBack' /\ DeadLetterHadAllAttempts'
    BY <1>1, <2>3 DEF IInv, RevokedIsNotHandedBack, DeadLetterHadAllAttempts
  <2>9. \A l \in Links : LinkIsSound(link[l])'
    BY <1>1 DEF IInv, LinkIsSound, merchant
  <2> QED
    BY <2>4, <2>5, <2>6, <2>7, <2>8, <2>9 DEF IInv
<1> QED
  BY <1>4, <1>5

LEMMA PruneKeeps == ASSUME IInv, NEW b \in Browsers, Prune(b) PROVE IInv'
<1>1. /\ row[b].status = "completed"
      /\ row' = [row EXCEPT ![b] = NoRow] /\ pruned' = pruned \cup {b}
      /\ UNCHANGED <<merchant, worker, link, answered, forgotten, spared, late, handed, faults>>
  BY DEF Prune
<1>2. TypeOK'
  BY <1>1, Blanks DEF IInv, TypeOK, merchant
<1>3. /\ row'[b].status = "absent" /\ row'[b].owner = Nobody
      /\ \A a \in Browsers : a # b => row'[a] = row[a]
  BY <1>1 DEF IInv, TypeOK, NoRow
<1>4. RowsAreSound'
  <2>1. RowIsSound(b)
    BY DEF IInv, RowsAreSound
  <2>2. RowIsSound(b)'
    BY <1>1, <1>3, <2>1 DEF RowIsSound, merchant
  <2>3. \A a \in Browsers : a # b => row'[a] = row[a] /\ (a \in pruned' => a \in pruned)
    BY <1>1, <1>3
  <2> QED
    BY <1>1, <2>2, <2>3, RowsStep DEF IInv, merchant
<1>5. RevokedIsNotHandedBack' /\ DeadLetterHadAllAttempts'
  BY <1>1, <1>3 DEF IInv, RevokedIsNotHandedBack, DeadLetterHadAllAttempts
<1>6. \A a \in Browsers : NoNewName(a)
  BY <1>1 DEF NoNewName, merchant
<1>7. ASSUME NEW z \in Workers PROVE HolderIsInformed(z)'
  <2>1. HolderIsInformed(z) /\ worker'[z] = worker[z]
    BY <1>1, <1>7 DEF IInv
  <2>2. worker[z].pc # "off" => worker[z].browser \in Browsers
    BY <1>7 DEF IInv, MemoryIsSound, TypeOK, WorkerType, Names
  <2> QED
    BY <1>3, <1>7, <2>1, <2>2, HolderStep
<1>8. \A a \in Browsers : row[a].status # "absent" => row'[a].status # "absent" \/ a \in pruned'
  BY <1>1, <1>3
<1> QED
  BY <1>1, <1>2, <1>4, <1>5, <1>6, <1>7, <1>8, KeptStep DEF merchant

LEMMA ConnectKeeps == ASSUME IInv, Connect PROVE IInv'
<1>1. UNCHANGED <<minted, user, customer, row, worker, link, history>>
  BY DEF Connect
<1>2. TypeOK'
  <2>1. connected' \in BOOLEAN
    BY DEF Connect
  <2>2. faults' \in 0 .. MaxFaults
    BY ConstantsAssumption DEF Connect, IInv, TypeOK
  <2> QED
    BY <1>1, <2>1, <2>2 DEF IInv, TypeOK, history
<1>3. RowsAreSound' /\ RevokedIsNotHandedBack' /\ DeadLetterHadAllAttempts'
  BY <1>1 DEF IInv, RowsAreSound, RowIsSound, RevokedIsNotHandedBack, DeadLetterHadAllAttempts,
     history
<1>4. \A a \in Browsers : NoNewName(a)
  BY <1>1 DEF NoNewName
<1>5. \A z \in Workers : HolderIsInformed(z)'
  BY <1>1 DEF IInv, HolderIsInformed, Guardia
<1> QED
  BY <1>1, <1>2, <1>3, <1>4, <1>5, KeptStep DEF history

-----------------------------------------------------------------------------
(* The theorems *)

\* Every step keeps the invariant.
LEMMA NextIInv == ASSUME IInv, Next PROVE IInv'
<1>1. CASE Ordinary
  <2>1. CASE \E b \in Browsers : BecomeDue(b) \/ Expire(b) \/ \E w \in Workers : Drain(w, b)
    BY <2>1, BecomeDueKeeps, ExpireKeeps, DrainKeeps
  <2>2. CASE \E w \in Workers : Progress(w)
    BY <2>2, ReadKeeps, FindShopKeeps, UnlinkKeeps, PointersKeeps, DeleteKeeps, ConcludeKeeps
       DEF Progress
  <2> QED
    BY <1>1, <2>1, <2>2 DEF Ordinary
<1>2. CASE \E b \in Browsers :
             \/ Mint(b) \/ PruneAnonymous(b) \/ RevokeFails(b) \/ Outlive(b) \/ Prune(b)
             \/ PurgeSubject(b) \/ Replay(b)
             \/ \E w \in Workers : Revoke(w, b)
             \/ \E l \in Links : Visit(l, b) \/ Identify(l, b)
  BY <1>2, MintKeeps, PruneAnonymousKeeps, RevokeFailsKeeps, ExpireKeeps, PruneKeeps,
     PurgeSubjectKeeps, ReplayKeeps, RevokeKeeps, VisitKeeps, IdentifyKeeps
<1>3. CASE \E w \in Workers : StepFails(w) \/ Crash(w)
  BY <1>3, StepFailsKeeps, CrashKeeps
<1>4. CASE \E l \in Links :
             Check(l) \/ List(l) \/ Merge(l) \/ Remember(l) \/ LinkFails(l) \/ LinkDies(l)
  BY <1>4, CheckKeeps, ListKeeps, MergeKeeps, RememberKeeps, LinkFailsKeeps, LinkDiesKeeps
<1>5. CASE Connect
  BY <1>5, ConnectKeeps
<1> QED
  BY <1>1, <1>2, <1>3, <1>4, <1>5 DEF Next

\* A step that changes nothing keeps it too.
LEMMA StutterIInv == ASSUME IInv, UNCHANGED vars PROVE IInv'
<1>1. UNCHANGED <<connected, minted, user, customer, row, worker, link, answered, forgotten,
                  spared, late, pruned, handed, faults>>
  BY DEF vars
<1>2. TypeOK' /\ RowsAreSound' /\ RevokedIsNotHandedBack' /\ DeadLetterHadAllAttempts'
  BY <1>1 DEF IInv, TypeOK, RowsAreSound, RowIsSound, RevokedIsNotHandedBack,
     DeadLetterHadAllAttempts
<1>3. \A a \in Browsers : NoNewName(a)
  BY <1>1 DEF NoNewName
<1>4. \A z \in Workers : HolderIsInformed(z)'
  BY <1>1 DEF IInv, HolderIsInformed, Guardia
<1> QED
  BY <1>1, <1>2, <1>3, <1>4, KeptStep

\* The inductive invariant holds in every behaviour: types, the rows of the register,
\* what every invocation and every link knows (processRevocation, concludi).
THEOREM RegisterInvariant == Spec => []IInv
<1>1. Init => IInv
  BY InitIInv
<1>2. IInv /\ [Next]_vars => IInv'
  BY NextIInv, StutterIInv
<1> QED
  BY <1>1, <1>2, PTL DEF Spec

\* A revocation applied to the end leaves no row of the browser, and none comes back;
\* what names it was written during the erasure or later (forgetVisitor).
THEOREM AppliedForgotten == Spec => []AppliedIsForgotten
<1>1. IInv => AppliedIsForgotten
  BY DEF IInv
<1> QED
  BY <1>1, RegisterInvariant, PTL

\* An identifier revoked with ok is not given back to a later visit while the
\* register remembers it, whatever fails (isTrackingIdentityRevoked).
THEOREM RevokedNotHandedBack == Spec => []RevokedIsNotHandedBack
<1>1. IInv => RevokedIsNotHandedBack
  BY DEF IInv
<1> QED
  BY <1>1, RegisterInvariant, PTL

\* A revocation answered with ok is in the register until it was applied or there
\* was nowhere to apply it (revokeTrackingIdentity).
THEOREM AnsweredKept == Spec => []AnsweredIsKept
<1>1. IInv => AnsweredIsKept
  <2> SUFFICES ASSUME IInv, NEW b \in answered
               PROVE  row[b].status # "absent" \/ b \in forgotten \cup spared
    BY DEF AnsweredIsKept
  <2>1. RowIsSound(b)
    BY DEF IInv, TypeOK, RowsAreSound
  <2> QED
    BY <2>1 DEF RowIsSound
<1> QED
  BY <1>1, RegisterInvariant, PTL

\* No revocation is given up before its last attempt (concludi and its WHERE).
THEOREM DeadLettersHadAllAttempts == Spec => []DeadLetterHadAllAttempts
<1>1. IInv => DeadLetterHadAllAttempts
  BY DEF IInv
<1> QED
  BY <1>1, RegisterInvariant, PTL

-----------------------------------------------------------------------------
(* What an attempt costs *)

\* The row of b stays paid for: it has an attempt to spare, or nobody may take it,
\* or it is as it was and whoever was at it still is.
PaidRow(b) ==
  \/ row'[b].attempts < MaxAttempts + faults'
  \/ row'[b].attempts <= MaxAttempts + faults' /\ ~Takeable(b)'
  \/ /\ row'[b] = row[b]
     /\ Attended(b) /\ row[b].status = "processing" => Attended(b)'

LEMMA PaidStep ==
  ASSUME PInv, IInv', faults' \in Nat, faults <= faults', \A b \in Browsers : PaidRow(b)
  PROVE  PInv'
<1>1. ASSUME NEW b \in Browsers
      PROVE  row'[b].attempts <= MaxAttempts + faults' /\ Spare(b)'
  <2>1. /\ PaidRow(b) /\ Spare(b) /\ row[b].attempts <= MaxAttempts + faults
        /\ row[b].attempts \in Nat /\ row'[b].attempts \in Nat /\ faults \in Nat /\ MaxAttempts \in Nat
    BY ConstantsAssumption DEF PInv, AttemptsArePaid, IInv, TypeOK, RowType
  <2>2. CASE row'[b].attempts < MaxAttempts + faults'
    BY <2>1, <2>2 DEF Spare
  <2>3. CASE row'[b].attempts <= MaxAttempts + faults' /\ ~Takeable(b)'
    BY <2>3 DEF Spare
  <2>4. CASE row'[b] = row[b] /\ (Attended(b) /\ row[b].status = "processing" => Attended(b)')
    <3>1. Takeable(b)' => Takeable(b)
      BY <2>4 DEF Takeable
    <3> QED
      BY <2>1, <2>4, <3>1 DEF Spare
  <2> QED
    BY <2>1, <2>2, <2>3, <2>4 DEF PaidRow
<1> QED
  BY <1>1 DEF PInv, AttemptsArePaid

\* The faults are counted, never forgotten.
LEMMA PaidTypes ==
  ASSUME PInv
  PROVE  /\ IInv /\ faults \in Nat /\ MaxAttempts \in Nat \ {0}
         /\ \A b \in Browsers : /\ row[b] \in RowType /\ row[b].attempts \in Nat
                                /\ row[b].attempts <= MaxAttempts + faults /\ Spare(b)
  BY ConstantsAssumption DEF PInv, AttemptsArePaid, IInv, TypeOK, RowType

\* A misfortune pays for whatever does not count an attempt.
LEMMA PaidByMisfortune ==
  ASSUME PInv, IInv', Misfortune, \A b \in Browsers : row'[b].attempts <= row[b].attempts
  PROVE  PInv'
<1>1. faults' = faults + 1
  BY DEF Misfortune
<1>2. ASSUME NEW b \in Browsers PROVE PaidRow(b)
  <2>1. row'[b].attempts \in Nat
    BY DEF IInv, TypeOK, RowType
  <2> QED
    BY <1>1, <2>1, PaidTypes DEF PaidRow
<1> QED
  BY <1>1, <1>2, PaidStep, PaidTypes

\* A step that touches neither the register nor who works it.
LEMMA PaidAside ==
  ASSUME PInv, IInv', faults' \in Nat, faults <= faults', UNCHANGED <<row, worker>>
  PROVE  PInv'
<1>1. ASSUME NEW b \in Browsers PROVE PaidRow(b)
  BY DEF PaidRow, Attended
<1> QED
  BY <1>1, PaidStep

\* An invocation goes on with its row, or leaves one it does not hold.
LEMMA PaidMove ==
  ASSUME PInv, IInv', faults' = faults, row' = row,
         NEW w \in Workers, NEW m, worker' = [worker EXCEPT ![w] = m],
         \/ m.browser = worker[w].browser
         \/ ~Guardia(w)
  PROVE  PInv'
<1>1. ASSUME NEW b \in Browsers PROVE PaidRow(b)
  <2>1. SUFFICES ASSUME Attended(b), row[b].status = "processing" PROVE Attended(b)'
    BY DEF PaidRow
  <2>2. CASE row[b].owner = w
    <3>1. worker[w].browser = b /\ Guardia(w)
      BY <2>1, <2>2 DEF Attended, Guardia
    <3>2. worker'[w] = m
      BY PaidTypes DEF IInv, TypeOK
    <3> QED
      BY <2>1, <2>2, <3>1, <3>2 DEF Attended
  <2>3. CASE row[b].owner # w
    <3>1. worker'[row[b].owner] = worker[row[b].owner]
      BY <2>1, <2>3, PaidTypes DEF IInv, TypeOK, Attended
    <3> QED
      BY <2>1, <3>1 DEF Attended
  <2> QED
    BY <2>2, <2>3
<1> QED
  BY <1>1, PaidStep, PaidTypes

\* A row is claimed by a free slot: its attempt was to spare.
LEMMA PaidClaim ==
  ASSUME PInv, IInv', NEW w \in Workers, NEW b \in Browsers, NEW r \in RowType, NEW m,
         row' = [row EXCEPT ![b] = Taken(r, w)], worker' = [worker EXCEPT ![w] = m],
         worker[w].pc = "off", m.browser = b, faults' = faults,
         r.attempts < MaxAttempts + faults
  PROVE  PInv'
<1>1. /\ row'[b] = Taken(r, w) /\ \A a \in Browsers : a # b => row'[a] = row[a]
      /\ worker'[w] = m /\ \A z \in Workers : z # w => worker'[z] = worker[z]
  BY PaidTypes DEF IInv, TypeOK
<1>2. /\ Taken(r, w).status = "processing" /\ Taken(r, w).owner = w
      /\ Taken(r, w).attempts = r.attempts + 1 /\ Taken(r, w).expired = FALSE
      /\ r.attempts \in Nat
  BY TakenType DEF Taken, RowType
<1>3. worker[w].browser = NoBrowser
  BY PaidTypes DEF IInv, MemoryIsSound
<1>4. ASSUME NEW a \in Browsers PROVE PaidRow(a)
  <2>1. CASE a = b
    <3>1. Attended(b)'
      BY <1>1, <1>2 DEF Attended
    <3>2. ~Takeable(b)'
      BY <1>1, <1>2, <3>1 DEF Takeable
    <3>3. r.attempts + 1 <= MaxAttempts + faults
      BY <1>2, PaidTypes
    <3> QED
      BY <1>1, <1>2, <2>1, <3>2, <3>3 DEF PaidRow
  <2>2. CASE a # b
    <3>1. Attended(a) => row[a].owner # w
      BY <1>3, ConstantsAssumption DEF Attended
    <3>2. Attended(a) => Attended(a)'
      BY <1>1, <2>2, <3>1 DEF Attended
    <3> QED
      BY <1>1, <2>2, <3>2 DEF PaidRow
  <2> QED
    BY <2>1, <2>2
<1> QED
  BY <1>4, PaidStep, PaidTypes

LEMMA RevokePaid ==
  ASSUME PInv, IInv', NEW w \in Workers, NEW b \in Browsers, Revoke(w, b) PROVE PInv'
<1>1. CASE row[b].status = "absent" \/ Claimable(b)
  <2>1. Recorded(b) \in RowType /\ NewRow \in RowType
    BY PaidTypes, RecordedType DEF IInv
  <2>2. Recorded(b).attempts < MaxAttempts + faults
    <3>1. CASE row[b].status = "absent"
      <4>1. Recorded(b).attempts = 0
        BY <3>1 DEF Recorded, NewRow, NoRow
      <4> QED
        BY <4>1, PaidTypes
    <3>2. CASE row[b].status # "absent"
      BY <1>1, <3>2, PaidTypes DEF Recorded, Claimable, Spare, Takeable
    <3> QED
      BY <3>1, <3>2
  <2>3. PICK m : m = [Off EXCEPT !.pc = "read", !.browser = b, !.route = TRUE]
    OBVIOUS
  <2>4. m.browser = b
    BY <2>3 DEF Off
  <2>5. /\ row' = [row EXCEPT ![b] = Taken(Recorded(b), w)] /\ worker' = [worker EXCEPT ![w] = m]
        /\ worker[w].pc = "off" /\ faults' = faults
    BY <1>1, <2>3 DEF Revoke, Update
  <2> QED
    BY <2>1, <2>2, <2>4, <2>5, PaidClaim
<1>2. CASE ~(row[b].status = "absent" \/ Claimable(b))
  BY <1>2, PaidAside, PaidTypes DEF Revoke
<1> QED
  BY <1>1, <1>2

LEMMA DrainPaid ==
  ASSUME PInv, IInv', NEW w \in Workers, NEW b \in Browsers, Drain(w, b) PROVE PInv'
<1>1. PICK m : m = [Off EXCEPT !.pc = "read", !.browser = b]
  OBVIOUS
<1>2. m.browser = b
  BY <1>1 DEF Off
<1>3. /\ row' = [row EXCEPT ![b] = Taken(row[b], w)] /\ worker' = [worker EXCEPT ![w] = m]
      /\ worker[w].pc = "off" /\ faults' = faults
  BY <1>1 DEF Drain, Update
<1>4. row[b] \in RowType /\ row[b].attempts < MaxAttempts + faults
  BY PaidTypes DEF Drain, Claimable, Spare, Takeable
<1> QED
  BY <1>2, <1>3, <1>4, PaidClaim

\* A single row changes, and has an attempt to spare or is closed.
LEMMA PaidRowStep ==
  ASSUME PInv, IInv', NEW b \in Browsers, NEW r, row' = [row EXCEPT ![b] = r],
         worker' = worker, faults' = faults,
         \/ r.attempts < MaxAttempts + faults
         \/ r.attempts <= MaxAttempts + faults /\ r.status \in {"completed", "dead_letter"}
  PROVE  PInv'
<1>1. row'[b] = r /\ \A a \in Browsers : a # b => row'[a] = row[a]
  BY PaidTypes DEF IInv, TypeOK
<1>2. ASSUME NEW a \in Browsers PROVE PaidRow(a)
  <2>1. CASE a = b
    BY <1>1, <2>1 DEF PaidRow, Takeable
  <2>2. CASE a # b
    BY <1>1, <2>2 DEF PaidRow, Attended
  <2> QED
    BY <2>1, <2>2
<1> QED
  BY <1>2, PaidStep, PaidTypes

LEMMA TimePaid ==
  ASSUME PInv, IInv', NEW b \in Browsers, BecomeDue(b) \/ Expire(b) \/ PurgeSubject(b) \/ Prune(b)
  PROVE  PInv'
<1>1. CASE BecomeDue(b)
  <2>1. PICK r : r = [row[b] EXCEPT !.due = TRUE]
    OBVIOUS
  <2>2. r.attempts = row[b].attempts /\ row[b].attempts < MaxAttempts + faults
    BY <1>1, <2>1, PaidTypes DEF BecomeDue, RowType, Spare, Takeable
  <2> QED
    BY <1>1, <2>1, <2>2, PaidRowStep DEF BecomeDue
<1>2. CASE Expire(b)
  <2>1. PICK r : r = [row[b] EXCEPT !.expired = TRUE]
    OBVIOUS
  <2>2. r.attempts = row[b].attempts /\ row[b].attempts < MaxAttempts + faults
    BY <1>2, <2>1, PaidTypes DEF Expire, RowType, Spare, Takeable
  <2> QED
    BY <1>2, <2>1, <2>2, PaidRowStep DEF Expire
<1>3. CASE PurgeSubject(b)
  <2>1. PICK r : r = [row[b] EXCEPT !.subject = FALSE]
    OBVIOUS
  <2>2. r.attempts <= MaxAttempts + faults /\ r.status = "dead_letter"
    BY <1>3, <2>1, PaidTypes DEF PurgeSubject, RowType
  <2> QED
    BY <1>3, <2>1, <2>2, PaidRowStep DEF PurgeSubject
<1>4. CASE Prune(b)
  <2>1. NoRow.attempts < MaxAttempts + faults
    BY PaidTypes DEF NoRow
  <2> QED
    BY <1>4, <2>1, PaidRowStep DEF Prune
<1> QED
  BY <1>1, <1>2, <1>3, <1>4

\* What only a misfortune brings: none of it counts an attempt.
LEMMA MisfortunePaid ==
  ASSUME PInv, IInv', NEW b \in Browsers, Outlive(b) \/ Replay(b) \/ RevokeFails(b)
  PROVE  PInv'
<1>1. row'[b].attempts \in {0, row[b].attempts} /\ \A a \in Browsers : a # b => row'[a] = row[a]
  <2>1. CASE Outlive(b)
    <3>1. PICK r : r = [row[b] EXCEPT !.expired = TRUE]
      OBVIOUS
    <3>2. r.attempts = row[b].attempts
      BY <3>1, PaidTypes DEF RowType
    <3>3. row' = [row EXCEPT ![b] = r]
      BY <2>1, <3>1 DEF Outlive
    <3> QED
      BY <3>2, <3>3, PaidTypes DEF IInv, TypeOK
  <2>2. CASE Replay(b)
    <3>1. PICK r : r = [row[b] EXCEPT !.status = "queued", !.attempts = 0, !.due = TRUE,
                                      !.owner = Nobody, !.expired = FALSE]
      OBVIOUS
    <3>2. r.attempts = 0
      BY <3>1, PaidTypes DEF RowType
    <3>3. row' = [row EXCEPT ![b] = r]
      BY <2>2, <3>1 DEF Replay
    <3> QED
      BY <3>2, <3>3, PaidTypes DEF IInv, TypeOK
  <2>3. CASE RevokeFails(b)
    <3>1. Recorded(b).attempts \in {0, row[b].attempts}
      BY DEF Recorded, NewRow, NoRow
    <3> QED
      BY <2>3, <3>1, PaidTypes DEF RevokeFails, IInv, TypeOK
  <2> QED
    BY <2>1, <2>2, <2>3
<1>2. Misfortune
  BY DEF Outlive, Replay, RevokeFails
<1>3. ASSUME NEW a \in Browsers PROVE row'[a].attempts <= row[a].attempts
  <2>1. row[a].attempts \in Nat /\ (row'[a] = row[a] \/ a = b)
    BY <1>1, PaidTypes
  <2> QED
    BY <1>1, <2>1
<1> QED
  BY <1>2, <1>3, PaidByMisfortune

\* The attempts of the holder are those of the row: what is queued again has some left.
LEMMA ConcludePaid ==
  ASSUME PInv, IInv', NEW w \in Workers, Conclude(w) PROVE PInv'
<1>1. /\ worker[w].pc = "close" /\ worker' = [worker EXCEPT ![w] = Off] /\ faults' = faults
  BY DEF Conclude, Update
<1>2. CASE ~Guardia(w)
  BY <1>1, <1>2, PaidMove DEF Conclude
<1>3. CASE Guardia(w)
  <2> DEFINE b == worker[w].browser
             m == worker[w]
             st == StatusAfterAttempt(m.outcome, m.attempt)
  <2>1. /\ m \in WorkerType /\ b \in Browsers /\ row[b] \in RowType
        /\ row[b].status = "processing" /\ row[b].owner = w
        /\ m.outcome # "dead_letter" /\ m.attempt = row[b].attempts
    BY <1>1, <1>3, AtWork, PaidTypes DEF Guardia, HolderIsInformed
  <2>2. PICK r : r = [row[b] EXCEPT !.status = st, !.due = FALSE, !.expired = FALSE,
                                    !.owner = Nobody,
                                    !.subject = row[b].subject /\ st # "completed"]
    OBVIOUS
  <2>3. r.attempts = row[b].attempts /\ r.status = st
    BY <2>1, <2>2 DEF RowType
  <2>4. row' = [row EXCEPT ![b] = r]
    BY <1>3, <2>2 DEF Conclude, Concluded
  <2>5. \/ st \in {"completed", "dead_letter"}
        \/ st = "queued" /\ m.attempt < MaxAttempts
    <3>1. m.outcome \in {"done", "skip", "retry"} /\ m.attempt \in Nat
      BY <2>1 DEF WorkerType
    <3> QED
      BY <3>1, PaidTypes DEF StatusAfterAttempt, Exhausted
  <2> HIDE DEF st
  <2>6. row'[b] = r /\ \A a \in Browsers : a # b => row'[a] = row[a]
    BY <2>1, <2>4, PaidTypes DEF IInv, TypeOK
  <2>7. \A z \in Workers : z # w => worker'[z] = worker[z]
    BY <1>1, PaidTypes DEF IInv, TypeOK
  <2>8. ASSUME NEW a \in Browsers PROVE PaidRow(a)
    <3>1. CASE a = b
      <4>1. row[b].attempts \in Nat /\ row[b].attempts <= MaxAttempts + faults
        BY <2>1, PaidTypes
      <4>2. CASE st \in {"completed", "dead_letter"}
        BY <1>1, <2>3, <2>6, <3>1, <4>1, <4>2 DEF PaidRow, Takeable
      <4>3. CASE m.attempt < MaxAttempts
        <5>1. row[b].attempts < MaxAttempts + faults
          BY <2>1, <4>1, <4>3, PaidTypes
        <5> QED
          BY <1>1, <2>3, <2>6, <3>1, <5>1 DEF PaidRow
      <4> QED
        BY <2>5, <4>2, <4>3
    <3>2. CASE a # b
      <4>1. Attended(a) => row[a].owner # w
        BY <3>2 DEF Attended
      <4> QED
        BY <2>6, <2>7, <3>2, <4>1 DEF PaidRow, Attended
    <3> QED
      BY <3>1, <3>2
  <2> QED
    BY <1>1, <2>8, PaidStep, PaidTypes
<1> QED
  BY <1>2, <1>3

\* The other steps of an invocation.
LEMMA WorkPaid ==
  ASSUME PInv, IInv', NEW w \in Workers,
         Read(w) \/ FindShop(w) \/ Unlink(w) \/ Pointers(w) \/ Delete(w) \/ StepFails(w)
  PROVE  PInv'
<1>1. row' = row /\ faults' = faults /\ worker[w].pc # "off"
  BY DEF Read, FindShop, Unlink, Pointers, Delete, StepFails, Applying
<1>2. PICK m : /\ worker' = [worker EXCEPT ![w] = m]
               /\ m.browser = worker[w].browser \/ ~Guardia(w)
  <2>0. worker[w] \in WorkerType
    BY PaidTypes DEF IInv, TypeOK
  <2>2. CASE Read(w)
    <3>1. CASE row[worker[w].browser].status = "absent"
      BY <2>2, <3>1 DEF Read, Update, Guardia
    <3>2. CASE row[worker[w].browser].status # "absent"
      <4>1. PICK m : /\ worker' = [worker EXCEPT ![w] = m]
                     /\ m = [worker[w] EXCEPT !.attempt = row[worker[w].browser].attempts,
                               !.pc = IF row[worker[w].browser].subject THEN "shop" ELSE "close",
                               !.outcome = IF row[worker[w].browser].subject THEN "done"
                                           ELSE "dead_letter"]
        BY <2>2, <3>2 DEF Read, Update
      <4>2. m.browser = worker[w].browser
        BY <2>0, <4>1 DEF WorkerType
      <4> QED
        BY <4>1, <4>2
    <3> QED
      BY <3>1, <3>2
  <2>3. CASE FindShop(w)
    <3>1. PICK m : /\ worker' = [worker EXCEPT ![w] = m]
                   /\ m \in {[worker[w] EXCEPT !.pc = "unlink"],
                             [worker[w] EXCEPT !.pc = "close", !.outcome = "skip"]}
      BY <2>3 DEF FindShop, Update
    <3> QED
      BY <2>0, <3>1 DEF WorkerType
  <2>4. CASE Unlink(w) \/ Pointers(w) \/ Delete(w)
    <3>1. PICK pc : Goto(w, pc)
      BY <2>4 DEF Unlink, Pointers, Delete
    <3>2. PICK m : worker' = [worker EXCEPT ![w] = m] /\ m = [worker[w] EXCEPT !.pc = pc]
      BY <3>1 DEF Goto, Update
    <3>3. m.browser = worker[w].browser
      BY <2>0, <3>2 DEF WorkerType
    <3> QED
      BY <3>2, <3>3
  <2>5. CASE StepFails(w)
    <3>1. PICK m : /\ worker' = [worker EXCEPT ![w] = m]
                   /\ m = [worker[w] EXCEPT !.pc = After[worker[w].pc], !.outcome = "retry"]
      BY <2>5 DEF StepFails, Update
    <3>2. m.browser = worker[w].browser
      BY <2>0, <3>1 DEF WorkerType
    <3> QED
      BY <3>1, <3>2
  <2> QED
    BY <2>2, <2>3, <2>4, <2>5
<1> QED
  BY <1>1, <1>2, PaidMove

LEMMA CrashPaid ==
  ASSUME PInv, IInv', NEW w \in Workers, Crash(w) PROVE PInv'
<1>1. Misfortune /\ row' = row
  BY DEF Crash
<1>2. \A b \in Browsers : row'[b].attempts <= row[b].attempts
  BY <1>1, PaidTypes
<1> QED
  BY <1>1, <1>2, PaidByMisfortune

\* What the visitors, the links and the shop do is aside from the register.
LEMMA AsidePaid ==
  ASSUME PInv, IInv',
         \/ \E b \in Browsers : Mint(b) \/ PruneAnonymous(b)
         \/ \E l \in Links : \E b \in Browsers : Visit(l, b) \/ Identify(l, b)
         \/ \E l \in Links :
              Check(l) \/ List(l) \/ Merge(l) \/ Remember(l) \/ LinkFails(l) \/ LinkDies(l)
         \/ Connect
         \/ UNCHANGED vars
  PROVE  PInv'
<1>1. row' = row /\ worker' = worker
  BY DEF Mint, PruneAnonymous, Visit, Identify, Check, List, Merge, Remember, LinkFails,
     LinkDies, Connect, merchant, vars
<1>2. faults' \in {faults, faults + 1}
  BY DEF Mint, PruneAnonymous, Visit, Identify, Check, List, Merge, Remember, LinkFails,
     LinkDies, Connect, Misfortune, vars
<1>3. faults' \in Nat /\ faults <= faults'
  BY <1>2, PaidTypes
<1> QED
  BY <1>1, <1>3, PaidAside

LEMMA NextPInv == ASSUME PInv, [Next]_vars PROVE PInv'
<1>1. IInv'
  BY NextIInv, StutterIInv DEF PInv
<1>2. CASE Ordinary
  BY <1>1, <1>2, TimePaid, DrainPaid, WorkPaid, ConcludePaid DEF Ordinary, Progress
<1>3. CASE \E b \in Browsers :
             \/ Mint(b) \/ PruneAnonymous(b) \/ RevokeFails(b) \/ Outlive(b) \/ Prune(b)
             \/ PurgeSubject(b) \/ Replay(b)
             \/ \E w \in Workers : Revoke(w, b)
             \/ \E l \in Links : Visit(l, b) \/ Identify(l, b)
  BY <1>1, <1>3, AsidePaid, MisfortunePaid, TimePaid, RevokePaid
<1>4. CASE \E w \in Workers : StepFails(w) \/ Crash(w)
  BY <1>1, <1>4, WorkPaid, CrashPaid
<1>5. CASE \E l \in Links :
             Check(l) \/ List(l) \/ Merge(l) \/ Remember(l) \/ LinkFails(l) \/ LinkDies(l)
  BY <1>1, <1>5, AsidePaid
<1>6. CASE Connect \/ UNCHANGED vars
  BY <1>1, <1>6, AsidePaid
<1> QED
  BY <1>2, <1>3, <1>4, <1>5, <1>6 DEF Next

LEMMA InitPInv == Init => PInv
<1> SUFFICES ASSUME Init PROVE PInv
  OBVIOUS
<1>1. IInv
  BY InitIInv
<1>2. faults = 0 /\ \A b \in Browsers : row[b].attempts = 0
  BY DEF Init, NoRow
<1> QED
  BY <1>1, <1>2, ConstantsAssumption DEF PInv, AttemptsArePaid, Spare

\* The inductive invariant, and that every row which may be taken has an attempt to
\* spare (claimRevocation, concludi).
THEOREM RegisterPaysInvariant == Spec => []PInv
<1>1. Init => PInv
  BY InitPInv
<1>2. PInv /\ [Next]_vars => PInv'
  BY NextPInv
<1> QED
  BY <1>1, <1>2, PTL DEF Spec

\* No revocation has more attempts than MaxAttempts but for those that a misfortune
\* paid, though the claim does not look at the count (claimRevocation).
THEOREM AttemptsPaid == Spec => []AttemptsArePaid
<1>1. PInv => AttemptsArePaid
  BY DEF PInv
<1> QED
  BY <1>1, RegisterPaysInvariant, PTL
=============================================================================
