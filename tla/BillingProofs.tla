---------------------------- MODULE BillingProofs ----------------------------
(***************************************************************************)
(* Theorems about Billing, for any subscriptions, invocations and bounds.  *)
(***************************************************************************)
EXTENDS Billing, TLAPS

\* The inductive invariant, by what a step writes.
ShopifyIsSound ==
  /\ sub \in [Subs -> SubStatuses]
  /\ news \subseteq Subs \X {"active", "ended"}
  /\ held \subseteq Subs
  /\ refused \subseteq Subs
  /\ NewsIsSound
  /\ FrozenIsHeld

TablesAreSound ==
  /\ shop \in AnySub
  /\ charge \in [Subs -> ChargeStatuses]
  /\ CancelledWasAnswered
  /\ PlanWasApproved

WorkersAreSound ==
  /\ worker \in [Workers -> WorkerType]
  /\ \A w \in Workers : MemoryIsSound(worker[w])

LEMMA Parts ==
  IInv <=> ShopifyIsSound /\ TablesAreSound /\ WorkersAreSound /\ faults \in 0 .. MaxFaults
  BY DEF IInv, TypeOK, ShopifyIsSound, TablesAreSound, WorkersAreSound

LEMMA PartsNext ==
  ASSUME ShopifyIsSound', TablesAreSound', WorkersAreSound', faults' \in 0 .. MaxFaults
  PROVE  IInv'
  BY DEF IInv, TypeOK, ShopifyIsSound, TablesAreSound, WorkersAreSound

\* What was approved stays so, what has ended has ended, and what was taken for
\* ended is remembered until it ends.
Grown ==
  /\ \A s \in Subs : sub[s] = "ended" => sub'[s] = "ended"
  /\ \A s \in Subs :
       sub[s] \in {"active", "frozen"} => sub'[s] \in {"active", "frozen", "ended"}
  /\ \A s \in Subs : s \in held => s \in held' \/ sub'[s] = "ended"
  /\ \A s \in Subs : s \in refused => s \in refused' \/ sub'[s] = "ended"

LEMMA GrownFacts ==
  ASSUME Grown, NEW s
  PROVE  /\ Approved(s) => Approved(s)'
         /\ Stopped(s) => Stopped(s)'
         /\ Answered(s) => Answered(s)'
         /\ Stopped(s) => Answered(s)
  BY DEF Grown, Approved, Stopped, Answered, TakenForEnded

-----------------------------------------------------------------------------
(* The memories *)

LEMMA OffIsMemory == Off \in WorkerType /\ Off.pc = "off"
  BY DEF Off, WorkerType, PCs, AnySub

\* Every field of a memory takes the values of its type.
LEMMA MemoryFields ==
  ASSUME NEW m \in WorkerType
  PROVE  /\ \A v \in PCs : [m EXCEPT !.pc = v] \in WorkerType
         /\ \A v \in AnySub : [m EXCEPT !.sub = v] \in WorkerType
         /\ \A v \in SUBSET Subs : [m EXCEPT !.todo = v] \in WorkerType
<1>1. \A v \in PCs : [m EXCEPT !.pc = v] \in WorkerType
  BY Zenon DEF WorkerType
<1>2. \A v \in AnySub : [m EXCEPT !.sub = v] \in WorkerType
  BY Zenon DEF WorkerType
<1>3. \A v \in SUBSET Subs : [m EXCEPT !.todo = v] \in WorkerType
  BY Zenon DEF WorkerType
<1> QED
  BY <1>1, <1>2, <1>3

LEMMA MemoryStaysSound ==
  ASSUME Grown, NEW m, MemoryIsSound(m)
  PROVE  MemoryIsSound(m)'
  BY GrownFacts DEF MemoryIsSound

LEMMA WorkersStaySound ==
  ASSUME WorkersAreSound, Grown, UNCHANGED worker
  PROVE  WorkersAreSound'
<1>1. ASSUME NEW w \in Workers PROVE MemoryIsSound(worker[w])'
  <2> PICK m : m = worker[w]
    OBVIOUS
  <2>1. MemoryIsSound(m)'
    BY MemoryStaysSound DEF WorkersAreSound
  <2> QED
    BY <2>1
<1> QED
  BY <1>1 DEF WorkersAreSound

LEMMA UpdateIsSound ==
  ASSUME WorkersAreSound, Grown,
         NEW w \in Workers, NEW m \in WorkerType, Update(w, m), MemoryIsSound(m)'
  PROVE  WorkersAreSound'
<1>1. ASSUME NEW v \in Workers PROVE MemoryIsSound(worker[v])'
  <2> PICK n : n = worker'[v]
    OBVIOUS
  <2>1. n = m \/ n = worker[v]
    BY DEF Update, WorkersAreSound
  <2>2. n = worker[v] => MemoryIsSound(n)'
    BY MemoryStaysSound DEF WorkersAreSound
  <2> QED
    BY <2>1, <2>2
<1>2. worker' \in [Workers -> WorkerType]
  BY DEF Update, WorkersAreSound
<1> QED
  BY <1>1, <1>2 DEF WorkersAreSound

\* An invocation that goes to rest knows nothing.
LEMMA RestIsSound ==
  ASSUME WorkersAreSound, Grown, NEW w \in Workers, Update(w, Off)
  PROVE  WorkersAreSound'
<1>1. MemoryIsSound(Off)'
  BY OffIsMemory DEF MemoryIsSound
<1> QED
  BY <1>1, OffIsMemory, UpdateIsSound

-----------------------------------------------------------------------------
(* Shopify and the tables *)

LEMMA ShopifyUntouched ==
  ASSUME ShopifyIsSound, UNCHANGED shopify
  PROVE  ShopifyIsSound' /\ Grown
  BY DEF ShopifyIsSound, NewsIsSound, FrozenIsHeld, Approved, Stopped, shopify, Grown

LEMMA EndIsSound ==
  ASSUME ShopifyIsSound, NEW s, End(s)
  PROVE  ShopifyIsSound' /\ Grown /\ (s \in Subs => Stopped(s)')
<1>1. CASE s \in Subs /\ sub[s] # "ended"
  <2>1. /\ sub' = [sub EXCEPT ![s] = "ended"] /\ news' = news \cup {<<s, "ended">>}
        /\ held' = held \ {s} /\ refused' = refused \ {s}
    BY <1>1 DEF End
  <2>2. Grown /\ Stopped(s)' /\ sub' \in [Subs -> SubStatuses]
    BY <1>1, <2>1 DEF Grown, Stopped, ShopifyIsSound, SubStatuses
  <2>3. /\ news' \subseteq Subs \X {"active", "ended"}
        /\ held' \subseteq Subs /\ refused' \subseteq Subs
    BY <1>1, <2>1 DEF ShopifyIsSound
  <2>4. NewsIsSound'
    BY <2>1, <2>2, GrownFacts DEF ShopifyIsSound, NewsIsSound
  <2>5. FrozenIsHeld'
    BY <1>1, <2>1 DEF ShopifyIsSound, FrozenIsHeld
  <2> QED
    BY <2>2, <2>3, <2>4, <2>5 DEF ShopifyIsSound
<1>2. CASE ~(s \in Subs /\ sub[s] # "ended")
  <2>1. UNCHANGED shopify
    BY <1>2 DEF End
  <2>2. s \in Subs => Stopped(s)'
    BY <1>2, <2>1 DEF Stopped, shopify
  <2> QED
    BY <2>1, <2>2, ShopifyUntouched
<1> QED
  BY <1>1, <1>2

\* A cancellation leaves the subscription ended, or taken for ended.
LEMMA CancelIsSound ==
  ASSUME IInv, NEW s \in Subs, CancelOnShopify(s)
  PROVE  ShopifyIsSound' /\ Grown /\ Answered(s)' /\ faults' \in 0 .. MaxFaults
<1>1. CASE End(s) /\ UNCHANGED faults
  <2>1. ShopifyIsSound' /\ Grown /\ Stopped(s)'
    BY <1>1, Parts, EndIsSound
  <2>2. Answered(s)'
    BY <2>1 DEF Stopped, Answered, TakenForEnded
  <2> QED
    BY <1>1, <2>1, <2>2, Parts
<1>2. CASE RefuseAsGone(s)
  <2>1. Grown /\ Answered(s)'
    BY <1>2 DEF RefuseAsGone, Grown, Answered, TakenForEnded
  <2>2. ShopifyIsSound'
    BY <1>2, Parts
    DEF RefuseAsGone, ShopifyIsSound, NewsIsSound, FrozenIsHeld, Approved, Stopped
  <2>3. faults' \in 0 .. MaxFaults
    BY <1>2, ConstantsAssumption DEF RefuseAsGone, Misfortune, IInv, TypeOK
  <2> QED
    BY <2>1, <2>2, <2>3
<1> QED
  BY <1>1, <1>2 DEF CancelOnShopify

LEMMA TablesUntouched ==
  ASSUME TablesAreSound, Grown, UNCHANGED tables
  PROVE  TablesAreSound'
  BY GrownFacts DEF TablesAreSound, CancelledWasAnswered, PlanWasApproved, tables

LEMMA ShopUntouched ==
  ASSUME TablesAreSound, Grown, UNCHANGED shop,
         charge' \in [Subs -> ChargeStatuses], CancelledWasAnswered'
  PROVE  TablesAreSound'
  BY GrownFacts DEF TablesAreSound, PlanWasApproved

\* A row is marked cancelled only for what has ended, or was taken for ended.
LEMMA MarkedIsSound ==
  ASSUME TablesAreSound, Grown, NEW s, NEW status \in ChargeStatuses,
         charge' = Marked(s, status), status = "cancelled" => Answered(s)'
  PROVE  charge' \in [Subs -> ChargeStatuses] /\ CancelledWasAnswered'
<1>1. charge' \in [Subs -> ChargeStatuses]
  BY DEF Marked, TablesAreSound
<1>2. ASSUME NEW t \in Subs, charge'[t] = "cancelled" PROVE Answered(t)'
  <2>1. charge[t] = "cancelled" \/ (t = s /\ status = "cancelled")
    BY <1>2 DEF Marked, TablesAreSound
  <2> QED
    BY <2>1, GrownFacts DEF TablesAreSound, CancelledWasAnswered
<1> QED
  BY <1>1, <1>2 DEF CancelledWasAnswered

LEMMA NewsWorked ==
  ASSUME ShopifyIsSound, UNCHANGED <<sub, held, refused>>, news' \subseteq news
  PROVE  ShopifyIsSound' /\ Grown
  BY DEF ShopifyIsSound, NewsIsSound, FrozenIsHeld, Approved, Stopped, Grown

\* A step that writes only the memory of w.
LEMMA MemoryStep ==
  ASSUME IInv, UNCHANGED <<shopify, tables>>, faults' \in 0 .. MaxFaults,
         NEW w \in Workers, NEW m \in WorkerType, Update(w, m), MemoryIsSound(m)
  PROVE  IInv'
<1>1. ShopifyIsSound' /\ Grown
  BY Parts, ShopifyUntouched
<1>2. TablesAreSound'
  BY <1>1, Parts, TablesUntouched
<1>3. MemoryIsSound(m)'
  BY <1>1, MemoryStaysSound
<1>4. WorkersAreSound'
  BY <1>1, <1>3, Parts, UpdateIsSound
<1> QED
  BY <1>1, <1>2, <1>4, PartsNext

\* A step that writes only the memory of w, who has done.
LEMMA RestStep ==
  ASSUME IInv, UNCHANGED <<shopify, tables>>, faults' \in 0 .. MaxFaults,
         NEW w \in Workers, Update(w, Off)
  PROVE  IInv'
<1>1. MemoryIsSound(Off)
  BY OffIsMemory DEF MemoryIsSound
<1> QED
  BY <1>1, OffIsMemory, MemoryStep

\* A misfortune stays within its bound.
LEMMA MisfortuneType == ASSUME IInv, Misfortune PROVE faults' \in 0 .. MaxFaults
  BY ConstantsAssumption DEF IInv, TypeOK, Misfortune

-----------------------------------------------------------------------------
(* Shopify and the merchant *)

LEMMA ApproveStep ==
  ASSUME IInv, NEW s \in Subs, Approve(s)
  PROVE  IInv'
<1>1. Grown
  BY Parts DEF Approve, Grown, ShopifyIsSound, SubStatuses
<1>2. ShopifyIsSound'
  <2>1. /\ sub' \in [Subs -> SubStatuses] /\ news' \subseteq Subs \X {"active", "ended"}
        /\ held' \subseteq Subs /\ refused' \subseteq Subs
    BY Parts DEF Approve, ShopifyIsSound, SubStatuses
  <2>2. Approved(s)'
    BY Parts DEF Approve, ShopifyIsSound, Approved
  <2>3. NewsIsSound'
    BY <1>1, <2>2, Parts, GrownFacts DEF Approve, ShopifyIsSound, NewsIsSound
  <2>4. FrozenIsHeld'
    BY Parts DEF Approve, ShopifyIsSound, FrozenIsHeld
  <2> QED
    BY <2>1, <2>3, <2>4 DEF ShopifyIsSound
<1>3. TablesAreSound' /\ WorkersAreSound' /\ faults' \in 0 .. MaxFaults
  BY <1>1, Parts, TablesUntouched, WorkersStaySound DEF Approve
<1> QED
  BY <1>2, <1>3, PartsNext

LEMMA ThawStep ==
  ASSUME IInv, NEW s \in Subs, Thaw(s)
  PROVE  IInv'
<1>1. Grown
  BY Parts DEF Thaw, Grown, ShopifyIsSound, SubStatuses
<1>2. ShopifyIsSound'
  <2>1. /\ sub' \in [Subs -> SubStatuses] /\ news' \subseteq Subs \X {"active", "ended"}
        /\ held' \subseteq Subs /\ refused' \subseteq Subs
    BY Parts DEF Thaw, ShopifyIsSound, SubStatuses
  <2>2. Approved(s)'
    BY Parts DEF Thaw, ShopifyIsSound, Approved
  <2>3. NewsIsSound'
    BY <1>1, <2>2, Parts, GrownFacts DEF Thaw, ShopifyIsSound, NewsIsSound
  <2>4. FrozenIsHeld'
    BY Parts DEF Thaw, ShopifyIsSound, FrozenIsHeld
  <2> QED
    BY <2>1, <2>3, <2>4 DEF ShopifyIsSound
<1>3. TablesAreSound' /\ WorkersAreSound' /\ faults' \in 0 .. MaxFaults
  BY <1>1, Parts, TablesUntouched, WorkersStaySound DEF Thaw
<1> QED
  BY <1>2, <1>3, PartsNext

LEMMA FreezeStep ==
  ASSUME IInv, NEW s \in Subs, Freeze(s)
  PROVE  IInv'
<1>1. Grown
  BY Parts DEF Freeze, Grown, ShopifyIsSound, SubStatuses
<1>2. ShopifyIsSound'
  <2>1. /\ sub' \in [Subs -> SubStatuses] /\ news' \subseteq Subs \X {"active", "ended"}
        /\ held' \subseteq Subs /\ refused' \subseteq Subs
    BY Parts DEF Freeze, ShopifyIsSound, SubStatuses
  <2>2. Stopped(s)'
    BY Parts DEF Freeze, ShopifyIsSound, Stopped
  <2>3. NewsIsSound'
    BY <1>1, <2>2, Parts, GrownFacts DEF Freeze, ShopifyIsSound, NewsIsSound
  <2>4. FrozenIsHeld'
    BY Parts DEF Freeze, ShopifyIsSound, FrozenIsHeld
  <2> QED
    BY <2>1, <2>3, <2>4 DEF ShopifyIsSound
<1>3. TablesAreSound' /\ WorkersAreSound'
  BY <1>1, Parts, TablesUntouched, WorkersStaySound DEF Freeze
<1> QED
  BY <1>2, <1>3, PartsNext, MisfortuneType DEF Freeze

LEMMA LapseStep ==
  ASSUME IInv, NEW s \in Subs, Lapse(s)
  PROVE  IInv'
<1>1. ShopifyIsSound' /\ Grown
  BY Parts, EndIsSound DEF Lapse
<1>2. TablesAreSound' /\ WorkersAreSound' /\ faults' \in 0 .. MaxFaults
  BY <1>1, Parts, TablesUntouched, WorkersStaySound DEF Lapse
<1> QED
  BY <1>1, <1>2, PartsNext

LEMMA LoseStep ==
  ASSUME IInv, NEW n \in news, Lose(n)
  PROVE  IInv'
<1>1. ShopifyIsSound' /\ Grown
  <2>1. UNCHANGED <<sub, held, refused>> /\ news' \subseteq news
    BY DEF Lose
  <2> QED
    BY <2>1, Parts, NewsWorked
<1>2. TablesAreSound' /\ WorkersAreSound'
  BY <1>1, Parts, TablesUntouched, WorkersStaySound DEF Lose
<1> QED
  BY <1>1, <1>2, PartsNext, MisfortuneType DEF Lose

-----------------------------------------------------------------------------
(* billing.subscribe and billing.callback *)

LEMMA SubscribeStep ==
  ASSUME IInv, NEW w \in Workers, NEW s \in Subs, Subscribe(w, s)
  PROVE  IInv'
<1> PICK m : m = [Off EXCEPT !.pc = "row", !.sub = s]
  OBVIOUS
<1>1. Grown /\ ShopifyIsSound'
  <2>1. Grown /\ sub' \in [Subs -> SubStatuses] /\ UNCHANGED <<news, held, refused>>
    BY Parts DEF Subscribe, Grown, ShopifyIsSound, SubStatuses
  <2>2. NewsIsSound'
    BY <2>1, Parts, GrownFacts DEF ShopifyIsSound, NewsIsSound
  <2>3. FrozenIsHeld'
    BY Parts DEF Subscribe, ShopifyIsSound, FrozenIsHeld
  <2> QED
    BY <2>1, <2>2, <2>3, Parts DEF ShopifyIsSound
<1>2. m \in WorkerType /\ m.pc = "row" /\ m.sub = s
  BY OffIsMemory, MemoryFields DEF Off, PCs, AnySub
<1>3. MemoryIsSound(m)'
  BY <1>2 DEF MemoryIsSound
<1>4. WorkersAreSound'
  BY <1>1, <1>2, <1>3, Parts, UpdateIsSound DEF Subscribe
<1>5. TablesAreSound' /\ faults' \in 0 .. MaxFaults
  BY <1>1, Parts, TablesUntouched DEF Subscribe
<1> QED
  BY <1>1, <1>4, <1>5, PartsNext

LEMMA WriteRowStep ==
  ASSUME IInv, NEW w \in Workers, WriteRow(w)
  PROVE  IInv'
<1>1. ShopifyIsSound' /\ Grown
  BY Parts, ShopifyUntouched DEF WriteRow
<1>2. charge' \in [Subs -> ChargeStatuses] /\ CancelledWasAnswered'
  BY <1>1, Parts, GrownFacts DEF WriteRow, TablesAreSound, ChargeStatuses, CancelledWasAnswered
<1>3. TablesAreSound'
  BY <1>1, <1>2, Parts, ShopUntouched DEF WriteRow
<1>4. WorkersAreSound' /\ faults' \in 0 .. MaxFaults
  BY <1>1, Parts, RestIsSound DEF WriteRow
<1> QED
  BY <1>1, <1>3, <1>4, PartsNext

LEMMA ChooseFreeStep ==
  ASSUME IInv, NEW w \in Workers, ChooseFree(w)
  PROVE  IInv'
<1> PICK m : m = [Off EXCEPT !.pc = "freeCancel", !.sub = shop]
  OBVIOUS
<1>1. m \in WorkerType /\ m.pc = "freeCancel" /\ m.sub = shop
  BY OffIsMemory, MemoryFields, Parts DEF Off, PCs, TablesAreSound
<1>2. MemoryIsSound(m)
  BY <1>1, Parts DEF MemoryIsSound, TablesAreSound, PlanWasApproved, ChooseFree
<1>3. UNCHANGED <<shopify, tables>> /\ faults' \in 0 .. MaxFaults
  BY Parts DEF ChooseFree
<1> QED
  BY <1>1, <1>2, <1>3, MemoryStep DEF ChooseFree

\* What the invocation w remembers is of its type, and sound.
LEMMA Remembered ==
  ASSUME IInv, NEW w \in Workers
  PROVE  worker[w] \in WorkerType /\ MemoryIsSound(worker[w])
  BY DEF IInv, TypeOK

\* The fields of a memory that only goes elsewhere.
LEMMA ElsewhereFields ==
  ASSUME NEW m \in WorkerType, NEW pc \in PCs
  PROVE  LET n == [m EXCEPT !.pc = pc]
         IN  n \in WorkerType /\ n.pc = pc /\ n.sub = m.sub
  BY MemoryFields DEF WorkerType

LEMMA CancelCurrentStep ==
  ASSUME IInv, NEW w \in Workers, CancelCurrent(w)
  PROVE  IInv'
<1> PICK s : s = worker[w].sub
  OBVIOUS
<1> PICK m : m = [worker[w] EXCEPT !.pc = "freeWrite"]
  OBVIOUS
<1>0. s \in Subs
  BY Remembered DEF CancelCurrent, MemoryIsSound, Approved
<1>1. ShopifyIsSound' /\ Grown /\ Answered(s)' /\ faults' \in 0 .. MaxFaults
  BY <1>0, CancelIsSound DEF CancelCurrent
<1>2. m \in WorkerType /\ m.pc = "freeWrite" /\ m.sub = s
  BY Remembered, ElsewhereFields DEF PCs
<1>3. MemoryIsSound(m)'
  BY <1>1, <1>2 DEF MemoryIsSound
<1>4. WorkersAreSound'
  BY <1>1, <1>2, <1>3, Parts, UpdateIsSound DEF CancelCurrent, Goto
<1>5. TablesAreSound'
  BY <1>1, Parts, TablesUntouched DEF CancelCurrent
<1> QED
  BY <1>1, <1>4, <1>5, PartsNext

LEMMA WriteFreeStep ==
  ASSUME IInv, NEW w \in Workers, WriteFree(w)
  PROVE  IInv'
<1> PICK s : s = worker[w].sub
  OBVIOUS
<1>1. ShopifyIsSound' /\ Grown
  BY Parts, ShopifyUntouched DEF WriteFree
<1>2. Answered(s)'
  BY <1>1, Remembered, GrownFacts DEF WriteFree, MemoryIsSound
<1>3. charge' \in [Subs -> ChargeStatuses] /\ CancelledWasAnswered'
  BY <1>1, <1>2, Parts, MarkedIsSound DEF WriteFree, ChargeStatuses
<1>4. TablesAreSound'
  BY <1>3 DEF WriteFree, TablesAreSound, PlanWasApproved, AnySub
<1>5. WorkersAreSound' /\ faults' \in 0 .. MaxFaults
  BY <1>1, Parts, RestIsSound DEF WriteFree
<1> QED
  BY <1>1, <1>4, <1>5, PartsNext

LEMMA ReturnStep ==
  ASSUME IInv, NEW w \in Workers, NEW s \in Subs, Return(w, s)
  PROVE  IInv'
<1>1. UNCHANGED <<shopify, tables>> /\ faults' \in 0 .. MaxFaults
  BY Parts DEF Return
<1>2. ASSUME NEW pc \in {"spend", "archive"},
             pc = "spend" => Approved(s), pc = "archive" => Stopped(s),
             Update(w, [Off EXCEPT !.pc = pc, !.sub = s])
      PROVE  IInv'
  <2> PICK m : m = [Off EXCEPT !.pc = pc, !.sub = s]
    OBVIOUS
  <2>1. m \in WorkerType /\ m.pc = pc /\ m.sub = s
    BY OffIsMemory, MemoryFields DEF Off, PCs, AnySub
  <2>2. MemoryIsSound(m)
    BY <1>2, <2>1 DEF MemoryIsSound
  <2> QED
    BY <1>1, <1>2, <2>1, <2>2, MemoryStep
<1>3. CASE sub[s] = "active" /\ Update(w, [Off EXCEPT !.pc = "spend", !.sub = s])
  BY <1>2, <1>3 DEF Approved
<1>4. CASE /\ sub[s] \in {"frozen", "ended"}
           /\ Update(w, [Off EXCEPT !.pc = "archive", !.sub = s])
  BY <1>2, <1>4, Parts DEF Stopped, ShopifyIsSound, FrozenIsHeld
<1> QED
  BY <1>3, <1>4 DEF Return

LEMMA ArchiveStep ==
  ASSUME IInv, NEW w \in Workers, Archive(w)
  PROVE  IInv'
<1> PICK s : s = worker[w].sub
  OBVIOUS
<1>1. ShopifyIsSound' /\ Grown
  BY Parts, ShopifyUntouched DEF Archive
<1>2. Answered(s)'
  BY <1>1, Remembered, GrownFacts DEF Archive, MemoryIsSound
<1>3. charge' \in [Subs -> ChargeStatuses] /\ CancelledWasAnswered'
  BY <1>1, <1>2, Parts, MarkedIsSound DEF Archive, ChargeStatuses
<1>4. TablesAreSound'
  BY <1>1, <1>3, Parts, ShopUntouched DEF Archive
<1>5. WorkersAreSound' /\ faults' \in 0 .. MaxFaults
  BY <1>1, Parts, RestIsSound DEF Archive
<1> QED
  BY <1>1, <1>4, <1>5, PartsNext

LEMMA SpendStep ==
  ASSUME IInv, NEW w \in Workers, Spend(w)
  PROVE  IInv'
<1> PICK s : s = worker[w].sub
  OBVIOUS
<1> PICK m : m = [worker[w] EXCEPT !.pc = "actives"]
  OBVIOUS
<1>1. ShopifyIsSound' /\ Grown
  BY Parts, ShopifyUntouched DEF Spend
<1>2. m \in WorkerType /\ m.pc = "actives" /\ m.sub = s
  BY Remembered, ElsewhereFields DEF PCs
<1>3. Approved(s) /\ Approved(s)'
  BY <1>1, Remembered, GrownFacts DEF Spend, MemoryIsSound
<1>4. MemoryIsSound(m)'
  BY <1>2, <1>3 DEF MemoryIsSound
<1>5. WorkersAreSound' /\ faults' \in 0 .. MaxFaults
  BY <1>1, <1>2, <1>4, Parts, UpdateIsSound DEF Spend, Goto
<1>6. charge' \in [Subs -> ChargeStatuses]
  BY Parts DEF Spend, Replaced, TablesAreSound, ChargeStatuses
<1>7. CancelledWasAnswered'
  BY <1>1, Parts, GrownFacts DEF Spend, Replaced, TablesAreSound, CancelledWasAnswered
<1>8. PlanWasApproved' /\ shop' \in AnySub
  BY <1>3 DEF Spend, PlanWasApproved, Approved, AnySub
<1> QED
  BY <1>1, <1>5, <1>6, <1>7, <1>8, PartsNext DEF TablesAreSound

LEMMA RefuseStep ==
  ASSUME IInv, NEW w \in Workers, Refuse(w)
  PROVE  IInv'
  BY Parts, RestStep DEF Refuse

LEMMA AskActivesStep ==
  ASSUME IInv, NEW w \in Workers, AskActives(w)
  PROVE  IInv'
<1> PICK m : m = [worker[w] EXCEPT !.pc = "enqueue", !.todo = Active \ {worker[w].sub}]
  OBVIOUS
<1>1. m \in WorkerType /\ m.pc = "enqueue"
  <2>1. [worker[w] EXCEPT !.pc = "enqueue"] \in WorkerType
    BY Remembered, MemoryFields DEF PCs
  <2>2. Active \ {worker[w].sub} \in SUBSET Subs
    BY DEF Active
  <2>3. m = [[worker[w] EXCEPT !.pc = "enqueue"] EXCEPT !.todo = Active \ {worker[w].sub}]
    OBVIOUS
  <2>4. m \in WorkerType
    BY <2>1, <2>2, <2>3, MemoryFields
  <2> QED
    BY <2>4, Remembered DEF WorkerType
<1>2. MemoryIsSound(m)
  BY <1>1 DEF MemoryIsSound
<1> QED
  BY <1>1, <1>2, Parts, MemoryStep DEF AskActives

LEMMA EnqueueStep ==
  ASSUME IInv, NEW w \in Workers, Enqueue(w)
  PROVE  IInv'
<1>1. ShopifyIsSound' /\ Grown /\ faults' \in 0 .. MaxFaults
  BY Parts, ShopifyUntouched DEF Enqueue
<1>2. WorkersAreSound'
  <2>1. CASE Update(w, [Off EXCEPT !.pc = "list"])
    <3> PICK m : m = [Off EXCEPT !.pc = "list"]
      OBVIOUS
    <3>1. m \in WorkerType /\ m.pc = "list"
      BY OffIsMemory, ElsewhereFields DEF PCs
    <3>2. MemoryIsSound(m)'
      BY <3>1 DEF MemoryIsSound
    <3> QED
      BY <1>1, <2>1, <3>1, <3>2, Parts, UpdateIsSound
  <2>2. ASSUME NEW t \in worker[w].todo, Update(w, [worker[w] EXCEPT !.todo = @ \ {t}])
        PROVE  WorkersAreSound'
    <3> PICK m : m = [worker[w] EXCEPT !.todo = @ \ {t}]
      OBVIOUS
    <3>1. worker[w].todo \ {t} \in SUBSET Subs
      BY Remembered DEF WorkerType
    <3>2. m \in WorkerType
      BY <3>1, Remembered, MemoryFields
    <3>3. m.pc = "enqueue"
      BY Remembered DEF WorkerType, Enqueue
    <3>4. MemoryIsSound(m)'
      BY <3>3 DEF MemoryIsSound
    <3> QED
      BY <1>1, <2>2, <3>2, <3>4, Parts, UpdateIsSound
  <2> QED
    BY <2>1, <2>2 DEF Enqueue
<1>3. charge' \in [Subs -> ChargeStatuses] /\ CancelledWasAnswered'
  <2>1. CASE UNCHANGED charge
    BY <1>1, <2>1, Parts, GrownFacts DEF TablesAreSound, CancelledWasAnswered
  <2>2. ASSUME NEW t, charge' = [charge EXCEPT ![t] = "superseded"]
        PROVE  charge' \in [Subs -> ChargeStatuses] /\ CancelledWasAnswered'
    BY <1>1, <2>2, Parts, GrownFacts DEF TablesAreSound, CancelledWasAnswered, ChargeStatuses
  <2> QED
    BY <2>1, <2>2 DEF Enqueue
<1>4. TablesAreSound'
  BY <1>1, <1>3, Parts, ShopUntouched DEF Enqueue
<1> QED
  BY <1>1, <1>2, <1>4, PartsNext

-----------------------------------------------------------------------------
(* drainSupersededCharges *)

\* The memory of a drain is about what it has still to cancel.
LEMMA DrainMemory ==
  ASSUME NEW todo \in SUBSET Subs, NEW t \in AnySub, NEW pc \in {"drain", "record"}
  PROVE  LET m == [pc |-> pc, sub |-> t, todo |-> todo]
         IN  m \in WorkerType /\ m.pc = pc /\ m.sub = t
  BY DEF WorkerType, PCs

LEMMA ListStep ==
  ASSUME IInv, NEW w \in Workers, List(w)
  PROVE  IInv'
<1> PICK m : m = [pc |-> "drain", sub |-> NoSub, todo |-> Superseded]
  OBVIOUS
<1>1. m \in WorkerType /\ m.pc = "drain"
  BY DrainMemory DEF Superseded, AnySub
<1>2. MemoryIsSound(m)
  BY <1>1 DEF MemoryIsSound
<1> QED
  BY <1>1, <1>2, Parts, MemoryStep DEF List

LEMMA CancelStep ==
  ASSUME IInv, NEW w \in Workers, Cancel(w)
  PROVE  IInv'
<1> PICK t \in worker[w].todo :
      /\ CancelOnShopify(t)
      /\ Update(w, [pc |-> "record", sub |-> t, todo |-> worker[w].todo \ {t}])
  BY DEF Cancel
<1>1. t \in Subs /\ worker[w].todo \in SUBSET Subs
  BY Remembered DEF WorkerType
<1>2. ShopifyIsSound' /\ Grown /\ Answered(t)' /\ faults' \in 0 .. MaxFaults
  BY <1>1, CancelIsSound
<1>3. WorkersAreSound'
  <2> PICK m : m = [pc |-> "record", sub |-> t, todo |-> worker[w].todo \ {t}]
    OBVIOUS
  <2>1. m \in WorkerType /\ m.pc = "record" /\ m.sub = t
    BY <1>1 DEF WorkerType, PCs, AnySub
  <2>2. MemoryIsSound(m)'
    BY <1>2, <2>1 DEF MemoryIsSound
  <2> QED
    BY <1>2, <2>1, <2>2, Parts, UpdateIsSound
<1>4. TablesAreSound'
  BY <1>2, Parts, TablesUntouched DEF Cancel
<1> QED
  BY <1>2, <1>3, <1>4, PartsNext

\* A drain that goes on to the next subscription.
LEMMA DrainGoesOn ==
  ASSUME NEW m \in WorkerType
  PROVE  LET n == [m EXCEPT !.pc = "drain", !.sub = NoSub]
         IN  n \in WorkerType /\ n.pc = "drain"
  BY DEF WorkerType, PCs, AnySub

LEMMA RecordStep ==
  ASSUME IInv, NEW w \in Workers, Record(w)
  PROVE  IInv'
<1> PICK s : s = worker[w].sub
  OBVIOUS
<1> PICK m : m = [worker[w] EXCEPT !.pc = "drain", !.sub = NoSub]
  OBVIOUS
<1>1. ShopifyIsSound' /\ Grown
  BY Parts, ShopifyUntouched DEF Record
<1>2. Answered(s)'
  BY <1>1, Remembered, GrownFacts DEF Record, MemoryIsSound
<1>3. charge' \in [Subs -> ChargeStatuses] /\ CancelledWasAnswered'
  BY <1>1, <1>2, Parts, MarkedIsSound DEF Record, ChargeStatuses
<1>4. TablesAreSound'
  BY <1>1, <1>3, Parts, ShopUntouched DEF Record
<1>5. m \in WorkerType /\ m.pc = "drain"
  BY Remembered, DrainGoesOn
<1>6. MemoryIsSound(m)'
  BY <1>5 DEF MemoryIsSound
<1>7. WorkersAreSound' /\ faults' \in 0 .. MaxFaults
  BY <1>1, <1>5, <1>6, Parts, UpdateIsSound DEF Record
<1> QED
  BY <1>1, <1>4, <1>7, PartsNext

\* Whoever has drained is at rest, or goes on with the round.
LEMMA DrainedIsSound ==
  ASSUME NEW w \in Workers
  PROVE  Drained(w) \in WorkerType /\ MemoryIsSound(Drained(w))
<1>1. Off \in WorkerType /\ MemoryIsSound(Off)
  BY OffIsMemory DEF MemoryIsSound
<1>2. LET n == [Off EXCEPT !.pc = "shop"] IN n \in WorkerType /\ MemoryIsSound(n)
  <2> PICK n : n = [Off EXCEPT !.pc = "shop"]
    OBVIOUS
  <2>1. n \in WorkerType /\ n.pc = "shop"
    BY OffIsMemory, ElsewhereFields DEF PCs
  <2>2. MemoryIsSound(n)
    BY <2>1 DEF MemoryIsSound
  <2> QED
    BY <2>1, <2>2
<1> QED
  BY <1>1, <1>2 DEF Drained

LEMMA EndDrainStep ==
  ASSUME IInv, NEW w \in Workers, EndDrain(w)
  PROVE  IInv'
<1> PICK m : m = Drained(w)
  OBVIOUS
<1>1. m \in WorkerType /\ MemoryIsSound(m)
  BY DrainedIsSound
<1> QED
  BY <1>1, Parts, MemoryStep DEF EndDrain

-----------------------------------------------------------------------------
(* The cron and the deliveries *)

LEMMA StartRoundStep ==
  ASSUME IInv, NEW w \in Workers, StartRound(w)
  PROVE  IInv'
<1> PICK m : m = [Off EXCEPT !.pc = "list"]
  OBVIOUS
<1>1. m \in WorkerType /\ m.pc = "list"
  BY OffIsMemory, ElsewhereFields DEF PCs
<1>2. MemoryIsSound(m)
  BY <1>1 DEF MemoryIsSound
<1> QED
  BY <1>1, <1>2, Parts, MemoryStep DEF StartRound

\* A memory that begins afresh with what it has learnt of s.
LEMMA Afresh ==
  ASSUME NEW pc \in PCs, NEW s \in AnySub
  PROVE  LET m == [Off EXCEPT !.pc = pc, !.sub = s]
         IN  m \in WorkerType /\ m.pc = pc /\ m.sub = s
  BY DEF Off, WorkerType

LEMMA ReadShopStep ==
  ASSUME IInv, NEW w \in Workers, ReadShop(w)
  PROVE  IInv'
<1> PICK s : s = shop
  OBVIOUS
<1> PICK m : m = [Off EXCEPT !.pc = "ask", !.sub = s]
  OBVIOUS
<1>1. m \in WorkerType /\ m.pc = "ask" /\ m.sub = s
  <2>1. s \in AnySub /\ "ask" \in PCs
    BY Parts DEF PCs, TablesAreSound
  <2> QED
    BY <2>1, Afresh
<1>2. MemoryIsSound(m)
  BY <1>1, Parts DEF MemoryIsSound, TablesAreSound, PlanWasApproved
<1> QED
  BY <1>1, <1>2, Parts, MemoryStep DEF ReadShop

\* Any step that makes an invocation begin afresh with what is so.
LEMMA AfreshStep ==
  ASSUME IInv, UNCHANGED <<shopify, tables>>, faults' \in 0 .. MaxFaults,
         NEW w \in Workers, NEW pc \in {"apply", "downgrade"}, NEW s \in AnySub,
         pc = "apply" => Approved(s), pc = "downgrade" => Stopped(s),
         Update(w, [Off EXCEPT !.pc = pc, !.sub = s])
  PROVE  IInv'
<1> PICK m : m = [Off EXCEPT !.pc = pc, !.sub = s]
  OBVIOUS
<1>1. m \in WorkerType /\ m.pc = pc /\ m.sub = s
  <2>1. pc \in PCs
    BY DEF PCs
  <2> QED
    BY <2>1, Afresh
<1>2. MemoryIsSound(m)
  BY <1>1 DEF MemoryIsSound
<1> QED
  BY <1>1, <1>2, MemoryStep

LEMMA AskStep ==
  ASSUME IInv, NEW w \in Workers, Ask(w)
  PROVE  IInv'
<1> PICK seen : seen = worker[w].sub
  OBVIOUS
<1>1. UNCHANGED <<shopify, tables>> /\ faults' \in 0 .. MaxFaults
  BY Parts DEF Ask
<1>2. CASE Update(w, Off)
  BY <1>1, <1>2, RestStep
<1>3. CASE /\ Active = {} /\ seen # NoSub
           /\ Update(w, [Off EXCEPT !.pc = "downgrade", !.sub = seen])
  <2>1. seen \in AnySub /\ Approved(seen)
    BY <1>3, Remembered DEF Ask, MemoryIsSound, Approved, AnySub
  <2>2. Stopped(seen)
    BY <1>3, <2>1, Parts DEF Approved, Stopped, Active, ShopifyIsSound, FrozenIsHeld
  <2> QED
    BY <1>1, <1>3, <2>1, <2>2, AfreshStep
<1>4. ASSUME NEW t \in Active, Update(w, [Off EXCEPT !.pc = "apply", !.sub = t])
      PROVE  IInv'
  <2>1. t \in AnySub /\ Approved(t)
    BY DEF Active, Approved, AnySub
  <2> QED
    BY <1>1, <1>4, <2>1, AfreshStep
<1> QED
  BY <1>2, <1>3, <1>4 DEF Ask

LEMMA DeliverStep ==
  ASSUME IInv, NEW w \in Workers, NEW n \in news, Deliver(w, n)
  PROVE  IInv'
<1>1. n[1] \in Subs /\ n[1] \in AnySub
  BY Parts DEF ShopifyIsSound, AnySub
<1>2. faults' \in 0 .. MaxFaults
  BY Parts DEF Deliver
<1>3. CASE news' = news \ {n} /\ UNCHANGED worker
  <2>1. ShopifyIsSound' /\ Grown
    <3>1. UNCHANGED <<sub, held, refused>> /\ news' \subseteq news
      BY <1>3 DEF Deliver
    <3> QED
      BY <3>1, Parts, NewsWorked
  <2>2. TablesAreSound' /\ WorkersAreSound'
    BY <1>3, <2>1, Parts, TablesUntouched, WorkersStaySound DEF Deliver
  <2> QED
    BY <1>2, <2>1, <2>2, PartsNext
<1>4. CASE /\ n[2] = "active" /\ UNCHANGED news
           /\ Update(w, [Off EXCEPT !.pc = "apply", !.sub = n[1]])
  <2>1. Approved(n[1])
    BY <1>4, Parts DEF ShopifyIsSound, NewsIsSound
  <2>2. UNCHANGED <<shopify, tables>>
    BY <1>4 DEF Deliver, shopify
  <2> QED
    BY <1>1, <1>2, <1>4, <2>1, <2>2, AfreshStep
<1>5. CASE /\ n[2] = "ended" /\ UNCHANGED news
           /\ Update(w, [Off EXCEPT !.pc = "downgrade", !.sub = n[1]])
  <2>1. Stopped(n[1])
    BY <1>5, Parts DEF ShopifyIsSound, NewsIsSound
  <2>2. UNCHANGED <<shopify, tables>>
    BY <1>5 DEF Deliver, shopify
  <2> QED
    BY <1>1, <1>2, <1>5, <2>1, <2>2, AfreshStep
<1> QED
  BY <1>3, <1>4, <1>5 DEF Deliver

LEMMA ApplyStep ==
  ASSUME IInv, NEW w \in Workers, Apply(w)
  PROVE  IInv'
<1> PICK s : s = worker[w].sub
  OBVIOUS
<1> PICK m : m = [worker[w] EXCEPT !.pc = "markActive"]
  OBVIOUS
<1>1. ShopifyIsSound' /\ Grown
  BY Parts, ShopifyUntouched DEF Apply
<1>2. m \in WorkerType /\ m.pc = "markActive" /\ m.sub = s
  BY Remembered, ElsewhereFields DEF PCs
<1>3. Approved(s) /\ Approved(s)'
  BY <1>1, Remembered, GrownFacts DEF Apply, MemoryIsSound
<1>4. MemoryIsSound(m)'
  BY <1>2, <1>3 DEF MemoryIsSound
<1>5. WorkersAreSound' /\ faults' \in 0 .. MaxFaults
  BY <1>1, <1>2, <1>4, Parts, UpdateIsSound DEF Apply, Goto
<1>6. PlanWasApproved' /\ shop' \in AnySub
  BY <1>3 DEF Apply, PlanWasApproved, Approved, AnySub
<1>7. charge' \in [Subs -> ChargeStatuses] /\ CancelledWasAnswered'
  BY <1>1, Parts, GrownFacts DEF Apply, TablesAreSound, CancelledWasAnswered
<1> QED
  BY <1>1, <1>5, <1>6, <1>7, PartsNext DEF TablesAreSound

LEMMA DowngradeStep ==
  ASSUME IInv, NEW w \in Workers, Downgrade(w)
  PROVE  IInv'
<1> PICK s : s = worker[w].sub
  OBVIOUS
<1> PICK m : m = [worker[w] EXCEPT !.pc = "markEnded"]
  OBVIOUS
<1>1. ShopifyIsSound' /\ Grown
  BY Parts, ShopifyUntouched DEF Downgrade
<1>2. m \in WorkerType /\ m.pc = "markEnded" /\ m.sub = s
  BY Remembered, ElsewhereFields DEF PCs
<1>3. Stopped(s)'
  BY <1>1, Remembered, GrownFacts DEF Downgrade, MemoryIsSound
<1>4. MemoryIsSound(m)'
  BY <1>2, <1>3 DEF MemoryIsSound
<1>5. WorkersAreSound' /\ faults' \in 0 .. MaxFaults
  BY <1>1, <1>2, <1>4, Parts, UpdateIsSound DEF Downgrade, Goto
<1>6. PlanWasApproved' /\ shop' \in AnySub
  BY DEF Downgrade, PlanWasApproved, AnySub
<1>7. charge' \in [Subs -> ChargeStatuses] /\ CancelledWasAnswered'
  BY <1>1, Parts, GrownFacts DEF Downgrade, TablesAreSound, CancelledWasAnswered
<1> QED
  BY <1>1, <1>5, <1>6, <1>7, PartsNext DEF TablesAreSound

LEMMA MarkActiveStep ==
  ASSUME IInv, NEW w \in Workers, MarkActive(w)
  PROVE  IInv'
<1> PICK s : s = worker[w].sub
  OBVIOUS
<1>1. ShopifyIsSound' /\ Grown
  BY Parts, NewsWorked DEF MarkActive, Worked
<1>2. charge' \in [Subs -> ChargeStatuses] /\ CancelledWasAnswered'
  BY <1>1, Parts, MarkedIsSound DEF MarkActive, ChargeStatuses
<1>3. TablesAreSound'
  BY <1>1, <1>2, Parts, ShopUntouched DEF MarkActive
<1>4. WorkersAreSound' /\ faults' \in 0 .. MaxFaults
  BY <1>1, Parts, RestIsSound DEF MarkActive
<1> QED
  BY <1>1, <1>3, <1>4, PartsNext

LEMMA MarkEndedStep ==
  ASSUME IInv, NEW w \in Workers, MarkEnded(w)
  PROVE  IInv'
<1> PICK s : s = worker[w].sub
  OBVIOUS
<1>1. ShopifyIsSound' /\ Grown
  BY Parts, NewsWorked DEF MarkEnded, Worked
<1>2. Answered(s)'
  BY <1>1, Remembered, GrownFacts DEF MarkEnded, MemoryIsSound
<1>3. charge' \in [Subs -> ChargeStatuses] /\ CancelledWasAnswered'
  BY <1>1, <1>2, Parts, MarkedIsSound DEF MarkEnded, ChargeStatuses
<1>4. TablesAreSound'
  BY <1>1, <1>3, Parts, ShopUntouched DEF MarkEnded
<1>5. WorkersAreSound' /\ faults' \in 0 .. MaxFaults
  BY <1>1, Parts, RestIsSound DEF MarkEnded
<1> QED
  BY <1>1, <1>4, <1>5, PartsNext

-----------------------------------------------------------------------------
(* Failure *)

LEMMA CancelFailsStep ==
  ASSUME IInv, NEW w \in Workers, CancelFails(w)
  PROVE  IInv'
<1> PICK t \in worker[w].todo : /\ End(t) \/ UNCHANGED shopify
                              /\ Update(w, [worker[w] EXCEPT !.todo = @ \ {t}])
  BY DEF CancelFails
<1> PICK m : m = [worker[w] EXCEPT !.todo = @ \ {t}]
  OBVIOUS
<1>1. ShopifyIsSound' /\ Grown
  BY Parts, EndIsSound, ShopifyUntouched
<1>2. m \in WorkerType
  <2>1. worker[w].todo \ {t} \in SUBSET Subs
    BY Remembered DEF WorkerType
  <2> QED
    BY <2>1, Remembered, MemoryFields
<1>3. m.pc = "drain"
  BY Remembered DEF WorkerType, CancelFails
<1>4. MemoryIsSound(m)'
  BY <1>3 DEF MemoryIsSound
<1>5. WorkersAreSound'
  BY <1>1, <1>2, <1>4, Parts, UpdateIsSound
<1>6. TablesAreSound'
  BY <1>1, Parts, TablesUntouched DEF CancelFails
<1> QED
  BY <1>1, <1>5, <1>6, MisfortuneType, PartsNext DEF CancelFails

\* Where a failed step leads, nothing is taken for granted.
LEMMA AfterFailureIsSound ==
  ASSUME IInv, NEW w \in Workers
  PROVE  AfterFailure(w) \in WorkerType /\ MemoryIsSound(AfterFailure(w))
<1>1. Off \in WorkerType /\ MemoryIsSound(Off)
  BY OffIsMemory DEF MemoryIsSound
<1>2. LET n == [Off EXCEPT !.pc = "list"] IN n \in WorkerType /\ MemoryIsSound(n)
  <2> PICK n : n = [Off EXCEPT !.pc = "list"]
    OBVIOUS
  <2>1. n \in WorkerType /\ n.pc = "list"
    BY OffIsMemory, ElsewhereFields DEF PCs
  <2>2. MemoryIsSound(n)
    BY <2>1 DEF MemoryIsSound
  <2> QED
    BY <2>1, <2>2
<1>3. LET n == [worker[w] EXCEPT !.pc = "drain", !.sub = NoSub]
      IN  n \in WorkerType /\ MemoryIsSound(n)
  <2> PICK n : n = [worker[w] EXCEPT !.pc = "drain", !.sub = NoSub]
    OBVIOUS
  <2>1. n \in WorkerType /\ n.pc = "drain"
    BY Remembered, DrainGoesOn
  <2>2. MemoryIsSound(n)
    BY <2>1 DEF MemoryIsSound
  <2> QED
    BY <2>1, <2>2
<1>4. Drained(w) \in WorkerType /\ MemoryIsSound(Drained(w))
  BY DrainedIsSound
<1> QED
  BY <1>1, <1>2, <1>3, <1>4 DEF AfterFailure

LEMMA StepFailsStep ==
  ASSUME IInv, NEW w \in Workers, StepFails(w)
  PROVE  IInv'
<1> PICK m : m = AfterFailure(w)
  OBVIOUS
<1> PICK s : s = worker[w].sub
  OBVIOUS
<1>1. m \in WorkerType /\ MemoryIsSound(m)
  BY AfterFailureIsSound
<1>2. End(s) \/ UNCHANGED shopify
  BY DEF StepFails
<1>3. ShopifyIsSound' /\ Grown
  BY <1>2, Parts, EndIsSound, ShopifyUntouched
<1>4. MemoryIsSound(m)'
  BY <1>1, <1>3, MemoryStaysSound
<1>5. WorkersAreSound'
  BY <1>1, <1>3, <1>4, Parts, UpdateIsSound DEF StepFails
<1>6. TablesAreSound'
  BY <1>3, Parts, TablesUntouched DEF StepFails
<1> QED
  BY <1>3, <1>5, <1>6, MisfortuneType, PartsNext DEF StepFails

LEMMA CrashStep ==
  ASSUME IInv, NEW w \in Workers, Crash(w)
  PROVE  IInv'
  BY RestStep, MisfortuneType DEF Crash

-----------------------------------------------------------------------------
(* The theorems *)

LEMMA InitIInv == Init => IInv
<1> SUFFICES ASSUME Init PROVE IInv
  OBVIOUS
<1>1. TypeOK
  BY OffIsMemory, ConstantsAssumption
     DEF Init, TypeOK, AnySub, SubStatuses, ChargeStatuses
<1>2. CancelledWasAnswered /\ PlanWasApproved /\ NewsIsSound /\ FrozenIsHeld
  BY DEF Init, CancelledWasAnswered, PlanWasApproved, NewsIsSound, FrozenIsHeld, Approved,
         AnySub
<1>3. \A w \in Workers : MemoryIsSound(worker[w])
  BY OffIsMemory DEF Init, MemoryIsSound
<1> QED
  BY <1>1, <1>2, <1>3 DEF IInv

LEMMA ProgressStep ==
  ASSUME IInv, NEW w \in Workers, Progress(w)
  PROVE  IInv'
  BY WriteRowStep, CancelCurrentStep, WriteFreeStep, ArchiveStep, SpendStep, RefuseStep,
     AskActivesStep, EnqueueStep, ListStep, CancelStep, RecordStep, EndDrainStep,
     ReadShopStep, AskStep, ApplyStep, MarkActiveStep, DowngradeStep, MarkEndedStep
     DEF Progress

LEMMA NextIInv ==
  ASSUME IInv, Next
  PROVE  IInv'
<1>1. ASSUME NEW s \in Subs, Approve(s) \/ Freeze(s) \/ Thaw(s) \/ Lapse(s) PROVE IInv'
  BY <1>1, ApproveStep, FreezeStep, ThawStep, LapseStep
<1>2. ASSUME NEW n \in news, Lose(n) PROVE IInv'
  BY <1>2, LoseStep
<1>3. ASSUME NEW w \in Visitors,
             \/ \E s \in Subs : Subscribe(w, s) \/ Return(w, s)
             \/ ChooseFree(w)
             \/ \E n \in news : Deliver(w, n)
      PROVE  IInv'
  BY <1>3, SubscribeStep, ReturnStep, ChooseFreeStep, DeliverStep DEF Workers
<1>4. ASSUME NEW r \in Rounds, StartRound(r) PROVE IInv'
  BY <1>4, StartRoundStep DEF Workers
<1>5. ASSUME NEW w \in Workers, Progress(w) \/ CancelFails(w) \/ StepFails(w) \/ Crash(w)
      PROVE  IInv'
  BY <1>5, ProgressStep, CancelFailsStep, StepFailsStep, CrashStep
<1> QED
  BY <1>1, <1>2, <1>3, <1>4, <1>5 DEF Next

LEMMA StutterIInv ==
  ASSUME IInv, UNCHANGED vars
  PROVE  IInv'
<1>1. ShopifyIsSound' /\ Grown
  BY Parts, ShopifyUntouched DEF vars, shopify
<1>2. TablesAreSound' /\ WorkersAreSound' /\ faults' \in 0 .. MaxFaults
  BY <1>1, Parts, TablesUntouched, WorkersStaySound DEF vars, tables
<1> QED
  BY <1>1, <1>2, PartsNext

\* The inductive invariant holds in every behaviour: types, what was announced, and
\* what each invocation knows of Shopify when it writes.
THEOREM BillingInvariant == Spec => []IInv
<1>1. Init => IInv
  BY InitIInv
<1>2. IInv /\ [Next]_vars => IInv'
  BY NextIInv, StutterIInv
<1> QED
  BY <1>1, <1>2, PTL DEF Spec

\* A row says that a charge is closed only when Shopify has ended the subscription,
\* holds it, or has refused to cancel it in words the code takes for an end; never
\* on a cancellation that failed, whichever of the handlers that close rows wrote it
\* (drainSupersededCharges, downgradeToFreePlan, the callback and the free plan).
THEOREM CancelledAnswered == Spec => []CancelledWasAnswered
<1>1. IInv => CancelledWasAnswered
  BY DEF IInv
<1> QED
  BY <1>1, BillingInvariant, PTL

\* The shop is never on a plan the merchant has not approved, whoever moved it and
\* however long ago it was read (applyPlanToShop and its callers).
THEOREM PlansWereApproved == Spec => []PlanWasApproved
<1>1. IInv => PlanWasApproved
  BY DEF IInv
<1> QED
  BY <1>1, BillingInvariant, PTL
-----------------------------------------------------------------------------
(* What is in excess, and what was spent *)

\* Where a subscription, its row and an invocation may go in one step, the
\* beginning of an approval apart.
SubCourse(s) ==
  \/ sub'[s] = sub[s]
  \/ sub[s] # "none" /\ sub'[s] = "ended"
  \/ sub[s] = "pending" /\ charge[s] # "absent" /\ sub'[s] = "active"
  \/ sub[s] \in {"active", "frozen"} /\ sub'[s] \in {"active", "frozen"}

ChargeCourse(s) ==
  \/ charge'[s] = charge[s]
  \/ charge[s] # "absent" /\ charge'[s] \in {"superseded", "active"}
  \/ charge[s] # "absent" /\ charge'[s] = "cancelled" /\ Answered(s)
  \/ charge'[s] = "superseded" /\ \E w \in Workers : s \in worker[w].todo

WorkerCourse(v) ==
  \/ worker'[v] = worker[v]
  \/ worker'[v].pc # "row" /\ worker'[v].todo \subseteq worker[v].todo \cup Active \cup Superseded

\* The row of a charge is pending only when it is written for the first time.
ChargeStep ==
  \A s \in Subs : ChargeCourse(s) \/ (charge[s] = "absent" /\ charge'[s] = "pending")

\* A step that keeps to these courses disturbs no row that is about to be written.
LEMMA BystandersKept ==
  ASSUME RowsToWrite, WorkersAreSound,
         \A s \in Subs : SubCourse(s),
         \A s \in Subs : ChargeCourse(s),
         \A v \in Workers : WorkerCourse(v)
  PROVE  RowsToWrite' /\ ChargeStep
<1>1. ASSUME NEW s \in Subs, sub'[s] = "none"
      PROVE  charge'[s] = "absent" /\ \A w \in Workers : s \notin worker'[w].todo
  <2>1. sub[s] = "none"
    BY <1>1 DEF SubCourse
  <2>2. charge[s] = "absent" /\ \A w \in Workers : s \notin worker[w].todo
    BY <2>1 DEF RowsToWrite
  <2>3. charge'[s] = "absent"
    BY <2>2 DEF ChargeCourse
  <2>4. s \notin Active /\ s \notin Superseded
    BY <2>1, <2>2 DEF Active, Superseded
  <2> QED
    BY <2>2, <2>3, <2>4 DEF WorkerCourse
<1>2. ASSUME NEW v \in Workers, worker'[v].pc = "row"
      PROVE  LET s == worker'[v].sub IN
             /\ charge'[s] = "absent" /\ sub'[s] \in {"pending", "ended"}
             /\ \A w \in Workers :
                  /\ s \notin worker'[w].todo
                  /\ worker'[w].pc = "row" /\ worker'[w].sub = s => w = v
  <2>1. worker'[v] = worker[v] /\ worker[v].pc = "row"
    BY <1>2 DEF WorkerCourse
  <2> PICK s : s = worker[v].sub
    OBVIOUS
  <2>2. s \in Subs
    BY <2>1 DEF WorkersAreSound, MemoryIsSound
  <2>3. /\ charge[s] = "absent" /\ sub[s] \in {"pending", "ended"}
        /\ \A w \in Workers :
             /\ s \notin worker[w].todo
             /\ worker[w].pc = "row" /\ worker[w].sub = s => w = v
    BY <2>1 DEF RowsToWrite
  <2>4. charge'[s] = "absent"
    BY <2>2, <2>3 DEF ChargeCourse
  <2>5. sub'[s] \in {"pending", "ended"}
    BY <2>2, <2>3 DEF SubCourse
  <2>6. s \notin Active /\ s \notin Superseded
    BY <2>3 DEF Active, Superseded
  <2>7. ASSUME NEW w \in Workers
        PROVE  /\ s \notin worker'[w].todo
               /\ worker'[w].pc = "row" /\ worker'[w].sub = s => w = v
    BY <2>3, <2>6, <2>7 DEF WorkerCourse
  <2> QED
    BY <2>1, <2>4, <2>5, <2>7
<1> QED
  BY <1>1, <1>2 DEF RowsToWrite, ChargeStep

\* How the steps keep to them: what an invocation remembers next,
LEMMA OffIsEmpty == Off.pc = "off" /\ Off.pc # "row" /\ Off.todo = {}
  BY DEF Off

LEMMA UpdateCourse ==
  ASSUME WorkersAreSound, NEW w \in Workers, NEW m, Update(w, m), m.pc # "row",
         m.todo \subseteq worker[w].todo \cup Active \cup Superseded
  PROVE  \A v \in Workers : WorkerCourse(v)
  BY DEF WorkersAreSound, Update, WorkerCourse

LEMMA GotoCourse ==
  ASSUME WorkersAreSound, NEW w \in Workers, NEW pc, Goto(w, pc), pc # "row"
  PROVE  \A v \in Workers : WorkerCourse(v)
<1> PICK m : m = [worker[w] EXCEPT !.pc = pc]
  OBVIOUS
<1>1. m.pc = pc /\ m.todo = worker[w].todo
  BY DEF WorkersAreSound, WorkerType
<1> QED
  BY <1>1, UpdateCourse DEF Goto

LEMMA ShorterCourse ==
  ASSUME WorkersAreSound, NEW w \in Workers, NEW t,
         Update(w, [worker[w] EXCEPT !.todo = @ \ {t}]), worker[w].pc # "row"
  PROVE  \A v \in Workers : WorkerCourse(v)
<1> PICK m : m = [worker[w] EXCEPT !.todo = worker[w].todo \ {t}]
  OBVIOUS
<1>1. m.pc = worker[w].pc /\ m.todo = worker[w].todo \ {t} /\ Update(w, m)
  BY DEF WorkersAreSound, WorkerType
<1> QED
  BY <1>1, UpdateCourse

LEMMA AfreshCourse ==
  ASSUME WorkersAreSound, NEW w \in Workers, NEW pc, NEW s, pc # "row",
         \/ Update(w, Off) \/ Update(w, [Off EXCEPT !.pc = pc])
         \/ Update(w, [Off EXCEPT !.pc = pc, !.sub = s])
  PROVE  \A v \in Workers : WorkerCourse(v)
<1> PICK m : /\ m \in {Off, [Off EXCEPT !.pc = pc], [Off EXCEPT !.pc = pc, !.sub = s]}
             /\ Update(w, m)
  OBVIOUS
<1>1. CASE m = Off
  BY <1>1, OffIsEmpty, UpdateCourse
<1>2. CASE m = [Off EXCEPT !.pc = pc]
  <2>1. m.pc = pc /\ m.todo = {}
    BY <1>2 DEF Off
  <2> QED
    BY <2>1, UpdateCourse
<1>3. CASE m = [Off EXCEPT !.pc = pc, !.sub = s]
  <2>1. m.pc = pc /\ m.todo = {}
    BY <1>3 DEF Off
  <2> QED
    BY <2>1, UpdateCourse
<1> QED
  BY <1>1, <1>2, <1>3

\* what Shopify is told to end,
LEMMA EndCourse ==
  ASSUME ShopifyIsSound, NEW s, End(s), s \in Subs => sub[s] # "none"
  PROVE  \A t \in Subs : SubCourse(t)
  BY DEF ShopifyIsSound, End, SubCourse, shopify

\* and what is written in the row of a charge.
LEMMA MarkedCourse ==
  ASSUME TablesAreSound, NEW s, NEW status, charge' = Marked(s, status),
         \/ status = "active" \/ status = "superseded"
         \/ status = "cancelled" /\ Answered(s)
  PROVE  \A t \in Subs : ChargeCourse(t)
  BY DEF TablesAreSound, Marked, ChargeCourse

\* Every step keeps them, but the two that begin an approval.
LEMMA MerchantCourse ==
  ASSUME IInv, RowsToWrite,
         \/ \E s \in Subs : Approve(s) \/ Freeze(s) \/ Thaw(s) \/ Lapse(s)
         \/ \E n \in news : Lose(n)
         \/ UNCHANGED vars
  PROVE  RowsToWrite' /\ ChargeStep
<1>1. UNCHANGED <<charge, worker>>
  BY DEF Approve, Freeze, Thaw, Lapse, Lose, vars, tables
<1>2. ASSUME NEW s \in Subs PROVE SubCourse(s)
  <2>1. ASSUME NEW t \in Subs, Approve(t) \/ Freeze(t) \/ Thaw(t) PROVE SubCourse(s)
    BY <1>2, <2>1, Parts DEF Approve, Freeze, Thaw, SubCourse, ShopifyIsSound
  <2>2. ASSUME NEW t \in Subs, Lapse(t) PROVE SubCourse(s)
    BY <1>2, <2>2, Parts, EndCourse DEF Lapse
  <2>3. CASE UNCHANGED sub
    BY <2>3 DEF SubCourse
  <2> QED
    BY <2>1, <2>2, <2>3 DEF Lose, vars
<1> QED
  BY <1>1, <1>2, Parts, BystandersKept DEF ChargeCourse, WorkerCourse

\* The memory of an invocation that asks, looks or stops.
LEMMA MemoryCourse ==
  ASSUME IInv, NEW w \in Workers,
         \/ ChooseFree(w) \/ (\E s \in Subs : Return(w, s)) \/ (\E n \in news : Deliver(w, n))
         \/ Refuse(w) \/ AskActives(w) \/ List(w) \/ EndDrain(w) \/ StartRound(w)
         \/ ReadShop(w) \/ Ask(w) \/ Apply(w) \/ Downgrade(w) \/ Crash(w)
  PROVE  UNCHANGED <<sub, charge>> /\ \A v \in Workers : WorkerCourse(v)
<1>0. WorkersAreSound
  BY Parts
<1>1. ASSUME ChooseFree(w) PROVE \A v \in Workers : WorkerCourse(v)
  BY <1>0, <1>1, AfreshCourse DEF ChooseFree
<1>2. ASSUME NEW s \in Subs, Return(w, s) PROVE \A v \in Workers : WorkerCourse(v)
  BY <1>0, <1>2, AfreshCourse DEF Return
<1>3. ASSUME NEW n \in news, Deliver(w, n) PROVE \A v \in Workers : WorkerCourse(v)
  <2>1. CASE UNCHANGED worker
    BY <2>1 DEF WorkerCourse
  <2> QED
    BY <1>0, <1>3, <2>1, AfreshCourse DEF Deliver
<1>4. ASSUME Refuse(w) \/ Crash(w) PROVE \A v \in Workers : WorkerCourse(v)
  BY <1>0, <1>4, AfreshCourse DEF Refuse, Crash
<1>5. ASSUME AskActives(w) PROVE \A v \in Workers : WorkerCourse(v)
  <2> PICK m : m = [worker[w] EXCEPT !.pc = "enqueue", !.todo = Active \ {worker[w].sub}]
    OBVIOUS
  <2>1. m.pc = "enqueue" /\ m.todo \subseteq Active
    BY <1>0 DEF WorkersAreSound, WorkerType
  <2> QED
    BY <1>0, <1>5, <2>1, UpdateCourse DEF AskActives
<1>6. ASSUME List(w) PROVE \A v \in Workers : WorkerCourse(v)
  BY <1>0, <1>6, UpdateCourse DEF List
<1>7. ASSUME EndDrain(w) PROVE \A v \in Workers : WorkerCourse(v)
  BY <1>0, <1>7, AfreshCourse DEF EndDrain, Drained
<1>8. ASSUME StartRound(w) PROVE \A v \in Workers : WorkerCourse(v)
  BY <1>0, <1>8, AfreshCourse DEF StartRound
<1>9. ASSUME ReadShop(w) PROVE \A v \in Workers : WorkerCourse(v)
  BY <1>0, <1>9, AfreshCourse DEF ReadShop
<1>10. ASSUME Ask(w) PROVE \A v \in Workers : WorkerCourse(v)
  BY <1>0, <1>10, AfreshCourse DEF Ask
<1>11. ASSUME Apply(w) \/ Downgrade(w) PROVE \A v \in Workers : WorkerCourse(v)
  BY <1>0, <1>11, GotoCourse DEF Apply, Downgrade
<1>12. UNCHANGED <<sub, charge>>
  BY DEF ChooseFree, Return, Deliver, Refuse, AskActives, List, EndDrain, StartRound,
         ReadShop, Ask, Apply, Downgrade, Crash, shopify, tables
<1> QED
  BY <1>1, <1>2, <1>3, <1>4, <1>5, <1>6, <1>7, <1>8, <1>9, <1>10, <1>11, <1>12

\* The steps that end a subscription, or try to.
LEMMA EndingCourse ==
  ASSUME IInv, RowsToWrite, NEW w \in Workers,
         CancelCurrent(w) \/ Cancel(w) \/ CancelFails(w) \/ StepFails(w)
  PROVE  RowsToWrite' /\ ChargeStep
<1>0. WorkersAreSound /\ ShopifyIsSound
  BY Parts
<1>1. UNCHANGED charge
  BY DEF CancelCurrent, Cancel, CancelFails, StepFails, tables
<1>2. ASSUME NEW t \in worker[w].todo PROVE t \in Subs => sub[t] # "none"
  BY <1>2 DEF RowsToWrite
<1>3. ASSUME worker[w].pc = "freeCancel"
      PROVE  worker[w].sub \in Subs => sub[worker[w].sub] # "none"
  BY <1>0, <1>3 DEF WorkersAreSound, MemoryIsSound, Approved
<1>4. \A s \in Subs : SubCourse(s)
  <2>1. CASE UNCHANGED shopify
    BY <2>1 DEF shopify, SubCourse
  <2>2. CASE \E t \in worker[w].todo : End(t)
    BY <1>0, <1>2, <2>2, EndCourse
  <2>3. CASE worker[w].pc = "freeCancel" /\ End(worker[w].sub)
    BY <1>0, <1>3, <2>3, EndCourse
  <2>4. CASE UNCHANGED sub
    BY <2>4 DEF SubCourse
  <2> QED
    BY <2>1, <2>2, <2>3, <2>4
    DEF CancelCurrent, Cancel, CancelFails, StepFails, CancelOnShopify, RefuseAsGone
<1>5. \A v \in Workers : WorkerCourse(v)
  <2>1. CASE CancelCurrent(w)
    BY <1>0, <2>1, GotoCourse DEF CancelCurrent
  <2>2. CASE Cancel(w)
    <3>1. PICK t \in worker[w].todo :
            Update(w, [pc |-> "record", sub |-> t, todo |-> worker[w].todo \ {t}])
      BY <2>2 DEF Cancel
    <3> QED
      BY <1>0, <3>1, UpdateCourse
  <2>3. CASE CancelFails(w)
    <3>1. PICK t \in worker[w].todo : Update(w, [worker[w] EXCEPT !.todo = @ \ {t}])
      BY <2>3 DEF CancelFails
    <3> QED
      BY <1>0, <2>3, <3>1, ShorterCourse DEF CancelFails
  <2>4. CASE StepFails(w)
    <3> PICK m : m = AfterFailure(w)
      OBVIOUS
    <3>1. m.pc # "row" /\ m.todo \subseteq worker[w].todo
      <4>1. worker[w] \in WorkerType
        BY <1>0 DEF WorkersAreSound
      <4>2. Off.pc # "row" /\ Off.todo = {}
        BY DEF Off
      <4>3. \A pc : [Off EXCEPT !.pc = pc].pc = pc /\ [Off EXCEPT !.pc = pc].todo = {}
        BY DEF Off
      <4>4. /\ [worker[w] EXCEPT !.pc = "drain", !.sub = NoSub].pc = "drain"
            /\ [worker[w] EXCEPT !.pc = "drain", !.sub = NoSub].todo = worker[w].todo
        BY <4>1 DEF WorkerType
      <4>5. m \in {Off, [Off EXCEPT !.pc = "list"], [Off EXCEPT !.pc = "shop"],
                   [worker[w] EXCEPT !.pc = "drain", !.sub = NoSub]}
        BY DEF AfterFailure, Drained
      <4> QED
        BY <4>2, <4>3, <4>4, <4>5
    <3> QED
      BY <1>0, <2>4, <3>1, UpdateCourse DEF StepFails
  <2> QED
    BY <2>1, <2>2, <2>3, <2>4
<1> QED
  BY <1>0, <1>1, <1>4, <1>5, BystandersKept DEF ChargeCourse

\* The steps that write the row of a charge that is there.
LEMMA WritingCourse ==
  ASSUME IInv, RowsToWrite, NEW w \in Workers,
         \/ WriteFree(w) \/ Archive(w) \/ Record(w) \/ MarkActive(w) \/ MarkEnded(w)
         \/ Spend(w) \/ Enqueue(w)
  PROVE  RowsToWrite' /\ ChargeStep
<1>0. WorkersAreSound /\ TablesAreSound
  BY Parts
<1>1. UNCHANGED sub
  BY DEF WriteFree, Archive, Record, MarkActive, MarkEnded, Spend, Enqueue, shopify
<1>2. \A s \in Subs : ChargeCourse(s)
  <2>1. CASE WriteFree(w) \/ Archive(w) \/ Record(w) \/ MarkEnded(w)
    <3>1. Answered(worker[w].sub) /\ charge' = Marked(worker[w].sub, "cancelled")
      BY <1>0, <2>1
      DEF WorkersAreSound, MemoryIsSound, Stopped, Answered, TakenForEnded,
          WriteFree, Archive, Record, MarkEnded
    <3> QED
      BY <1>0, <3>1, MarkedCourse
  <2>2. CASE MarkActive(w)
    BY <1>0, <2>2, MarkedCourse DEF MarkActive
  <2>3. CASE Spend(w)
    BY <1>0, <2>3 DEF Spend, Replaced, ChargeCourse
  <2>4. CASE Enqueue(w)
    <3>1. CASE UNCHANGED charge
      BY <3>1 DEF ChargeCourse
    <3>2. ASSUME NEW t \in worker[w].todo, charge' = [charge EXCEPT ![t] = "superseded"]
          PROVE  \A s \in Subs : ChargeCourse(s)
      BY <1>0, <3>2 DEF TablesAreSound, ChargeCourse
    <3> QED
      BY <2>4, <3>1, <3>2 DEF Enqueue
  <2> QED
    BY <2>1, <2>2, <2>3, <2>4
<1>3. \A v \in Workers : WorkerCourse(v)
  <2>1. CASE WriteFree(w) \/ Archive(w) \/ MarkActive(w) \/ MarkEnded(w)
    BY <1>0, <2>1, AfreshCourse DEF WriteFree, Archive, MarkActive, MarkEnded
  <2>2. CASE Record(w)
    <3> PICK m : m = [worker[w] EXCEPT !.pc = "drain", !.sub = NoSub]
      OBVIOUS
    <3>1. m.pc = "drain" /\ m.todo = worker[w].todo
      BY <1>0 DEF WorkersAreSound, WorkerType
    <3> QED
      BY <1>0, <2>2, <3>1, UpdateCourse DEF Record
  <2>3. CASE Spend(w)
    BY <1>0, <2>3, GotoCourse DEF Spend
  <2>4. CASE Enqueue(w)
    <3>1. CASE Update(w, [Off EXCEPT !.pc = "list"])
      BY <1>0, <3>1, AfreshCourse
    <3>2. ASSUME NEW t, Update(w, [worker[w] EXCEPT !.todo = @ \ {t}])
          PROVE  \A v \in Workers : WorkerCourse(v)
      BY <1>0, <2>4, <3>2, ShorterCourse DEF Enqueue
    <3> QED
      BY <2>4, <3>1, <3>2 DEF Enqueue
  <2> QED
    BY <2>1, <2>2, <2>3, <2>4
<1> QED
  BY <1>0, <1>1, <1>2, <1>3, BystandersKept DEF SubCourse

\* An approval begins with a subscription nobody knows,
LEMMA SubscribeCourse ==
  ASSUME IInv, RowsToWrite, NEW w \in Workers, NEW s \in Subs, Subscribe(w, s)
  PROVE  RowsToWrite' /\ ChargeStep
<1>0. WorkersAreSound /\ ShopifyIsSound
  BY Parts
<1> PICK m : m = [Off EXCEPT !.pc = "row", !.sub = s]
  OBVIOUS
<1>1. m.pc = "row" /\ m.sub = s /\ m.todo = {}
  BY DEF Off
<1>2. \A v \in Workers : worker'[v] = IF v = w THEN m ELSE worker[v]
  BY <1>0 DEF Subscribe, Update, WorkersAreSound
<1>3. \A t \in Subs : sub'[t] = IF t = s THEN "pending" ELSE sub[t]
  BY <1>0 DEF Subscribe, ShopifyIsSound
<1>4. charge' = charge /\ sub[s] = "none"
  BY DEF Subscribe, tables
<1>5. charge[s] = "absent" /\ \A v \in Workers : s \notin worker[v].todo
  BY <1>4 DEF RowsToWrite
<1>6. \A v \in Workers : worker[v].pc = "row" =>
        worker[v].sub \in Subs /\ sub[worker[v].sub] # "none"
  BY <1>0 DEF RowsToWrite, WorkersAreSound, MemoryIsSound
<1>7. ASSUME NEW t \in Subs, sub'[t] = "none"
      PROVE  charge'[t] = "absent" /\ \A v \in Workers : t \notin worker'[v].todo
  BY <1>1, <1>2, <1>3, <1>4, <1>7 DEF RowsToWrite
<1>8. ASSUME NEW v \in Workers, worker'[v].pc = "row"
      PROVE  LET t == worker'[v].sub IN
             /\ charge'[t] = "absent" /\ sub'[t] \in {"pending", "ended"}
             /\ \A u \in Workers :
                  /\ t \notin worker'[u].todo
                  /\ worker'[u].pc = "row" /\ worker'[u].sub = t => u = v
  <2>1. CASE v = w
    <3>1. worker'[v].sub = s
      BY <1>1, <1>2, <2>1
    <3>2. charge'[s] = "absent" /\ sub'[s] = "pending"
      BY <1>3, <1>4, <1>5
    <3>3. ASSUME NEW u \in Workers, u # w
          PROVE  s \notin worker'[u].todo /\ ~(worker'[u].pc = "row" /\ worker'[u].sub = s)
      BY <1>2, <1>4, <1>5, <1>6, <3>3
    <3>4. s \notin worker'[w].todo
      BY <1>1, <1>2
    <3>5. \A u \in Workers :
            /\ s \notin worker'[u].todo
            /\ worker'[u].pc = "row" /\ worker'[u].sub = s => u = v
      BY <2>1, <3>3, <3>4
    <3>6. sub'[s] \in {"pending", "ended"}
      BY <3>2
    <3> QED
      BY <3>1, <3>2, <3>5, <3>6
  <2>2. CASE v # w
    <3> PICK t : t = worker[v].sub
      OBVIOUS
    <3>1. worker'[v] = worker[v] /\ worker[v].pc = "row"
      BY <1>2, <1>8, <2>2
    <3>2. t \in Subs /\ t # s
      BY <1>4, <1>6, <3>1
    <3>3. /\ charge[t] = "absent" /\ sub[t] \in {"pending", "ended"}
          /\ \A u \in Workers :
               /\ t \notin worker[u].todo
               /\ worker[u].pc = "row" /\ worker[u].sub = t => u = v
      BY <3>1 DEF RowsToWrite
    <3> QED
      BY <1>1, <1>2, <1>3, <1>4, <3>1, <3>2, <3>3
  <2> QED
    BY <2>1, <2>2
<1> QED
  BY <1>4, <1>7, <1>8 DEF RowsToWrite, ChargeStep, ChargeCourse

\* and its row is written where there was none.
LEMMA WriteRowCourse ==
  ASSUME IInv, RowsToWrite, NEW w \in Workers, WriteRow(w)
  PROVE  RowsToWrite' /\ ChargeStep
<1>0. WorkersAreSound /\ TablesAreSound
  BY Parts
<1> PICK s : s = worker[w].sub
  OBVIOUS
<1>1. /\ s \in Subs /\ charge[s] = "absent" /\ sub[s] # "none"
      /\ \A v \in Workers : worker[v].pc = "row" /\ worker[v].sub = s => v = w
  BY <1>0 DEF WriteRow, RowsToWrite, WorkersAreSound, MemoryIsSound
<1>2. \A t \in Subs : charge'[t] = IF t = s THEN "pending" ELSE charge[t]
  BY <1>0 DEF WriteRow, TablesAreSound
<1>3. \A v \in Workers : worker'[v] = IF v = w THEN Off ELSE worker[v]
  BY <1>0 DEF WriteRow, Update, WorkersAreSound
<1>4. Off.pc # "row" /\ Off.todo = {}
  BY DEF Off
<1>5. sub' = sub
  BY DEF WriteRow, shopify
<1>6. ASSUME NEW t \in Subs, sub'[t] = "none"
      PROVE  charge'[t] = "absent" /\ \A v \in Workers : t \notin worker'[v].todo
  BY <1>1, <1>2, <1>3, <1>4, <1>5, <1>6 DEF RowsToWrite
<1>7. ASSUME NEW v \in Workers, worker'[v].pc = "row"
      PROVE  LET t == worker'[v].sub IN
             /\ charge'[t] = "absent" /\ sub'[t] \in {"pending", "ended"}
             /\ \A u \in Workers :
                  /\ t \notin worker'[u].todo
                  /\ worker'[u].pc = "row" /\ worker'[u].sub = t => u = v
  <2> PICK t : t = worker[v].sub
    OBVIOUS
  <2>1. worker'[v] = worker[v] /\ worker[v].pc = "row" /\ v # w
    BY <1>3, <1>4, <1>7
  <2>2. t \in Subs /\ t # s
    BY <1>0, <1>1, <2>1 DEF WorkersAreSound, MemoryIsSound
  <2>3. /\ charge[t] = "absent" /\ sub[t] \in {"pending", "ended"}
        /\ \A u \in Workers :
             /\ t \notin worker[u].todo
             /\ worker[u].pc = "row" /\ worker[u].sub = t => u = v
    BY <2>1 DEF RowsToWrite
  <2> QED
    BY <1>2, <1>3, <1>4, <1>5, <2>1, <2>2, <2>3
<1> QED
  BY <1>1, <1>2, <1>6, <1>7 DEF RowsToWrite, ChargeStep, ChargeCourse

\* So does every step.
LEMMA StepCourse ==
  ASSUME RInv, [Next]_vars
  PROVE  RowsToWrite' /\ ChargeStep
<1>0. IInv /\ RowsToWrite
  BY DEF RInv
<1>1. ASSUME NEW w \in Workers, UNCHANGED <<sub, charge>>, \A v \in Workers : WorkerCourse(v)
      PROVE  RowsToWrite' /\ ChargeStep
  BY <1>0, <1>1, Parts, BystandersKept DEF SubCourse, ChargeCourse
<1>2. ASSUME NEW w \in Workers,
             \/ \E s \in Subs : Subscribe(w, s) \/ Return(w, s)
             \/ ChooseFree(w) \/ StartRound(w)
             \/ \E n \in news : Deliver(w, n)
      PROVE  RowsToWrite' /\ ChargeStep
  BY <1>0, <1>1, <1>2, MemoryCourse, SubscribeCourse
<1>3. ASSUME NEW w \in Workers, Progress(w) \/ CancelFails(w) \/ StepFails(w) \/ Crash(w)
      PROVE  RowsToWrite' /\ ChargeStep
  BY <1>0, <1>1, <1>3, MemoryCourse, EndingCourse, WritingCourse, WriteRowCourse DEF Progress
<1>4. CASE UNCHANGED vars
  BY <1>0, <1>4, MerchantCourse
<1>5. CASE \/ \E s \in Subs : Approve(s) \/ Freeze(s) \/ Thaw(s) \/ Lapse(s)
           \/ \E n \in news : Lose(n)
  BY <1>0, <1>5, MerchantCourse
<1>6. CASE Next
  BY <1>2, <1>3, <1>5, <1>6 DEF Next, Workers
<1> QED
  BY <1>4, <1>6

\* The rows about to be written are not there, at every moment.
THEOREM RowsInvariant == Spec => []RInv
<1>1. Init => RInv
  <2> SUFFICES ASSUME Init PROVE RInv
    OBVIOUS
  <2>1. \A s \in Subs : charge[s] = "absent"
    BY DEF Init
  <2>2. \A w \in Workers : worker[w] = Off
    BY DEF Init
  <2>3. \A w \in Workers : worker[w].pc # "row" /\ worker[w].todo = {}
    BY <2>2, OffIsEmpty
  <2>4. RowsToWrite
    BY <2>1, <2>3 DEF RowsToWrite
  <2> QED
    BY <2>4, InitIInv DEF RInv
<1>2. RInv /\ [Next]_vars => RInv'
  BY NextIInv, StutterIInv, StepCourse DEF RInv
<1> QED
  BY <1>1, <1>2, PTL DEF Spec

\* A subscription in excess stays in the outbox until it has ended, is taken for ended
\* or its row is marked active again: no failure, no second approval and no race of the callback
\* with the cron takes it out (drainSupersededCharges, markSupersededCharges).
THEOREM ExcessRemembered == Spec => ExcessIsRemembered
<1>1. RInv /\ [Next]_vars =>
        [\A s \in Subs : charge[s] = "superseded" =>
           \/ charge'[s] \in {"superseded", "active"}
           \/ sub[s] = "ended" \/ s \in TakenForEnded]_vars
  BY StepCourse DEF ChargeStep, ChargeCourse, Answered
<1> QED
  BY <1>1, RowsInvariant, PTL DEF Spec, ExcessIsRemembered

\* A row that was spent, archived or queued never waits for its approval again
\* (billing.subscribe, billing.callback).
THEOREM ApprovalSpentOnce == Spec => ApprovalIsSpentOnce
<1>1. RInv /\ [Next]_vars =>
        [\A s \in Subs : charge[s] \notin {"absent", "pending"} => charge'[s] # "pending"]_vars
  BY StepCourse DEF ChargeStep, ChargeCourse
<1> QED
  BY <1>1, RowsInvariant, PTL DEF Spec, ApprovalIsSpentOnce
=============================================================================
