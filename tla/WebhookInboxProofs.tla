------------------------- MODULE WebhookInboxProofs -------------------------
(***************************************************************************)
(* Theorems about WebhookInbox, for any deliveries, resources, invocations *)
(* and bounds.                                                             *)
(***************************************************************************)
EXTENDS WebhookInbox, FiniteSetTheorems, TLAPS

\* The initial state satisfies the inductive invariant.
LEMMA InitIInv == Init => IInv
<1> SUFFICES ASSUME Init PROVE IInv
  OBVIOUS
<1>1. TypeOK
  <2>1. NoRow \in RowType
    BY DEF NoRow, RowType, Statuses
  <2>2. Off \in ConsumerType
    BY ConstantsAssumption DEF Off, ConsumerType, PCs, Working, Outcomes
  <2>3. shopify \in [Resources -> ShopifyType]
    <3>1. \A s \in Shapes : [shape |-> s, version |-> 0, gone |-> FALSE] \in ShopifyType
      BY ConstantsAssumption DEF ShopifyType
    <3>2. {[shape |-> s, version |-> 0, gone |-> FALSE] : s \in Shapes} \subseteq ShopifyType
      BY <3>1
    <3> HIDE DEF Shapes
    <3> QED
      BY <3>2 DEF Init
  <2>4. copy \in [Resources -> CopyType] /\ feed \in [Events -> FeedType]
    BY ConstantsAssumption DEF Init, CopyType, FeedType, Kinds
  <2> QED
    BY <2>1, <2>2, <2>3, <2>4, ConstantsAssumption DEF Init, TypeOK
<1>2. FeedIsSound
  BY <1>1, ConstantsAssumption DEF TypeOK, ShopifyType, Init, FeedIsSound, NoRow
<1>3. ClosedIsApplied /\ HoldersAreAlone
  BY DEF Init, ClosedIsApplied, HoldersAreAlone, NoRow, Off, Holding, Working
<1>4. \A c \in Consumers : MemoryIsSound(consumer[c])
  BY DEF Init, MemoryIsSound, Off
<1> QED
  BY <1>1, <1>2, <1>3, <1>4 DEF IInv

\* A misfortune stays within its bound.
LEMMA MisfortuneType == ASSUME TypeOK, Misfortune PROVE faults' \in 0 .. MaxFaults
  BY ConstantsAssumption DEF TypeOK, Misfortune

-----------------------------------------------------------------------------
(* The memories that the steps of an invocation leave behind have their type *)

LEMMA OffType == Off \in ConsumerType
  BY ConstantsAssumption DEF ConsumerType, Off, PCs, Working, Outcomes

\* Every field of a memory takes the values of its type.
LEMMA FieldTypes ==
  ASSUME NEW m \in ConsumerType
  PROVE  /\ \A v \in PCs : [m EXCEPT !.pc = v] \in ConsumerType
         /\ \A v \in BOOLEAN : [m EXCEPT !.drains = v] \in ConsumerType
         /\ \A v \in Events \cup {NoEvent} : [m EXCEPT !.event = v] \in ConsumerType
         /\ \A v \in SUBSET Events : [m EXCEPT !.todo = v] \in ConsumerType
         /\ \A v \in SUBSET Events : [m EXCEPT !.stuck = v] \in ConsumerType
         /\ \A v \in BOOLEAN : [m EXCEPT !.served = v] \in ConsumerType
         /\ \A v \in Nat : [m EXCEPT !.seen = v] \in ConsumerType
         /\ \A v \in 0 .. MaxVersion : [m EXCEPT !.read = v] \in ConsumerType
         /\ \A v \in Outcomes : [m EXCEPT !.out = v] \in ConsumerType
<1>1. \A v \in PCs : [m EXCEPT !.pc = v] \in ConsumerType
  BY Zenon DEF ConsumerType
<1>2. \A v \in BOOLEAN : [m EXCEPT !.drains = v] \in ConsumerType
  BY Zenon DEF ConsumerType
<1>3. \A v \in Events \cup {NoEvent} : [m EXCEPT !.event = v] \in ConsumerType
  BY Zenon DEF ConsumerType
<1>4. \A v \in SUBSET Events : [m EXCEPT !.todo = v] \in ConsumerType
  BY Zenon DEF ConsumerType
<1>5. \A v \in SUBSET Events : [m EXCEPT !.stuck = v] \in ConsumerType
  BY Zenon DEF ConsumerType
<1>6. \A v \in BOOLEAN : [m EXCEPT !.served = v] \in ConsumerType
  BY Zenon DEF ConsumerType
<1>7. \A v \in Nat : [m EXCEPT !.seen = v] \in ConsumerType
  BY Zenon DEF ConsumerType
<1>8. \A v \in 0 .. MaxVersion : [m EXCEPT !.read = v] \in ConsumerType
  BY Zenon DEF ConsumerType
<1>9. \A v \in Outcomes : [m EXCEPT !.out = v] \in ConsumerType
  BY Zenon DEF ConsumerType
<1> QED
  BY <1>1, <1>2, <1>3, <1>4, <1>5, <1>6, <1>7, <1>8, <1>9

\* An invocation that begins with a receipt.
LEMMA LaunchedType ==
  ASSUME NEW e \in Events
  PROVE  [Off EXCEPT !.pc = "claim", !.event = e] \in ConsumerType
<1>1. "claim" \in PCs
  BY DEF PCs
<1>2. [Off EXCEPT !.pc = "claim"] \in ConsumerType
  BY <1>1, OffType, FieldTypes
<1> QED
  BY <1>2, FieldTypes

\* A drain that goes through its list.
LEMMA LoopType ==
  ASSUME NEW todo \in SUBSET Events, NEW stuck \in SUBSET Events, NEW served \in BOOLEAN
  PROVE  [Off EXCEPT !.pc = "loop", !.drains = TRUE, !.todo = todo, !.stuck = stuck,
                     !.served = served] \in ConsumerType
<1>1. "loop" \in PCs
  BY DEF PCs
<1>2. [Off EXCEPT !.pc = "loop", !.drains = TRUE] \in ConsumerType
  BY <1>1, OffType, FieldTypes
<1>3. [Off EXCEPT !.pc = "loop", !.drains = TRUE, !.todo = todo] \in ConsumerType
  BY <1>2, FieldTypes
<1>4. [Off EXCEPT !.pc = "loop", !.drains = TRUE, !.todo = todo, !.stuck = stuck]
      \in ConsumerType
  BY <1>3, FieldTypes
<1> QED
  BY <1>4, FieldTypes

\* A processor that has its outcome.
LEMMA EndsType ==
  ASSUME NEW m \in ConsumerType, NEW out \in Outcomes
  PROVE  [m EXCEPT !.pc = "conclude", !.read = 0, !.out = out] \in ConsumerType
<1>1. 0 \in 0 .. MaxVersion /\ "conclude" \in PCs
  BY ConstantsAssumption DEF PCs
<1>2. [m EXCEPT !.pc = "conclude", !.read = 0] \in ConsumerType
  BY <1>1, FieldTypes
<1> QED
  BY <1>2, FieldTypes

\* Every field of a row takes the values of its type.
LEMMA RowFields ==
  ASSUME NEW r \in RowType
  PROVE  /\ \A v \in Statuses : [r EXCEPT !.status = v] \in RowType
         /\ \A v \in Nat : [r EXCEPT !.attempts = v] \in RowType
         /\ \A v \in BOOLEAN : [r EXCEPT !.due = v] \in RowType
         /\ \A v \in BOOLEAN : [r EXCEPT !.stale = v] \in RowType
<1>1. \A v \in Statuses : [r EXCEPT !.status = v] \in RowType
  BY Zenon DEF RowType
<1>2. \A v \in Nat : [r EXCEPT !.attempts = v] \in RowType
  BY Zenon DEF RowType
<1>3. \A v \in BOOLEAN : [r EXCEPT !.due = v] \in RowType
  BY Zenon DEF RowType
<1>4. \A v \in BOOLEAN : [r EXCEPT !.stale = v] \in RowType
  BY Zenon DEF RowType
<1> QED
  BY <1>1, <1>2, <1>3, <1>4

\* An invocation that has no more to do with its event is off, or at its list.
LEMMA ReleasedType ==
  ASSUME TypeOK, NEW c \in Consumers
  PROVE  /\ Released(c) \in ConsumerType
         /\ Released(c).event = NoEvent
         /\ Released(c).pc \in {"off", "loop"}
         /\ Released(c).todo = {} \/ Released(c).todo = consumer[c].todo
<1>1. consumer[c].todo \in SUBSET Events /\ consumer[c].stuck \in SUBSET Events
  BY DEF TypeOK, ConsumerType
<1>2. Released(c) \in ConsumerType
  BY <1>1, OffType, LoopType DEF Released
<1> QED
  BY <1>2 DEF Released, Off

-----------------------------------------------------------------------------
(* The frames of the steps *)

\* A step that takes nothing back from the histories, the rows and Shopify, and
\* leaves every invocation as it was or with a sound memory, keeps the invariant.
LEMMA KeptStep ==
  ASSUME IInv, TypeOK', FeedIsSound', ClosedIsApplied', HoldersAreAlone',
         \A e \in Events : row[e].status # "absent" => row'[e].status # "absent",
         applied \subseteq applied', skipped \subseteq skipped',
         \A x \in Resources : shopify[x].gone => shopify'[x].gone,
         \A e \in Events : row[e].status # "absent" => feed'[e].version = feed[e].version,
         \A c \in Consumers : consumer'[c] = consumer[c] \/ MemoryIsSound(consumer[c])'
  PROVE  IInv'
<1>1. ASSUME NEW c \in Consumers PROVE MemoryIsSound(consumer[c])'
  <2>1. CASE consumer'[c] = consumer[c]
    <3>1. PICK m : m = consumer[c]
      OBVIOUS
    <3>2. MemoryIsSound(m)
      BY <1>1, <3>1 DEF IInv
    <3>3. m \in ConsumerType
      BY <1>1, <3>1 DEF IInv, TypeOK
    <3>4. m.todo \subseteq Events /\ m.event \in Events \cup {NoEvent}
      BY <3>3 DEF ConsumerType
    <3>5. m.event = NoEvent => m.pc \in {"off", "loop"}
      BY <3>2 DEF MemoryIsSound
    <3>6. MemoryIsSound(m)'
      <4>1. m.event # NoEvent => row'[m.event].status # "absent"
        BY <3>2, <3>4 DEF MemoryIsSound
      <4>2. \A e \in m.todo : row'[e].status # "absent"
        BY <3>2, <3>4 DEF MemoryIsSound
      <4>3. m.pc \in {"order", "parts", "sweep"} => m.read >= feed'[m.event].version
        BY <3>2, <3>4, <3>5 DEF MemoryIsSound
      <4>4. m.pc \in {"wipeParts", "wipeOrder"} => shopify'[ResourceOf[m.event]].gone
        BY <3>2, <3>4, <3>5, ConstantsAssumption DEF MemoryIsSound
      <4>5. m.pc = "conclude" /\ m.out = "done" => m.event \in applied' \cup skipped'
        BY <3>2 DEF MemoryIsSound
      <4> QED
        BY <3>2, <4>1, <4>2, <4>3, <4>4, <4>5 DEF MemoryIsSound
    <3> QED
      BY <2>1, <3>1, <3>6
  <2>2. CASE MemoryIsSound(consumer[c])'
    BY <2>2
  <2> QED
    BY <1>1, <2>1, <2>2
<1> QED
  BY <1>1 DEF IInv

\* Where nobody begins to hold a row, and no held row that was never put back
\* stops being in processing, those who hold stay alone.
LEMMA NoNewHolder ==
  ASSUME IInv, takenBack \subseteq takenBack',
         \A c \in Consumers :
           Holding(consumer'[c]) => /\ Holding(consumer[c])
                                    /\ consumer'[c].event = consumer[c].event,
         \A c \in Consumers :
           /\ Holding(consumer'[c]) /\ row[consumer'[c].event].status = "processing"
           /\ consumer'[c].event \notin takenBack'
           => row'[consumer'[c].event].status = "processing"
  PROVE  HoldersAreAlone'
<1>1. ASSUME NEW c \in Consumers, Holding(consumer'[c]), consumer'[c].event \notin takenBack'
      PROVE  /\ row'[consumer'[c].event].status = "processing"
             /\ \A c2 \in Consumers \ {c} :
                  Holding(consumer'[c2]) => consumer'[c2].event # consumer'[c].event
  <2>1. Holding(consumer[c]) /\ consumer'[c].event = consumer[c].event
    BY <1>1
  <2>2. consumer[c].event \notin takenBack
    BY <1>1, <2>1
  <2>3. /\ row[consumer[c].event].status = "processing"
        /\ \A c2 \in Consumers \ {c} :
             Holding(consumer[c2]) => consumer[c2].event # consumer[c].event
    BY <2>1, <2>2 DEF IInv, HoldersAreAlone
  <2>4. row'[consumer'[c].event].status = "processing"
    BY <1>1, <2>1, <2>3
  <2> QED
    BY <2>1, <2>3, <2>4
<1> QED
  BY <1>1 DEF HoldersAreAlone, Holding

\* The special case of a step that only changes the memory of one invocation,
\* which does not begin to hold a row.
LEMMA MemoryStep ==
  ASSUME IInv, NEW c \in Consumers, NEW m \in ConsumerType,
         MemoryIsSound(m)',
         Holding(m) => Holding(consumer[c]) /\ m.event = consumer[c].event,
         consumer' = [consumer EXCEPT ![c] = m],
         UNCHANGED <<shopify, feed, row, takenBack>>,
         applied \subseteq applied', applied' \subseteq Events,
         skipped \subseteq skipped', skipped' \subseteq skipped \cup Events,
         copy' \in [Resources -> CopyType], overlapped' \subseteq Resources,
         loose' \subseteq Resources, faults' \in 0 .. MaxFaults
  PROVE  IInv'
<1>1. TypeOK'
  BY DEF IInv, TypeOK
<1>2. FeedIsSound' /\ ClosedIsApplied'
  BY DEF IInv, FeedIsSound, ClosedIsApplied
<1>3. \A d \in Consumers : consumer'[d] = IF d = c THEN m ELSE consumer[d]
  BY DEF IInv, TypeOK
<1>4. \A d \in Consumers :
        Holding(consumer'[d]) => /\ Holding(consumer[d])
                                 /\ consumer'[d].event = consumer[d].event
  BY <1>3
<1>5. HoldersAreAlone'
  BY <1>4, NoNewHolder
<1>6. ASSUME NEW d \in Consumers
      PROVE  consumer'[d] = consumer[d] \/ MemoryIsSound(consumer[d])'
  <2>1. consumer'[c] = m
    BY <1>3
  <2>2. MemoryIsSound(consumer[c])'
    BY <2>1 DEF MemoryIsSound
  <2> QED
    BY <1>3, <1>6, <2>2
<1> QED
  BY <1>1, <1>2, <1>5, <1>6, KeptStep

\* The special case of a step that only changes one row, of a delivery that was
\* announced, and neither takes it from who holds it nor closes it unapplied.
LEMMA TableStep ==
  ASSUME IInv, NEW e \in Events, NEW r \in RowType, row' = [row EXCEPT ![e] = r],
         UNCHANGED <<shopify, copy, feed, consumer, applied, skipped, takenBack, overlapped, loose>>,
         faults' \in 0 .. MaxFaults,
         r.status # "absent", feed[e].stage # "unsent",
         row[e].status = "processing" => r.status = "processing",
         r.status \in {"completed", "pruned"} => e \in applied \cup skipped
  PROVE  IInv'
<1>1. TypeOK'
  BY DEF IInv, TypeOK
<1>2. \A f \in Events : row'[f] = IF f = e THEN r ELSE row[f]
  BY DEF IInv, TypeOK
<1>3. FeedIsSound' /\ ClosedIsApplied'
  BY <1>2 DEF IInv, FeedIsSound, ClosedIsApplied
<1>4. ASSUME NEW c \in Consumers, Holding(consumer'[c]),
             row[consumer'[c].event].status = "processing"
      PROVE  row'[consumer'[c].event].status = "processing"
  <2>1. consumer[c].event \in Events
    BY <1>4, ConstantsAssumption
    DEF IInv, TypeOK, ConsumerType, MemoryIsSound, Holding, Working
  <2> QED
    BY <1>2, <1>4, <2>1
<1>5. HoldersAreAlone'
  BY <1>4, NoNewHolder
<1> QED
  BY <1>1, <1>2, <1>3, <1>5, KeptStep

-----------------------------------------------------------------------------
(* Shopify *)

\* An announcement concerns a delivery nobody has, and Shopify only goes forward.
LEMMA AnnounceKeeps ==
  ASSUME IInv, NEW e \in Events, Change(e) \/ Remove(e) \/ Garble(e)
  PROVE  IInv'
<1>1. /\ feed[e].stage = "unsent" /\ row[e].status = "absent"
      /\ UNCHANGED <<takenBack, copy, row, consumer, applied, skipped, overlapped, loose>>
      /\ faults' \in 0 .. MaxFaults
  BY MisfortuneType DEF IInv, TypeOK, FeedIsSound, Change, Remove, Garble, Announce
<1>2. PICK x \in Resources : x = ResourceOf[e]
  BY ConstantsAssumption
<1>3. /\ shopify' \in [Resources -> ShopifyType]
      /\ \A y \in Resources : /\ shopify[y].gone => shopify'[y].gone
                              /\ shopify[y].version <= shopify'[y].version
  <2>1. shopify \in [Resources -> ShopifyType] /\ MaxVersion \in Nat
    BY ConstantsAssumption DEF IInv, TypeOK
  <2>2. CASE Change(e)
    <3>1. /\ shopify[x].version < MaxVersion
          /\ shopify' = [shopify EXCEPT ![x].version = @ + 1]
      BY <2>2, <1>2 DEF Change
    <3> QED
      BY <2>1, <3>1 DEF ShopifyType
  <2>3. CASE Remove(e)
    <3>1. shopify' = [shopify EXCEPT ![x].gone = TRUE]
      BY <2>3, <1>2 DEF Remove
    <3>2. PICK now : now = [shopify[x] EXCEPT !.gone = TRUE]
      OBVIOUS
    <3>3. \A y \in ShopifyType : [y EXCEPT !.gone = TRUE] \in ShopifyType
      BY Zenon DEF ShopifyType
    <3>4. now \in ShopifyType /\ now.gone /\ now.version = shopify[x].version
      BY <2>1, <3>2, <3>3 DEF ShopifyType
    <3>5. shopify' = [shopify EXCEPT ![x] = now]
      BY <3>1, <3>2
    <3>6. \A y \in Resources : shopify[y].version \in Nat
      BY <2>1 DEF ShopifyType
    <3> QED
      BY <2>1, <3>4, <3>5, <3>6
  <2>4. CASE Garble(e)
    BY <2>1, <2>4 DEF Garble, ShopifyType
  <2> QED
    BY <2>2, <2>3, <2>4
<1>4. PICK kind \in Kinds :
        /\ feed' = [feed EXCEPT ![e] = [stage |-> "sent", kind |-> kind,
                                        version |-> shopify'[x].version]]
        /\ kind = "delete" => shopify'[x].gone
  <2>1. CASE Change(e)
    BY <2>1, <1>2 DEF Change, Announce, Kinds
  <2>2. CASE Garble(e)
    BY <2>2, <1>2 DEF Garble, Announce, Kinds
  <2>3. CASE Remove(e)
    <3>1. shopify'[x].gone
      BY <2>3, <1>2 DEF IInv, TypeOK, ShopifyType, Remove
    <3> QED
      BY <2>3, <1>2, <3>1 DEF Remove, Announce, Kinds
  <2> QED
    BY <2>1, <2>2, <2>3
<1>5. shopify'[x].version \in 0 .. MaxVersion
  BY <1>3 DEF ShopifyType
<1>6. /\ feed' \in [Events -> FeedType]
      /\ \A f \in Events \ {e} : feed'[f] = feed[f]
      /\ feed'[e] = [stage |-> "sent", kind |-> kind, version |-> shopify'[x].version]
  BY <1>4, <1>5 DEF IInv, TypeOK, FeedType
<1>7. TypeOK'
  BY <1>1, <1>3, <1>6 DEF IInv, TypeOK
<1>8. FeedIsSound'
  <2>1. ASSUME NEW f \in Events
        PROVE  /\ feed'[f].stage = "unsent" => row'[f].status = "absent"
               /\ feed'[f].stage = "acked" => row'[f].status # "absent"
               /\ feed'[f].version <= shopify'[ResourceOf[f]].version
               /\ feed'[f].kind = "delete" => shopify'[ResourceOf[f]].gone
    <3>1. CASE f = e
      BY <1>2, <1>4, <1>5, <1>6, <3>1
    <3>2. CASE f # e
      <4>1. ResourceOf[f] \in Resources
        BY ConstantsAssumption
      <4>2. /\ feed[f].version \in Nat /\ shopify[ResourceOf[f]].version \in Nat
            /\ shopify'[ResourceOf[f]].version \in Nat
        BY <4>1, <1>3, ConstantsAssumption DEF IInv, TypeOK, FeedType, ShopifyType
      <4> QED
        BY <1>1, <1>3, <1>6, <3>2, <4>1, <4>2 DEF IInv, FeedIsSound
    <3> QED
      BY <3>1, <3>2
  <2> QED
    BY <2>1 DEF FeedIsSound
<1>9. ClosedIsApplied' /\ HoldersAreAlone'
  BY <1>1 DEF IInv, ClosedIsApplied, HoldersAreAlone
<1> QED
  BY <1>1, <1>3, <1>6, <1>7, <1>8, <1>9, KeptStep

-----------------------------------------------------------------------------
(* The receipt *)

\* A receipt only adds a row that nobody holds.
LEMMA RecordAdds ==
  ASSUME IInv, NEW e \in Events, feed[e].stage # "unsent", Record(e)
  PROVE  /\ row' \in [Events -> RowType]
         /\ row'[e].status # "absent"
         /\ \A f \in Events : row'[f].status # row[f].status =>
              f = e /\ row[f].status = "absent" /\ row'[f].status = "queued"
<1>1. PICK r : r = [NoRow EXCEPT !.status = "queued", !.due = TRUE,
                      !.after = {f \in Events : row[f].status # "absent"}]
  OBVIOUS
<1>2. r \in RowType /\ r.status = "queued"
  BY <1>1 DEF NoRow, RowType, Statuses
<1>3. row \in [Events -> RowType]
  BY DEF IInv, TypeOK
<1>4. row' = IF row[e].status = "absent" THEN [row EXCEPT ![e] = r] ELSE row
  BY <1>1 DEF Record
<1> QED
  BY <1>2, <1>3, <1>4

\* The receipt and the immediate work that follows it keep the invariant.
LEMMA AcceptKeeps ==
  ASSUME IInv, NEW e \in Events, feed[e].stage \in {"sent", "acked"}, Accept(e),
         faults' \in 0 .. MaxFaults
  PROVE  IInv'
<1>1. /\ row' \in [Events -> RowType]
      /\ row'[e].status # "absent"
      /\ \A f \in Events : row'[f].status # row[f].status =>
           f = e /\ row[f].status = "absent" /\ row'[f].status = "queued"
  BY RecordAdds DEF Accept
<1>2. /\ feed' = [feed EXCEPT ![e].stage = "acked"]
      /\ UNCHANGED <<takenBack, shopify, copy, applied, skipped, overlapped, loose>>
  BY DEF Accept
<1>3. /\ feed' \in [Events -> FeedType]
      /\ \A f \in Events : /\ feed'[f].version = feed[f].version
                           /\ feed'[f].kind = feed[f].kind
                           /\ f # e => feed'[f].stage = feed[f].stage
      /\ feed'[e].stage = "acked"
  BY <1>2 DEF IInv, TypeOK, FeedType
<1>4. PICK m : m = [Off EXCEPT !.pc = "claim", !.event = e]
  OBVIOUS
<1>5. m \in ConsumerType /\ m.pc = "claim" /\ m.event = e /\ m.todo = {} /\ ~Holding(m)
  BY <1>4, LaunchedType DEF Off, Holding, Working
<1>6. /\ consumer' \in [Consumers -> ConsumerType]
      /\ \A c \in Consumers : consumer'[c] = consumer[c] \/ consumer'[c] = m
  BY <1>4, <1>5 DEF IInv, TypeOK, Accept, Launch, Update
<1>7. TypeOK'
  BY <1>1, <1>2, <1>3, <1>6 DEF IInv, TypeOK
<1>8. FeedIsSound'
  BY <1>1, <1>2, <1>3 DEF IInv, FeedIsSound
<1>9. ClosedIsApplied'
  BY <1>1, <1>2 DEF IInv, ClosedIsApplied
<1>10. MemoryIsSound(m)'
  BY <1>1, <1>5, ConstantsAssumption DEF MemoryIsSound
<1>11. ASSUME NEW c \in Consumers
       PROVE  consumer'[c] = consumer[c] \/ MemoryIsSound(consumer[c])'
  BY <1>6, <1>10, <1>11 DEF MemoryIsSound
<1>12. HoldersAreAlone'
  <2>1. \A c \in Consumers : Holding(consumer'[c]) => consumer'[c] = consumer[c]
    BY <1>5, <1>6
  <2>2. ASSUME NEW c \in Consumers, Holding(consumer'[c])
        PROVE  consumer'[c].event \in Events
    BY <1>6, <2>1, <2>2, ConstantsAssumption
    DEF IInv, ConsumerType, MemoryIsSound, Holding, Working
  <2> QED
    BY <1>1, <1>2, <2>1, <2>2, NoNewHolder
<1> QED
  BY <1>1, <1>2, <1>3, <1>7, <1>8, <1>9, <1>11, <1>12, KeptStep

\* So does a repeated delivery.
LEMMA ReceiveKeeps ==
  ASSUME IInv, NEW e \in Events, Receive(e) \/ Redeliver(e)
  PROVE  IInv'
<1>1. faults' \in 0 .. MaxFaults
  BY MisfortuneType DEF IInv, TypeOK, Receive, Redeliver
<1> QED
  BY <1>1, AcceptKeeps DEF Receive, Redeliver

\* And a receipt whose answer is lost.
LEMMA ReceiveFailsKeeps == ASSUME IInv, NEW e \in Events, ReceiveFails(e) PROVE IInv'
<1>1. feed[e].stage = "sent" /\ faults' \in 0 .. MaxFaults
  BY MisfortuneType DEF IInv, ReceiveFails
<1>2. /\ row' \in [Events -> RowType]
      /\ \A f \in Events : row'[f].status # row[f].status =>
           f = e /\ row[f].status = "absent" /\ row'[f].status = "queued"
  BY <1>1, RecordAdds DEF IInv, TypeOK, ReceiveFails
<1>3. UNCHANGED <<takenBack, shopify, copy, feed, consumer, applied, skipped, overlapped,
                 loose>>
  BY DEF ReceiveFails, world
<1>4. TypeOK'
  BY <1>1, <1>2, <1>3 DEF IInv, TypeOK
<1>5. FeedIsSound' /\ ClosedIsApplied'
  BY <1>1, <1>2, <1>3 DEF IInv, FeedIsSound, ClosedIsApplied
<1>6. ASSUME NEW c \in Consumers, Holding(consumer'[c]) PROVE consumer'[c].event \in Events
  BY <1>3, <1>6, ConstantsAssumption
  DEF IInv, TypeOK, ConsumerType, MemoryIsSound, Holding, Working
<1>7. HoldersAreAlone'
  BY <1>2, <1>3, <1>6, NoNewHolder
<1> QED
  BY <1>2, <1>3, <1>4, <1>5, <1>7, KeptStep

-----------------------------------------------------------------------------
(* The table between two invocations *)

\* Time, the pruning and the operator change one row, which nobody holds or which
\* stays in processing.
LEMMA TableKeeps ==
  ASSUME IInv, NEW e \in Events,
         BecomeDue(e) \/ GrowStale(e) \/ Outlive(e) \/ Prune(e) \/ Replay(e)
  PROVE  IInv'
<1>1. row[e].status # "absent" /\ feed[e].stage # "unsent"
  BY DEF IInv, FeedIsSound, BecomeDue, GrowStale, Outlive, Prune, Replay
<1>2. faults' \in 0 .. MaxFaults
  BY MisfortuneType DEF IInv, TypeOK, BecomeDue, GrowStale, Outlive, Prune, Replay
<1>3. /\ UNCHANGED <<shopify, copy, feed, consumer, applied, skipped, takenBack, overlapped, loose>>
      /\ row[e] \in RowType
  BY DEF IInv, TypeOK, BecomeDue, GrowStale, Outlive, Prune, Replay, world
<1>4. CASE BecomeDue(e)
  <2>1. PICK r : r = [row[e] EXCEPT !.due = TRUE]
    OBVIOUS
  <2>2. /\ r \in RowType /\ r.status = "queued" /\ row' = [row EXCEPT ![e] = r]
        /\ row[e].status = "queued"
    BY <1>3, <1>4, <2>1 DEF BecomeDue, RowType
  <2> QED
    BY <1>1, <1>2, <1>3, <2>2, TableStep
<1>5. CASE GrowStale(e) \/ Outlive(e)
  <2>1. PICK r : r = [row[e] EXCEPT !.stale = TRUE]
    OBVIOUS
  <2>2. r \in RowType /\ r.status = "processing" /\ row' = [row EXCEPT ![e] = r]
    BY <1>3, <1>5, <2>1 DEF GrowStale, Outlive, RowType
  <2> QED
    BY <1>1, <1>2, <1>3, <2>2, TableStep
<1>6. CASE Prune(e)
  <2>1. PICK r : r = [NoRow EXCEPT !.status = "pruned", !.after = row[e].after]
    OBVIOUS
  <2>2. /\ r \in RowType /\ r.status = "pruned" /\ row' = [row EXCEPT ![e] = r]
        /\ row[e].status = "completed"
    BY <1>3, <1>6, <2>1 DEF Prune, RowType, NoRow, Statuses
  <2>3. e \in applied \cup skipped
    BY <2>2 DEF IInv, ClosedIsApplied
  <2> QED
    BY <1>1, <1>2, <1>3, <2>2, <2>3, TableStep
<1>7. CASE Replay(e)
  <2>1. PICK r : r = [row[e] EXCEPT !.status = "queued", !.attempts = 0, !.due = TRUE]
    OBVIOUS
  <2>2. /\ r \in RowType /\ r.status = "queued" /\ row' = [row EXCEPT ![e] = r]
        /\ row[e].status = "dead_letter"
    BY <1>3, <1>7, <2>1 DEF Replay, RowType, Statuses
  <2> QED
    BY <1>1, <1>2, <1>3, <2>2, TableStep
<1> QED
  BY <1>4, <1>5, <1>6, <1>7

-----------------------------------------------------------------------------
(* The drain *)

\* An invocation that works has an event, whose row was recorded.
LEMMA BusyMemory ==
  ASSUME IInv, NEW c \in Consumers, consumer[c].pc \notin {"off", "loop"}
  PROVE  /\ consumer[c] \in ConsumerType
         /\ consumer[c].event \in Events
         /\ Target(c) \in Resources
         /\ row[consumer[c].event].status # "absent"
         /\ \A e \in consumer[c].todo : row[e].status # "absent"
<1>1. consumer[c] \in ConsumerType /\ MemoryIsSound(consumer[c])
  BY DEF IInv, TypeOK
<1>2. consumer[c].event \in Events
  BY <1>1 DEF ConsumerType, MemoryIsSound
<1>3. consumer[c].event # NoEvent
  BY <1>2, ConstantsAssumption
<1> QED
  BY <1>1, <1>2, <1>3, ConstantsAssumption DEF MemoryIsSound, Target

\* A drain lists rows that were recorded.
LEMMA StartDrainKeeps == ASSUME IInv, NEW c \in Consumers, StartDrain(c) PROVE IInv'
<1>1. PICK stuck \in SUBSET Events :
        consumer' = [consumer EXCEPT ![c] =
          [Off EXCEPT !.pc = "loop", !.drains = TRUE, !.todo = ReadyList, !.stuck = stuck]]
  BY DEF StartDrain, Update, ReadyList
<1>2. PICK m : m = [Off EXCEPT !.pc = "loop", !.drains = TRUE, !.todo = ReadyList,
                               !.stuck = stuck]
  OBVIOUS
<1>3. ReadyList \in SUBSET Events /\ \A e \in ReadyList : row[e].status # "absent"
  BY DEF ReadyList, Ready
<1>4. m \in ConsumerType
  <2>1. "loop" \in PCs
    BY DEF PCs
  <2>2. [Off EXCEPT !.pc = "loop", !.drains = TRUE] \in ConsumerType
    BY <2>1, OffType, FieldTypes
  <2>3. [Off EXCEPT !.pc = "loop", !.drains = TRUE, !.todo = ReadyList] \in ConsumerType
    BY <1>3, <2>2, FieldTypes
  <2> QED
    BY <1>2, <2>3, FieldTypes
<1>5. m.pc = "loop" /\ m.event = NoEvent /\ m.todo = ReadyList /\ ~Holding(m)
  BY <1>2 DEF Off, Holding, Working
<1>6. /\ UNCHANGED <<shopify, feed, row, takenBack, applied, skipped, copy, overlapped, loose, faults>>
      /\ consumer' = [consumer EXCEPT ![c] = m]
  BY <1>1, <1>2 DEF StartDrain, world
<1>7. MemoryIsSound(m)'
  BY <1>3, <1>5, <1>6 DEF MemoryIsSound
<1> QED
  BY <1>4, <1>5, <1>6, <1>7, MemoryStep DEF IInv, TypeOK

\* An invocation that stops keeps nothing.
LEMMA StopKeeps == ASSUME IInv, NEW c \in Consumers, EndDrain(c) \/ Crash(c) PROVE IInv'
<1>1. /\ UNCHANGED <<shopify, feed, row, takenBack, applied, skipped, copy, overlapped, loose>>
      /\ faults' \in 0 .. MaxFaults
      /\ consumer' = [consumer EXCEPT ![c] = Off]
  BY MisfortuneType DEF IInv, TypeOK, EndDrain, Crash, Update, world
<1>2. PICK m : m = Off
  OBVIOUS
<1>3. m \in ConsumerType /\ m.pc = "off" /\ m.event = NoEvent /\ m.todo = {} /\ ~Holding(m)
  BY <1>2, OffType DEF Off, Holding, Working
<1>4. MemoryIsSound(m)'
  BY <1>3 DEF MemoryIsSound
<1> QED
  BY <1>1, <1>2, <1>3, <1>4, MemoryStep DEF IInv, TypeOK

\* A drain takes the next row of its list, which was recorded.
LEMMA NextInListKeeps ==
  ASSUME IInv, NEW c \in Consumers, NEW e \in Events, NextInList(c, e)
  PROVE  IInv'
<1>1. PICK n \in ConsumerType : n = consumer[c]
  BY DEF IInv, TypeOK
<1>2. n.pc = "loop" /\ e \in n.todo /\ MemoryIsSound(n)
  BY <1>1 DEF IInv, NextInList
<1>3. PICK pc \in {"reset", "claim"} :
        consumer' = [consumer EXCEPT ![c] =
          [n EXCEPT !.pc = pc, !.event = e, !.todo = n.todo \ {e}, !.stuck = n.stuck \ {e}]]
  BY <1>1 DEF NextInList, Update
<1>4. PICK m : m = [n EXCEPT !.pc = pc, !.event = e, !.todo = n.todo \ {e},
                             !.stuck = n.stuck \ {e}]
  OBVIOUS
<1>5. m \in ConsumerType
  <2>1. pc \in PCs
    BY DEF PCs
  <2>2. n.todo \in SUBSET Events /\ n.stuck \in SUBSET Events
    BY DEF ConsumerType
  <2>3. [n EXCEPT !.pc = pc, !.event = e] \in ConsumerType
    BY <2>1, FieldTypes
  <2>4. n.todo \ {e} \in SUBSET Events /\ n.stuck \ {e} \in SUBSET Events
    BY <2>2
  <2>5. [n EXCEPT !.pc = pc, !.event = e, !.todo = n.todo \ {e}] \in ConsumerType
    BY <2>3, <2>4, FieldTypes
  <2> QED
    BY <1>4, <2>4, <2>5, FieldTypes
<1>6. m.pc = pc /\ m.event = e /\ m.todo = n.todo \ {e} /\ ~Holding(m)
  BY <1>4 DEF ConsumerType, Holding, Working
<1>7. /\ UNCHANGED <<shopify, feed, row, takenBack, applied, skipped, copy, overlapped, loose, faults>>
      /\ consumer' = [consumer EXCEPT ![c] = m]
  BY <1>3, <1>4 DEF NextInList, world
<1>8. MemoryIsSound(m)'
  BY <1>2, <1>6, <1>7, ConstantsAssumption DEF MemoryIsSound
<1> QED
  BY <1>5, <1>6, <1>7, <1>8, MemoryStep DEF IInv, TypeOK

-----------------------------------------------------------------------------
(* The processors *)

\* A processor that ends well, on a fresh reading, deserves its outcome.
LEMMA AppliedKeeps ==
  ASSUME IInv, NEW c \in Consumers, consumer[c].pc \in Working,
         Fresh(c), Apply(c), Ends(c, "done"),
         UNCHANGED <<shopify, feed, row, takenBack, skipped>>,
         copy' \in [Resources -> CopyType], overlapped' \subseteq Resources,
         loose' \subseteq Resources, faults' \in 0 .. MaxFaults
  PROVE  IInv'
<1>1. PICK n \in ConsumerType : n = consumer[c]
  BY DEF IInv, TypeOK
<1>2. /\ n.event \in Events /\ row[n.event].status # "absent"
      /\ \A e \in n.todo : row[e].status # "absent"
  BY <1>1, BusyMemory DEF Working
<1>3. PICK m : m = [n EXCEPT !.pc = "conclude", !.read = 0, !.out = "done"]
  OBVIOUS
<1>4. m \in ConsumerType
  BY <1>3, EndsType DEF Outcomes
<1>5. m.pc = "conclude" /\ m.event = n.event /\ m.todo = n.todo
  BY <1>3 DEF ConsumerType
<1>6. applied' = applied \cup {n.event}
  BY <1>1 DEF Apply
<1>7. consumer' = [consumer EXCEPT ![c] = m]
  BY <1>1, <1>3 DEF Ends, Update
<1>8. MemoryIsSound(m)'
  BY <1>2, <1>5, <1>6, ConstantsAssumption DEF MemoryIsSound
<1>9. Holding(m) => Holding(consumer[c]) /\ m.event = consumer[c].event
  BY <1>1, <1>5 DEF Holding
<1>10. applied \subseteq applied' /\ applied' \subseteq Events
  BY <1>2, <1>6 DEF IInv, TypeOK
<1> QED
  BY <1>4, <1>7, <1>8, <1>9, <1>10, MemoryStep

\* A processor that goes to its next step knows what that step relies on.
LEMMA WorkingKeeps ==
  ASSUME IInv, NEW c \in Consumers, NEW m \in ConsumerType, Holding(consumer[c]),
         m.event = consumer[c].event, m.todo = consumer[c].todo,
         m.pc \in Working \cup {"conclude"},
         m.pc \in {"order", "parts", "sweep"} => m.read >= feed[m.event].version,
         m.pc \in {"wipeParts", "wipeOrder"} => shopify[ResourceOf[m.event]].gone,
         m.pc = "conclude" => m.out # "done",
         consumer' = [consumer EXCEPT ![c] = m],
         UNCHANGED <<shopify, feed, row, takenBack, applied, skipped>>,
         copy' \in [Resources -> CopyType], overlapped' \subseteq Resources,
         loose' \subseteq Resources, faults' \in 0 .. MaxFaults
  PROVE  IInv'
<1>1. /\ m.event \in Events /\ row[m.event].status # "absent"
      /\ \A e \in m.todo : row[e].status # "absent"
  BY BusyMemory DEF Holding, Working
<1>2. MemoryIsSound(m)'
  BY <1>1, ConstantsAssumption DEF MemoryIsSound, Working
<1>3. applied' \subseteq Events
  BY DEF IInv, TypeOK
<1> QED
  BY <1>2, <1>3, MemoryStep

\* An invocation that lets its event go keeps nothing of it.
LEMMA ReleasedSound ==
  ASSUME IInv, NEW c \in Consumers, consumer[c].pc \notin {"off", "loop"},
         NEW m, m = Released(c)
  PROVE  /\ m \in ConsumerType
         /\ ~Holding(m)
         /\ m.event = NoEvent /\ m.pc \in {"off", "loop"}
         /\ \A e \in m.todo : row[e].status # "absent"
  BY ReleasedType, BusyMemory DEF IInv, Holding, Working

\* The load of a row: it finds nothing, a body it cannot read, or a processor.
LEMMA LoadKeeps == ASSUME IInv, NEW c \in Consumers, Load(c) PROVE IInv'
<1>1. PICK n \in ConsumerType : n = consumer[c]
  BY DEF IInv, TypeOK
<1>2. /\ n.pc = "load" /\ n.event \in Events /\ row[n.event] \in RowType
      /\ feed[n.event] \in FeedType /\ Target(c) \in Resources /\ Holding(consumer[c])
  BY <1>1, BusyMemory DEF Load, IInv, TypeOK, Holding
<1>3. UNCHANGED <<takenBack, shopify, copy, loose, feed, row, applied, skipped, faults>>
  BY DEF Load
<1>4. copy' \in [Resources -> CopyType] /\ loose' \subseteq Resources
      /\ applied' \subseteq Events /\ faults' \in 0 .. MaxFaults
  BY <1>3 DEF IInv, TypeOK
<1>5. PICK loaded : loaded = [n EXCEPT !.seen = row[n.event].attempts]
  OBVIOUS
<1>6. loaded \in ConsumerType /\ loaded.event = n.event /\ loaded.todo = n.todo
  <2>1. row[n.event].attempts \in Nat
    BY <1>2 DEF RowType
  <2> QED
    BY <1>5, <2>1, FieldTypes DEF ConsumerType
<1>7. CASE row[n.event].status \notin InTable
  <2>1. PICK m : m = Released(c)
    OBVIOUS
  <2>2. consumer' = [consumer EXCEPT ![c] = m] /\ UNCHANGED overlapped
    BY <1>1, <1>7, <2>1 DEF Load, Update
  <2>3. /\ m \in ConsumerType /\ ~Holding(m) /\ m.event = NoEvent
        /\ m.pc \in {"off", "loop"} /\ \A e \in m.todo : row[e].status # "absent"
    BY <1>1, <1>2, <2>1, ReleasedSound
  <2>4. MemoryIsSound(m)'
    BY <1>3, <2>3 DEF MemoryIsSound
  <2>5. overlapped' \subseteq Resources
    BY <2>2 DEF IInv, TypeOK
  <2> QED
    BY <1>3, <1>4, <2>2, <2>3, <2>4, <2>5, MemoryStep
<1>8. CASE row[n.event].status \in InTable /\ feed[n.event].kind = "unreadable"
  <2>1. PICK m : m = [loaded EXCEPT !.pc = "conclude", !.out = "dead_letter"]
    OBVIOUS
  <2>2. consumer' = [consumer EXCEPT ![c] = m] /\ UNCHANGED overlapped
    BY <1>1, <1>5, <1>8, <2>1 DEF Load, Update
  <2>3. "conclude" \in PCs /\ "dead_letter" \in Outcomes
    BY DEF PCs, Outcomes
  <2>4. [loaded EXCEPT !.pc = "conclude"] \in ConsumerType
    BY <1>6, <2>3, FieldTypes
  <2>5. m \in ConsumerType
    BY <2>1, <2>3, <2>4, FieldTypes
  <2>6. m.pc = "conclude" /\ m.out = "dead_letter" /\ m.event = n.event /\ m.todo = n.todo
    BY <1>6, <2>1 DEF ConsumerType
  <2>7. overlapped' \subseteq Resources
    BY <2>2 DEF IInv, TypeOK
  <2> QED
    BY <1>1, <1>2, <1>3, <1>4, <2>2, <2>5, <2>6, <2>7, WorkingKeeps
<1>9. CASE row[n.event].status \in InTable /\ feed[n.event].kind # "unreadable"
  <2>1. PICK pc : pc = IF feed[n.event].kind = "upsert" THEN "read" ELSE "wipeParts"
    OBVIOUS
  <2>2. PICK m : m = [loaded EXCEPT !.pc = pc]
    OBVIOUS
  <2>3. /\ consumer' = [consumer EXCEPT ![c] = m]
        /\ overlapped' = overlapped \cup (IF BusyWith(Target(c)) THEN {Target(c)} ELSE {})
    BY <1>1, <1>5, <1>9, <2>1, <2>2 DEF Load, Update
  <2>4. pc \in PCs /\ pc \in {"read", "wipeParts"}
    BY <2>1 DEF PCs, Working
  <2>5. m \in ConsumerType
    BY <1>6, <2>2, <2>4, FieldTypes
  <2>6. m.pc = pc /\ m.event = n.event /\ m.todo = n.todo
    BY <1>6, <2>2 DEF ConsumerType
  <2>7. overlapped' \subseteq Resources
    BY <1>2, <2>3 DEF IInv, TypeOK
  <2>8. pc = "wipeParts" => feed[n.event].kind = "delete"
    BY <1>2, <1>9, <2>1 DEF FeedType, Kinds
  <2>9. m.pc \in {"wipeParts", "wipeOrder"} => shopify[ResourceOf[m.event]].gone
    BY <1>2, <2>4, <2>6, <2>8 DEF IInv, FeedIsSound
  <2> QED
    BY <1>1, <1>2, <1>3, <1>4, <2>3, <2>4, <2>5, <2>6, <2>7, <2>9, WorkingKeeps DEF Working
<1> QED
  BY <1>7, <1>8, <1>9

\* A resource that is read is not older than the change that was announced.
LEMMA ReadKeeps == ASSUME IInv, NEW c \in Consumers, Read(c) PROVE IInv'
<1>1. PICK n \in ConsumerType : n = consumer[c]
  BY DEF IInv, TypeOK
<1>2. /\ n.pc = "read" /\ n.event \in Events /\ Target(c) \in Resources
      /\ Target(c) = ResourceOf[n.event] /\ Holding(consumer[c])
  BY <1>1, BusyMemory DEF Read, Holding, Working, Target
<1>3. /\ UNCHANGED <<shopify, feed, row, takenBack, skipped>>
      /\ copy' \in [Resources -> CopyType] /\ overlapped' \subseteq Resources
      /\ loose' \subseteq Resources /\ faults' \in 0 .. MaxFaults
  BY DEF Read, IInv, TypeOK, world
<1>4. CASE shopify[Target(c)].gone
  BY <1>1, <1>2, <1>3, <1>4, AppliedKeeps DEF Read, Fresh, Working
<1>5. CASE ~shopify[Target(c)].gone
  <2>1. PICK pc : pc = IF shopify[Target(c)].shape = "order" THEN "order" ELSE "parts"
    OBVIOUS
  <2>2. PICK m : m = [n EXCEPT !.pc = pc, !.read = shopify[Target(c)].version]
    OBVIOUS
  <2>3. consumer' = [consumer EXCEPT ![c] = m] /\ UNCHANGED applied
    BY <1>1, <1>5, <2>1, <2>2 DEF Read, Update
  <2>4. /\ pc \in PCs /\ pc \in {"order", "parts"}
        /\ shopify[Target(c)].version \in 0 .. MaxVersion
    BY <1>2, <2>1 DEF PCs, Working, IInv, TypeOK, ShopifyType
  <2>5. [n EXCEPT !.pc = pc] \in ConsumerType
    BY <2>4, FieldTypes
  <2>6. m \in ConsumerType
    BY <2>2, <2>4, <2>5, FieldTypes
  <2>7. /\ m.pc = pc /\ m.event = n.event /\ m.todo = n.todo
        /\ m.read = shopify[Target(c)].version
    BY <2>2 DEF ConsumerType
  <2>8. m.read >= feed[m.event].version
    <3>1. feed[n.event].version <= shopify[Target(c)].version
      BY <1>2 DEF IInv, FeedIsSound
    <3>2. feed[n.event].version \in Nat
      <4>1. feed[n.event] \in FeedType
        BY <1>2 DEF IInv, TypeOK
      <4>2. feed[n.event].version \in 0 .. MaxVersion
        BY <4>1 DEF FeedType
      <4> QED
        BY <4>2, ConstantsAssumption
    <3>3. feed[m.event].version <= m.read /\ m.read \in Nat
      BY <2>4, <2>7, <3>1, ConstantsAssumption
    <3>4. feed[m.event].version \in Nat
      BY <2>7, <3>2
    <3> QED
      BY <3>3, <3>4
  <2> QED
    BY <1>1, <1>2, <1>3, <2>3, <2>4, <2>6, <2>7, <2>8, WorkingKeeps DEF Working
<1> QED
  BY <1>4, <1>5

\* The merchant database takes what was read: for every resource and value.
LEMMA CopyFields ==
  ASSUME NEW y \in CopyType
  PROVE  /\ \A v \in 0 .. MaxVersion : [y EXCEPT !.order = v] \in CopyType
         /\ \A v \in SUBSET (0 .. MaxVersion) : [y EXCEPT !.parts = v] \in CopyType
<1>1. \A v \in 0 .. MaxVersion : [y EXCEPT !.order = v] \in CopyType
  BY Zenon DEF CopyType
<1>2. \A v \in SUBSET (0 .. MaxVersion) : [y EXCEPT !.parts = v] \in CopyType
  BY Zenon DEF CopyType
<1> QED
  BY <1>1, <1>2

\* A write is followed by the next step of the same processor.
LEMMA WriteKeeps ==
  ASSUME IInv, NEW c \in Consumers, WriteOrder(c) \/ WriteParts(c)
  PROVE  IInv'
<1>1. PICK n \in ConsumerType : n = consumer[c]
  BY DEF IInv, TypeOK
<1>2. /\ n.pc \in {"order", "parts"} /\ n.event \in Events /\ Target(c) \in Resources
      /\ Holding(consumer[c]) /\ MemoryIsSound(n)
  BY <1>1, BusyMemory DEF WriteOrder, WriteParts, Holding, Working, IInv
<1>3. UNCHANGED <<takenBack, shopify, overlapped, loose, feed, row, applied, skipped, faults>>
  BY DEF WriteOrder, WriteParts
<1>4. PICK pc \in {"parts", "sweep"} : consumer' = [consumer EXCEPT ![c] = [n EXCEPT !.pc = pc]]
  BY <1>1 DEF WriteOrder, WriteParts, Goto, Update
<1>5. PICK m : m = [n EXCEPT !.pc = pc]
  OBVIOUS
<1>6. m \in ConsumerType
  BY <1>5, FieldTypes DEF PCs, Working
<1>7. m.pc = pc /\ m.event = n.event /\ m.todo = n.todo /\ m.read = n.read
  BY <1>5 DEF ConsumerType
<1>8. m.read >= feed[m.event].version
  BY <1>2, <1>7 DEF MemoryIsSound
<1>9. copy' \in [Resources -> CopyType]
  <2>1. PICK y \in CopyType : y = copy[Target(c)]
    BY <1>2 DEF IInv, TypeOK
  <2>2. n.read \in 0 .. MaxVersion
    BY DEF ConsumerType
  <2>3. y.parts \cup {n.read} \in SUBSET (0 .. MaxVersion)
    BY <2>2 DEF CopyType
  <2>4. CASE WriteOrder(c)
    <3>1. copy' = [copy EXCEPT ![Target(c)] = [y EXCEPT !.order = n.read]]
      BY <1>1, <2>1, <2>4 DEF WriteOrder
    <3> QED
      BY <2>2, <3>1, CopyFields DEF IInv, TypeOK
  <2>5. CASE WriteParts(c)
    <3>1. copy' = [copy EXCEPT ![Target(c)] = [y EXCEPT !.parts = y.parts \cup {n.read}]]
      BY <1>1, <2>1, <2>5 DEF WriteParts
    <3> QED
      BY <2>3, <3>1, CopyFields DEF IInv, TypeOK
  <2> QED
    BY <2>4, <2>5
<1>10. /\ overlapped' \subseteq Resources /\ loose' \subseteq Resources
       /\ faults' \in 0 .. MaxFaults
  BY <1>3 DEF IInv, TypeOK
<1>11. consumer' = [consumer EXCEPT ![c] = m]
  BY <1>4, <1>5
<1> QED
  BY <1>1, <1>2, <1>3, <1>6, <1>7, <1>8, <1>9, <1>10, <1>11, WorkingKeeps DEF Working

\* The last step of an upsert, done or left out, ends on a fresh reading.
LEMMA SweepKeeps ==
  ASSUME IInv, NEW c \in Consumers, Sweep(c) \/ LeaveParts(c)
  PROVE  IInv'
<1>1. PICK n \in ConsumerType : n = consumer[c]
  BY DEF IInv, TypeOK
<1>2. n.pc = "sweep" /\ Target(c) \in Resources /\ MemoryIsSound(n)
  BY <1>1, BusyMemory DEF Sweep, LeaveParts, IInv
<1>3. Fresh(c) /\ consumer[c].pc \in Working
  BY <1>1, <1>2 DEF MemoryIsSound, Fresh, Working
<1>4. copy' \in [Resources -> CopyType]
  <2>1. PICK y \in CopyType : y = copy[Target(c)]
    BY <1>2 DEF IInv, TypeOK
  <2>2. y.parts \cap {n.read} \in SUBSET (0 .. MaxVersion)
    BY DEF CopyType
  <2>3. CASE Sweep(c)
    <3>1. copy' = [copy EXCEPT ![Target(c)] = [y EXCEPT !.parts = y.parts \cap {n.read}]]
      BY <1>1, <2>1, <2>3 DEF Sweep
    <3> QED
      BY <2>2, <3>1, CopyFields DEF IInv, TypeOK
  <2>4. CASE LeaveParts(c)
    BY <2>4 DEF LeaveParts, IInv, TypeOK
  <2> QED
    BY <2>3, <2>4
<1>5. overlapped' \subseteq Resources /\ loose' \subseteq Resources
      /\ faults' \in 0 .. MaxFaults
  BY <1>2, MisfortuneType DEF Sweep, LeaveParts, IInv, TypeOK
<1> QED
  BY <1>3, <1>4, <1>5, AppliedKeeps DEF Sweep, LeaveParts

\* A deletion is only worked when the resource is gone.
LEMMA WipeKeeps ==
  ASSUME IInv, NEW c \in Consumers, WipeParts(c) \/ WipeOrder(c)
  PROVE  IInv'
<1>1. PICK n \in ConsumerType : n = consumer[c]
  BY DEF IInv, TypeOK
<1>2. /\ n.pc \in {"wipeParts", "wipeOrder"} /\ Target(c) \in Resources /\ MemoryIsSound(n)
      /\ n.event \in Events /\ Target(c) = ResourceOf[n.event] /\ Holding(consumer[c])
  BY <1>1, BusyMemory DEF WipeParts, WipeOrder, IInv, Target, Holding, Working
<1>3. Fresh(c) /\ consumer[c].pc \in Working /\ shopify[ResourceOf[n.event]].gone
  BY <1>1, <1>2 DEF MemoryIsSound, Fresh, Working
<1>4. copy' \in [Resources -> CopyType]
  <2>1. PICK y \in CopyType : y = copy[Target(c)]
    BY <1>2 DEF IInv, TypeOK
  <2>2. {} \in SUBSET (0 .. MaxVersion) /\ 0 \in 0 .. MaxVersion
    BY ConstantsAssumption
  <2>3. CASE WipeParts(c)
    <3>1. copy' = [copy EXCEPT ![Target(c)] = [y EXCEPT !.parts = {}]]
      BY <2>1, <2>3 DEF WipeParts
    <3> QED
      BY <2>2, <3>1, CopyFields DEF IInv, TypeOK
  <2>4. CASE WipeOrder(c)
    <3>1. copy' = [copy EXCEPT ![Target(c)] = [y EXCEPT !.order = 0]]
      BY <2>1, <2>4 DEF WipeOrder
    <3> QED
      BY <2>2, <3>1, CopyFields DEF IInv, TypeOK
  <2> QED
    BY <2>3, <2>4
<1>5. /\ UNCHANGED <<takenBack, skipped, shopify, overlapped, loose, feed, row, faults>>
      /\ overlapped' \subseteq Resources /\ loose' \subseteq Resources
      /\ faults' \in 0 .. MaxFaults
  BY DEF WipeParts, WipeOrder, IInv, TypeOK
<1>6. CASE Ends(c, "done") /\ Apply(c)
  BY <1>3, <1>4, <1>5, <1>6, AppliedKeeps
<1>7. CASE Goto(c, "wipeOrder") /\ UNCHANGED applied
  <2>1. PICK m : m = [n EXCEPT !.pc = "wipeOrder"]
    OBVIOUS
  <2>2. m \in ConsumerType
    BY <2>1, FieldTypes DEF PCs, Working
  <2>3. m.pc = "wipeOrder" /\ m.event = n.event /\ m.todo = n.todo
    BY <2>1 DEF ConsumerType
  <2>4. consumer' = [consumer EXCEPT ![c] = m]
    BY <1>1, <1>7, <2>1 DEF Goto, Update
  <2> QED
    BY <1>1, <1>2, <1>3, <1>4, <1>5, <1>7, <2>2, <2>3, <2>4, WorkingKeeps DEF Working
<1> QED
  BY <1>6, <1>7 DEF WipeParts, WipeOrder

\* A call that fails gives the delivery back to be tried again.
LEMMA StepFailsKeeps == ASSUME IInv, NEW c \in Consumers, StepFails(c) PROVE IInv'
<1>1. PICK n \in ConsumerType : n = consumer[c]
  BY DEF IInv, TypeOK
<1>2. PICK m : m = [n EXCEPT !.pc = "conclude", !.read = 0, !.out = "retry"]
  OBVIOUS
<1>3. m \in ConsumerType
  BY <1>2, EndsType DEF Outcomes
<1>4. m.pc = "conclude" /\ m.event = n.event /\ m.todo = n.todo /\ m.out = "retry"
  BY <1>2 DEF ConsumerType
<1>5. consumer' = [consumer EXCEPT ![c] = m] /\ Holding(consumer[c])
  BY <1>1, <1>2 DEF StepFails, Ends, Update, Holding
<1>6. /\ UNCHANGED <<shopify, feed, row, takenBack, applied, skipped>>
      /\ copy' \in [Resources -> CopyType] /\ overlapped' \subseteq Resources
      /\ loose' \subseteq Resources /\ faults' \in 0 .. MaxFaults
  BY MisfortuneType DEF StepFails, IInv, TypeOK, world
<1> QED
  BY <1>1, <1>3, <1>4, <1>5, <1>6, WorkingKeeps DEF Working

\* A delivery that is skipped is remembered as skipped.
LEMMA SkipKeeps == ASSUME IInv, NEW c \in Consumers, Skip(c) PROVE IInv'
<1>1. PICK n \in ConsumerType : n = consumer[c]
  BY DEF IInv, TypeOK
<1>2. /\ n.pc \in Working /\ n.event \in Events /\ row[n.event].status # "absent"
      /\ \A e \in n.todo : row[e].status # "absent"
  BY <1>1, BusyMemory DEF Skip, Working
<1>3. PICK m : m = [n EXCEPT !.pc = "conclude", !.read = 0, !.out = "done"]
  OBVIOUS
<1>4. m \in ConsumerType
  BY <1>3, EndsType DEF Outcomes
<1>5. m.pc = "conclude" /\ m.event = n.event /\ m.todo = n.todo
  BY <1>3 DEF ConsumerType
<1>6. /\ skipped' = skipped \cup {n.event}
      /\ consumer' = [consumer EXCEPT ![c] = m]
      /\ UNCHANGED <<takenBack, shopify, copy, overlapped, loose, feed, row, applied>>
  BY <1>1, <1>3 DEF Skip, Ends, Update
<1>7. /\ copy' \in [Resources -> CopyType] /\ overlapped' \subseteq Resources
      /\ loose' \subseteq Resources /\ applied' \subseteq Events
      /\ faults' \in 0 .. MaxFaults
  BY <1>6, MisfortuneType DEF Skip, IInv, TypeOK
<1>8. MemoryIsSound(m)'
  BY <1>2, <1>5, <1>6, ConstantsAssumption DEF MemoryIsSound
<1>9. Holding(m) => Holding(consumer[c]) /\ m.event = consumer[c].event
  BY <1>1, <1>2, <1>5 DEF Holding
<1>10. /\ applied \subseteq applied' /\ skipped \subseteq skipped'
       /\ skipped' \subseteq skipped \cup Events
  BY <1>2, <1>6
<1> QED
  BY <1>4, <1>6, <1>7, <1>8, <1>9, <1>10, MemoryStep

-----------------------------------------------------------------------------
(* The steps that take a row or give it up *)

\* A row that a drain puts back is remembered as taken back.
LEMMA ResetKeeps == ASSUME IInv, NEW c \in Consumers, Reset(c) PROVE IInv'
<1>1. PICK n \in ConsumerType : n = consumer[c]
  BY DEF IInv, TypeOK
<1>2. /\ n.pc = "reset" /\ n.event \in Events /\ row[n.event].status # "absent"
      /\ \A e \in n.todo : row[e].status # "absent"
  BY <1>1, BusyMemory DEF Reset
<1>3. /\ row' \in [Events -> RowType]
      /\ \A e \in Events : row'[e].status # row[e].status =>
           e = n.event /\ row[e].status = "processing" /\ row'[e].status = "queued"
                       /\ e \in takenBack'
      /\ takenBack \subseteq takenBack' /\ takenBack' \subseteq Events
  <2>1. PICK r : r = [row[n.event] EXCEPT !.status = "queued", !.stale = FALSE]
    OBVIOUS
  <2>2. row \in [Events -> RowType] /\ takenBack \subseteq Events
    BY DEF IInv, TypeOK
  <2>3. r \in RowType /\ r.status = "queued"
    <3>1. row[n.event] \in RowType /\ "queued" \in Statuses
      BY <1>2, <2>2 DEF Statuses
    <3>2. [row[n.event] EXCEPT !.status = "queued"] \in RowType
      BY <3>1, RowFields
    <3>3. r \in RowType
      BY <2>1, <3>2, RowFields
    <3> QED
      BY <2>1, <3>1, <3>3 DEF RowType
  <2>4. CASE row[n.event].status = "processing"
    <3>1. row' = [row EXCEPT ![n.event] = r] /\ takenBack' = takenBack \cup {n.event}
      BY <1>1, <2>1, <2>4 DEF Reset
    <3> QED
      BY <1>2, <2>2, <2>3, <2>4, <3>1
  <2>5. CASE row[n.event].status # "processing"
    BY <1>1, <2>2, <2>5 DEF Reset
  <2> QED
    BY <2>4, <2>5
<1>4. UNCHANGED <<shopify, copy, overlapped, loose, feed, applied, skipped, faults>>
  BY DEF Reset, world
<1>5. PICK m : m = [n EXCEPT !.pc = "claim"]
  OBVIOUS
<1>6. /\ m \in ConsumerType /\ m.pc = "claim" /\ m.event = n.event /\ m.todo = n.todo
      /\ ~Holding(m)
  <2>1. m \in ConsumerType
    BY <1>5, FieldTypes DEF PCs
  <2> QED
    BY <1>5, <2>1 DEF ConsumerType, Holding, Working
<1>7. \A d \in Consumers : consumer'[d] = IF d = c THEN m ELSE consumer[d]
  BY <1>1, <1>5 DEF Reset, Goto, Update, IInv, TypeOK
<1>8. TypeOK'
  <2>1. consumer' \in [Consumers -> ConsumerType]
    BY <1>1, <1>5, <1>6 DEF Reset, Goto, Update, IInv, TypeOK
  <2> QED
    BY <1>3, <1>4, <2>1 DEF IInv, TypeOK
<1>9. FeedIsSound' /\ ClosedIsApplied'
  BY <1>3, <1>4 DEF IInv, FeedIsSound, ClosedIsApplied
<1>10. MemoryIsSound(m)'
  BY <1>2, <1>3, <1>6, ConstantsAssumption DEF MemoryIsSound, ConsumerType
<1>11. ASSUME NEW d \in Consumers
       PROVE  consumer'[d] = consumer[d] \/ MemoryIsSound(consumer[d])'
  BY <1>7, <1>10, <1>11 DEF MemoryIsSound
<1>12. HoldersAreAlone'
  <2>1. \A d \in Consumers : Holding(consumer'[d]) => consumer'[d] = consumer[d]
    BY <1>6, <1>7
  <2>2. ASSUME NEW d \in Consumers, Holding(consumer'[d])
        PROVE  consumer'[d].event \in Events
    BY <2>1, <2>2, BusyMemory DEF Holding, Working
  <2> QED
    BY <1>3, <2>1, <2>2, NoNewHolder
<1> QED
  BY <1>3, <1>4, <1>8, <1>9, <1>11, <1>12, KeptStep

\* Whoever claims a queued row finds nobody who holds it, or it was taken back.
LEMMA ClaimKeeps == ASSUME IInv, NEW c \in Consumers, Claim(c) PROVE IInv'
<1>1. PICK n \in ConsumerType : n = consumer[c]
  BY DEF IInv, TypeOK
<1>2. /\ n.pc = "claim" /\ n.event \in Events /\ row[n.event].status # "absent"
      /\ \A e \in n.todo : row[e].status # "absent"
  BY <1>1, BusyMemory DEF Claim
<1>3. UNCHANGED <<takenBack, shopify, copy, overlapped, loose, feed, applied, skipped, faults>>
  BY DEF Claim, world
<1>4. CASE row[n.event].status # "queued"
  <2>1. PICK m : m = Released(c)
    OBVIOUS
  <2>2. consumer' = [consumer EXCEPT ![c] = m] /\ UNCHANGED row
    BY <1>1, <1>4, <2>1 DEF Claim, Update
  <2>3. /\ m \in ConsumerType /\ ~Holding(m) /\ m.event = NoEvent
        /\ m.pc \in {"off", "loop"} /\ \A e \in m.todo : row[e].status # "absent"
    BY <1>1, <1>2, <2>1, ReleasedSound
  <2>4. MemoryIsSound(m)'
    BY <1>3, <2>2, <2>3 DEF MemoryIsSound
  <2> QED
    BY <1>3, <2>2, <2>3, <2>4, MemoryStep DEF IInv, TypeOK
<1>5. CASE row[n.event].status = "queued"
  <2>1. PICK m : m = [n EXCEPT !.pc = "load"]
    OBVIOUS
  <2>2. PICK r : r = Taken(n.event)
    OBVIOUS
  <2>3. row' = [row EXCEPT ![n.event] = r] /\ consumer' = [consumer EXCEPT ![c] = m]
    BY <1>1, <1>5, <2>1, <2>2 DEF Claim, Goto, Update
  <2>4. r \in RowType /\ r.status = "processing"
    <3>1. PICK q \in RowType : q = row[n.event]
      BY <1>2 DEF IInv, TypeOK
    <3>2. "processing" \in Statuses /\ q.attempts + 1 \in Nat
      BY DEF Statuses, RowType
    <3>3. [q EXCEPT !.status = "processing"] \in RowType
      BY <3>2, RowFields
    <3>4. [q EXCEPT !.status = "processing", !.attempts = q.attempts + 1] \in RowType
      BY <3>2, <3>3, RowFields
    <3>5. r = [q EXCEPT !.status = "processing", !.attempts = q.attempts + 1, !.stale = FALSE]
      BY <2>2, <3>1 DEF Taken
    <3>6. r \in RowType
      BY <3>4, <3>5, RowFields
    <3> QED
      BY <3>5, <3>6 DEF RowType
  <2>5. m \in ConsumerType
    BY <2>1, FieldTypes DEF PCs
  <2>6. m.pc = "load" /\ m.event = n.event /\ m.todo = n.todo
    BY <2>1 DEF ConsumerType
  <2>7. /\ \A e \in Events : row'[e] = IF e = n.event THEN r ELSE row[e]
        /\ \A d \in Consumers : consumer'[d] = IF d = c THEN m ELSE consumer[d]
    BY <2>3 DEF IInv, TypeOK
  <2>8. TypeOK'
    BY <1>3, <2>3, <2>4, <2>5 DEF IInv, TypeOK
  <2>9. FeedIsSound' /\ ClosedIsApplied'
    BY <1>2, <1>3, <2>4, <2>7 DEF IInv, FeedIsSound, ClosedIsApplied
  <2>10. \A e \in Events : row[e].status # "absent" => row'[e].status # "absent"
    BY <2>4, <2>7
  <2>11. MemoryIsSound(m)'
    BY <1>2, <2>6, <2>10, ConstantsAssumption DEF MemoryIsSound, ConsumerType
  <2>12. ASSUME NEW d \in Consumers
         PROVE  consumer'[d] = consumer[d] \/ MemoryIsSound(consumer[d])'
    BY <2>7, <2>11, <2>12 DEF MemoryIsSound
  <2>13. HoldersAreAlone'
    <3>1. \A d \in Consumers : Holding(consumer[d]) /\ consumer[d].event = n.event =>
            n.event \in takenBack
      BY <1>5 DEF IInv, HoldersAreAlone
    <3>2. ASSUME NEW d \in Consumers, Holding(consumer'[d]),
                 consumer'[d].event \notin takenBack'
          PROVE  /\ row'[consumer'[d].event].status = "processing"
                 /\ \A d2 \in Consumers \ {d} :
                      Holding(consumer'[d2]) => consumer'[d2].event # consumer'[d].event
      <4>1. CASE d = c
        <5>1. n.event \notin takenBack
          BY <1>3, <2>6, <2>7, <3>2, <4>1
        <5>2. \A d2 \in Consumers \ {c} : Holding(consumer[d2]) => consumer[d2].event # n.event
          BY <3>1, <5>1
        <5> QED
          BY <1>2, <2>4, <2>6, <2>7, <4>1, <5>2
      <4>2. CASE d # c
        <5>1. /\ Holding(consumer[d]) /\ consumer'[d] = consumer[d]
              /\ consumer[d].event \notin takenBack /\ consumer[d].event \in Events
          BY <1>3, <2>7, <3>2, <4>2, BusyMemory DEF Holding, Working
        <5>2. consumer[d].event # n.event
          BY <3>1, <5>1
        <5>3. /\ row[consumer[d].event].status = "processing"
              /\ \A d2 \in Consumers \ {d} :
                   Holding(consumer[d2]) => consumer[d2].event # consumer[d].event
          BY <5>1 DEF IInv, HoldersAreAlone
        <5> QED
          BY <2>6, <2>7, <5>1, <5>2, <5>3
      <4> QED
        BY <4>1, <4>2
    <3> QED
      BY <3>2 DEF HoldersAreAlone, Holding
  <2> QED
    BY <1>3, <2>8, <2>9, <2>10, <2>12, <2>13, KeptStep
<1> QED
  BY <1>4, <1>5

\* Whoever writes an outcome writes a deserved one, and does not take a row from
\* somebody who holds it alone.
LEMMA ConcludeKeeps == ASSUME IInv, NEW c \in Consumers, Conclude(c) PROVE IInv'
<1>1. PICK n \in ConsumerType : n = consumer[c]
  BY DEF IInv, TypeOK
<1>2. /\ n.pc = "conclude" /\ n.event \in Events /\ row[n.event].status # "absent"
      /\ MemoryIsSound(n) /\ Holding(consumer[c])
      /\ \A e \in n.todo : row[e].status # "absent"
  BY <1>1, BusyMemory DEF Conclude, IInv, Holding
<1>3. UNCHANGED <<takenBack, shopify, copy, overlapped, loose, feed, applied, skipped, faults>>
  BY DEF Conclude, world
<1>4. PICK m : m = IF row[n.event].status \in InTable THEN Released(c) ELSE Off
  OBVIOUS
<1>5. consumer' = [consumer EXCEPT ![c] = m]
  BY <1>1, <1>4 DEF Conclude, Update
<1>6. /\ m \in ConsumerType /\ ~Holding(m) /\ m.event = NoEvent
      /\ m.pc \in {"off", "loop"} /\ \A e \in m.todo : row[e].status # "absent"
  <2>1. CASE m = Released(c)
    BY <1>1, <1>2, <2>1, ReleasedSound
  <2>2. CASE m = Off
    BY <2>2, OffType DEF Off, Holding, Working
  <2> QED
    BY <1>4, <2>1, <2>2
<1>7. /\ row' \in [Events -> RowType]
      /\ \A e \in Events \ {n.event} : row'[e] = row[e]
      /\ row'[n.event].status # "absent"
      /\ row'[n.event].status \in {"completed", "pruned"} => n.event \in applied \cup skipped
  <2>1. row \in [Events -> RowType]
    BY DEF IInv, TypeOK
  <2>2. CASE row[n.event].status \notin InTable
    <3>1. UNCHANGED row
      BY <1>1, <2>2 DEF Conclude
    <3> QED
      BY <1>2, <2>1, <3>1 DEF IInv, ClosedIsApplied
  <2>3. CASE row[n.event].status \in InTable
    <3>1. PICK status : status = StatusAfterAttempt(n.out, n.seen)
      OBVIOUS
    <3>2. status \in {"completed", "dead_letter", "queued"} /\ (status = "completed" => n.out = "done")
      BY <3>1 DEF StatusAfterAttempt
    <3>3. PICK due \in BOOLEAN : due = (status # "queued")
      OBVIOUS
    <3>4. PICK r : r = [row[n.event] EXCEPT !.status = status, !.due = due, !.stale = FALSE]
      OBVIOUS
    <3>5. row' = [row EXCEPT ![n.event] = r]
      BY <1>1, <2>3, <3>1, <3>3, <3>4 DEF Conclude, Settled
    <3>6. r \in RowType
      <4>1. row[n.event] \in RowType /\ status \in Statuses
        BY <1>2, <2>1, <3>2 DEF Statuses
      <4>2. [row[n.event] EXCEPT !.status = status] \in RowType
        BY <4>1, RowFields
      <4>3. [row[n.event] EXCEPT !.status = status, !.due = due] \in RowType
        BY <4>2, RowFields
      <4> QED
        BY <3>4, <4>3, RowFields
    <3>7. r.status = status
      BY <1>2, <2>1, <3>4 DEF RowType
    <3>8. row'[n.event] = r
      BY <1>2, <2>1, <3>5
    <3>9. status = "completed" => n.event \in applied \cup skipped
      BY <1>2, <3>2 DEF MemoryIsSound
    <3> QED
      BY <1>2, <2>1, <3>2, <3>5, <3>6, <3>7, <3>8, <3>9
  <2> QED
    BY <2>2, <2>3
<1>8. \A d \in Consumers : consumer'[d] = IF d = c THEN m ELSE consumer[d]
  BY <1>5 DEF IInv, TypeOK
<1>9. TypeOK'
  BY <1>3, <1>5, <1>6, <1>7 DEF IInv, TypeOK
<1>10. FeedIsSound'
  <2>1. feed[n.event].stage # "unsent"
    BY <1>2 DEF IInv, FeedIsSound
  <2> QED
    BY <1>3, <1>7, <2>1 DEF IInv, FeedIsSound
<1>11. ClosedIsApplied'
  BY <1>3, <1>7 DEF IInv, ClosedIsApplied
<1>12. \A e \in Events : row[e].status # "absent" => row'[e].status # "absent"
  BY <1>7
<1>13. MemoryIsSound(m)'
  BY <1>6, <1>12 DEF MemoryIsSound, ConsumerType
<1>14. ASSUME NEW d \in Consumers
       PROVE  consumer'[d] = consumer[d] \/ MemoryIsSound(consumer[d])'
  BY <1>8, <1>13, <1>14 DEF MemoryIsSound
<1>15. HoldersAreAlone'
  <2>1. ASSUME NEW d \in Consumers, Holding(consumer'[d]),
               consumer'[d].event \notin takenBack'
        PROVE  consumer'[d].event # n.event /\ consumer'[d].event \in Events
    <3>1. d # c /\ consumer'[d] = consumer[d]
      BY <1>6, <1>8, <2>1
    <3>2. consumer[d].event \in Events
      BY <2>1, <3>1, BusyMemory DEF Holding, Working
    <3>3. consumer[c].event # consumer[d].event
      BY <1>2, <1>3, <2>1, <3>1 DEF IInv, HoldersAreAlone
    <3> QED
      BY <1>1, <3>1, <3>2, <3>3
  <2>2. \A d \in Consumers : Holding(consumer'[d]) => consumer'[d] = consumer[d]
    BY <1>6, <1>8
  <2> QED
    BY <1>3, <1>7, <2>1, <2>2, NoNewHolder
<1> QED
  BY <1>3, <1>9, <1>10, <1>11, <1>12, <1>14, <1>15, KeptStep

-----------------------------------------------------------------------------
(* The theorems *)

\* Every step keeps the inductive invariant.
LEMMA NextIInv == IInv /\ [Next]_vars => IInv'
<1> SUFFICES ASSUME IInv, [Next]_vars PROVE IInv'
  OBVIOUS
<1>1. CASE UNCHANGED vars
  BY <1>1 DEF vars, IInv, TypeOK, FeedIsSound, MemoryIsSound, ClosedIsApplied,
              HoldersAreAlone, Holding
<1>2. ASSUME NEW e \in Events, Receive(e) \/ BecomeDue(e) \/ GrowStale(e) PROVE IInv'
  BY <1>2, ReceiveKeeps, TableKeeps
<1>3. ASSUME NEW e \in Events, \/ Change(e) \/ Remove(e) \/ Garble(e)
                               \/ Redeliver(e) \/ ReceiveFails(e)
      PROVE IInv'
  BY <1>3, AnnounceKeeps, ReceiveKeeps, ReceiveFailsKeeps
<1>4. ASSUME NEW e \in Events, Outlive(e) \/ Prune(e) \/ Replay(e) PROVE IInv'
  BY <1>4, TableKeeps
<1>5. ASSUME NEW c \in Consumers, Progress(c) PROVE IInv'
  BY <1>5, NextInListKeeps, StopKeeps, ResetKeeps, ClaimKeeps, LoadKeeps, ReadKeeps,
     WriteKeeps, SweepKeeps, WipeKeeps, ConcludeKeeps
  DEF Progress
<1>6. ASSUME NEW c \in Consumers,
             StartDrain(c) \/ Skip(c) \/ LeaveParts(c) \/ StepFails(c) \/ Crash(c)
      PROVE IInv'
  BY <1>6, StartDrainKeeps, SkipKeeps, SweepKeeps, StepFailsKeeps, StopKeeps
<1> QED
  BY <1>1, <1>2, <1>3, <1>4, <1>5, <1>6 DEF Next, Ordinary

\* The inductive invariant holds of every delivery, drain and processor, in
\* whatever order they meet.
THEOREM InboxInvariant == Spec => []IInv
<1>1. IInv /\ [Next]_vars => IInv'
  BY NextIInv
<1> QED
  BY InitIInv, <1>1, PTL DEF Spec

\* No delivery that was answered 200 disappears before it is applied or skipped on purpose.
THEOREM AcceptedKept == Spec => []AcceptedIsKept
<1>1. IInv => AcceptedIsKept
  <2>1. ASSUME IInv, NEW e \in Events, feed[e].stage = "acked", row[e].status \notin InTable
        PROVE  e \in applied \cup skipped
    <3>1. row[e].status # "absent" /\ row[e].status \in Statuses
      BY <2>1 DEF IInv, TypeOK, FeedIsSound, RowType
    <3>2. row[e].status = "pruned"
      BY <2>1, <3>1 DEF Statuses, InTable
    <3> QED
      BY <2>1, <3>2 DEF IInv, ClosedIsApplied
  <2> QED
    BY <2>1 DEF AcceptedIsKept
<1> QED
  BY <1>1, InboxInvariant, PTL

\* No delivery is completed on a reading older than the change it announces, unless a
\* processor decided to skip it.
THEOREM CompletedApplied == Spec => []CompletedIsApplied
<1>1. IInv => CompletedIsApplied
  BY DEF IInv, ClosedIsApplied, CompletedIsApplied
<1> QED
  BY <1>1, InboxInvariant, PTL

\* Two invocations only work a delivery at once when a drain had put it back.
THEOREM OneProcessor == Spec => []OneProcessorPerDelivery
<1>1. IInv => OneProcessorPerDelivery
  BY DEF IInv, HoldersAreAlone, OneProcessorPerDelivery, Holding
<1> QED
  BY <1>1, InboxInvariant, PTL

-----------------------------------------------------------------------------
(* The order of the drains *)

\* Of any rows one is the first of the line: its predecessors are elsewhere.
LEMMA FirstInLine ==
  ASSUME RecordedInOrder, NEW S \in SUBSET Recorded, S # {}
  PROVE  \E e \in S : S \cap row[e].after = {}
<1> DEFINE T == {row[e].after : e \in S}
<1>1. S \subseteq Events
  BY DEF Recorded
<1>2. ASSUME NEW e \in S
      PROVE  row[e].after \subseteq Recorded /\ IsFiniteSet(row[e].after)
  BY <1>1, <1>2, FS_Subset DEF RecordedInOrder
<1>3. T \subseteq FiniteSubsetsOf(Recorded) /\ T # {}
  BY <1>2 DEF FiniteSubsetsOf
<1>4. IsWellFoundedOn(StrictSubsetOrdering(Recorded), FiniteSubsetsOf(Recorded))
  BY FS_StrictSubsetOrderingWellFounded
<1>5. PICK t \in T : \A u \in T : <<u, t>> \notin StrictSubsetOrdering(Recorded)
  <2> HIDE DEF T
  <2> QED
    BY <1>3, <1>4, WFMin
<1>6. PICK e \in S : t = row[e].after
  OBVIOUS
<1>7. ASSUME NEW f \in S, f \in row[e].after PROVE FALSE
  <2>1. /\ row[f].after \subseteq row[e].after /\ f \notin row[f].after
        /\ row[e].after \subseteq Recorded
    BY <1>1, <1>7 DEF RecordedInOrder
  <2>2. row[f].after # row[e].after
    BY <1>7, <2>1
  <2>3. <<row[f].after, row[e].after>> \in StrictSubsetOrdering(Recorded)
    BY <2>1, <2>2 DEF StrictSubsetOrdering
  <2> QED
    BY <1>5, <1>6, <2>3
<1> QED
  BY <1>7

\* And one is the last: all the others are its predecessors.
LEMMA LastInLine ==
  ASSUME RecordedInOrder, NEW S \in SUBSET Recorded, S # {}
  PROVE  \E e \in S : S \subseteq row[e].after \cup {e}
<1> DEFINE T == {Recorded \ row[e].after : e \in S}
<1>1. S \subseteq Events
  BY DEF Recorded
<1>2. ASSUME NEW e \in S
      PROVE  IsFiniteSet(Recorded \ row[e].after)
  BY <1>2, FS_Subset DEF RecordedInOrder
<1>3. T \subseteq FiniteSubsetsOf(Recorded) /\ T # {}
  BY <1>2 DEF FiniteSubsetsOf
<1>4. IsWellFoundedOn(StrictSubsetOrdering(Recorded), FiniteSubsetsOf(Recorded))
  BY FS_StrictSubsetOrderingWellFounded
<1>5. PICK t \in T : \A u \in T : <<u, t>> \notin StrictSubsetOrdering(Recorded)
  <2> HIDE DEF T
  <2> QED
    BY <1>3, <1>4, WFMin
<1>6. PICK e \in S : t = Recorded \ row[e].after
  OBVIOUS
<1>7. ASSUME NEW f \in S, f # e PROVE f \in row[e].after
  <2>1. SUFFICES ASSUME e \in row[f].after PROVE FALSE
    BY <1>7 DEF RecordedInOrder
  <2>2. /\ row[e].after \subseteq row[f].after /\ e \notin row[e].after
        /\ e \in Recorded
    BY <1>1, <2>1 DEF RecordedInOrder
  <2>3. /\ Recorded \ row[f].after \subseteq Recorded \ row[e].after
        /\ Recorded \ row[f].after # Recorded \ row[e].after
    BY <2>1, <2>2
  <2>4. <<Recorded \ row[f].after, Recorded \ row[e].after>> \in StrictSubsetOrdering(Recorded)
    BY <2>3 DEF StrictSubsetOrdering
  <2> QED
    BY <1>5, <1>6, <1>7, <2>4
<1> QED
  BY <1>7

\* A step that records nothing leaves the line as it is.
LEMMA LineKept ==
  ASSUME RecordedInOrder,
         \A e \in Events : /\ row'[e].after = row[e].after
                           /\ row'[e].status = "absent" <=> row[e].status = "absent"
  PROVE  RecordedInOrder'
<1>1. Recorded' = Recorded
  BY DEF Recorded
<1>2. \A e \in Events :
        /\ row'[e].after \subseteq Recorded' \ {e}
        /\ \A f \in row'[e].after : row'[f].after \subseteq row'[e].after
  BY <1>1 DEF RecordedInOrder, Recorded
<1>3. \A e, f \in Recorded' : e = f \/ e \in row'[f].after \/ f \in row'[e].after
  BY <1>1 DEF RecordedInOrder, Recorded
<1> QED
  BY <1>1, <1>2, <1>3 DEF RecordedInOrder

\* A receipt puts its row at the end of the line.
LEMMA RecordLine ==
  ASSUME TypeOK, RecordedInOrder, NEW e \in Events, Record(e)
  PROVE  RecordedInOrder'
<1>1. CASE row[e].status # "absent"
  BY <1>1, LineKept DEF Record
<1>2. CASE row[e].status = "absent"
  <2>1. PICK r : r = [NoRow EXCEPT !.status = "queued", !.due = TRUE,
                        !.after = {f \in Events : row[f].status # "absent"}]
    OBVIOUS
  <2>2. r.status = "queued" /\ r.after = Recorded
    BY <2>1 DEF NoRow, Recorded
  <2>3. row' = [row EXCEPT ![e] = r]
    BY <1>2, <2>1 DEF Record
  <2>4. \A f \in Events : row'[f] = IF f = e THEN r ELSE row[f]
    BY <2>3 DEF TypeOK
  <2>5. Recorded' = Recorded \cup {e} /\ e \notin Recorded
    BY <1>2, <2>2, <2>4 DEF Recorded
  <2>6. IsFiniteSet(Recorded')
    BY <2>5, FS_AddElement DEF RecordedInOrder
  <2>7. ASSUME NEW f \in Events
        PROVE  /\ row'[f].after \subseteq Recorded' \ {f}
               /\ \A g \in row'[f].after : row'[g].after \subseteq row'[f].after
    <3>1. ASSUME NEW g \in Recorded PROVE row'[g].after = row[g].after /\ row[g].after \subseteq Recorded
      BY <2>4, <2>5, <3>1 DEF RecordedInOrder, Recorded
    <3>2. CASE f = e
      BY <2>2, <2>4, <2>5, <3>1, <3>2
    <3>3. CASE f # e
      <4>1. row'[f].after = row[f].after /\ row[f].after \subseteq Recorded \ {f}
        BY <2>4, <3>3 DEF RecordedInOrder
      <4>2. \A g \in row[f].after : row[g].after \subseteq row[f].after
        BY DEF RecordedInOrder
      <4> QED
        BY <2>5, <3>1, <4>1, <4>2
    <3> QED
      BY <3>2, <3>3
  <2>8. ASSUME NEW f \in Recorded', NEW g \in Recorded'
        PROVE  f = g \/ f \in row'[g].after \/ g \in row'[f].after
    <3>1. CASE f = e \/ g = e
      BY <2>2, <2>4, <2>5, <2>8, <3>1
    <3>2. CASE f # e /\ g # e
      BY <2>4, <2>5, <2>8, <3>2 DEF RecordedInOrder, Recorded
    <3> QED
      BY <3>1, <3>2
  <2> QED
    BY <2>6, <2>7, <2>8 DEF RecordedInOrder
<1> QED
  BY <1>1, <1>2

\* What happens to a row between two invocations.
LEMMA TableLine ==
  ASSUME IInv, RecordedInOrder, NEW e \in Events,
         BecomeDue(e) \/ GrowStale(e) \/ Outlive(e) \/ Prune(e) \/ Replay(e)
  PROVE  RecordedInOrder'
<1>1. row \in [Events -> RowType] /\ row[e] \in RowType
  BY DEF IInv, TypeOK
<1>2. row[e].status # "absent"
  BY DEF BecomeDue, GrowStale, Outlive, Prune, Replay
<1>3. \E r : /\ row' = [row EXCEPT ![e] = r]
             /\ r.after = row[e].after /\ r.status # "absent"
  <2>1. CASE BecomeDue(e)
    <3>1. PICK r : r = [row[e] EXCEPT !.due = TRUE]
      OBVIOUS
    <3>2. row' = [row EXCEPT ![e] = r]
      BY <2>1, <3>1 DEF BecomeDue
    <3>3. r.after = row[e].after /\ r.status = row[e].status
      BY <1>1, <3>1 DEF RowType
    <3> QED
      BY <1>2, <3>2, <3>3
  <2>2. CASE GrowStale(e) \/ Outlive(e)
    <3>1. PICK r : r = [row[e] EXCEPT !.stale = TRUE]
      OBVIOUS
    <3>2. row' = [row EXCEPT ![e] = r]
      BY <2>2, <3>1 DEF GrowStale, Outlive
    <3>3. r.after = row[e].after /\ r.status = row[e].status
      BY <1>1, <3>1 DEF RowType
    <3> QED
      BY <1>2, <3>2, <3>3
  <2>3. CASE Prune(e)
    <3>1. PICK r : r = [NoRow EXCEPT !.status = "pruned", !.after = row[e].after]
      OBVIOUS
    <3>2. r.after = row[e].after /\ r.status = "pruned"
      BY <3>1 DEF NoRow
    <3> QED
      BY <2>3, <3>1, <3>2 DEF Prune
  <2>4. CASE Replay(e)
    <3>1. PICK r : r = [row[e] EXCEPT !.status = "queued", !.attempts = 0, !.due = TRUE]
      OBVIOUS
    <3>2. r.after = row[e].after /\ r.status = "queued"
      BY <1>1, <3>1 DEF RowType
    <3> QED
      BY <2>4, <3>1, <3>2 DEF Replay
  <2> QED
    BY <2>1, <2>2, <2>3, <2>4
<1> QED
  BY <1>1, <1>2, <1>3, LineKept

\* What an invocation does to the row of its delivery.
LEMMA InvocationLine ==
  ASSUME IInv, RecordedInOrder, NEW c \in Consumers, Reset(c) \/ Claim(c) \/ Conclude(c)
  PROVE  RecordedInOrder'
<1>1. PICK e : e = consumer[c].event
  OBVIOUS
<1>2. e \in Events /\ row[e].status # "absent"
  BY <1>1, BusyMemory DEF Reset, Claim, Conclude
<1>3. row \in [Events -> RowType] /\ row[e] \in RowType
  BY <1>2 DEF IInv, TypeOK
<1>4. row' = row \/ \E r : /\ row' = [row EXCEPT ![e] = r]
                           /\ r.after = row[e].after /\ r.status # "absent"
  <2>1. CASE Reset(c)
    <3>1. PICK r : r = [row[e] EXCEPT !.status = "queued", !.stale = FALSE]
      OBVIOUS
    <3>2. r.after = row[e].after /\ r.status = "queued"
      BY <1>3, <3>1 DEF RowType
    <3> QED
      BY <1>1, <2>1, <3>1, <3>2 DEF Reset
  <2>2. CASE Claim(c)
    <3>1. PICK r : r = Taken(e)
      OBVIOUS
    <3>2. r.after = row[e].after /\ r.status = "processing"
      BY <1>3, <3>1 DEF RowType, Taken
    <3> QED
      BY <1>1, <2>2, <3>1, <3>2 DEF Claim
  <2>3. CASE Conclude(c)
    <3>1. PICK status : status = StatusAfterAttempt(consumer[c].out, consumer[c].seen)
      OBVIOUS
    <3>2. status # "absent"
      BY <3>1 DEF StatusAfterAttempt
    <3>3. PICK r : r = [row[e] EXCEPT !.status = status, !.due = status # "queued",
                                      !.stale = FALSE]
      OBVIOUS
    <3>4. r.after = row[e].after /\ r.status = status
      BY <1>3, <3>3 DEF RowType
    <3>5. row' = row \/ row' = [row EXCEPT ![e] = r]
      BY <1>1, <2>3, <3>1, <3>3 DEF Conclude, Settled
    <3> QED
      BY <3>2, <3>4, <3>5
  <2> QED
    BY <2>1, <2>2, <2>3
<1> QED
  BY <1>2, <1>3, <1>4, LineKept

\* Every step keeps the line.
LEMMA NextLine == IInv /\ RecordedInOrder /\ [Next]_vars => RecordedInOrder'
<1> SUFFICES ASSUME IInv, RecordedInOrder, [Next]_vars PROVE RecordedInOrder'
  OBVIOUS
<1>1. CASE UNCHANGED row
  BY <1>1, LineKept
<1>2. ASSUME NEW e \in Events, Receive(e) \/ Redeliver(e) \/ ReceiveFails(e)
      PROVE  RecordedInOrder'
  <2>1. Record(e) \/ UNCHANGED row
    BY <1>2 DEF Receive, Redeliver, ReceiveFails, Accept
  <2> QED
    BY <1>1, <2>1, RecordLine DEF IInv
<1>3. ASSUME NEW e \in Events, Change(e) \/ Remove(e) \/ Garble(e)
      PROVE  UNCHANGED row
  BY <1>3 DEF Change, Remove, Garble, Announce
<1>4. ASSUME NEW e \in Events,
             BecomeDue(e) \/ GrowStale(e) \/ Outlive(e) \/ Prune(e) \/ Replay(e)
      PROVE  RecordedInOrder'
  BY <1>4, TableLine
<1>5. ASSUME NEW c \in Consumers, Reset(c) \/ Claim(c) \/ Conclude(c)
      PROVE  RecordedInOrder'
  BY <1>5, InvocationLine
<1>6. ASSUME NEW c \in Consumers,
             \/ StartDrain(c) \/ EndDrain(c) \/ Load(c) \/ Read(c) \/ WriteOrder(c)
             \/ WriteParts(c) \/ Sweep(c) \/ LeaveParts(c) \/ WipeParts(c) \/ WipeOrder(c)
             \/ Skip(c) \/ StepFails(c) \/ Crash(c) \/ \E e \in Events : NextInList(c, e)
      PROVE  UNCHANGED row
  BY <1>6 DEF StartDrain, EndDrain, Load, Read, WriteOrder, WriteParts, Sweep, LeaveParts,
              WipeParts, WipeOrder, Skip, StepFails, Crash, NextInList
<1>7. CASE UNCHANGED vars
  BY <1>1, <1>7 DEF vars
<1> QED
  BY <1>1, <1>2, <1>3, <1>4, <1>5, <1>6, <1>7 DEF Next, Ordinary, Progress

\* One more element makes a finite set larger by one at most.
LEMMA OneMore ==
  ASSUME NEW S, NEW x, IsFiniteSet(S)
  PROVE  IsFiniteSet(S \cup {x}) /\ Cardinality(S \cup {x}) <= Cardinality(S) + 1
<1>1. /\ IsFiniteSet(S \cup {x})
      /\ Cardinality(S \cup {x}) = IF x \in S THEN Cardinality(S) ELSE Cardinality(S) + 1
  BY FS_AddElement
<1>2. Cardinality(S) \in Nat
  BY FS_CardinalityType
<1> QED
  BY <1>1, <1>2

\* Of the rows that are ready one is listed, and no more than DRAIN_BATCH are.
LEMMA ListIsRight ==
  ASSUME TypeOK, RecordedInOrder
  PROVE  /\ (\E e \in Events : Ready(e)) => ReadyList # {}
         /\ Cardinality(ReadyList) <= DrainBatch
<1> DEFINE before(e) == {f \in row[e].after : Ready(f)}
<1>1. ReadyList = {e \in Events : Ready(e) /\ Cardinality(before(e)) < DrainBatch}
  BY DEF ReadyList
<1>2. \A e \in Events : Ready(e) => e \in Recorded
  BY DEF Ready, Recorded
<1>3. ASSUME NEW e \in Events
      PROVE  IsFiniteSet(before(e)) /\ Cardinality(before(e)) \in Nat
  <2>1. before(e) \in SUBSET Recorded
    BY DEF RecordedInOrder
  <2>2. IsFiniteSet(before(e))
    <3> HIDE DEF before
    <3> QED
      BY <2>1, FS_Subset DEF RecordedInOrder
  <2> QED
    BY <2>2, FS_CardinalityType
<1>4. ASSUME NEW e \in Events, Ready(e) PROVE ReadyList # {}
  <2> DEFINE S == {f \in Events : Ready(f)}
  <2>1. S \in SUBSET Recorded /\ S # {}
    BY <1>2, <1>4
  <2>2. PICK f \in S : S \cap row[f].after = {}
    <3> HIDE DEF S
    <3> QED
      BY <2>1, FirstInLine
  <2>3. row[f].after \subseteq Events
    BY DEF RecordedInOrder, Recorded
  <2>4. before(f) = {}
    BY <2>2, <2>3
  <2>5. Cardinality(before(f)) = 0
    BY <2>4, FS_EmptySet
  <2>6. f \in ReadyList
    BY <1>1, <2>2, <2>5, ConstantsAssumption
  <2> QED
    BY <2>6
<1>5. Cardinality(ReadyList) <= DrainBatch
  <2>1. CASE ReadyList = {}
    BY <2>1, FS_EmptySet, ConstantsAssumption
  <2>2. CASE ReadyList # {}
    <3>1. ReadyList \in SUBSET Recorded /\ ReadyList \subseteq Events
      BY <1>1, <1>2
    <3>2. PICK e \in ReadyList : ReadyList \subseteq row[e].after \cup {e}
      BY <2>2, <3>1, LastInLine
    <3>3. e \in Events /\ Cardinality(before(e)) < DrainBatch
      BY <1>1, <3>2
    <3>4. ReadyList \subseteq before(e) \cup {e}
      BY <1>1, <3>2
    <3>5. /\ IsFiniteSet(before(e) \cup {e})
          /\ Cardinality(before(e) \cup {e}) <= Cardinality(before(e)) + 1
      <4>1. IsFiniteSet(before(e)) /\ Cardinality(before(e)) \in Nat
        BY <1>3, <3>3
      <4> HIDE DEF before
      <4> QED
        BY <4>1, OneMore
    <3>6. /\ Cardinality(ReadyList) <= Cardinality(before(e) \cup {e})
          /\ IsFiniteSet(ReadyList)
      <4> HIDE DEF before
      <4> QED
        BY <3>4, <3>5, FS_Subset
    <3>7. /\ Cardinality(ReadyList) \in Nat /\ Cardinality(before(e)) \in Nat
          /\ Cardinality(before(e) \cup {e}) \in Nat /\ DrainBatch \in Nat
      BY <1>3, <3>3, <3>5, <3>6, FS_CardinalityType, ConstantsAssumption
    <3> HIDE DEF before
    <3> QED
      BY <3>3, <3>5, <3>6, <3>7
  <2> QED
    BY <2>1, <2>2
<1> QED
  BY <1>4, <1>5

\* No drain stands still: where a row is ready there is a list, its length is
\* bounded, and a list that is not empty has a row none of its others precedes.
THEOREM DrainsNeverStick == Spec => []DrainsGoOn
<1>1. Init => RecordedInOrder
  <2>1. Init => \A e \in Events : row[e].status = "absent" /\ row[e].after = {}
    BY DEF Init, NoRow
  <2>2. Init => Recorded = {}
    BY <2>1 DEF Recorded
  <2> QED
    BY <2>1, <2>2, FS_EmptySet DEF RecordedInOrder
<1>2. IInv /\ RecordedInOrder /\ [Next]_vars => RecordedInOrder'
  BY NextLine
<1>3. IInv /\ RecordedInOrder => DrainsGoOn
  <2> SUFFICES ASSUME IInv, RecordedInOrder PROVE DrainsGoOn
    OBVIOUS
  <2>1. ASSUME NEW c \in Consumers, consumer[c].todo # {}
        PROVE  \E e \in consumer[c].todo : consumer[c].todo \cap row[e].after = {}
    <3>1. consumer[c].todo \in SUBSET Events /\ MemoryIsSound(consumer[c])
      BY DEF IInv, TypeOK, ConsumerType
    <3>2. consumer[c].todo \in SUBSET Recorded
      BY <3>1 DEF MemoryIsSound, Recorded
    <3> QED
      BY <2>1, <3>2, FirstInLine
  <2> QED
    BY <2>1, ListIsRight DEF DrainsGoOn, IInv
<1> QED
  BY <1>1, <1>2, <1>3, InboxInvariant, PTL DEF Spec
=============================================================================
