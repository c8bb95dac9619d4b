---------------------- MODULE WebhookConvergenceProofs ----------------------
(***************************************************************************)
(* Theorems about what the processors of WebhookInbox write: the copy of   *)
(* the merchant converges to what Shopify has, for any deliveries,         *)
(* resources, invocations and bounds.                                      *)
(***************************************************************************)
EXTENDS WebhookInboxProofs

\* Nothing was announced, written or applied in the initial state.
LEMMA InitCInv == Init => CInv
<1> SUFFICES ASSUME Init PROVE CInv
  OBVIOUS
<1>1. \A x \in Resources : shopify[x].version = 0 /\ copy[x] = [order |-> 0, parts |-> {}]
  BY DEF Init
<1>2. \A e \in Events : feed[e] = [stage |-> "unsent", kind |-> "unreadable", version |-> 0]
  BY DEF Init
<1>3. \A c \in Consumers : consumer[c].pc = "off"
  BY DEF Init, Off
<1>4. applied = {}
  BY DEF Init
<1>5. FeedIsTrue
  BY <1>1, <1>2, <1>4 DEF FeedIsTrue
<1>6. \A c \in Consumers : ProcessorFits(consumer[c]) /\ consumer[c].pc \notin Working
  BY <1>3 DEF ProcessorFits, Working
<1>7. WorkedAlone
  BY <1>6 DEF WorkedAlone
<1>8. ASSUME NEW x \in Resources PROVE Agree(x)
  <2>1. shopify[x].version = 0 /\ copy[x].parts = {} /\ copy[x].order = 0
    BY <1>1
  <2>2. ~(shopify[x].version > 0)
    BY <2>1
  <2> QED
    BY <2>1, <2>2 DEF Agree
<1>9. AppliedAgrees
  BY <1>4 DEF AppliedAgrees
<1> QED
  BY <1>5, <1>6, <1>7, <1>8, <1>9, InitIInv DEF CInv, Convergence

-----------------------------------------------------------------------------
(* The frames of the steps *)

\* The versions are numbers.
LEMMA Versions ==
  ASSUME TypeOK
  PROVE  /\ \A x \in Resources : shopify[x].version \in Nat /\ shopify[x].gone \in BOOLEAN
         /\ \A e \in Events : feed[e].version \in Nat /\ feed[e].kind \in Kinds
         /\ \A c \in Consumers : consumer[c].read \in Nat
<1>1. \A x \in Resources : shopify[x] \in ShopifyType
  BY DEF TypeOK
<1>2. \A e \in Events : feed[e] \in FeedType
  BY DEF TypeOK
<1>3. \A c \in Consumers : consumer[c] \in ConsumerType
  BY DEF TypeOK
<1> QED
  BY <1>1, <1>2, <1>3, ConstantsAssumption DEF ShopifyType, FeedType, ConsumerType

\* A processor works an announced delivery of a resource Shopify has or had.
LEMMA WorkingEvent ==
  ASSUME CInv, NEW c \in Consumers, consumer[c].pc \in Working
  PROVE  /\ consumer[c].event \in Events
         /\ feed[consumer[c].event].stage # "unsent"
         /\ Target(c) = ResourceOf[consumer[c].event]
         /\ Target(c) \in Resources
         /\ shopify[Target(c)].version > 0
<1>1. /\ consumer[c].event \in Events /\ Target(c) \in Resources
      /\ row[consumer[c].event].status # "absent"
  BY BusyMemory DEF CInv, Working
<1>2. feed[consumer[c].event].stage # "unsent"
  BY <1>1 DEF CInv, IInv, FeedIsSound
<1>3. Target(c) = ResourceOf[consumer[c].event]
  BY DEF Target
<1>4. feed[consumer[c].event].kind # "unreadable"
  BY DEF CInv, Convergence, ProcessorFits, Working
<1>5. feed[consumer[c].event].version > 0
  BY <1>1, <1>4 DEF CInv, Convergence, FeedIsTrue
<1>6. feed[consumer[c].event].version <= shopify[Target(c)].version
  BY <1>1, <1>3 DEF CInv, IInv, FeedIsSound
<1> QED
  BY <1>1, <1>2, <1>3, <1>5, <1>6, Versions DEF CInv, IInv

\* Where Shopify stands still and no announcement is forgotten, the latest
\* deliveries stay the latest.
LEMMA FeedKept ==
  ASSUME CInv, UNCHANGED shopify,
         \A e \in Events : /\ feed'[e].kind = feed[e].kind
                           /\ feed'[e].version = feed[e].version
                           /\ feed[e].stage # "unsent" => feed'[e].stage # "unsent",
         \A e \in Events : e \in applied' => e \in applied \/ feed[e].stage # "unsent"
  PROVE  FeedIsTrue' /\ \A e \in Events : Latest(e)' <=> Latest(e)
<1>1. \A e \in Events : Latest(e)' <=> Latest(e)
  BY DEF Latest
<1>2. \A e \in Events :
        /\ feed'[e].kind # "unreadable" => feed'[e].stage # "unsent" /\ feed'[e].version > 0
        /\ e \in applied' => feed'[e].stage # "unsent"
  BY DEF CInv, Convergence, FeedIsTrue
<1>3. \A x \in Resources :
        shopify'[x].version > 0 => \E e \in Events : ResourceOf[e] = x /\ Latest(e)'
  BY <1>1 DEF CInv, Convergence, FeedIsTrue
<1> QED
  BY <1>1, <1>2, <1>3 DEF FeedIsTrue

\* A step that writes nothing and sets no processor to work or forward.
LEMMA QuietStep ==
  ASSUME CInv, IInv',
         UNCHANGED <<shopify, copy, applied, overlapped, loose>>,
         \A e \in Events : /\ feed'[e].kind = feed[e].kind
                           /\ feed'[e].version = feed[e].version
                           /\ feed[e].stage # "unsent" => feed'[e].stage # "unsent",
         \A c \in Consumers :
           consumer'[c].pc \in Working => /\ consumer'[c].pc = consumer[c].pc
                                          /\ consumer'[c].event = consumer[c].event
                                          /\ consumer'[c].read = consumer[c].read
  PROVE  CInv'
<1>1. FeedIsTrue' /\ \A e \in Events : Latest(e)' <=> Latest(e)
  BY FeedKept
<1>2. \A c \in Consumers :
        consumer'[c].pc \in Working => /\ consumer[c].pc \in Working
                                       /\ consumer[c].event \in Events
                                       /\ Target(c)' = Target(c)
  BY WorkingEvent DEF Target
<1>3. ASSUME NEW c \in Consumers PROVE ProcessorFits(consumer[c])'
  <2>1. CASE consumer'[c].pc \in Working
    <3>1. ProcessorFits(consumer[c])
      BY DEF CInv, Convergence
    <3> QED
      BY <1>2, <2>1, <3>1 DEF ProcessorFits
  <2>2. CASE consumer'[c].pc \notin Working
    BY <2>2 DEF ProcessorFits, Working
  <2> QED
    BY <2>1, <2>2
<1>4. ASSUME NEW c \in Consumers, consumer'[c].pc \in Working, Target(c)' \notin overlapped'
      PROVE  CopyFits(consumer[c])'
  <2>1. CopyFits(consumer[c])
    BY <1>2, <1>4 DEF CInv, Convergence
  <2> QED
    BY <1>2, <1>4, <2>1 DEF CopyFits
<1>5. WorkedAlone'
  <2>1. ASSUME NEW c1 \in Consumers, NEW c2 \in Consumers, c1 # c2,
               consumer'[c1].pc \in Working, consumer'[c2].pc \in Working,
               Target(c1)' = Target(c2)'
        PROVE  Target(c1)' \in overlapped'
    <3>1. /\ consumer[c1].pc \in Working /\ consumer[c2].pc \in Working
          /\ Target(c1) = Target(c2) /\ Target(c1)' = Target(c1)
      BY <1>2, <2>1
    <3> QED
      BY <2>1, <3>1 DEF CInv, Convergence, WorkedAlone
  <2> QED
    BY <2>1 DEF WorkedAlone
<1>6. \A x \in Resources : Agree(x)' <=> Agree(x)
  BY DEF Agree
<1>7. AppliedAgrees'
  <2>1. ASSUME NEW e \in applied', Latest(e)', ResourceOf[e] \notin (overlapped \cup loose)'
        PROVE  /\ Agree(ResourceOf[e])'
               /\ \A c \in Consumers :
                    (consumer[c].pc \in {"order", "parts", "sweep"} /\ Target(c) = ResourceOf[e])' =>
                      /\ consumer'[c].read = shopify'[ResourceOf[e]].version
                      /\ ~shopify'[ResourceOf[e]].gone
    <3>1. e \in applied /\ e \in Events
      BY <2>1 DEF CInv, IInv, TypeOK
    <3>2. Latest(e) /\ ResourceOf[e] \notin overlapped \cup loose /\ ResourceOf[e] \in Resources
      BY <1>1, <2>1, <3>1, ConstantsAssumption
    <3>3. /\ Agree(ResourceOf[e])
          /\ \A c \in Consumers :
               consumer[c].pc \in {"order", "parts", "sweep"} /\ Target(c) = ResourceOf[e] =>
                 /\ consumer[c].read = shopify[ResourceOf[e]].version
                 /\ ~shopify[ResourceOf[e]].gone
      BY <3>1, <3>2 DEF CInv, Convergence, AppliedAgrees
    <3>4. ASSUME NEW c \in Consumers, consumer'[c].pc \in {"order", "parts", "sweep"},
                 Target(c)' = ResourceOf[e]
          PROVE  /\ consumer'[c].read = shopify'[ResourceOf[e]].version
                 /\ ~shopify'[ResourceOf[e]].gone
      <4>1. consumer'[c].pc \in Working
        BY <3>4 DEF Working
      <4> QED
        BY <1>2, <3>3, <3>4, <4>1
    <3> QED
      BY <1>6, <3>2, <3>3, <3>4
  <2> QED
    BY <2>1 DEF AppliedAgrees
<1>8. \A x \in Resources : shopify'[x].version = 0 => Agree(x)'
  BY <1>6 DEF CInv, Convergence
<1> QED
  BY <1>1, <1>3, <1>4, <1>5, <1>7, <1>8 DEF CInv, Convergence

\* A step of a processor, which touches nothing but its own resource.
LEMMA WorkerStep ==
  ASSUME CInv, IInv', NEW c \in Consumers, consumer[c].pc \in Working,
         NEW x, x = Target(c), NEW m \in ConsumerType,
         consumer' = [consumer EXCEPT ![c] = m], m.event = consumer[c].event,
         UNCHANGED <<shopify, feed, overlapped>>, loose \subseteq loose',
         \A y \in Resources \ {x} : copy'[y] = copy[y],
         applied' \subseteq applied \cup {consumer[c].event},
         ProcessorFits(m),
         m.pc \in Working /\ x \notin overlapped => CopyFits(m)',
         \A e \in applied' :
           ResourceOf[e] = x /\ Latest(e) /\ x \notin overlapped \cup loose' =>
             /\ Agree(x)'
             /\ m.pc \in {"order", "parts", "sweep"} =>
                  m.read = shopify[x].version /\ ~shopify[x].gone
  PROVE  CInv'
<1>1. /\ consumer[c].event \in Events /\ feed[consumer[c].event].stage # "unsent"
      /\ x = ResourceOf[consumer[c].event] /\ x \in Resources /\ shopify[x].version > 0
  BY WorkingEvent
<1>2. FeedIsTrue' /\ \A e \in Events : Latest(e)' <=> Latest(e)
  BY <1>1, FeedKept
<1>3. \A d \in Consumers : consumer'[d] = IF d = c THEN m ELSE consumer[d]
  BY DEF CInv, IInv, TypeOK
<1>4. Target(c)' = x /\ \A d \in Consumers : Target(d)' = Target(d)
  BY <1>1, <1>3 DEF Target
<1>5. ASSUME NEW d \in Consumers PROVE ProcessorFits(consumer[d])'
  <2>1. PICK n : n = consumer'[d]
    OBVIOUS
  <2>2. ProcessorFits(n)
    BY <1>3, <1>5, <2>1 DEF CInv, Convergence
  <2>3. ProcessorFits(n)'
    BY <2>2 DEF ProcessorFits
  <2> QED
    BY <2>1, <2>3 DEF ProcessorFits
<1>6. ASSUME NEW d \in Consumers \ {c}, consumer[d].pc \in Working, Target(d) = x
      PROVE  x \in overlapped
  BY <1>6 DEF CInv, Convergence, WorkedAlone
<1>7. ASSUME NEW d \in Consumers, consumer'[d].pc \in Working, Target(d)' \notin overlapped'
      PROVE  CopyFits(consumer[d])'
  <2>1. CASE d = c
    <3>1. consumer'[c] = m /\ CopyFits(m)'
      BY <1>3, <1>4, <1>7, <2>1
    <3> QED
      BY <2>1, <3>1 DEF CopyFits
  <2>2. CASE d # c
    <3>1. PICK n : n = consumer[d]
      OBVIOUS
    <3>2. consumer'[d] = n
      BY <1>3, <2>2, <3>1
    <3>3. n.pc \in Working /\ ResourceOf[n.event] = Target(d) /\ Target(d) \in Resources
          /\ Target(d) \notin overlapped
      BY <1>4, <1>7, <3>1, <3>2, WorkingEvent
    <3>4. Target(d) # x
      BY <1>6, <2>2, <3>1, <3>3
    <3>5. CopyFits(n)
      BY <3>1, <3>3 DEF CInv, Convergence
    <3>6. CopyFits(n)'
      BY <3>3, <3>4, <3>5 DEF CopyFits
    <3> QED
      BY <3>2, <3>6 DEF CopyFits
  <2> QED
    BY <2>1, <2>2
<1>8. WorkedAlone'
  <2>1. ASSUME NEW c1 \in Consumers, NEW c2 \in Consumers, c1 # c2,
               consumer'[c1].pc \in Working, consumer'[c2].pc \in Working,
               Target(c1)' = Target(c2)'
        PROVE  Target(c1)' \in overlapped'
    <3>1. consumer[c1].pc \in Working /\ consumer[c2].pc \in Working
      BY <1>3, <2>1
    <3> QED
      BY <1>4, <2>1, <3>1 DEF CInv, Convergence, WorkedAlone
  <2> QED
    BY <2>1 DEF WorkedAlone
<1>9. ASSUME NEW y \in Resources \ {x} PROVE Agree(y)' <=> Agree(y)
  BY <1>9 DEF Agree
<1>10. \A y \in Resources : shopify'[y].version = 0 => Agree(y)'
  <2>1. \A y \in Resources : shopify'[y].version = 0 => y # x
    BY <1>1
  <2> QED
    BY <1>9, <2>1 DEF CInv, Convergence
<1>11. AppliedAgrees'
  <2>1. ASSUME NEW e \in applied', Latest(e)', ResourceOf[e] \notin (overlapped \cup loose)'
        PROVE  /\ Agree(ResourceOf[e])'
               /\ \A d \in Consumers :
                    (consumer[d].pc \in {"order", "parts", "sweep"} /\ Target(d) = ResourceOf[e])' =>
                      /\ consumer'[d].read = shopify'[ResourceOf[e]].version
                      /\ ~shopify'[ResourceOf[e]].gone
    <3>1. e \in Events /\ ResourceOf[e] \in Resources /\ Latest(e)
      BY <1>2, <2>1, ConstantsAssumption DEF IInv, TypeOK
    <3>2. PICK y : y = ResourceOf[e]
      OBVIOUS
    <3>3. y \in Resources /\ y \notin overlapped /\ y \notin loose /\ y \notin loose'
      BY <2>1, <3>1, <3>2
    <3>4. CASE y = x
      <4>1. /\ Agree(x)'
            /\ m.pc \in {"order", "parts", "sweep"} =>
                 m.read = shopify[x].version /\ ~shopify[x].gone
        BY <2>1, <3>1, <3>2, <3>3, <3>4
      <4>2. ASSUME NEW d \in Consumers, consumer'[d].pc \in {"order", "parts", "sweep"},
                   Target(d)' = x
            PROVE  consumer'[d].read = shopify'[x].version /\ ~shopify'[x].gone
        <5>1. CASE d = c
          BY <1>3, <4>1, <4>2, <5>1
        <5>2. CASE d # c
          <6>1. consumer[d].pc \in Working /\ Target(d) = x
            BY <1>3, <1>4, <4>2, <5>2 DEF Working
          <6> QED
            BY <1>6, <3>3, <3>4, <5>2, <6>1
        <5> QED
          BY <5>1, <5>2
      <4> QED
        BY <3>2, <3>4, <4>1, <4>2
    <3>5. CASE y # x
      <4>1. e \in applied
        BY <1>1, <2>1, <3>2, <3>5
      <4>2. /\ Agree(y)
            /\ \A d \in Consumers :
                 consumer[d].pc \in {"order", "parts", "sweep"} /\ Target(d) = y =>
                   consumer[d].read = shopify[y].version /\ ~shopify[y].gone
        BY <3>1, <3>2, <3>3, <4>1 DEF CInv, Convergence, AppliedAgrees
      <4>3. Agree(y)'
        BY <1>9, <3>3, <3>5, <4>2
      <4>4. ASSUME NEW d \in Consumers, consumer'[d].pc \in {"order", "parts", "sweep"},
                   Target(d)' = y
            PROVE  consumer'[d].read = shopify'[y].version /\ ~shopify'[y].gone
        <5>1. d # c /\ Target(d) = y
          BY <1>4, <3>5, <4>4
        <5> QED
          BY <1>3, <4>2, <4>4, <5>1
      <4> QED
        BY <3>2, <4>3, <4>4
    <3> QED
      BY <3>4, <3>5
  <2> QED
    BY <2>1 DEF AppliedAgrees
<1> QED
  BY <1>2, <1>5, <1>7, <1>8, <1>10, <1>11 DEF CInv, Convergence

-----------------------------------------------------------------------------
(* Shopify *)

\* A change, a removal or an unreadable body: nothing is written, and what was
\* the latest delivery of another resource still is.
LEMMA AnnounceConverges ==
  ASSUME CInv, IInv', NEW e \in Events, Change(e) \/ Remove(e) \/ Garble(e)
  PROVE  CInv'
<1>1. /\ feed[e].stage = "unsent"
      /\ UNCHANGED <<takenBack, copy, row, consumer, applied, overlapped, loose>>
  BY DEF Change, Remove, Garble, Announce
<1>2. PICK x \in Resources : x = ResourceOf[e]
  BY ConstantsAssumption
<1>3. /\ shopify \in [Resources -> ShopifyType] /\ feed \in [Events -> FeedType]
      /\ shopify[x] \in ShopifyType
  BY DEF CInv, IInv, TypeOK
<1>4. PICK kind \in Kinds :
        /\ feed' = [feed EXCEPT ![e] = [stage |-> "sent", kind |-> kind,
                                        version |-> shopify'[x].version]]
        /\ Change(e) => kind = "upsert"
        /\ Remove(e) => kind = "delete"
        /\ ~Change(e) /\ ~Remove(e) => Garble(e) /\ kind = "unreadable"
  <2>1. CASE Change(e)
    <3>1. ~Remove(e)
      <4>1. Change(e) => feed'[e].kind = "upsert"
        BY <1>3 DEF Change, Announce
      <4>2. Remove(e) => feed'[e].kind = "delete"
        BY <1>3 DEF Remove, Announce
      <4> QED
        BY <2>1, <4>1, <4>2
    <3> QED
      BY <2>1, <3>1, <1>2 DEF Change, Announce, Kinds
  <2>2. CASE Remove(e) /\ ~Change(e)
    BY <2>2, <1>2 DEF Remove, Announce, Kinds
  <2>3. CASE Garble(e) /\ ~Change(e) /\ ~Remove(e)
    BY <2>3, <1>2 DEF Garble, Announce, Kinds
  <2> QED
    BY <2>1, <2>2, <2>3
<1>5. /\ \A f \in Events \ {e} : feed'[f] = feed[f]
      /\ feed'[e].stage = "sent" /\ feed'[e].kind = kind
      /\ feed'[e].version = shopify'[x].version
  BY <1>3, <1>4
<1>6. /\ \A y \in Resources \ {x} : shopify'[y] = shopify[y]
      /\ shopify'[x].shape = shopify[x].shape
      /\ shopify'[x].version \in Nat /\ shopify[x].version \in Nat
      /\ \/ /\ kind = "upsert" /\ ~shopify[x].gone /\ ~shopify'[x].gone
            /\ shopify'[x].version = shopify[x].version + 1
         \/ /\ kind = "delete" /\ ~shopify[x].gone /\ shopify'[x].gone
            /\ shopify'[x].version = shopify[x].version /\ shopify[x].version > 0
         \/ kind = "unreadable" /\ shopify'[x] = shopify[x]
  <2>1. shopify[x].version \in Nat
    BY <1>3, ConstantsAssumption DEF ShopifyType
  <2>2. CASE Change(e)
    BY <1>2, <1>3, <1>4, <2>1, <2>2 DEF Change, ShopifyType
  <2>3. CASE Remove(e)
    BY <1>2, <1>3, <1>4, <2>1, <2>3 DEF Remove, ShopifyType
  <2>4. CASE ~Change(e) /\ ~Remove(e)
    BY <1>2, <1>3, <1>4, <2>1, <2>4 DEF Garble
  <2> QED
    BY <2>2, <2>3, <2>4
<1>7. /\ e \notin applied
      /\ \A c \in Consumers : consumer[c].pc \in Working => consumer[c].event # e
  BY <1>1, WorkingEvent DEF CInv, Convergence, FeedIsTrue
<1>8. ASSUME NEW f \in Events \ {e}
      PROVE  /\ feed'[f] = feed[f] /\ feed[f].version \in Nat
             /\ ResourceOf[f] \in Resources
             /\ feed[f].version <= shopify[ResourceOf[f]].version
             /\ feed[f].kind = "delete" => shopify[ResourceOf[f]].gone
  BY <1>5, <1>8, Versions, ConstantsAssumption DEF CInv, IInv, FeedIsSound
<1>9. ASSUME NEW f \in Events \ {e}, ResourceOf[f] = x
      PROVE  Latest(f)' => Latest(f) /\ kind = "unreadable"
  <2>1. feed'[f] = feed[f] /\ feed[f].version <= shopify[x].version
        /\ (feed[f].kind = "delete" => shopify[x].gone) /\ feed[f].version \in Nat
    BY <1>8, <1>9
  <2> QED
    BY <1>2, <1>6, <1>9, <2>1 DEF Latest
<1>10. ASSUME NEW f \in Events \ {e}, ResourceOf[f] # x
       PROVE  Latest(f)' <=> Latest(f)
  <2>1. feed'[f] = feed[f] /\ shopify'[ResourceOf[f]] = shopify[ResourceOf[f]]
    BY <1>6, <1>8, <1>10
  <2> QED
    BY <2>1 DEF Latest
<1>11. FeedIsTrue'
  <2>1. ASSUME NEW f \in Events
        PROVE  /\ feed'[f].kind # "unreadable" =>
                    feed'[f].stage # "unsent" /\ feed'[f].version > 0
               /\ f \in applied' => feed'[f].stage # "unsent"
    <3>1. CASE f = e
      BY <1>5, <1>6, <3>1
    <3>2. CASE f # e
      BY <1>1, <1>8, <3>2 DEF CInv, Convergence, FeedIsTrue
    <3> QED
      BY <3>1, <3>2
  <2>2. ASSUME NEW y \in Resources, shopify'[y].version > 0
        PROVE  \E f \in Events : ResourceOf[f] = y /\ Latest(f)'
    <3>1. CASE y = x /\ kind # "unreadable"
      <4>1. Latest(e)'
        BY <1>2, <1>5, <1>6, <3>1 DEF Latest
      <4> QED
        BY <1>2, <3>1, <4>1
    <3>2. CASE y # x \/ kind = "unreadable"
      <4>1. shopify'[y] = shopify[y]
        BY <1>6, <3>2
      <4>2. PICK f \in Events : ResourceOf[f] = y /\ Latest(f)
        BY <2>2, <4>1 DEF CInv, Convergence, FeedIsTrue
      <4>3. f # e
        BY <1>1, <4>2 DEF CInv, Convergence, FeedIsTrue, Latest
      <4>4. feed'[f] = feed[f]
        BY <1>5, <4>3
      <4>5. Latest(f)'
        BY <4>1, <4>2, <4>4 DEF Latest
      <4> QED
        BY <4>2, <4>5
    <3> QED
      BY <3>1, <3>2
  <2> QED
    BY <2>1, <2>2 DEF FeedIsTrue
<1>12. ASSUME NEW c \in Consumers PROVE ProcessorFits(consumer[c])'
  <2>1. PICK m : m = consumer[c]
    OBVIOUS
  <2>2. CASE m.pc \in Working
    <3>1. /\ m.event \in Events \ {e} /\ feed'[m.event] = feed[m.event]
          /\ ResourceOf[m.event] \in Resources /\ m.read \in Nat
      BY <1>7, <1>8, <2>1, <2>2, WorkingEvent, Versions DEF CInv, IInv
    <3>2. /\ shopify'[ResourceOf[m.event]].shape = shopify[ResourceOf[m.event]].shape
          /\ shopify'[ResourceOf[m.event]].version >= shopify[ResourceOf[m.event]].version
          /\ shopify'[ResourceOf[m.event]].version \in Nat
          /\ shopify[ResourceOf[m.event]].version \in Nat
      <4>1. CASE ResourceOf[m.event] = x
        BY <1>6, <4>1
      <4>2. CASE ResourceOf[m.event] # x
        BY <1>6, <3>1, <4>2, Versions DEF CInv, IInv
      <4> QED
        BY <4>1, <4>2
    <3>3. ProcessorFits(m)
      BY <2>1 DEF CInv, Convergence
    <3>4. ProcessorFits(m)'
      BY <3>1, <3>2, <3>3 DEF ProcessorFits
    <3> QED
      BY <1>1, <2>1, <3>4 DEF ProcessorFits
  <2>3. CASE m.pc \notin Working
    BY <1>1, <2>1, <2>3 DEF ProcessorFits, Working
  <2> QED
    BY <2>2, <2>3
<1>13. ASSUME NEW c \in Consumers, consumer'[c].pc \in Working, Target(c)' \notin overlapped'
       PROVE  CopyFits(consumer[c])'
  <2>1. PICK m : m = consumer[c]
    OBVIOUS
  <2>2. m.pc \in Working /\ CopyFits(m) /\ ResourceOf[m.event] \in Resources
    BY <1>1, <1>13, <2>1, WorkingEvent DEF CInv, Convergence, Target
  <2>3. shopify'[ResourceOf[m.event]].shape = shopify[ResourceOf[m.event]].shape
    BY <1>6, <2>2
  <2>4. CopyFits(m)'
    BY <1>1, <2>2, <2>3 DEF CopyFits
  <2> QED
    BY <1>1, <2>1, <2>4 DEF CopyFits
<1>14. WorkedAlone'
  BY <1>1 DEF CInv, Convergence, WorkedAlone, Target
<1>15. ASSUME NEW y \in Resources, shopify'[y] = shopify[y] PROVE Agree(y)' <=> Agree(y)
  BY <1>1, <1>15 DEF Agree
<1>16. ASSUME NEW y \in Resources, shopify'[y].version = 0 PROVE Agree(y)'
  <2>1. shopify'[y] = shopify[y]
    BY <1>6, <1>16
  <2> QED
    BY <1>15, <1>16, <2>1 DEF CInv, Convergence
<1>17. AppliedAgrees'
  <2>1. ASSUME NEW f \in applied', Latest(f)', ResourceOf[f] \notin (overlapped \cup loose)'
        PROVE  /\ Agree(ResourceOf[f])'
               /\ \A c \in Consumers :
                    (consumer[c].pc \in {"order", "parts", "sweep"} /\ Target(c) = ResourceOf[f])' =>
                      /\ consumer'[c].read = shopify'[ResourceOf[f]].version
                      /\ ~shopify'[ResourceOf[f]].gone
    <3>1. f \in Events \ {e} /\ f \in applied /\ ResourceOf[f] \in Resources
      BY <1>1, <1>7, <2>1, ConstantsAssumption DEF CInv, IInv, TypeOK
    <3>2. Latest(f) /\ (ResourceOf[f] = x => kind = "unreadable")
      BY <1>9, <1>10, <2>1, <3>1
    <3>3. shopify'[ResourceOf[f]] = shopify[ResourceOf[f]]
      BY <1>6, <3>1, <3>2
    <3>4. /\ Agree(ResourceOf[f])
          /\ \A c \in Consumers :
               consumer[c].pc \in {"order", "parts", "sweep"} /\ Target(c) = ResourceOf[f] =>
                 /\ consumer[c].read = shopify[ResourceOf[f]].version
                 /\ ~shopify[ResourceOf[f]].gone
      BY <1>1, <2>1, <3>1, <3>2 DEF CInv, Convergence, AppliedAgrees
    <3>5. \A c \in Consumers : Target(c)' = Target(c)
      BY <1>1 DEF Target
    <3> QED
      BY <1>1, <1>15, <3>1, <3>3, <3>4, <3>5
  <2> QED
    BY <2>1 DEF AppliedAgrees
<1> QED
  BY <1>11, <1>12, <1>13, <1>14, <1>16, <1>17 DEF CInv, Convergence

-----------------------------------------------------------------------------
(* The processors *)

\* What is known of a processor at work, and what its resource owes to it.
LEMMA AtWork ==
  ASSUME CInv, NEW c \in Consumers, consumer[c].pc \in Working,
         NEW x, x = Target(c), x \notin overlapped, x \notin loose,
         NEW e \in applied, ResourceOf[e] = x, Latest(e)
  PROVE  /\ Agree(x)
         /\ consumer[c].pc \in {"order", "parts", "sweep"} =>
              consumer[c].read = shopify[x].version /\ ~shopify[x].gone
  BY DEF CInv, Convergence, AppliedAgrees

\* Of a resource that is gone only the deletion is the latest delivery.
LEMMA GoneLatest ==
  ASSUME NEW e \in Events, shopify[ResourceOf[e]].gone, Latest(e)
  PROVE  feed[e].kind = "delete"
  BY DEF Latest

\* A resource that is read.
LEMMA ReadConverges ==
  ASSUME CInv, IInv', NEW c \in Consumers, Read(c)
  PROVE  CInv'
<1>1. PICK n \in ConsumerType : n = consumer[c]
  BY DEF CInv, IInv, TypeOK
<1>2. PICK x : x = Target(c)
  OBVIOUS
<1>3. /\ n.pc = "read" /\ consumer[c].pc \in Working /\ n.event \in Events
      /\ x \in Resources /\ x = ResourceOf[n.event]
  BY <1>1, <1>2, WorkingEvent DEF Read, Working
<1>4. UNCHANGED <<shopify, copy, overlapped, loose, feed>>
  BY DEF Read, world
<1>5. ProcessorFits(n)
  BY <1>1 DEF CInv, Convergence
<1>6. feed[n.event].kind = "upsert"
  BY <1>3, <1>5 DEF ProcessorFits
<1>7. Agree(x) => Agree(x)'
  BY <1>4 DEF Agree
<1>8. CASE shopify[x].gone
  <2>1. PICK m : m = [n EXCEPT !.pc = "conclude", !.read = 0, !.out = "done"]
    OBVIOUS
  <2>2. consumer' = [consumer EXCEPT ![c] = m] /\ applied' \subseteq applied \cup {n.event}
    BY <1>1, <1>2, <1>8, <2>1 DEF Read, Ends, Update, Apply
  <2>3. m \in ConsumerType
    BY <2>1, EndsType DEF Outcomes
  <2>4. m.pc = "conclude" /\ m.event = n.event
    BY <2>1 DEF ConsumerType
  <2>5. ProcessorFits(m) /\ m.pc \notin Working
    BY <2>4 DEF ProcessorFits, Working
  <2>6. ASSUME NEW e \in applied', ResourceOf[e] = x, Latest(e), x \notin overlapped \cup loose'
        PROVE  Agree(x)'
    <3>1. e # n.event
      BY <1>3, <1>6, <1>8, <2>6 DEF Latest
    <3>2. e \in applied
      BY <2>2, <2>6, <3>1
    <3> QED
      BY <1>2, <1>3, <1>4, <1>7, <2>6, <3>2, AtWork
  <2> QED
    BY <1>1, <1>2, <1>3, <1>4, <2>2, <2>3, <2>4, <2>5, <2>6, WorkerStep
<1>9. CASE ~shopify[x].gone
  <2>1. PICK pc \in {"order", "parts"} :
          pc = IF shopify[x].shape = "order" THEN "order" ELSE "parts"
    OBVIOUS
  <2>2. PICK m : m = [n EXCEPT !.pc = pc, !.read = shopify[x].version]
    OBVIOUS
  <2>3. consumer' = [consumer EXCEPT ![c] = m] /\ UNCHANGED applied
    BY <1>1, <1>2, <1>9, <2>1, <2>2 DEF Read, Update
  <2>4. m \in ConsumerType
    <3>1. pc \in PCs
      BY DEF PCs, Working
    <3>2. shopify[x].version \in 0 .. MaxVersion
      BY <1>3 DEF CInv, IInv, TypeOK, ShopifyType
    <3>3. [n EXCEPT !.pc = pc] \in ConsumerType
      BY <3>1, FieldTypes
    <3> QED
      BY <2>2, <3>2, <3>3, FieldTypes
  <2>5. m.pc = pc /\ m.event = n.event /\ m.read = shopify[x].version
    BY <2>2 DEF ConsumerType
  <2>6. shopify[x].version \in Nat
    BY <1>3, Versions DEF CInv, IInv
  <2>7. ProcessorFits(m)
    BY <1>3, <1>6, <2>1, <2>5, <2>6 DEF ProcessorFits
  <2>8. CopyFits(m)'
    <3>1. m.pc = "order" \/ shopify'[ResourceOf[m.event]].shape # "order"
      BY <1>3, <1>4, <2>1, <2>5
    <3>2. m.pc \in {"order", "parts"}
      BY <2>1, <2>5
    <3> QED
      BY <3>1, <3>2 DEF CopyFits
  <2>9. ASSUME NEW e \in applied', ResourceOf[e] = x, Latest(e), x \notin overlapped \cup loose'
        PROVE  Agree(x)'
    <3>1. e \in applied
      BY <2>3, <2>9
    <3> QED
      BY <1>2, <1>3, <1>4, <1>7, <2>9, <3>1, AtWork
  <2> QED
    BY <1>1, <1>2, <1>3, <1>4, <1>9, <2>3, <2>4, <2>5, <2>7, <2>8, <2>9, WorkerStep
<1> QED
  BY <1>8, <1>9

\* An order or its parts are written.
LEMMA WriteConverges ==
  ASSUME CInv, IInv', NEW c \in Consumers, WriteOrder(c) \/ WriteParts(c)
  PROVE  CInv'
<1>1. PICK n \in ConsumerType : n = consumer[c]
  BY DEF CInv, IInv, TypeOK
<1>2. PICK x : x = Target(c)
  OBVIOUS
<1>3. /\ n.pc \in {"order", "parts"} /\ consumer[c].pc \in Working /\ n.event \in Events
      /\ x \in Resources /\ x = ResourceOf[n.event] /\ shopify[x].version > 0
  BY <1>1, <1>2, WorkingEvent DEF WriteOrder, WriteParts, Working
<1>4. UNCHANGED <<shopify, overlapped, loose, feed, applied>>
  BY DEF WriteOrder, WriteParts
<1>5. ProcessorFits(n) /\ (x \notin overlapped => CopyFits(n))
  BY <1>1, <1>2, <1>3 DEF CInv, Convergence
<1>6. PICK pc \in {"parts", "sweep"} :
        /\ WriteOrder(c) => pc = "parts"
        /\ WriteParts(c) => pc = "sweep"
        /\ consumer' = [consumer EXCEPT ![c] = [n EXCEPT !.pc = pc]]
  <2>1. ~(WriteOrder(c) /\ WriteParts(c))
    BY DEF WriteOrder, WriteParts
  <2> QED
    BY <1>1, <2>1 DEF WriteOrder, WriteParts, Goto, Update
<1>7. PICK m : m = [n EXCEPT !.pc = pc]
  OBVIOUS
<1>8. m \in ConsumerType
  BY <1>7, FieldTypes DEF PCs, Working
<1>9. m.pc = pc /\ m.event = n.event /\ m.read = n.read
  BY <1>7 DEF ConsumerType
<1>10. ProcessorFits(m)
  BY <1>3, <1>5, <1>9 DEF ProcessorFits
<1>11. /\ \A y \in Resources \ {x} : copy'[y] = copy[y]
       /\ WriteOrder(c) => copy'[x].order = n.read /\ copy'[x].parts = copy[x].parts
       /\ WriteParts(c) => /\ copy'[x].order = copy[x].order
                           /\ copy'[x].parts = copy[x].parts \cup {n.read}
  <2>1. copy \in [Resources -> CopyType] /\ copy[x] \in CopyType
    BY <1>3 DEF CInv, IInv, TypeOK
  <2>2. CASE WriteOrder(c)
    <3>1. copy' = [copy EXCEPT ![x] = [copy[x] EXCEPT !.order = n.read]]
      BY <1>1, <1>2, <2>2 DEF WriteOrder
    <3>2. ~WriteParts(c)
      BY <2>2 DEF WriteOrder, WriteParts
    <3> QED
      BY <1>3, <2>1, <3>1, <3>2 DEF CopyType
  <2>3. CASE WriteParts(c)
    <3>1. copy' = [copy EXCEPT ![x] = [copy[x] EXCEPT !.parts = copy[x].parts \cup {n.read}]]
      BY <1>1, <1>2, <2>3 DEF WriteParts
    <3>2. ~WriteOrder(c)
      BY <2>3 DEF WriteOrder, WriteParts
    <3> QED
      BY <1>3, <2>1, <3>1, <3>2 DEF CopyType
  <2> QED
    BY <2>2, <2>3
<1>12. ASSUME x \notin overlapped PROVE CopyFits(m)'
  <2>1. CopyFits(n)
    BY <1>5, <1>12
  <2>2. CASE WriteOrder(c)
    BY <1>3, <1>4, <1>6, <1>9, <1>11, <2>2 DEF CopyFits
  <2>3. CASE WriteParts(c)
    <3>1. n.pc = "parts" /\ m.pc = "sweep"
      BY <1>1, <1>6, <1>9, <2>3 DEF WriteParts
    <3> QED
      BY <1>3, <1>4, <1>9, <1>11, <2>1, <2>3, <3>1 DEF CopyFits
  <2> QED
    BY <2>2, <2>3
<1>13. ASSUME NEW e \in applied', ResourceOf[e] = x, Latest(e), x \notin overlapped \cup loose'
       PROVE  Agree(x)' /\ m.read = shopify[x].version /\ ~shopify[x].gone
  <2>1. Agree(x) /\ n.read = shopify[x].version /\ ~shopify[x].gone
    BY <1>1, <1>2, <1>3, <1>4, <1>13, AtWork
  <2>2. copy[x].parts = {shopify[x].version}
        /\ (shopify[x].shape = "order" => copy[x].order = shopify[x].version)
    BY <1>3, <2>1 DEF Agree
  <2>3. copy'[x].parts = {shopify[x].version}
        /\ (shopify[x].shape = "order" => copy'[x].order = shopify[x].version)
    BY <1>11, <2>1, <2>2
  <2>4. Agree(x)'
    BY <1>3, <1>4, <2>1, <2>3 DEF Agree
  <2> QED
    BY <1>9, <2>1, <2>4
<1>14. consumer' = [consumer EXCEPT ![c] = m] /\ m.event = consumer[c].event
  BY <1>1, <1>6, <1>7, <1>9
<1>15. \A y \in Resources \ {x} : copy'[y] = copy[y]
  BY <1>11
<1> QED
  BY <1>2, <1>3, <1>4, <1>8, <1>10, <1>12, <1>13, <1>14, <1>15, WorkerStep

\* An upsert ends: its parts are swept, or are left for the periodic run.
LEMMA SweepConverges ==
  ASSUME CInv, IInv', NEW c \in Consumers, Sweep(c) \/ LeaveParts(c)
  PROVE  CInv'
<1>1. PICK n \in ConsumerType : n = consumer[c]
  BY DEF CInv, IInv, TypeOK
<1>2. PICK x : x = Target(c)
  OBVIOUS
<1>3. /\ n.pc = "sweep" /\ consumer[c].pc \in Working /\ n.event \in Events
      /\ x \in Resources /\ x = ResourceOf[n.event] /\ shopify[x].version > 0
  BY <1>1, <1>2, WorkingEvent DEF Sweep, LeaveParts, Working
<1>4. UNCHANGED <<shopify, overlapped, feed>> /\ loose \subseteq loose'
  BY DEF Sweep, LeaveParts
<1>5. ProcessorFits(n) /\ (x \notin overlapped => CopyFits(n))
  BY <1>1, <1>2, <1>3 DEF CInv, Convergence
<1>6. PICK m : m = [n EXCEPT !.pc = "conclude", !.read = 0, !.out = "done"]
  OBVIOUS
<1>7. consumer' = [consumer EXCEPT ![c] = m] /\ applied' \subseteq applied \cup {n.event}
  BY <1>1, <1>6 DEF Sweep, LeaveParts, Ends, Update, Apply
<1>8. m \in ConsumerType
  BY <1>6, EndsType DEF Outcomes
<1>9. m.pc = "conclude" /\ m.event = n.event
  BY <1>6 DEF ConsumerType
<1>10. ProcessorFits(m) /\ m.pc \notin Working
  BY <1>9 DEF ProcessorFits, Working
<1>11. /\ \A y \in Resources \ {x} : copy'[y] = copy[y]
       /\ Sweep(c) => /\ copy'[x].order = copy[x].order
                      /\ copy'[x].parts = copy[x].parts \cap {n.read}
       /\ ~Sweep(c) => x \in loose'
  <2>1. copy \in [Resources -> CopyType] /\ copy[x] \in CopyType
    BY <1>3 DEF CInv, IInv, TypeOK
  <2>2. CASE Sweep(c)
    <3>1. copy' = [copy EXCEPT ![x] = [copy[x] EXCEPT !.parts = copy[x].parts \cap {n.read}]]
      BY <1>1, <1>2, <2>2 DEF Sweep
    <3> QED
      BY <1>3, <2>1, <2>2, <3>1 DEF CopyType
  <2>3. CASE ~Sweep(c)
    BY <1>2, <2>3 DEF LeaveParts
  <2> QED
    BY <2>2, <2>3
<1>12. ASSUME NEW e \in applied', ResourceOf[e] = x, Latest(e), x \notin overlapped \cup loose'
       PROVE  Agree(x)'
  <2>1. Sweep(c)
    BY <1>11, <1>12
  <2>2. n.read \in copy[x].parts /\ (shopify[x].shape = "order" => copy[x].order = n.read)
    BY <1>3, <1>5, <1>12 DEF CopyFits
  <2>3. n.read = shopify[x].version /\ ~shopify[x].gone
    <3>1. CASE e \in applied
      BY <1>1, <1>2, <1>3, <1>4, <1>12, <3>1, AtWork
    <3>2. CASE e \notin applied
      <4>1. e = n.event /\ feed[e].kind = "upsert"
        BY <1>3, <1>5, <1>7, <1>12, <3>2 DEF ProcessorFits
      <4>2. ~shopify[x].gone /\ feed[e].version = shopify[x].version
        BY <1>12, <4>1 DEF Latest
      <4>3. n.read >= feed[e].version
        BY <1>1, <1>3, <4>1 DEF CInv, IInv, MemoryIsSound
      <4>4. n.read <= shopify[x].version
        BY <1>3, <1>5 DEF ProcessorFits
      <4>5. n.read \in Nat /\ shopify[x].version \in Nat
        BY <1>1, <1>3, Versions DEF CInv, IInv
      <4> QED
        BY <4>2, <4>3, <4>4, <4>5
    <3> QED
      BY <3>1, <3>2
  <2>4. copy'[x].parts = {shopify[x].version}
        /\ (shopify[x].shape = "order" => copy'[x].order = shopify[x].version)
    BY <1>11, <2>1, <2>2, <2>3
  <2> QED
    BY <1>3, <1>4, <2>3, <2>4 DEF Agree
<1>13. m.event = consumer[c].event
  BY <1>1, <1>9
<1>14. \A y \in Resources \ {x} : copy'[y] = copy[y]
  BY <1>11
<1>15. applied' \subseteq applied \cup {consumer[c].event}
  BY <1>1, <1>7
<1> QED
  BY <1>2, <1>3, <1>4, <1>7, <1>8, <1>9, <1>10, <1>12, <1>13, <1>14, <1>15, WorkerStep

\* A removal: the parts, and then the order.
LEMMA WipeConverges ==
  ASSUME CInv, IInv', NEW c \in Consumers, WipeParts(c) \/ WipeOrder(c)
  PROVE  CInv'
<1>1. PICK n \in ConsumerType : n = consumer[c]
  BY DEF CInv, IInv, TypeOK
<1>2. PICK x : x = Target(c)
  OBVIOUS
<1>3. /\ n.pc \in {"wipeParts", "wipeOrder"} /\ consumer[c].pc \in Working
      /\ n.event \in Events /\ x \in Resources /\ x = ResourceOf[n.event]
  BY <1>1, <1>2, WorkingEvent DEF WipeParts, WipeOrder, Working
<1>4. UNCHANGED <<shopify, overlapped, loose, feed>>
  BY DEF WipeParts, WipeOrder
<1>5. ProcessorFits(n) /\ (x \notin overlapped => CopyFits(n))
  BY <1>1, <1>2, <1>3 DEF CInv, Convergence
<1>6. shopify[x].gone /\ feed[n.event].kind = "delete"
  BY <1>1, <1>3, <1>5 DEF CInv, IInv, MemoryIsSound, ProcessorFits
<1>7. /\ \A y \in Resources \ {x} : copy'[y] = copy[y]
      /\ WipeParts(c) => copy'[x].order = copy[x].order /\ copy'[x].parts = {}
      /\ WipeOrder(c) => copy'[x].order = 0 /\ copy'[x].parts = copy[x].parts
  <2>1. copy \in [Resources -> CopyType] /\ copy[x] \in CopyType
    BY <1>3 DEF CInv, IInv, TypeOK
  <2>2. ~(WipeParts(c) /\ WipeOrder(c))
    BY DEF WipeParts, WipeOrder
  <2>3. CASE WipeParts(c)
    <3>1. copy' = [copy EXCEPT ![x] = [copy[x] EXCEPT !.parts = {}]]
      BY <1>2, <2>3 DEF WipeParts
    <3> QED
      BY <1>3, <2>1, <2>2, <2>3, <3>1 DEF CopyType
  <2>4. CASE WipeOrder(c)
    <3>1. copy' = [copy EXCEPT ![x] = [copy[x] EXCEPT !.order = 0]]
      BY <1>2, <2>4 DEF WipeOrder
    <3> QED
      BY <1>3, <2>1, <2>2, <2>4, <3>1 DEF CopyType
  <2> QED
    BY <2>3, <2>4
<1>8. \A y \in Resources \ {x} : copy'[y] = copy[y]
  BY <1>7
\* The order of a removed order is still there: the removal goes on.
<1>9. CASE WipeParts(c) /\ shopify[x].shape = "order"
  <2>1. PICK m : m = [n EXCEPT !.pc = "wipeOrder"]
    OBVIOUS
  <2>2. m \in ConsumerType
    BY <2>1, FieldTypes DEF PCs, Working
  <2>3. m.pc = "wipeOrder" /\ m.event = n.event
    BY <2>1 DEF ConsumerType
  <2>4. /\ consumer' = [consumer EXCEPT ![c] = m] /\ UNCHANGED applied
        /\ m.event = consumer[c].event
    BY <1>1, <1>2, <1>9, <2>1, <2>3 DEF WipeParts, Goto, Update
  <2>5. ProcessorFits(m)
    BY <1>3, <1>6, <1>9, <2>3 DEF ProcessorFits
  <2>6. CopyFits(m)'
    BY <1>3, <1>7, <1>9, <2>3 DEF CopyFits
  <2>7. ASSUME NEW e \in applied', ResourceOf[e] = x, Latest(e), x \notin overlapped \cup loose'
        PROVE  Agree(x)'
    <3>1. Agree(x)
      BY <1>1, <1>2, <1>3, <1>4, <2>4, <2>7, AtWork
    <3> QED
      BY <1>3, <1>4, <1>6, <1>7, <1>9, <3>1 DEF Agree
  <2> QED
    BY <1>2, <1>3, <1>4, <1>8, <2>2, <2>3, <2>4, <2>5, <2>6, <2>7, WorkerStep
\* Nothing is left.
<1>10. CASE WipeOrder(c) \/ shopify[x].shape # "order"
  <2>1. PICK m : m = [n EXCEPT !.pc = "conclude", !.read = 0, !.out = "done"]
    OBVIOUS
  <2>2. /\ consumer' = [consumer EXCEPT ![c] = m]
        /\ applied' \subseteq applied \cup {consumer[c].event}
    BY <1>1, <1>2, <1>10, <2>1 DEF WipeParts, WipeOrder, Ends, Update, Apply
  <2>3. m \in ConsumerType
    BY <2>1, EndsType DEF Outcomes
  <2>4. m.pc = "conclude" /\ m.event = consumer[c].event
    BY <1>1, <2>1 DEF ConsumerType
  <2>5. ProcessorFits(m) /\ m.pc \notin Working
    BY <2>4 DEF ProcessorFits, Working
  <2>6. ASSUME x \notin overlapped PROVE Agree(x)'
    <3>1. CASE WipeOrder(c)
      <4>1. n.pc = "wipeOrder"
        BY <1>1, <3>1 DEF WipeOrder
      <4>2. copy[x].parts = {}
        BY <1>3, <1>5, <2>6, <4>1 DEF CopyFits
      <4> QED
        BY <1>4, <1>6, <1>7, <3>1, <4>2 DEF Agree
    <3>2. CASE WipeParts(c) /\ shopify[x].shape # "order"
      BY <1>4, <1>6, <1>7, <3>2 DEF Agree
    <3> QED
      BY <1>10, <3>1, <3>2
  <2> QED
    BY <1>2, <1>3, <1>4, <1>8, <2>2, <2>3, <2>4, <2>5, <2>6, WorkerStep
<1> QED
  BY <1>9, <1>10

\* A row is read back: a processor begins, and if another one works the resource
\* that is written down.
LEMMA LoadConverges ==
  ASSUME CInv, IInv', NEW c \in Consumers, Load(c)
  PROVE  CInv'
<1>1. PICK n \in ConsumerType : n = consumer[c]
  BY DEF CInv, IInv, TypeOK
<1>2. /\ n.pc = "load" /\ n.event \in Events /\ Target(c) \in Resources
      /\ feed[n.event].kind \in Kinds
  BY <1>1, BusyMemory, Versions DEF Load, CInv, IInv
<1>3. UNCHANGED <<takenBack, shopify, copy, loose, feed, row, applied, faults>>
  BY DEF Load
<1>4. consumer \in [Consumers -> ConsumerType]
  BY DEF CInv, IInv, TypeOK
<1>5. PICK loaded : loaded = [n EXCEPT !.seen = row[n.event].attempts]
  OBVIOUS
<1>6. loaded \in ConsumerType /\ loaded.event = n.event
  <2>1. row[n.event].attempts \in Nat
    BY <1>2 DEF CInv, IInv, TypeOK, RowType
  <2> QED
    BY <1>5, <2>1, FieldTypes DEF ConsumerType
\* No processor begins.
<1>7. CASE row[n.event].status \notin InTable \/ feed[n.event].kind = "unreadable"
  <2>1. PICK m : m = IF row[n.event].status \notin InTable THEN Released(c)
                     ELSE [loaded EXCEPT !.pc = "conclude", !.out = "dead_letter"]
    OBVIOUS
  <2>2. consumer' = [consumer EXCEPT ![c] = m] /\ UNCHANGED overlapped
    BY <1>1, <1>5, <1>7, <2>1 DEF Load, Update
  <2>3. m.pc \notin Working
    <3>1. Released(c).pc \notin Working
      BY ReleasedType DEF CInv, IInv, Working
    <3>2. [loaded EXCEPT !.pc = "conclude", !.out = "dead_letter"].pc = "conclude"
      BY <1>6 DEF ConsumerType
    <3> QED
      BY <2>1, <3>1, <3>2 DEF Working
  <2>4. \A d \in Consumers : consumer'[d] = IF d = c THEN m ELSE consumer[d]
    BY <1>4, <2>2
  <2> QED
    BY <1>3, <2>2, <2>3, <2>4, QuietStep
\* A processor begins, and knows nothing of its resource yet.
<1>8. CASE row[n.event].status \in InTable /\ feed[n.event].kind # "unreadable"
  <2>1. PICK pc \in {"read", "wipeParts"} :
          pc = IF feed[n.event].kind = "upsert" THEN "read" ELSE "wipeParts"
    OBVIOUS
  <2>2. PICK m : m = [loaded EXCEPT !.pc = pc]
    OBVIOUS
  <2>3. /\ consumer' = [consumer EXCEPT ![c] = m]
        /\ overlapped' = overlapped \cup (IF BusyWith(Target(c)) THEN {Target(c)} ELSE {})
    BY <1>1, <1>5, <1>8, <2>1, <2>2 DEF Load, Update
  <2>4. m.pc = pc /\ m.event = n.event
    BY <1>6, <2>2 DEF ConsumerType
  <2>5. \A d \in Consumers : consumer'[d] = IF d = c THEN m ELSE consumer[d]
    BY <1>4, <2>3
  <2>6. \A d \in Consumers : Target(d)' = Target(d)
    BY <1>1, <2>4, <2>5 DEF Target
  <2>7. FeedIsTrue' /\ \A e \in Events : Latest(e)' <=> Latest(e)
    BY <1>3, FeedKept
  <2>8. ASSUME NEW d \in Consumers PROVE ProcessorFits(consumer[d])'
    <3>1. CASE d = c
      <4>1. pc = "read" => feed[n.event].kind = "upsert"
        BY <2>1
      <4>2. pc = "wipeParts" => feed[n.event].kind = "delete"
        BY <1>2, <1>8, <2>1 DEF Kinds
      <4> QED
        BY <1>3, <2>1, <2>4, <2>5, <3>1, <4>1, <4>2 DEF ProcessorFits
    <3>2. CASE d # c
      <4>1. ProcessorFits(consumer[d])
        BY DEF CInv, Convergence
      <4> QED
        BY <1>3, <2>5, <3>2, <4>1 DEF ProcessorFits
    <3> QED
      BY <3>1, <3>2
  <2>9. ASSUME NEW d \in Consumers, consumer'[d].pc \in Working, Target(d)' \notin overlapped'
        PROVE  CopyFits(consumer[d])'
    <3>1. CASE d = c
      BY <2>1, <2>4, <2>5, <3>1 DEF CopyFits
    <3>2. CASE d # c
      <4>1. CopyFits(consumer[d])
        BY <2>3, <2>5, <2>6, <2>9, <3>2 DEF CInv, Convergence
      <4> QED
        BY <1>3, <2>5, <3>2, <4>1 DEF CopyFits
    <3> QED
      BY <3>1, <3>2
  <2>10. WorkedAlone'
    <3>1. ASSUME NEW d \in Consumers \ {c}, consumer'[d].pc \in Working, Target(d)' = Target(c)'
          PROVE  Target(c)' \in overlapped'
      <4>1. consumer[d].pc \in Working /\ Target(d) = Target(c)
        BY <2>5, <2>6, <3>1
      <4>2. BusyWith(Target(c))
        BY <4>1 DEF BusyWith
      <4> QED
        BY <2>3, <2>6, <4>2
    <3>2. ASSUME NEW c1 \in Consumers, NEW c2 \in Consumers, c1 # c2,
                 consumer'[c1].pc \in Working, consumer'[c2].pc \in Working,
                 Target(c1)' = Target(c2)'
          PROVE  Target(c1)' \in overlapped'
      <4>1. CASE c1 = c \/ c2 = c
        BY <3>1, <3>2, <4>1
      <4>2. CASE c1 # c /\ c2 # c
        <5>1. consumer[c1].pc \in Working /\ consumer[c2].pc \in Working
          BY <2>5, <3>2, <4>2
        <5>2. Target(c1) \in overlapped
          BY <2>6, <3>2, <5>1 DEF CInv, Convergence, WorkedAlone
        <5> QED
          BY <2>3, <2>6, <5>2
      <4> QED
        BY <4>1, <4>2
    <3> QED
      BY <3>2 DEF WorkedAlone
  <2>11. \A x \in Resources : Agree(x)' <=> Agree(x)
    BY <1>3 DEF Agree
  <2>12. AppliedAgrees'
    <3>1. ASSUME NEW e \in applied', Latest(e)', ResourceOf[e] \notin (overlapped \cup loose)'
          PROVE  /\ Agree(ResourceOf[e])'
                 /\ \A d \in Consumers :
                      (consumer[d].pc \in {"order", "parts", "sweep"} /\ Target(d) = ResourceOf[e])' =>
                        /\ consumer'[d].read = shopify'[ResourceOf[e]].version
                        /\ ~shopify'[ResourceOf[e]].gone
      <4>1. e \in applied /\ e \in Events
        BY <1>3, <3>1 DEF CInv, IInv, TypeOK
      <4>2. Latest(e) /\ ResourceOf[e] \notin overlapped \cup loose /\ ResourceOf[e] \in Resources
        BY <1>3, <2>3, <2>7, <3>1, <4>1, ConstantsAssumption
      <4>3. /\ Agree(ResourceOf[e])
            /\ \A d \in Consumers :
                 consumer[d].pc \in {"order", "parts", "sweep"} /\ Target(d) = ResourceOf[e] =>
                   /\ consumer[d].read = shopify[ResourceOf[e]].version
                   /\ ~shopify[ResourceOf[e]].gone
        BY <4>1, <4>2 DEF CInv, Convergence, AppliedAgrees
      <4>4. ASSUME NEW d \in Consumers, consumer'[d].pc \in {"order", "parts", "sweep"},
                   Target(d)' = ResourceOf[e]
            PROVE  /\ consumer'[d].read = shopify'[ResourceOf[e]].version
                   /\ ~shopify'[ResourceOf[e]].gone
        <5>1. d # c
          BY <2>1, <2>4, <2>5, <4>4
        <5> QED
          BY <1>3, <2>5, <2>6, <4>3, <4>4, <5>1
      <4> QED
        BY <2>11, <4>2, <4>3, <4>4
    <3> QED
      BY <3>1 DEF AppliedAgrees
  <2>13. \A x \in Resources : shopify'[x].version = 0 => Agree(x)'
    BY <1>3, <2>11 DEF CInv, Convergence
  <2> QED
    BY <2>7, <2>8, <2>9, <2>10, <2>12, <2>13 DEF CInv, Convergence
<1> QED
  BY <1>7, <1>8

-----------------------------------------------------------------------------
(* What happens around the processors *)

\* A receipt, whether it launches an invocation or not.
LEMMA AcceptConverges ==
  ASSUME CInv, IInv', NEW e \in Events, Receive(e) \/ Redeliver(e)
  PROVE  CInv'
<1>1. /\ feed' = [feed EXCEPT ![e].stage = "acked"]
      /\ Launch(e)
      /\ UNCHANGED <<takenBack, shopify, copy, applied, overlapped, loose>>
  BY DEF Receive, Redeliver, Accept
<1>2. feed \in [Events -> FeedType] /\ consumer \in [Consumers -> ConsumerType]
  BY DEF CInv, IInv, TypeOK
<1>3. \A f \in Events : /\ feed'[f].kind = feed[f].kind
                        /\ feed'[f].version = feed[f].version
                        /\ feed[f].stage # "unsent" => feed'[f].stage # "unsent"
  BY <1>1, <1>2 DEF FeedType
<1>4. \A c \in Consumers : consumer'[c].pc \in Working => consumer'[c] = consumer[c]
  <2>1. CASE UNCHANGED consumer
    BY <2>1
  <2>2. CASE \E c \in Consumers : Update(c, [Off EXCEPT !.pc = "claim", !.event = e])
    <3>1. PICK c \in Consumers : Update(c, [Off EXCEPT !.pc = "claim", !.event = e])
      BY <2>2
    <3>2. [Off EXCEPT !.pc = "claim", !.event = e].pc = "claim"
      BY DEF Off
    <3> QED
      BY <1>2, <3>1, <3>2 DEF Update, Working
  <2> QED
    BY <1>1, <2>1, <2>2 DEF Launch
<1> QED
  BY <1>1, <1>3, <1>4, QuietStep

\* A receipt that is lost, and what happens to the rows of the table.
LEMMA TableConverges ==
  ASSUME CInv, IInv', NEW e \in Events,
         ReceiveFails(e) \/ BecomeDue(e) \/ GrowStale(e) \/ Outlive(e) \/ Prune(e) \/ Replay(e)
  PROVE  CInv'
<1>1. UNCHANGED <<shopify, copy, overlapped, loose, feed, consumer, applied>>
  BY DEF ReceiveFails, BecomeDue, GrowStale, Outlive, Prune, Replay, world
<1> QED
  BY <1>1, QuietStep

\* An invocation that goes through its list, takes a row or gives it up, and a
\* processor that skips its delivery or fails.
LEMMA InvocationConverges ==
  ASSUME CInv, IInv', NEW c \in Consumers,
         \/ StartDrain(c) \/ EndDrain(c) \/ Reset(c) \/ Claim(c) \/ Skip(c)
         \/ StepFails(c) \/ Conclude(c) \/ Crash(c)
         \/ \E e \in Events : NextInList(c, e)
  PROVE  CInv'
<1>1. UNCHANGED <<shopify, copy, overlapped, loose, feed, applied>>
  BY DEF StartDrain, EndDrain, Reset, Claim, Skip, StepFails, Conclude, Crash, NextInList,
         world
<1>2. PICK n \in ConsumerType : n = consumer[c]
  BY DEF CInv, IInv, TypeOK
<1>3. Released(c).pc \notin Working /\ Off.pc \notin Working
  BY ReleasedType DEF CInv, IInv, Working, Off
<1>4. \E m : m.pc \notin Working /\ consumer' = [consumer EXCEPT ![c] = m]
  <2>1. CASE StartDrain(c)
    <3>1. PICK m : m = [Off EXCEPT !.pc = "loop", !.drains = TRUE, !.todo = ReadyList,
                          !.stuck = {e \in ReadyList : row[e].status = "processing"}]
      OBVIOUS
    <3>2. m.pc = "loop"
      BY <3>1 DEF Off
    <3> QED
      BY <2>1, <3>1, <3>2 DEF StartDrain, Update, Working
  <2>2. CASE EndDrain(c) \/ Crash(c)
    BY <1>3, <2>2 DEF EndDrain, Crash, Update
  <2>3. CASE Reset(c)
    <3>1. [n EXCEPT !.pc = "claim"].pc = "claim"
      BY DEF ConsumerType
    <3> QED
      BY <1>2, <2>3, <3>1 DEF Reset, Goto, Update, Working
  <2>4. CASE Claim(c)
    <3>1. [n EXCEPT !.pc = "load"].pc = "load"
      BY DEF ConsumerType
    <3> QED
      BY <1>2, <1>3, <2>4, <3>1 DEF Claim, Goto, Update, Working
  <2>5. CASE StepFails(c)
    <3>1. [n EXCEPT !.pc = "conclude", !.read = 0, !.out = "retry"].pc = "conclude"
      BY DEF ConsumerType
    <3> QED
      BY <1>2, <2>5, <3>1 DEF StepFails, Ends, Update, Working
  <2>6. CASE Conclude(c)
    BY <1>3, <2>6 DEF Conclude, Update
  <2>8. CASE Skip(c)
    <3>1. [n EXCEPT !.pc = "conclude", !.read = 0, !.out = "done"].pc = "conclude"
      BY DEF ConsumerType
    <3> QED
      BY <1>2, <2>8, <3>1 DEF Skip, Ends, Update, Working
  <2>7. CASE \E e \in Events : NextInList(c, e)
    <3>1. PICK e \in Events : NextInList(c, e)
      BY <2>7
    <3>2. PICK m : m = [n EXCEPT !.pc = IF e \in n.stuck THEN "reset" ELSE "claim",
                          !.event = e, !.todo = n.todo \ {e}, !.stuck = n.stuck \ {e}]
      OBVIOUS
    <3>3. m.pc \in {"reset", "claim"}
      BY <3>2 DEF ConsumerType
    <3> QED
      BY <1>2, <3>1, <3>2, <3>3 DEF NextInList, Update, Working
  <2> QED
    BY <2>1, <2>2, <2>3, <2>4, <2>5, <2>6, <2>7, <2>8
<1>5. \A d \in Consumers : consumer'[d].pc \in Working => consumer'[d] = consumer[d]
  BY <1>4 DEF CInv, IInv, TypeOK
<1> QED
  BY <1>1, <1>5, QuietStep

-----------------------------------------------------------------------------
(* The theorems *)

\* Every step keeps the copy convergent.
LEMMA NextCInv == CInv /\ [Next]_vars => CInv'
<1> SUFFICES ASSUME CInv, [Next]_vars PROVE CInv'
  OBVIOUS
<1>1. IInv'
  BY NextIInv DEF CInv
<1>2. CASE UNCHANGED vars
  BY <1>1, <1>2, QuietStep DEF vars
<1>3. ASSUME NEW e \in Events,
             \/ Change(e) \/ Remove(e) \/ Garble(e) \/ Receive(e) \/ Redeliver(e)
             \/ ReceiveFails(e) \/ BecomeDue(e) \/ GrowStale(e) \/ Outlive(e)
             \/ Prune(e) \/ Replay(e)
      PROVE  CInv'
  BY <1>1, <1>3, AnnounceConverges, AcceptConverges, TableConverges
<1>4. ASSUME NEW c \in Consumers,
             \/ StartDrain(c) \/ Progress(c)
             \/ Skip(c) \/ LeaveParts(c) \/ StepFails(c) \/ Crash(c)
      PROVE  CInv'
  BY <1>1, <1>4, InvocationConverges, LoadConverges, ReadConverges, WriteConverges,
     SweepConverges, WipeConverges
  DEF Progress
<1> QED
  BY <1>2, <1>3, <1>4 DEF Next, Ordinary

\* At every moment the copy of a resource is what the invocations that work it,
\* and the deliveries that were applied, say it is.
THEOREM InboxConverges == Spec => []CInv
<1>1. CInv /\ [Next]_vars => CInv'
  BY NextCInv
<1> QED
  BY InitCInv, <1>1, PTL DEF Spec

\* In whatever order the deliveries of a resource are worked, however often, and
\* wherever their attempts are interrupted, the merchant ends up with what
\* Shopify has, unless two processors worked the resource at once, its latest
\* delivery was skipped, or the code left it for the periodic run.
THEOREM SerialConverges == Spec => []SerialWorkConverges
<1>1. ASSUME CInv, NEW x \in Resources, Quiet(x), x \notin overlapped \cup loose,
             ~LeftOut(x)
      PROVE  Agree(x)
  <2>1. shopify[x].version \in Nat
    BY <1>1, Versions DEF CInv, IInv
  <2>2. CASE shopify[x].version = 0
    BY <1>1, <2>2 DEF CInv, Convergence
  <2>3. CASE shopify[x].version > 0
    <3>1. PICK e \in Events : ResourceOf[e] = x /\ Latest(e)
      BY <1>1, <2>3 DEF CInv, Convergence, FeedIsTrue
    <3>2. feed[e].stage # "unsent"
      BY <1>1, <3>1 DEF CInv, Convergence, FeedIsTrue, Latest
    <3>3. e \in applied \cup skipped
      BY <1>1, <3>1, <3>2 DEF Quiet, CInv, IInv, ClosedIsApplied
    <3>4. e \in applied
      BY <1>1, <3>1, <3>3 DEF LeftOut
    <3> QED
      BY <1>1, <3>1, <3>4 DEF CInv, Convergence, AppliedAgrees
  <2> QED
    BY <2>1, <2>2, <2>3
<1>2. CInv => SerialWorkConverges
  BY <1>1 DEF SerialWorkConverges
<1> QED
  BY <1>2, InboxConverges, PTL
=============================================================================
