------------------------------ MODULE ShopLease ------------------------------
(***************************************************************************)
(* What the lock of a shop promises to those who work it, without clocks,  *)
(* tokens or messages in flight: the shop is given to one run at a time; a *)
(* lease that stands is only ended by the run that has it; one that lapsed *)
(* may be given to a run that waits, and who lost it, or gave up, never    *)
(* has it again.  ShopLock implements this module.                         *)
(***************************************************************************)

CONSTANTS Runs, NoRun

VARIABLES
  holder,    \* the run the shop was given to, or NoRun
  standing,  \* whether its lease is running
  stage      \* where each run is

vars == <<holder, standing, stage>>

Stages == {"waiting", "inside", "over"}

TypeOK ==
  /\ holder \in Runs \cup {NoRun}
  /\ standing \in BOOLEAN
  /\ stage \in [Runs -> Stages]

Init ==
  /\ holder = NoRun
  /\ standing = FALSE
  /\ stage = [x \in Runs |-> "waiting"]

MovesTo(x, s) == stage' = [stage EXCEPT ![x] = s]

\* The shop is given to x: for its work, or to nobody's use when x did not wait for
\* the answer.  A request that was long on its way may get a lease that is over.
Take(x) ==
  /\ stage[x] = "waiting" /\ ~standing
  /\ holder' = x /\ standing' \in BOOLEAN
  /\ MovesTo(x, "inside") \/ MovesTo(x, "over")

\* Only a shop that was given to somebody sends a run away.
TurnedAway(x) ==
  /\ stage[x] = "waiting" /\ holder # NoRun
  /\ MovesTo(x, "over")
  /\ UNCHANGED <<holder, standing>>

\* Only of the run that has it, even when it had lapsed, or its sender is over.
Renew(x) ==
  /\ holder = x /\ stage[x] # "waiting"
  /\ standing' = TRUE
  /\ UNCHANGED <<holder, stage>>

\* The lease runs out, and the shop is free to be taken or to be forgotten.
Lapse ==
  /\ standing' = FALSE
  /\ UNCHANGED <<holder, stage>>

Prune ==
  /\ ~standing
  /\ holder' = NoRun
  /\ UNCHANGED <<standing, stage>>

\* A run that ends gives back what it has, and nothing else.
Release(x) ==
  /\ stage[x] = "inside" /\ holder = x
  /\ holder' = NoRun /\ standing' = FALSE
  /\ MovesTo(x, "over")

\* It ends without a release, or has nothing any more that it could give back.
Leave(x) ==
  /\ stage[x] = "inside"
  /\ MovesTo(x, "over")
  /\ UNCHANGED <<holder, standing>>

Next ==
  \/ \E x \in Runs : Take(x) \/ TurnedAway(x) \/ Renew(x) \/ Release(x) \/ Leave(x)
  \/ Lapse \/ Prune

Spec == Init /\ [][Next]_vars
==============================================================================
