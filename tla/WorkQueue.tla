------------------------------ MODULE WorkQueue ------------------------------
(***************************************************************************)
(* What the job queue promises to the rest of the application, without     *)
(* leases, drains or a database: a job that was accepted stays in the      *)
(* queue until it is done, given up on, or withdrawn with its shop; every  *)
(* claim of a job is a new one; and a job is done only when the work of    *)
(* its LATEST claim ran to the end.  SyncQueue implements this module.     *)
(***************************************************************************)
EXTENDS Naturals

CONSTANT Jobs

VARIABLES
  stage,   \* where each job is
  worked   \* whether the work started by the latest claim of a job ran to its end

vars == <<stage, worked>>

Stages == {"absent", "pending", "held", "done", "dead", "gone"}
Present == {"pending", "held", "done", "dead"}

TypeOK ==
  /\ stage \in [Jobs -> Stages]
  /\ worked \in [Jobs -> BOOLEAN]

Init ==
  /\ stage = [j \in Jobs |-> "absent"]
  /\ worked = [j \in Jobs |-> FALSE]

MoveTo(S, s) == stage' = [j \in Jobs |-> IF j \in S THEN s ELSE stage[j]]

Submit(j) ==
  /\ stage[j] = "absent"
  /\ MoveTo({j}, "pending")
  /\ UNCHANGED worked

\* A held job may be claimed again: its holder may have died.  The work of the
\* claim before counts for nothing from then on.
Take(j) ==
  /\ stage[j] \in {"pending", "held"}
  /\ MoveTo({j}, "held")
  /\ worked' = [worked EXCEPT ![j] = FALSE]

Work(j) ==
  /\ worked' = [worked EXCEPT ![j] = TRUE]
  /\ UNCHANGED stage

Finish(j) ==
  /\ stage[j] = "held"
  /\ worked[j]
  /\ MoveTo({j}, "done")
  /\ UNCHANGED worked

PutBack(j) ==
  /\ stage[j] = "held"
  /\ MoveTo({j}, "pending")
  /\ UNCHANGED worked

GiveUp(j) ==
  /\ stage[j] = "held"
  /\ MoveTo({j}, "dead")
  /\ UNCHANGED worked

\* Somebody asks again for jobs that were given up on.
Revive(S) ==
  /\ \A j \in S : stage[j] = "dead"
  /\ MoveTo(S, "pending")
  /\ UNCHANGED worked

Forget(S) ==
  /\ \A j \in S : stage[j] = "done"
  /\ MoveTo(S, "gone")
  /\ UNCHANGED worked

\* A shop is erased and its jobs go with it, whatever their stage.
Withdraw(S) ==
  /\ \A j \in S : stage[j] \in Present
  /\ MoveTo(S, "gone")
  /\ UNCHANGED worked

Next ==
  \/ \E j \in Jobs :
       Submit(j) \/ Take(j) \/ Work(j) \/ Finish(j) \/ PutBack(j) \/ GiveUp(j)
  \/ \E S \in SUBSET Jobs : Revive(S) \/ Forget(S) \/ Withdraw(S)

Spec == Init /\ [][Next]_vars
=============================================================================
