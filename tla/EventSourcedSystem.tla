-------------------------- MODULE EventSourcedSystem --------------------------
(***************************************************************************)
(* Sessions that append to the event store and runners that feed           *)
(* projections from it.                                                    *)
(***************************************************************************)
EXTENDS EventSourcing, SubscriptionRunner

vars == <<logVars, sourcingVars, runnerVars>>

Init == LogInit /\ SourcingInit /\ RunnerInit

Next ==
    \/ SourcingNext /\ UNCHANGED runnerVars
    \/ RunnerNext /\ UNCHANGED sourcingVars

Spec == Init /\ [][Next]_vars

FairSpec == Spec /\ RunnerFairness

TypeOK == LogTypeOK /\ SourcingTypeOK /\ RunnerTypeOK
===============================================================================
