---- MODULE MCSagaManager ----
(* Model values for TLC. *)
EXTENDS SagaManager, TLC

CONSTANTS e1, e2

\* The second event resumes only from the first one's step.
Resumes == {<<e2, e1>>}

\* One task at a time: the first event may be delivered again, two faults.
\* Two tasks at once: each event once, and a dispatch may be refused.
Small == <<[deliveries |-> (e1 :> 2) @@ (e2 :> 1), sweeps |-> 1,
            faults |-> 2, stops |-> 2],
           [deliveries |-> (e1 :> 1) @@ (e2 :> 1), sweeps |-> 1,
            faults |-> 1, stops |-> 0]>>
====
