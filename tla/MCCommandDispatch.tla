-------------------------- MODULE MCCommandDispatch --------------------------
(* Model values for TLC: two deliveries of one command and another command, *)
(* all about one aggregate.                                                 *)
EXTENDS CommandDispatch, TLC

CONSTANTS d1, d2, other, agg, i, j

MCId == (d1 :> i) @@ (d2 :> i) @@ (other :> j)
MCTarget == [d \in Event |-> agg]

\* The order the documentation recommends.
MCDocumentedOrder == { <<"idempotency", "locking">> }
===============================================================================
