---- MODULE MCEventSourcedSystem ----
(* Model values for TLC. *)
EXTENDS EventSourcedSystem, TLC

CONSTANTS order, cart, all, orders, s1, s2, r1, r2

SubsInOrder == <<all, orders>>

\* One projection filters on one aggregate's type only.
TypesOf == (all :> Aggregate) @@ (orders :> {order})

\* Two sessions next to each other, that drop their objects after an error or
\* may keep them, and whose appends take effect at once or with the commit; a
\* session whose events a runner feeds to two projections; and two runners
\* that share the checkpoint of one.
SetupsOf ==
    {[subs |-> <<>>, loops |-> 0, open |-> 2, commits |-> FALSE, keeps |-> FALSE,
      raises |-> (order :> 2) @@ (cart :> 1), faults |-> 2],
     [subs |-> <<>>, loops |-> 0, open |-> 2, commits |-> FALSE, keeps |-> TRUE,
      raises |-> (order :> 3) @@ (cart :> 0), faults |-> 1],
     [subs |-> <<>>, loops |-> 0, open |-> 2, commits |-> TRUE, keeps |-> TRUE,
      raises |-> (order :> 3) @@ (cart :> 0), faults |-> 1],
     [subs |-> <<all, orders>>, loops |-> 1, open |-> 1, commits |-> FALSE, keeps |-> FALSE,
      raises |-> (order :> 1) @@ (cart :> 1), faults |-> 2],
     [subs |-> <<orders>>, loops |-> 2, open |-> 1, commits |-> FALSE, keeps |-> FALSE,
      raises |-> (order :> 2) @@ (cart :> 0), faults |-> 1]}
====
