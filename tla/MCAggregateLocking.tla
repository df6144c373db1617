------------------------- MODULE MCAggregateLocking -------------------------
(* Model values for TLC: which keys each command locks, and who dispatches *)
(* whom.                                                                   *)
EXTENDS AggregateLocking, TLC

CONSTANTS a, b, n

\* Three independent commands that overlap pairwise.
MCKeysFlat == (a :> {1, 2}) @@ (b :> {1, 2}) @@ (n :> {2})
MCParentFlat == [c \in Command |-> NoCommand]

\* The handler of a dispatches n, on a key that b locks first; a and b only
\* share keys through n.
MCKeysNested == (a :> {2}) @@ (b :> {1, 2}) @@ (n :> {1})
MCParentNested == [c \in Command |-> IF c = n THEN a ELSE NoCommand]

\* The handler of a dispatches n on a key that b locks too, and on one that a
\* holds itself: n takes the first and is refused the second.
MCKeysReentrant == (a :> {2, 3}) @@ (b :> {1}) @@ (n :> {1, 3})
MCParentReentrant == MCParentNested
=============================================================================
