---------------------------- MODULE MCOutboxRelay ----------------------------
(* Model values for TLC: two or three relays, two entries.                 *)
EXTENDS OutboxRelay, TLC

Symmetry == Permutations(Relay)
=============================================================================
