---- MODULE MCUnitOfWork ----
(* Model values for TLC. *)
EXTENDS UnitOfWork, TLC

CONSTANTS r1, r2

\* Repositories are interchangeable, and no property names one.
Symmetry == Permutations(Repo)
====
