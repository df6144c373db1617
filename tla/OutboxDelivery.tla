--------------------------- MODULE OutboxDelivery ---------------------------
(***************************************************************************)
(* What the transactional outbox promises, seen from outside: an entry     *)
(* that a unit of work committed is, in the end, either published or       *)
(* dead-lettered; it is published only after the broker took it, stays     *)
(* published for ever, and a publication wins over a dead letter.          *)
(* OutboxRelay implements this specification.                              *)
(***************************************************************************)
EXTENDS Naturals

CONSTANT MaxEntries     \* how many entries the writers append

VARIABLES
    appended,           \* entries 1..appended exist, in commit order
    taken,              \* entries the broker took at least once
    published,          \* entries recorded as published
    dead                \* entries recorded as dead-lettered

dvars == <<appended, taken, published, dead>>

Existing == 1..appended
Settled == published \cup dead

DInit ==
    /\ appended = 0
    /\ taken = {}
    /\ published = {}
    /\ dead = {}

DAppend ==
    /\ appended < MaxEntries
    /\ appended' = appended + 1
    /\ UNCHANGED <<taken, published, dead>>

\* The broker takes an entry; a second delivery of it changes nothing here.
DTake(e) ==
    /\ e \in Existing
    /\ taken' = taken \cup {e}
    /\ UNCHANGED <<appended, published, dead>>

\* Recording a publication moves the entry out of the dead letters.
DPublish(e) ==
    /\ e \in Existing \cap taken
    /\ published' = published \cup {e}
    /\ dead' = dead \ {e}
    /\ UNCHANGED <<appended, taken>>

DGiveUp(e) ==
    /\ e \in Existing \ published
    /\ dead' = dead \cup {e}
    /\ UNCHANGED <<appended, taken, published>>

DNext ==
    \/ DAppend
    \/ \E e \in 1..MaxEntries : DTake(e) \/ DPublish(e) \/ DGiveUp(e)

\* An entry that is not settled yet is settled by this step.
DSettle(e) == e \notin Settled /\ (DPublish(e) \/ DGiveUp(e))

DSafety == DInit /\ [][DNext]_dvars
DSpec == DSafety /\ \A e \in 1..MaxEntries : WF_dvars(DSettle(e))
=============================================================================
