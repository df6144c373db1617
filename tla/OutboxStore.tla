----------------------------- MODULE OutboxStore -----------------------------
(***************************************************************************)
(* The outbox table: the OutboxStore port of cqrs/outbox.py as its         *)
(* reference implementation, testing/fake_outbox_store.py, behaves.        *)
(*                                                                         *)
(* Time is abstracted to what fetch_unpublished compares with the clock:   *)
(* an entry is hidden while its retry time is in the future, and claimed   *)
(* while its claim timeout is. RetryFallsDue and ClaimGoesStale are the    *)
(* clock passing those instants, in any order.                             *)
(***************************************************************************)
EXTENDS Integers, FiniteSets

CONSTANT MaxEntries     \* bound: entries appended by committed units of work

ASSUME MaxEntriesAssumption == MaxEntries \in Nat

VARIABLES
    appended,           \* entries 1..appended are stored, in append order
    published,          \* _published_ids
    dead,               \* dead_lettered
    attempts,           \* attempts counted for each entry
    hidden,             \* entries whose _retry_at lies in the future
    claimed             \* entries whose _claimed_until lies in the future

storeVars == <<appended, published, dead, attempts, hidden, claimed>>

Entry == 1..MaxEntries
Settled == published \cup dead

StoreTypeOK ==
    /\ appended \in 0..MaxEntries
    /\ published \subseteq Entry
    /\ dead \subseteq Entry
    /\ attempts \in [Entry -> Nat]
    /\ hidden \subseteq Entry
    /\ claimed \subseteq Entry

StoreInit ==
    /\ appended = 0
    /\ published = {}
    /\ dead = {}
    /\ attempts = [e \in Entry |-> 0]
    /\ hidden = {}
    /\ claimed = {}

-----------------------------------------------------------------------------
(* The operations of the port, each one atomic in the store.               *)

\* append, within the transaction of the unit of work that wrote the entry.
StoreAppend ==
    /\ appended < MaxEntries
    /\ appended' = appended + 1
    /\ UNCHANGED <<published, dead, attempts, hidden, claimed>>

\* Mutant: a fetch that does not skip what another fetch has claimed.
FetchableIgnoringClaims == (1..appended) \ (Settled \cup hidden)

Fetchable == (1..appended) \ (Settled \cup hidden \cup claimed)

IsOldest(e, S) == \A f \in S : e <= f

\* S is what fetch_unpublished(limit) returns: the oldest fetchable entries,
\* as many as there are up to the limit.
IsBatch(S, limit) ==
    /\ S \subseteq Fetchable
    /\ \A e \in S : IsOldest(e, {e} \cup (Fetchable \ S))
    /\ Cardinality(S) = IF Cardinality(Fetchable) < limit
                        THEN Cardinality(Fetchable) ELSE limit

\* fetch_unpublished claims what it returns.
StoreClaim(S) ==
    /\ claimed' = claimed \cup S
    /\ UNCHANGED <<appended, published, dead, attempts, hidden>>

\* Mutant: mark_published that leaves the dead letter of the entry in place.
StorePublishedKeepingDeadLetter(e) ==
    /\ published' = published \cup {e}
    /\ claimed' = claimed \ {e}
    /\ UNCHANGED <<appended, dead, attempts, hidden>>

StorePublished(e) ==
    /\ published' = published \cup {e}
    /\ dead' = dead \ {e}
    /\ claimed' = claimed \ {e}
    /\ UNCHANGED <<appended, attempts, hidden>>

\* Mutant: mark_failed that does not check for an earlier publication.
StoreFailedEvenIfPublished(e) ==
    /\ claimed' = claimed \ {e}
    /\ hidden' = hidden \cup {e}
    /\ attempts' = [attempts EXCEPT ![e] = @ + 1]
    /\ UNCHANGED <<appended, published, dead>>

\* Mutant: mark_failed that never counts the attempt.
StoreFailedUncounted(e) ==
    IF e \in published THEN UNCHANGED storeVars
    ELSE /\ claimed' = claimed \ {e}
         /\ hidden' = hidden \cup {e}
         /\ UNCHANGED <<appended, published, dead, attempts>>

\* mark_failed: the claim goes even when another relay's fetch took it.
StoreFailed(e) ==
    IF e \in published THEN UNCHANGED storeVars
    ELSE /\ claimed' = claimed \ {e}
         /\ hidden' = hidden \cup {e}
         /\ attempts' = [attempts EXCEPT ![e] = @ + 1]
         /\ UNCHANGED <<appended, published, dead>>

\* Mutant: mark_dead_lettered that does not count the final attempt.
StoreDeadLetteredUncounted(e) ==
    IF e \in published THEN UNCHANGED storeVars
    ELSE /\ dead' = dead \cup {e}
         /\ claimed' = claimed \ {e}
         /\ UNCHANGED <<appended, published, attempts, hidden>>

\* Mutant: mark_dead_lettered that does not check for an earlier publication.
StoreDeadLetteredEvenIfPublished(e) ==
    /\ dead' = dead \cup {e}
    /\ claimed' = claimed \ {e}
    /\ attempts' = [attempts EXCEPT ![e] = @ + 1]
    /\ UNCHANGED <<appended, published, hidden>>

StoreDeadLettered(e) ==
    IF e \in published THEN UNCHANGED storeVars
    ELSE /\ dead' = dead \cup {e}
         /\ claimed' = claimed \ {e}
         /\ attempts' = [attempts EXCEPT ![e] = @ + 1]
         /\ UNCHANGED <<appended, published, hidden>>

-----------------------------------------------------------------------------
(* The clock passes an instant the next fetch compares with.               *)

RetryFallsDue(e) ==
    /\ e \in hidden
    /\ hidden' = hidden \ {e}
    /\ UNCHANGED <<appended, published, dead, attempts, claimed>>

ClaimGoesStale(e) ==
    /\ e \in claimed
    /\ claimed' = claimed \ {e}
    /\ UNCHANGED <<appended, published, dead, attempts, hidden>>
=============================================================================
