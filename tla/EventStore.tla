------------------------------ MODULE EventStore ------------------------------
(***************************************************************************)
(* The EventStore port as FakeEventStore implements it: one stream per     *)
(* aggregate, an optimistic version check and the command ids that have    *)
(* appended to each stream. What one save appends is one element of the    *)
(* stream, so a version counts saves; no code depends on how many events a *)
(* save carries beyond whether there are any.                              *)
(***************************************************************************)
EXTENDS Naturals, Sequences

CONSTANTS
    Aggregate,          \* event-sourced aggregates
    Event,              \* what one save may append
    CommandId,          \* command ids
    NoId                \* a save without a command id

ASSUME EventStoreAssumption == NoId \notin CommandId

VARIABLES
    stream,             \* what was appended to each aggregate, in order
    processed           \* command ids recorded with each aggregate

StoreTypeOK ==
    /\ stream \in [Aggregate -> Seq(Event)]
    /\ processed \in [Aggregate -> SUBSET CommandId]

StoreInit ==
    /\ stream = [a \in Aggregate |-> <<>>]
    /\ processed = [a \in Aggregate |-> {}]

Version(a) == Len(stream[a])

\* The first check of an append: DuplicateCommandError.
IsDuplicate(a, id) == id \in processed[a]

\* Mutant: only a version from the future is a conflict.
IsAhead(a, expected) == expected > Version(a)

\* The second check: ConcurrencyError.
IsStale(a, expected) == expected # Version(a)

Accepts(a, expected, id) == ~IsDuplicate(a, id) /\ ~IsStale(a, expected)

\* An accepted append; the id counts as processed from here on.
AppendToStream(a, e, id) ==
    /\ stream' = [stream EXCEPT ![a] = Append(@, e)]
    /\ processed' = [processed EXCEPT ![a] = @ \cup ({id} \ {NoId})]
===============================================================================
