------------------------------ MODULE EventLog ------------------------------
(***************************************************************************)
(* The event store as the event-sourced repositories and the subscription  *)
(* runners share it: a stream for each aggregate and the global log, which *)
(* one append keeps in step.  Command ids are left to EventStore.tla.      *)
(***************************************************************************)
EXTENDS Naturals, Sequences, FiniteSets

CONSTANTS
    Aggregate,          \* event-sourced aggregates, each of a type of its own
    Subscription,       \* what add_subscription() may register
    Setups              \* what to start from:
                        \*   subs    the subscriptions of every runner
                        \*   loops   bound: runners that run at once
                        \*   open    bound: sessions at work at once
                        \*   raises  bound: events raised, for each aggregate
                        \*   faults  bound: faults, deployments and stops
                        \*   commits whether appends take effect with the commit
                        \*   keeps   whether a handler may go on with an object
                        \*           whose save() raised or was rolled back

ASSUME LogAssumption ==
    /\ Setups \subseteq [subs : Seq(Subscription), loops : Nat, open : Nat,
                        raises : [Aggregate -> Nat], faults : Nat,
                        commits : BOOLEAN, keeps : BOOLEAN]
    /\ \A u \in Setups : \A i, j \in DOMAIN u.subs : u.subs[i] = u.subs[j] => i = j

\* An event: its aggregate, its identity there, and, for the properties only,
\* the identities of the events its aggregate had applied when it was raised.
Event == [of : Aggregate, id : Nat, on : Seq(Nat)]

VARIABLES
    setup,
    streams,            \* the events of each aggregate
    log,                \* all of them
    faults              \* how many there were

logVars == <<setup, streams, log, faults>>

LogTypeOK ==
    /\ setup \in Setups
    /\ streams \in [Aggregate -> Seq(Event)]
    /\ log \in Seq(Event)
    /\ faults \in 0..setup.faults

LogInit ==
    /\ setup \in Setups
    /\ streams = [a \in Aggregate |-> <<>>]
    /\ log = <<>>
    /\ faults = 0

MayFail == faults < setup.faults /\ faults' = faults + 1

\* The identities of events.
Ids(events) == [i \in DOMAIN events |-> events[i].id]

\* read_stream(): the events after a version.
TailFrom(a, version) == SubSeq(streams[a], version + 1, Len(streams[a]))

\* append_to_stream(): all events or, at another version, none.
Accepts(a, expected) == Len(streams[a]) = expected

AppendToStream(a, events) ==
    /\ streams' = [streams EXCEPT ![a] = @ \o events]
    /\ log' = log \o events
=============================================================================
