---------------------------- MODULE EventSourcing ----------------------------
(***************************************************************************)
(* EventSourcedRepository, its aggregates and its snapshots: sessions that *)
(* load an aggregate from a snapshot and the rest of its stream, raise     *)
(* events and save, next to each other and across deployments that change  *)
(* the schema of snapshots.                                                *)
(*                                                                         *)
(* The state of an aggregate is a fold over its events, so it is the       *)
(* sequence of their identities, and its version the length.  save() runs  *)
(* in the scope of a unit of work: the event store takes an append at once *)
(* (FakeEventStore) or, as a transactional adapter does, with the commit,  *)
(* and a rollback then withdraws it (ES-02).  The snapshot store has no    *)
(* part in that (ES-10).                                                   *)
(***************************************************************************)
EXTENDS EventLog

CONSTANTS
    Session,            \* tasks with an aggregate each
    Nothing,            \* no snapshot, no session
    Threshold,          \* SnapshotThresholdPolicy: every that many events
    MaxSchema           \* bound: deployed snapshot schemas

ASSUME SourcingAssumption ==
    /\ Threshold \in Nat
    /\ MaxSchema \in Nat \ {0}

VARIABLES
    snapshot,           \* the snapshot of each aggregate
    session,            \* the aggregate each session holds
    raised,             \* how many events were raised
    withdrawn,          \* for the properties only: events pulled for an append
                        \* that did not take effect or was rolled back
    schema              \* _snapshot_schema_version of the deployed class

sourcingVars == <<snapshot, session, raised, withdrawn, schema>>

Snapshot == [seen : Seq(Nat), schema : 1..MaxSchema]
Held == [of : Aggregate, at : {"replay", "tail", "open", "snapshot"},
         seen : Seq(Nat),        \* the events it has applied
         pending : Nat,         \* how many of them save() has not drained
         staged : Seq(Event)]   \* appended, and not committed yet

ASSUME NothingAssumption == Nothing \notin Snapshot \cup Held

SourcingTypeOK ==
    /\ snapshot \in [Aggregate -> Snapshot \cup {Nothing}]
    /\ session \in [Session -> Held \cup {Nothing}]
    /\ raised \in [Aggregate -> Nat]
    /\ withdrawn \in [Aggregate -> SUBSET Nat]
    /\ schema \in 1..MaxSchema

SourcingInit ==
    /\ snapshot = [a \in Aggregate |-> Nothing]
    /\ session = [s \in Session |-> Nothing]
    /\ raised = [a \in Aggregate |-> 0]
    /\ withdrawn = [a \in Aggregate |-> {}]
    /\ schema = 1

Open(s) == session[s] # Nothing
At(s, place) == Open(s) /\ session[s].at = place
Hold(s, held) == session' = [session EXCEPT ![s] = held]

-----------------------------------------------------------------------------
(* get_by_id().                                                            *)

\* Mutant: a snapshot of another schema is used.
UsableAnySchema(snap) == snap # Nothing

\* RejectStaleSnapshotPolicy.
Usable(snap) == snap # Nothing /\ snap.schema = schema

\* _restore(): fields another schema stored are dropped or defaulted, so what
\* the state then stands for is no event of the stream.
Restored(snap) ==
    IF snap.schema = schema THEN snap.seen ELSE [i \in DOMAIN snap.seen |-> 0]

FindSnapshot(s, a) ==
    LET snap == snapshot[a] IN
    /\ ~Open(s)
    /\ Cardinality({t \in Session : Open(t)}) < setup.open
    /\ IF Usable(snap)
       THEN Hold(s, [of |-> a, at |-> "tail", seen |-> Restored(snap),
                    pending |-> 0, staged |-> <<>>])
       ELSE Hold(s, [of |-> a, at |-> "replay", seen |-> <<>>,
                    pending |-> 0, staged |-> <<>>])
    /\ UNCHANGED <<setup, streams, log, snapshot, raised, withdrawn, schema, faults>>

\* The tail after the snapshot, or the whole stream; an aggregate that has no
\* stream is new.
ReadStream(s) ==
    /\ At(s, "tail") \/ At(s, "replay")
    /\ Hold(s, [session[s] EXCEPT
                  !.at = "open",
                  !.seen = @ \o Ids(TailFrom(session[s].of, Len(@)))])
    /\ UNCHANGED <<setup, streams, log, snapshot, raised, withdrawn, schema, faults>>

-----------------------------------------------------------------------------
(* The aggregate's _apply(), and save().                                   *)

Raise(s) ==
    LET a == session[s].of IN
    /\ At(s, "open")
    /\ raised[a] < setup.raises[a]
    /\ raised' = [raised EXCEPT ![a] = @ + 1]
    /\ Hold(s, [session[s] EXCEPT !.seen = Append(@, raised'[a]), !.pending = @ + 1])
    /\ UNCHANGED <<setup, streams, log, snapshot, withdrawn, schema, faults>>

\* Mutant: the version in the store, whatever was loaded.
ExpectedInStore(m) == Len(streams[m.of])

Expected(m) == Len(m.seen) - m.pending

\* pull_events() of the aggregate.
Pulled(m) ==
    LET stored == Len(m.seen) - m.pending IN
    [i \in 1..m.pending |->
        [of |-> m.of, id |-> m.seen[stored + i],
         on |-> SubSeq(m.seen, 1, stored + i - 1)]]

\* SnapshotThresholdPolicy.should_snapshot().
ShouldSnapshot(version) == Threshold = 0 \/ version % Threshold = 0

IdsIn(events) == {events[i].id : i \in DOMAIN events}

\* A call failed and with it what is lost: a handler that catches the error may
\* go on with its object, or the object is dropped and the scope rolled back.
KeepsOrDrops(s, m, lost) ==
    \/ /\ setup.keeps
       /\ Hold(s, [m EXCEPT !.at = "open"])
       /\ withdrawn' = [withdrawn EXCEPT ![m.of] = @ \cup lost]
    \/ /\ Hold(s, Nothing)
       /\ withdrawn' = [withdrawn EXCEPT ![m.of] = @ \cup lost \cup IdsIn(m.staged)]

Drained(m) == [m EXCEPT !.pending = 0]

\* Within its scope an append finds the events staged there before.
Fits(m) == Accepts(m.of, Expected(m) - Len(m.staged))

\* The append and what save() does with its answer.
Save(s) ==
    LET m == session[s]
        saved == IF setup.commits THEN [Drained(m) EXCEPT !.staged = @ \o Pulled(m)]
                                  ELSE Drained(m)
    IN
    /\ At(s, "open")
    /\ m.pending > 0
    /\ Fits(m)
    /\ IF setup.commits THEN UNCHANGED <<streams, log>> ELSE AppendToStream(m.of, Pulled(m))
    /\ \/ /\ Hold(s, IF ShouldSnapshot(Len(m.seen))
                     THEN [saved EXCEPT !.at = "snapshot"] ELSE saved)
          /\ UNCHANGED <<withdrawn, faults>>
       \* The append took effect, but the answer was lost.
       \/ KeepsOrDrops(s, saved, {}) /\ MayFail
    /\ UNCHANGED <<setup, snapshot, raised, schema>>

\* A conflict, or the store raises: pull_events() has drained the aggregate
\* all the same.
SaveRejected(s) ==
    LET m == session[s] IN
    /\ At(s, "open")
    /\ m.pending > 0
    /\ \/ ~Fits(m) /\ UNCHANGED faults
       \/ Fits(m) /\ MayFail
    /\ KeepsOrDrops(s, Drained(m), IdsIn(Pulled(m)))
    /\ UNCHANGED <<setup, streams, log, snapshot, raised, schema>>

\* _take_snapshot() and save() of the store, which keeps the last one.
TakeSnapshot(s) ==
    LET m == session[s] IN
    /\ At(s, "snapshot")
    /\ snapshot' = [snapshot EXCEPT ![m.of] = [seen |-> m.seen, schema |-> schema]]
    /\ Hold(s, [m EXCEPT !.at = "open"])
    /\ UNCHANGED <<setup, streams, log, raised, withdrawn, schema, faults>>

\* The snapshot store raises: save() raises although the append took effect,
\* and a handler that catches it goes on with the object.
SnapshotRaises(s) ==
    /\ At(s, "snapshot")
    /\ MayFail
    /\ Hold(s, [session[s] EXCEPT !.at = "open"])
    /\ UNCHANGED <<setup, streams, log, snapshot, raised, withdrawn, schema>>

-----------------------------------------------------------------------------
(* The scope of the unit of work.                                          *)

\* The commit stores what was staged, at the versions it was appended for.
Commit(s) ==
    LET m == session[s] IN
    /\ At(s, "open")
    /\ m.staged # <<>>
    /\ Accepts(m.of, Len(Head(m.staged).on))
    /\ AppendToStream(m.of, m.staged)
    /\ Hold(s, [m EXCEPT !.staged = <<>>])
    /\ UNCHANGED <<setup, snapshot, raised, withdrawn, schema, faults>>

\* The body raises, is cancelled or rolls back itself, the commit meets a
\* conflict, or the process stops.
Rollback(s) ==
    LET m == session[s] IN
    /\ Open(s)
    /\ m.staged # <<>>
    /\ KeepsOrDrops(s, [m EXCEPT !.staged = <<>>], IdsIn(m.staged))
    /\ UNCHANGED <<setup, streams, log, snapshot, raised, schema, faults>>

\* The session ends with nothing staged: it is done, a call raised, or its
\* process stopped.
Close(s) ==
    /\ Open(s) /\ session[s].staged = <<>>
    /\ Hold(s, Nothing)
    /\ UNCHANGED <<setup, streams, log, snapshot, raised, withdrawn, schema, faults>>

\* A version with another snapshot schema replaces the processes.
Deploy ==
    /\ schema < MaxSchema
    /\ \A s \in Session : ~Open(s)
    /\ schema' = schema + 1
    /\ MayFail
    /\ UNCHANGED <<setup, streams, log, snapshot, session, raised, withdrawn>>

SessionStep(s) ==
    \/ \E a \in Aggregate : FindSnapshot(s, a)
    \/ ReadStream(s) \/ Raise(s) \/ Save(s) \/ SaveRejected(s)
    \/ TakeSnapshot(s) \/ SnapshotRaises(s)
    \/ Commit(s) \/ Rollback(s) \/ Close(s)

SourcingNext == Deploy \/ \E s \in Session : SessionStep(s)

-----------------------------------------------------------------------------
(* Properties.                                                             *)

\* An event that was withdrawn, or that an open scope has staged.
Phantom(a, id) ==
    \/ id \in withdrawn[a]
    \/ \E s \in Session :
          Open(s) /\ session[s].of = a /\ id \in IdsIn(session[s].staged)

\* Objects or snapshots may outlive an append that did not last.
Outlived == setup.commits \/ setup.keeps

\* Every stored event has the version it was decided for, and was decided on
\* the events before it in its stream, whatever snapshot, tail or replay its
\* aggregate was loaded from and whatever other sessions saved meanwhile
\* (EventSourcedRepository).  Where objects or snapshots outlive an append
\* (ES-02, ES-10), a phantom may stand for an event in the state it was
\* decided on; no phantom is itself in a stream.
DecidedOnStoredState ==
    \A a \in Aggregate : \A i \in DOMAIN streams[a] :
        /\ Len(streams[a][i].on) = i - 1
        /\ \A j \in 1..(i - 1) :
              \/ streams[a][i].on[j] = streams[a][j].id
              \/ Outlived /\ Phantom(a, streams[a][i].on[j])
        /\ ~Phantom(a, streams[a][i].id)

\* A snapshot is the state of a version its stream has, so that the tail read
\* later continues where it ended: also after lost answers, failed snapshots
\* and an older snapshot written over a newer one.  Only where objects or
\* snapshots outlive an append may it contain phantoms, and then be ahead of
\* its stream (ES-10).
SnapshotMatchesStream ==
    \A a \in Aggregate : snapshot[a] # Nothing =>
        \A j \in DOMAIN snapshot[a].seen :
            \/ j \in DOMAIN streams[a] /\ snapshot[a].seen[j] = streams[a][j].id
            \/ Outlived /\ Phantom(a, snapshot[a].seen[j])
=============================================================================
