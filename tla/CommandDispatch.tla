---------------------------- MODULE CommandDispatch ----------------------------
(***************************************************************************)
(* Concurrent dispatches of commands: the pipeline of behaviors around the *)
(* handler (cqrs/behaviors.py), a handler that loads an aggregate and saves*)
(* what it did, and the commit of the command bus (cqrs/command_bus.py),   *)
(* which comes after the pipeline returned. Each step ends at an await, so *)
(* the steps of different dispatches interleave.                           *)
(*                                                                         *)
(* A dispatch stands for the result its handler returns and for the events *)
(* it saves. Dispatches with one command id are deliveries or retries of   *)
(* one command. Locks are modelled by their promise, mutual exclusion and  *)
(* a release in the end, which AggregateLocking is about.                  *)
(***************************************************************************)
EXTENDS EventStore, FiniteSets

CONSTANTS
    Id,                 \* Id[d]: the command_id of a dispatch
    Target,             \* Target[d]: the aggregate its command is about
    Pipelines,          \* the orders in which behaviors may be registered
    NoDispatch          \* a free lock; a result that is MISSING

Dispatch == Event

\* Each behavior is registered at most once.
KnownPipelines ==
    { <<>>, <<"idempotency">>, <<"locking">>,
      <<"idempotency", "locking">>, <<"locking", "idempotency">> }

ASSUME DispatchAssumption ==
    /\ NoDispatch \notin Dispatch
    /\ Id \in [Dispatch -> CommandId]
    /\ Target \in [Dispatch -> Aggregate]
    /\ \A d, e \in Dispatch : Id[d] = Id[e] => Target[d] = Target[e]
    /\ Pipelines \subseteq KnownPipelines

VARIABLES
    pipeline,           \* the registered behaviors, outermost first
    deferred,           \* whether saves take effect at the commit only
    identified,         \* whether handlers pass the command id to save()
    pc,                 \* where each dispatch is
    depth,              \* how many behaviors it is inside of
    seen,               \* the version of the aggregate it loaded
    saved,              \* dispatches whose handler saved events
    result,             \* the result it carries, as the dispatch that made it
    failure,            \* the exception it carries
    cache,              \* ProcessedMessageStore: the result of each command id
    holder              \* the lock of each aggregate

setup == <<pipeline, deferred, identified>>
store == <<stream, processed>>
vars == <<setup, store, pc, depth, seen, saved, result, failure, cache, holder>>

\* inward: on the way to the handler; handler: loaded the aggregate;
\* outward: on the way back, and to the commit; done: dispatch() returned.
Phase == {"inward", "handler", "outward", "done"}
Failure == {"none", "conflict", "duplicate", "raised"}

TypeOK ==
    /\ StoreTypeOK
    /\ pipeline \in Pipelines
    /\ deferred \in BOOLEAN
    /\ identified \in BOOLEAN
    /\ pc \in [Dispatch -> Phase]
    /\ depth \in [Dispatch -> 0..Len(pipeline)]
    /\ seen \in [Dispatch -> Nat]
    /\ saved \in SUBSET Dispatch
    /\ result \in [Dispatch -> Dispatch \cup {NoDispatch}]
    /\ failure \in [Dispatch -> Failure]
    /\ cache \in [CommandId -> Dispatch \cup {NoDispatch}]
    /\ holder \in [Aggregate -> Dispatch \cup {NoDispatch}]

Init ==
    /\ StoreInit
    /\ pipeline \in Pipelines
    /\ deferred \in BOOLEAN
    /\ identified \in BOOLEAN
    /\ pc = [d \in Dispatch |-> "inward"]
    /\ depth = [d \in Dispatch |-> 0]
    /\ seen = [d \in Dispatch |-> 0]
    /\ saved = {}
    /\ result = [d \in Dispatch |-> NoDispatch]
    /\ failure = [d \in Dispatch |-> "none"]
    /\ cache = [i \in CommandId |-> NoDispatch]
    /\ holder = [a \in Aggregate |-> NoDispatch]

-----------------------------------------------------------------------------
(* MessagePipeline: behaviors are entered from the first to the last and   *)
(* left in the opposite order.                                             *)

\* Mutant: the list is wrapped from its start, so the last is outermost.
BehaviorInListOrder(n) == pipeline[Len(pipeline) + 1 - n]

\* The n-th behavior from the outside.
Behavior(n) == pipeline[n]

Enters(d, behavior) ==
    /\ pc[d] = "inward"
    /\ depth[d] < Len(pipeline)
    /\ Behavior(depth[d] + 1) = behavior

Leaves(d, behavior) ==
    /\ pc[d] = "outward"
    /\ depth[d] > 0
    /\ Behavior(depth[d]) = behavior

Deeper(d) == depth' = [depth EXCEPT ![d] = @ + 1]
Outer(d) == depth' = [depth EXCEPT ![d] = @ - 1]

\* An exception starts on its way out of the pipeline.
Raise(d, kind) ==
    /\ pc' = [pc EXCEPT ![d] = "outward"]
    /\ failure' = [failure EXCEPT ![d] = kind]

\* Mutant: a cancelled acquire() releases the key it never got.
InterruptedReleases(d) ==
    /\ pc[d] \in {"inward", "handler"}
    /\ Raise(d, "raised")
    /\ holder' = IF Enters(d, "locking")
                 THEN [holder EXCEPT ![Target[d]] = NoDispatch]
                 ELSE holder
    /\ UNCHANGED <<setup, store, depth, seen, saved, result, cache>>

\* A call awaited on the way in raises or is cancelled, or the handler raises,
\* be it before or after its save.
Interrupted(d) ==
    /\ pc[d] \in {"inward", "handler"}
    /\ Raise(d, "raised")
    /\ UNCHANGED <<setup, store, depth, seen, saved, result, cache, holder>>

-----------------------------------------------------------------------------
(* IdempotencyBehavior.                                                    *)

\* get(): a cached result is returned at once, else next() is called.
LookupHits(d) ==
    /\ Enters(d, "idempotency")
    /\ cache[Id[d]] # NoDispatch
    /\ result' = [result EXCEPT ![d] = cache[Id[d]]]
    /\ pc' = [pc EXCEPT ![d] = "outward"]
    /\ UNCHANGED <<setup, store, depth, seen, saved, failure, cache, holder>>

LookupMisses(d) ==
    /\ Enters(d, "idempotency")
    /\ cache[Id[d]] = NoDispatch
    /\ Deeper(d)
    /\ UNCHANGED <<setup, store, pc, seen, saved, result, failure, cache, holder>>

\* set(), after next() returned.
Remember(d) ==
    /\ Leaves(d, "idempotency")
    /\ failure[d] = "none"
    /\ cache' = [cache EXCEPT ![Id[d]] = result[d]]
    /\ Outer(d)
    /\ UNCHANGED <<setup, store, pc, seen, saved, result, failure, holder>>

\* set() raises, having stored the result or not.
RememberRaises(d) ==
    /\ Leaves(d, "idempotency")
    /\ failure[d] = "none"
    /\ cache' \in {cache, [cache EXCEPT ![Id[d]] = result[d]]}
    /\ failure' = [failure EXCEPT ![d] = "raised"]
    /\ Outer(d)
    /\ UNCHANGED <<setup, store, pc, seen, saved, result, holder>>

\* next() raised: nothing is stored.
PassFailure(d) ==
    /\ Leaves(d, "idempotency")
    /\ failure[d] # "none"
    /\ Outer(d)
    /\ UNCHANGED <<setup, store, pc, seen, saved, result, failure, cache, holder>>

-----------------------------------------------------------------------------
(* AggregateLockingBehavior.                                               *)

AcquireLock(d) ==
    /\ Enters(d, "locking")
    /\ holder[Target[d]] = NoDispatch
    /\ holder' = [holder EXCEPT ![Target[d]] = d]
    /\ Deeper(d)
    /\ UNCHANGED <<setup, store, pc, seen, saved, result, failure, cache>>

\* A release may be interrupted: the key is freed all the same and the
\* cancellation, or the release's own BaseException, leaves the pipeline.
ReleaseLock(d) ==
    /\ Leaves(d, "locking")
    /\ holder' = [holder EXCEPT ![Target[d]] = NoDispatch]
    /\ failure' \in {failure, [failure EXCEPT ![d] = "raised"]}
    /\ Outer(d)
    /\ UNCHANGED <<setup, store, pc, seen, saved, result, cache>>

-----------------------------------------------------------------------------
(* The handler and its event-sourced repository.                           *)

\* get_by_id() replays the stream.
Load(d) ==
    /\ pc[d] = "inward"
    /\ depth[d] = Len(pipeline)
    /\ seen' = [seen EXCEPT ![d] = Version(Target[d])]
    /\ pc' = [pc EXCEPT ![d] = "handler"]
    /\ UNCHANGED <<setup, store, depth, saved, result, failure, cache, holder>>

IdPassed(d) == IF identified THEN Id[d] ELSE NoId

Accepted(d) == Accepts(Target[d], seen[d], IdPassed(d))

\* The duplicate check comes first.
RejectionOf(d) ==
    IF IsDuplicate(Target[d], IdPassed(d)) THEN "duplicate" ELSE "conflict"

\* save() with events. The append takes effect here, as in FakeEventStore, or
\* is staged for the commit of the transaction.
Save(d) ==
    /\ pc[d] = "handler"
    /\ d \notin saved
    /\ saved' = saved \cup {d}
    /\ IF deferred
       THEN UNCHANGED store
       ELSE Accepted(d) /\ AppendToStream(Target[d], d, IdPassed(d))
    /\ UNCHANGED <<setup, pc, depth, seen, result, failure, cache, holder>>

\* Mutant: the id is recorded before the version is checked.
SaveRejectedButRecorded(d) ==
    /\ pc[d] = "handler"
    /\ d \notin saved
    /\ ~Accepted(d)
    /\ Raise(d, RejectionOf(d))
    /\ processed' = [processed EXCEPT ![Target[d]] = @ \cup ({IdPassed(d)} \ {NoId})]
    /\ UNCHANGED <<setup, stream, depth, seen, saved, result, cache, holder>>

\* save() raises DuplicateCommandError or ConcurrencyError, and the handler
\* lets it pass. A transactional store may notice as early as this.
SaveRejected(d) ==
    /\ pc[d] = "handler"
    /\ d \notin saved
    /\ ~Accepted(d)
    /\ Raise(d, RejectionOf(d))
    /\ UNCHANGED <<setup, store, depth, seen, saved, result, cache, holder>>

\* The handler returns its result, with or without events to save.
HandlerReturns(d) ==
    /\ pc[d] = "handler"
    /\ result' = [result EXCEPT ![d] = d]
    /\ pc' = [pc EXCEPT ![d] = "outward"]
    /\ UNCHANGED <<setup, store, depth, seen, saved, failure, cache, holder>>

-----------------------------------------------------------------------------
(* CommandBus.dispatch after the pipeline.                                 *)

LeftPipeline(d) == pc[d] = "outward" /\ depth[d] = 0
Return(d) == pc' = [pc EXCEPT ![d] = "done"]

\* Something of d waits for the commit.
Staged(d) == deferred /\ d \in saved

\* uow.commit() succeeds, or its answer is lost after it took effect.
Commit(d) ==
    /\ LeftPipeline(d)
    /\ failure[d] = "none"
    /\ IF Staged(d)
       THEN Accepted(d) /\ AppendToStream(Target[d], d, IdPassed(d))
       ELSE UNCHANGED store
    /\ failure' \in {failure, [failure EXCEPT ![d] = "raised"]}
    /\ Return(d)
    /\ UNCHANGED <<setup, depth, seen, saved, result, cache, holder>>

\* Mutant: a commit that finds a conflict writes nothing and returns.
CommitSkipsRejected(d) ==
    /\ LeftPipeline(d)
    /\ failure[d] = "none"
    /\ Staged(d) /\ ~Accepted(d)
    /\ Return(d)
    /\ UNCHANGED <<setup, store, depth, seen, saved, result, failure, cache, holder>>

\* The storage refuses the staged append at the commit.
CommitRejected(d) ==
    /\ LeftPipeline(d)
    /\ failure[d] = "none"
    /\ Staged(d) /\ ~Accepted(d)
    /\ failure' = [failure EXCEPT ![d] = RejectionOf(d)]
    /\ Return(d)
    /\ UNCHANGED <<setup, store, depth, seen, saved, result, cache, holder>>

\* The commit raises without effect.
CommitRaises(d) ==
    /\ LeftPipeline(d)
    /\ failure[d] = "none"
    /\ failure' = [failure EXCEPT ![d] = "raised"]
    /\ Return(d)
    /\ UNCHANGED <<setup, store, depth, seen, saved, result, cache, holder>>

\* A failed pipeline: __aexit__ rolls back, dispatch() raises. The rollback
\* drops what is staged; it does not undo an append that took effect.
RollBack(d) ==
    /\ LeftPipeline(d)
    /\ failure[d] # "none"
    /\ Return(d)
    /\ UNCHANGED <<setup, store, depth, seen, saved, result, failure, cache, holder>>

-----------------------------------------------------------------------------

Pipeline(d) ==
    \/ Interrupted(d)
    \/ LookupHits(d) \/ LookupMisses(d)
    \/ Remember(d) \/ RememberRaises(d) \/ PassFailure(d)
    \/ AcquireLock(d) \/ ReleaseLock(d)

Handler(d) == Load(d) \/ Save(d) \/ SaveRejected(d) \/ HandlerReturns(d)

Bus(d) == Commit(d) \/ CommitRejected(d) \/ CommitRaises(d) \/ RollBack(d)

Next == \E d \in Dispatch : Pipeline(d) \/ Handler(d) \/ Bus(d)

Spec == Init /\ [][Next]_vars

-----------------------------------------------------------------------------
(* Properties.                                                             *)

\* No update is lost, whatever the pipeline: every save was computed from all
\* the saves before it in its stream. This is what the version check of
\* append_to_stream is for when locks do not serialise the handlers.
NoLostUpdate ==
    \A a \in Aggregate : \A n \in DOMAIN stream[a] : seen[stream[a][n]] = n - 1

\* The ids of a stream are those of its saves: a rejected append leaves its
\* command id unused, so that the command can be retried (ADR-041, ADR-072).
IdUsedOnlyByStoredEvents ==
    \A a \in Aggregate :
        processed[a] = IF identified
                       THEN {Id[stream[a][n]] : n \in DOMAIN stream[a]}
                       ELSE {}

LockedLookup == pipeline = <<"locking", "idempotency">>

\* A command takes effect at most once, however often and however concurrently
\* it is dispatched, if save() gets the command id, or if the lookup runs under
\* the lock and saves take effect with the commit. Neither the documented
\* order, idempotency before locking, nor idempotency alone is enough.
OneEffectPerId ==
    identified \/ (deferred /\ LockedLookup) =>
        \A a \in Aggregate : \A m, n \in DOMAIN stream[a] :
            Id[stream[a][m]] = Id[stream[a][n]] => m = n

Stored(d) == \E n \in DOMAIN stream[Target[d]] : stream[Target[d]][n] = d

Succeeded(d) == pc[d] = "done" /\ failure[d] = "none"

\* A dispatch that succeeds returns a result of its own command, and the events
\* behind that result are stored. The one exception is a duplicate that was
\* given a result which its own dispatch has not committed, or failed to
\* commit: IdempotencyBehavior stores results before the commit.
SuccessAccountedFor ==
    \A d \in Dispatch : Succeeded(d) =>
        /\ result[d] \in Dispatch
        /\ Id[result[d]] = Id[d]
        /\ \/ result[d] \notin saved
           \/ Stored(result[d])
           \/ result[d] # d /\ ~Succeeded(result[d])

\* Under the lock no handler meets a version conflict, provided that saves take
\* effect where they are made. If they wait for the commit this fails, since
\* the lock is released before it.
LockingPreventsConflicts ==
    (\E n \in DOMAIN pipeline : pipeline[n] = "locking") /\ ~deferred =>
        \A d \in Dispatch : failure[d] # "conflict"

\* What the documentation says of IdempotencyBehavior: a duplicate dispatch does
\* not execute the handler again once the handler has returned a result.
HandlerRunsOncePerId ==
    \A d, e \in Dispatch :
        Id[d] = Id[e] /\ result[d] = d /\ result[e] = e => d = e
================================================================================
