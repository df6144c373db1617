# Verification of pydomain in TLA+

pydomain is an asyncio framework for domain-driven design: commands run in
units of work, locks and idempotency wrap them as pipeline behaviors, domain
events leave the process through a transactional outbox, and sagas and
event-sourced aggregates are built on top. This directory models the parts
whose correctness depends on the order of steps, on failures and on
cancellation. TLC checks the models on small instances, TLAPS proves the most
important properties for every instance.

All paths are relative to `src/src/pydomain/` unless they start with `docs/`.

## 1. Inventory

| Component | State it keeps | Operations | Hard behaviours |
|---|---|---|---|
| Outbox store (`cqrs/outbox.py`, `testing/fake_outbox_store.py`) | entries, published ids, dead letters, attempts, retry times, claims | append, fetch_unpublished, mark_published, mark_failed, mark_dead_lettered | several relays, claims that go stale, marks in any order |
| Outbound event gateway (`infrastructure/message_broker.py`) | the batch of a pass, a run and its task, detached runs | run_once, run, start, stop | crash between publish and mark, store errors, lost answers, stop during a pass |
| Outbound registry and writer (`cqrs/outbox.py`) | translations by event type, classes by topic | register_translation, to_entries, resolve, write | a failing translation inside a commit |
| Unit of work (`cqrs/unit_of_work.py`) | repositories and their buffers, collected events, commit record | `async with`, commit, rollback, collect_events | hooks that raise part-way, lost commit answers, events that outlive their scope, cancellation |
| Command bus (`cqrs/command_bus.py`) | handlers and pipelines | register, dispatch | which exception the caller sees after a failing clean-up |
| Event bus, message bus (`cqrs/event_bus.py`, `infrastructure/message_bus.py`) | handlers | dispatch, dispatch_many | publication after commit, cancellation between two events |
| Aggregate locking (`cqrs/behaviors.py`, `cqrs/locking.py`, `testing/fake_lock_provider.py`) | lock holders and hold tokens, background release tasks | handle, acquire, release | cancellation at any await, failing releases, nested commands, deadlock |
| Idempotency (`cqrs/behaviors.py`, `cqrs/idempotency.py`) | cached results, processed ids | get, set, check_and_set | concurrent duplicates, a result cached before the commit |
| Saga manager (`cqrs/saga/*`) | saga state: status, pending commands, compensation stack, processed events, retry count | handle, start_saga, recover_pending_sagas, process_timeouts | crash between any two saves, re-entrant events, timeouts against resumes, compensation failures |
| Event sourcing (`es/*`) | streams, global log, processed command ids, snapshots | append_to_stream, read_stream, save, get_by_id | concurrent writers, stale or unusable snapshots |
| Subscription runner, projections (`infrastructure/subscription.py`, `es/projection.py`) | checkpoints, read models | run, run_once, stop, rebuild | crash between batch and checkpoint, a failing batch |
| Inbound gateway (`infrastructure/message_subscriber.py`) | translations by topic | start, stop, message handler | redelivery, swallowed handler errors |
| Bootstrap (`infrastructure/bootstrap.py`) | the started parts | bootstrap, shutdown | a start that fails or is cancelled part-way |
| Building blocks (`ddd/*`), message types, queries, test contracts | none that steps share | | |

How they interact: the message bus calls the command bus; the command bus runs
the pipeline (behaviors, then the handler) inside a unit of work and commits
it; the commit collects the events of the repositories and lets the outbox
writer append entries to the outbox store in the same transaction; the message
bus then hands the events to in-process handlers, among them the saga manager,
which dispatches further commands. Independently the outbound gateway polls
the store and publishes to a broker. Everything runs on one event loop, so
tasks interleave only at awaits.

What makes each component correct:

* outbox: nothing is lost, nothing is marked that was not sent, a publication
  is final, duplicates only after failures, every entry is settled in the end;
* unit of work: state and outbox rows agree, a scope commits once and only its
  own events, in-process handlers see only durable events, cancellations
  surface;
* locking: mutual exclusion, no lost key, ownership of releases, no deadlock;
* idempotency: a handler takes effect once per command id;
* sagas: a saga under way loses no command, no compensation goes missing without
  a record, compensations run in reverse order, a saga that ended stays ended, a
  stalled one is recovered;
* event sourcing: no lost update, every event is decided on the events before
  it, whether the aggregate came from a snapshot or from its stream, as long as
  nothing outlives an append that was rolled back;
* subscriptions: every event reaches every projection, in order;
* lifecycle: whatever was started is stopped, in order, as long as no stop is
  itself cancelled, failures are reported once, and stop() returns.

## 2. Modules

| Module | What it is |
|---|---|
| `OutboxDelivery` | abstract promise of the outbox |
| `OutboxStore` | the store: variables and one operator per port method |
| `OutboxRelay` | several relays over the store and a broker; EXTENDS `OutboxStore`, implements `OutboxDelivery` |
| `OutboxRelayProofs` | theorems about `OutboxRelay` |
| `AggregateLocking` | the locking behavior over a lock provider, for several dispatches |
| `AggregateLockingProofs` | theorems about `AggregateLocking` |
| `UnitOfWork` | a sequence of dispatches over one unit of work and its repositories |
| `UnitOfWorkProofs` | theorems about `UnitOfWork` |
| `EventStore` | the event store: streams, version check, recorded command ids |
| `CommandDispatch` | concurrent dispatches through the pipeline, over an event-sourced repository; EXTENDS `EventStore` |
| `CommandDispatchProofs` | theorems about `CommandDispatch` |
| `SagaState` | the saved state of a saga: its lifecycle methods, and what a step makes of an event |
| `SagaManager` | the manager's tasks over the saga repository; EXTENDS `SagaState` |
| `SagaManagerProofs` | theorems about `SagaManager` |
| `EventLog` | streams and global log, shared by the two modules that follow |
| `EventSourcing` | sessions that load, raise and save, with snapshots; EXTENDS `EventLog` |
| `EventSourcingProofs` | theorems about `EventSourcing` |
| `ProjectionFeed` | abstract promise of a catch-up subscription |
| `SubscriptionRunner` | several polling loops over one checkpoint store; EXTENDS `EventLog`, implements `ProjectionFeed` |
| `SubscriptionProofs` | theorems about `SubscriptionRunner` |
| `EventSourcedSystem` | the composition of `EventSourcing` and `SubscriptionRunner` over one log |
| `RelayLifecycle` | `start()`, `stop()` and the runs of the outbound gateway |
| `ApplicationLifecycle` | `bootstrap()`, its clean-up and `shutdown()`; EXTENDS `RelayLifecycle` |
| `ApplicationLifecycleProofs` | theorems about `ApplicationLifecycle` |
| `MCOutboxRelay`, `MCAggregateLocking`, `MCUnitOfWork`, `MCCommandDispatch`, `MCSagaManager`, `MCEventSourcedSystem`, `MCApplicationLifecycle` | values for TLC |

Operators whose comment begins with "Mutant:" describe a plausible bug of the
operator that follows them. No specification uses them; replacing the correct
operator by one of them shows which property notices the bug.

### Outbox

`OutboxStore` keeps `appended` (how many entries exist, in commit order),
`published`, `dead`, `attempts`, and instead of clock values two sets:
`hidden` (retry time in the future) and `claimed` (claim timeout in the
future). `RetryFallsDue` and `ClaimGoesStale` are the clock passing them. The
store calls are atomic, as in the fake and as in one SQL statement.

`OutboxRelay` splits `run_once` at its awaits. `Fetch` is the fetch with its
claims; `BrokerAccepts`, `Refused` and `BrokerAnswerLost` are the three
outcomes of `_deliver` (an unknown topic or an invalid payload is an entry of
`Undeliverable`, refused every time); `MarkPublished`, `MarkFailed` and
`MarkDeadLettered` are the marks with the decision of the retry budget, which
is taken from the *fetched copy* (`fetchedAttempts`) as in the code.
`MarkFails`, `FetchAnswerLost`, `Crash` and `Restart` are the failures. An
error that leaves `run_once` is logged by the run loop, so the relay goes on
with the next pass and the rest of its batch stays claimed.

### Aggregate locking

One dispatch per element of `Command`. A key is a natural number, so the sort
order of keys is the order of numbers. `Parent` says which dispatch runs in
the handler of another, in the same task. The body of `handle()` is `Start`,
`Acquire`, `Reenter` (`LockReentryError`), `AcquireRaises`, `HandlerEnds`; the
loop of `_release` is `Release`, `ReleaseRaises`, `ReleaseRaisesCancelled`; a
cancellation delivered at an await is one of the `Cancel...` actions, which
differ in what the provider does with it: it re-raises it or turns it into its
own error (`CancelRelease`), or swallows it (`CancelSwallowed`).
`BackgroundRelease` and `BackgroundRaises` are the task of `_hand_over`. A
release that raises may or may not have freed the key; a key it did not free is
recorded in `stranded` (the docs leave it to a lease or TTL).
Not modelled: the end of the event loop (a background task cancelled before its
first step), and backends without asyncio tasks.

### Unit of work

Dispatches follow each other over one unit of work object and repositories that
outlive the scope, the use that ADR-068 is about. An event stands for the state
change that raised it. The storage (`tx`, `txOutbox`, `durable`, `outbox`) is
external: a commit makes changes and rows durable at once, and a rollback
discards them even when it reports an error. `pc` follows the hook chain of
`commit()`: `flush`, `outbox`, `commit`, then `exit` for `__aexit__`. A handler
may itself call `commit()` and `rollback()` and swallow what they raise,
although ADR-020 tells it not to, because the guards in the code are there for
this case. `Rollback` is atomic: after the `_rollback` hook the code has no
further await. Changes saved after their scope committed (`late`) belong to no
commit of that scope; what the storage does with them is the adapter's
business, so `StateAndOutboxAgree` excludes them.

### Command dispatch

`CommandDispatch` looks at several dispatches at once where `UnitOfWork` looks
at one in detail. `depth` counts the behaviors a dispatch is inside of, so
`Enters` and `Leaves` say which behavior comes next on the way in and out, for
any order of registration. `LookupHits`, `LookupMisses` and `Remember` are the
two awaits of `IdempotencyBehavior`; `AcquireLock` and `ReleaseLock` stand for
the whole locking behavior, whose details are in `AggregateLocking`; `Load`,
`Save` and `SaveRejected` are the repository calls of the handler; `Commit`,
`CommitRejected`, `CommitRaises` and `RollBack` are what the bus does after the
pipeline returned. Any await may fail (`Interrupted`, `RememberRaises`,
`ReleaseLock`, `CommitRaises`, and `Commit` with a lost answer), without a
bound, since a dispatch runs once.

Two choices that the library leaves to its user are made in `Init`, and every
property holds or fails for each of them: `deferred`, whether a save takes
effect at once, as in `FakeEventStore`, or with the commit of a transaction;
and `identified`, whether the handler passes the command id to `save()`. A
rollback does not undo an append that took effect at once, as the fakes
document. Left out: a handler that catches a rejected save and goes on,
snapshots (they are in `EventSourcing`), and a lease that frees the lock of a dead process (a dead process is
a dispatch that takes no further step and keeps its lock).

### Saga

`SagaState` is the data side. Its state is a record of the fields of the
`SagaState` class that steer the manager; each event of one correlation id has
one step, so a forward command and an undo are named by their event. The
lifecycle methods of `Saga` (`Complete`, `Suspend`, `Resume`, `Fail`, `Undos`
for `execute_compensations`, `Marked` for `mark_event_processed`) are operators
on it. `HandleEvent` is the set of everything a declarative step may do with an
event: send, complete, suspend with or without a timeout, call `fail()`, or
raise at any of three points. `ProcessEvent` puts the guards of `_process_saga`
around it, and `SuspendForHydration` and `FinishRecovery` belong to the recovery.
`TimeOut` is `process_timeouts` with the outcomes of an overridden hook. One of
them (`FailedTwice`) is the hook that awaits `fail()` and then raises: the manager
calls `fail()` again, whose stack is by then empty, so the saga is FAILED without
a compensation loop and the undos that the first call queued go out as the hook's
own commands, still in reverse order, where a refusal is only logged (SAGA-12,
`docs/others/bug-audit-findings.md:107`).

`SagaManager` is the control side. A *task* (an event being handled, the
recovery sweep, the timeout sweep) holds a copy of a saved state, and each of
its steps is one call of the repository or the dispatcher together with all
that the code computes before the next call: `Deliver` and `Create` find or
make the state, `Save` writes the copy back, `Send` dispatches the next command
of a batch after the batch was saved as pending, `Compensate` sends undos (a
copy keeps each undo at its place on the stack, and `NextUndo` is the one to
send next: the last), and a task that is not at work holds `NoTask`.
`Redispatch` is recovery's loop over the pending commands, `SendUnsaved` sends
what a timeout hook queued, and `logged` records the undos it could not send.
`save()` is an upsert without a version check, so with two tasks the last writer
wins. Faults: a dispatch that raises, a mark that cannot be saved (`MarkFails`), a
task cut short at any call (`Stop`), and a `Restart` with other command classes
(`renamed`), for which a pending command or an undo cannot be hydrated. A dispatch
may raise without an effect (`refusals`) or after the command took effect
(`unsure`: the answer of the commit was lost, or a handler of its events raised).
The saga cannot tell the two apart: it suspends, and recovery sends the command
again, which the documentation leaves to the idempotency of the handler
(`docs/diataxis/concepts/sagas/saga-manager.md:120`). `Init` chooses how many tasks may be at work at
once. Properties about counts and order are claimed for one at a time only: the
library has no answer to two tasks that overwrite each other's copy.
`CommandsAccountedFor` is claimed for any overlap, but only for sagas that have not
ended: a COMPLETED row may still own commands, and recovery looks for stalled rows
that have not ended, so a crash between the save of a completing step and its
dispatch strands the command, as does an event that completes a saga suspended for
a command it cannot hydrate (ADR-077, line 209; the strict xfail at
`tests/saga/test_failure_and_recovery_edges.py:924`). `OncePerCommandAndFault` and
`CompensatesInReverse` hold while no processed id was evicted: with a bounded
`max_processed_events` an evicted event is handled again when it is redelivered
(SAGA-16), its command is sent again and its undo is registered a second time,
above those of later steps. The run keeps every id; eviction is in the model and in
the theorems, whose statements name it.

Left out: the step history and its pruning, several saga classes and
correlation ids at once (they share no state), `max_retries=None` (recovery then
never gives up), hooks and steps that queue further commands after they called
`fail()`, and states that an operator edits by hand.

### Event sourcing and subscriptions

`EventLog` is what both sides share: `AppendToStream` extends a stream and the
global log together. In `EventSourcing` a session is `get_by_id()` in two calls
(`FindSnapshot`, `ReadStream`), `_apply()` (`Raise`), `save()` in two
(`Save` or `SaveRejected`, then `TakeSnapshot` or `SnapshotRaises`), and the end
of its unit of work (`Commit`, `Rollback`, `Close`). The state
of an aggregate is the sequence of the events it has applied, since any state is
a fold of them; every event records, for the properties only, the state it was
decided on. A snapshot of another schema restores fields that stand for no
event (`Restored`), so that a policy that let it through would be noticed.
`Deploy` changes the schema and ends all sessions.

Two choices that the library leaves to its user are made per setup. `commits`:
an append takes effect at once, as in `FakeEventStore`, or is staged and takes
effect with the commit of the scope, as in a transactional adapter, whose
rollback withdraws it (ES-02, `docs/others/bug-audit-findings.md:222`). `keeps`:
a handler drops its object after a `save()` that raised, as the documentation of
`ConcurrencyError` asks, or may catch the error and go on with it, although
`pull_events()` has drained it. The snapshot store takes no part in either. So an
event may be *withdrawn* (pulled, and then never stored) while a snapshot or an
object still has it, a *phantom*. This is ES-10 (`bug-audit-findings.md:182`: the
snapshot is ahead of its stream and later saves conflict), and the model shows
that it is not always noticed: when other events fill the stream up to the version
of such a snapshot, a session that loads it saves without a conflict, on a state
that contains the phantom. `DecidedOnStoredState` and `SnapshotMatchesStream` say
how far this goes: where nothing outlives an append, not at all; otherwise only
withdrawn or still staged events are ever in the place of a stored one, versions
are exact, and no withdrawn event is itself stored.
Left out: scopes that load several objects (a session has one), and event stores
whose positions commit out of order (ES-18): the log is dense and an append
extends it and the stream at once.

`SubscriptionRunner` splits a cycle at its awaits: `LoadCheckpoint` for one
subscription after the other, `ReadAll` once from the lowest, and for each
subscription `Dispatch`, `Process` (or `ProcessRaises`, perhaps after some
events) and `SaveCheckpoint`. `RequestStop` and `Run` are `stop()` and `run()`,
`Crash` ends the loop at any call. Several runners share the checkpoints, so one
can set a checkpoint back that another had moved on. `ProjectionFeed` is the
promise: a projection is fed a gap-free prefix of its events, and in the end
every one. Not modelled: what a projection computes, its store, and `rebuild()`.

### Lifecycle

`RelayLifecycle` models ADR-074: each `start()` makes a run with a stop request
of its own, `stop()` detaches the current run before it waits (`Detach`) and
waits for all detached runs but the one it is called from (`ToAwait`). A run is
polling, in a pass, or has exited; `Die` is a cancellation of its task.

`ApplicationLifecycle` starts gateways, broker and relay in the order of
`bootstrap()` and stops them in the order of `shutdown()`. `StartFails` hands
what had started to the clean-up task; `CancelledFinishing`, `CancelledWaiting`
and `Abandon` are the two waits of `bootstrap()` and the way it gives up, and
`CleanUpDone` is the done callback that reports what the abandoned wait can no
longer report. A clean-up stop may return, raise an `Exception` (its own or an
instance that another stop or the failed start raised before, which `_note` then
does not repeat: ADR-078), or break the clean-up (`CleanUpStopBreaks`): a stop that
is cancelled, or that raises what is no `Exception`, skips the stops behind it and
drops the failures collected so far (ADR-073, point 5;
`tests/infrastructure/test_bootstrap.py:1184`-`1224`). `WaitEnds` is what the waiting
`bootstrap()` makes of each of these endings, `Log` what the callback does.
Several tasks may call `shutdown()` once each; those of `SelfCloser` may be called
inside a pass of the relay (by a broker or a store), also two of them at once, from
two runs that overlap. A supervisor may start the relay again.
Not modelled: the wiring of the buses, the `ValueError`s before anything is
started, parts that are not configured, a `start()` that raises neither an
`Exception` nor a cancellation, the notes that `shutdown()` adds to the error it
raises itself, and `KeyboardInterrupt` and `SystemExit`, which skip every clean-up
by design.

## 3. Runs

| Run | Instance | What it shows |
|---|---|---|
| `outbox_stale_claims` | 2 entries, 2 relays, batches of 2, budget 2, 1 fault, claims may go stale at any time, entry 2 undeliverable | safety that needs no assumption on claims, and refinement of the abstract promise |
| `outbox_liveness` | 3 entries (2 undeliverable, filling a batch), 2 relays, budget 3, 1 refusal, 1 fault, claims outlast passes, fairness | exclusive claims, one duplicate per fault at most, exact dead-letter counts, settlement and publication of every entry, refinement with fairness |
| `outbox_dead_letter_count` | 1 entry, 2 relays, stale claims | **violation**: a dead letter can report more than `max_attempts` (finding 1) |
| `locking_flat` | 3 commands over 2 keys, 2 cancellations each, 1 failing call | exclusion, no lost key, ownership, no deadlock |
| `locking_liveness` | a command, its nested command that re-enters a held key, a third command, 3 keys, 1 cancellation each, 1 failing call, fairness | every waiting dispatch returns unless a key was stranded, a finished dispatch comes to hold nothing |
| `locking_nested_doc` | nested command with a different key | **violation**: sorted keys do not prevent the deadlock of nested commands (finding 2) |
| `unit_of_work` | 2 repositories, 3 events (1 internal), 2 faults | transactional outbox, one commit per scope, isolation of scopes, publication after commit, cancellations surface |
| `command_dispatch` | 2 deliveries of one command and another command on one aggregate, all 5 pipelines, immediate and deferred saves, with and without the command id | no lost update, ids used by stored events only, when a command takes effect once, what a success means, when locking prevents conflicts |
| `duplicate_dispatch_doc` | the same with the documented order of behaviors | **violation**: a duplicate runs the handler again (finding 3) |
| `saga` | 2 events with undos, resume map, retry budget 1; one task at a time with the first event delivered twice and 2 faults, or two overlapping tasks with 1 raising dispatch; fairness | a saga under way loses no command, one more execution per cut-short task, restart or dispatch that raised after its effect at most, no compensation lost without a record, reverse order, ended sagas stay ended, recovery ends every stall |
| `event_log` | 2 aggregates, a snapshot after every event, 2 schemas, in five settings: two sessions and 2 faults; two sessions that may keep an object after an error, 3 events and 1 fault; the same with appends that take effect with the commit; a session, a runner with two projections and 2 faults; a session, two runners that share a checkpoint and 1 fault; fairness | events decided on what is stored, snapshots that agree with the stream, and how far phantoms go where they are possible; refinement of `ProjectionFeed` with fairness |
| `lifecycle` | 2 gateways, broker, relay with 2 runs, 3 closers of which two may be called inside the relay, 3 faults, fairness | the other runs of the relay have exited before the broker stops; whatever was started is stopped but for the parts behind a stop that broke; every `shutdown()` returns but for two passes that wait for each other; failures are reported once |

Why the bounds are enough. Two relays already show every conflict over one
entry, because each store call names one relay and one entry; three entries let
a batch be filled by undeliverable ones. Two keys and three commands give every
circular wait of two, and a third command that takes a key in the gap left by a
wrong release. Two faults in a unit of work give a failure and a failing
clean-up of it; three events give one of an earlier scope, one of the current
scope and one raised after a commit. Two deliveries of one command show every
race between a lookup and a store of its result, and a third dispatch moves the
version between them. Two saga events give a stack of two undos and a batch
behind an older pending command; two faults give a crash during the recovery of
a refused dispatch; and with a retry budget of 1 the retries run out (1.5 million
states, about 2.5 minutes). Two
sessions give every conflict over a version and an older snapshot written over a
newer one; two schemas give a stale snapshot; two runners give a checkpoint set
back. Two runs of the relay overlap as more would, and three faults are a
failing start followed by both of its cancellations. What the bounds leave open is covered by
the proofs, which hold for every value of the constants.

`CHECK_DEADLOCK FALSE` is set for locking, dispatch, sagas, the event log and
the lifecycle: when every dispatch has returned, no saga is stalled, all events
are fed, or the application is shut down, nothing happens any more.

### Fairness

* `OutboxRelay!Fairness`: the run loop of each relay keeps polling
  (`_run_loop` catches every `Exception`), a crashed relay is started again by
  its supervisor, and clock instants pass. The broker is never assumed to
  accept: the bound `MaxRefusals` on refusals of a deliverable entry, together
  with `MaxFaults`, is below the budget where publication is claimed.
* `AggregateLocking!Fairness`: the event loop runs every task that can go on,
  handlers end, and the lock grants a free key to a waiter (`asyncio.Lock` is
  first-in, first-out).
* `SagaManager!Fairness`: a task at work goes on, and the application runs the
  recovery sweep again and again, which the documentation asks of it. No event
  is assumed to be delivered and no dispatch to succeed: the retry budget ends
  a stall that refusals would keep up.
* `SubscriptionRunner!RunnerFairness`: a loop that runs goes on, and one that
  ended is started again. Faults and stops are bounded by the settings.
* `ApplicationLifecycle!FairSpec`: the calls that are awaited return, and the
  event loop resumes who waits. Nobody has to call `shutdown()`.

## 4. Proofs

All theorems hold for any number of entries, relays, keys, commands,
dispatches, aggregates, repositories, events, sessions, runners, gateways and
closers, and any bounds on faults. They rest on the named
assumptions beside the constants, which state their types, and:

* `OutboxRelayProofs`. The invariant adds to the types how claims, batches and
  fetched copies relate: a relay that is past the broker works on the oldest
  entry of a non-empty batch; a batch holds only existing entries; an entry in
  state accepted has been taken; a fetched count never exceeds the stored one.
  For the theorems under `ClaimsOutlastPasses` it adds that whatever is in a
  batch is claimed, unsettled, and that its fetched count is the current one;
  this is what makes claims exclusive and counts exact. `RelaysImplementDelivery`
  maps every relay step to a step of `OutboxDelivery` or to a stutter.
* `AggregateLockingProofs`. `LockInv` says which keys a dispatch holds in each
  phase: those it acquired while acquiring and handling; while releasing, what
  it holds is among what is pending, handed over or stranded.
  `SortedOrderPreventsDeadlock` takes the assumption that the keys a nested
  command adds to those of its parent sort after all of them, which asks nothing
  of commands that are not nested. Its argument: in a circle of waiting tasks
  take the greatest key that one of them waits for (well-founded induction gives
  it); the task that holds this key waits for another, which is greater because
  keys are acquired in order (`SortedInv`) and because a nested command runs
  only while its parent has all its keys and no other nested command
  (`NestedInv`); that contradicts the choice. Run `locking_nested_doc` shows
  that the assumption is needed.
* `UnitOfWorkProofs`. `ScopeInv` relates buffers, collected events, transaction
  and durable state in every phase: what is in the buffers, the transaction and
  `events` belongs to the current scope or is recorded as undrained, before the
  storage commits the rows written are exactly the translated events, and a
  scope that may still commit has made no storage commit.
* `CommandDispatchProofs`. `DispatchInv` says that inside of the locking
  behavior a dispatch has the lock (`LockInv`), that what is in a stream was
  saved from the version before it (`StreamInv`), and that the recorded ids are
  those of the stream. For `OneEffectPerId` without ids it adds `OnceInv`: with
  the lookup under the lock, a dispatch that missed keeps its miss until it
  stores its result, because another delivery of the command would need the
  lock; and every save that lasts, stored or still to be committed without a
  failure, has its id in the cache. So no second one can begin.
  `LockingPreventsConflicts` rests on `ConflictInv`: what a handler loaded stays
  current, since another append to the aggregate would need the lock.

* `OvershootIsBounded` (in `OutboxRelayProofs`) needs a finite, non-empty set of
  relays. `OvershootInv` counts: once the next failure would use up the budget,
  only copies fetched before can still retry the entry, and once it is dead no
  pass fetches it, so the sets of relays that will retry it or give it up only
  shrink while its count grows.
* `EventSourcingProofs`. `SourcingInv` says what a session knows in each phase:
  the events it has applied without the pending ones are a prefix of the stream
  of its aggregate, and so is every snapshot; what it raised itself follows. As
  long as the version matches, that prefix is the whole stream, so what it saves
  was decided on all of it. Where objects or snapshots outlive an append, each
  place of such a prefix holds the stored event or a phantom; the invariant adds
  that stored, staged, pending and withdrawn identities never meet (`OnePlace`), that staged
  events continue the version they were decided for, and that an event goes from
  staged to stored or withdrawn only, so that a phantom stays one.
* `SubscriptionProofs`. `RunnerInv` says that loaded checkpoints and the end of
  a read lie within the log, and that everything up to a checkpoint, saved or
  loaded, was fed. A loop therefore feeds a batch that continues what was fed
  without a gap, whichever runner saved the checkpoint (`CheckpointsCoverFed`).
  `RunnersFeed` maps each step of the composition, the sessions' appends
  included, to a step of `ProjectionFeed` or a stutter.
* `ApplicationLifecycleProofs`. `DrainInv`: a run that is not current and has
  not exited is in `stopping`, so what a `stop()` waits for covers every run it
  has seen except its own. `ReportInv` (in `BootInv`) says for each phase of
  `bootstrap()` and of the clean-up task, and for each way the clean-up can end,
  which of the two has the report to make: nothing is noted or logged before, and
  an abandoned clean-up whose callback is still to come has reported nothing.
* `SagaManagerProofs`. `BooksInv` says what is accounted for in the copy each
  task holds, by the call it is about to make: before a batch is recorded its
  command may be missing from the books; once it is recorded, it is their last
  entry, and is cleared only after it was marked, which it was only after it was
  carried out. It also says that a state saved with a batch still to come owes
  nothing because it is FAILED. The books of a state that ended are
  closed, whatever is pending in it. The invariant speaks of each copy alone, which
  is why overlapping tasks do not break it (`NoLiveCommandIsLost`), and with the
  types it gives `SagaTypeCorrect`.

  The other four theorems are about one task at work at a time and need
  `SoloInv`, which relates the only copy to the saved state. Four parts carry
  the argument:
  - `Neat`: an event stands at most once among the pending commands and at most
    once on the stack of a state, and only when the state counts it as
    processed. It needs that no id was evicted, and it is why a redelivered
    event, a resumption or recovery finds nothing to send twice.
  - `Balanced`: a command is *owed* when its event would still be handled, when
    it is pending and not marked, or when it is ahead of its record
    (`Ahead`: the forward commands of a compensation and of a timeout hook are
    sent before any state says so). An owed command was carried out at most once
    per task cut short, restart or dispatch that raised after its effect
    (`Slack`), any other command at most once more. A dispatch takes its command
    out of the owed ones; only the end of a task or a dispatch that raises after
    its effect can put it back or leave it there, and both are counted in `Slack`.
    This gives `OneDispatchPerFault`.
  - `Walk`: a compensation walks down a stack that begins with the saved one.
    The places it has left were carried out or are recorded as failed, so the
    last one left is below all of those (`UndoneInReverse`), and at the end
    nothing of the saved stack is unaccounted for (`StackKept`, from which
    `NoUndoIsLost` follows at the save). `Unwound` says the same of the undos that
    a timeout hook left to `SendUnsaved`; there a refused undo counts as gone with
    its log line (`Gone` is `undone` together with `logged`).
  - `Reopens`: what is about to be saved over a state that ended is that ending
    again, or a suspension with commands pending. It needs that recovery and
    timeouts pick no state that ended, and that a batch is never sent for a
    state that is COMPENSATED (`EndedStaysEnded`).

Model-checked only: the liveness properties and the fairness in the two
refinements, since liveness and ENABLED are beyond the prover. Every safety
property and every action property that a passing run checks is also a theorem
(`NoDeadlock` under an assumption on nested commands that its run satisfies).

## 5. Findings

1. `outbox_dead_letter_count`: `cqrs/outbox.py:229-234` promises that a dead
   letter reports `max_attempts` attempts; two relays with a stale claim both
   count the final attempt. `OvershootBounded` gives the exact bound. When the
   claim timeout outlasts every pass, the promise holds (proved).
2. `locking_nested_doc`: ADR-019 claims that sorted keys exclude AB/BA deadlocks
   by construction, and the locking page recommends different keys for nested
   commands; a nested command with a different key deadlocks. Nested keys that
   sort after those of the parent are safe (proved: `SortedOrderPreventsDeadlock`).
3. `duplicate_dispatch_doc`: `docs/arch42/10-quality.md:376` says that a
   duplicate dispatch returns the cached result without executing the handler
   again. In the documented order two concurrent deliveries both miss, and the
   second runs the handler once the first has left the lock. Other pages state
   this limit (CQRS-04), this one does not.

Known limits appear as exceptions in the statements of some properties.
`SuccessAccountedFor` leaves out CQRS-K1: the result is stored before the commit, so after a failed commit a retry is told of
a success that stored nothing. `LockingPreventsConflicts` needs immediate saves
because of a third (CQRS-K3): the lock is released before the commit. A save
that conflicts is then rejected, and no update is lost, as long as the store
checks versions. `CommandsAccountedFor` leaves out the commands of a saga that was
saved as ended (ADR-077), `CompensationAccountedFor` the undos of a timeout hook
that failed the saga, raised and was refused (SAGA-12), the two event sourcing
properties what rollbacks withdraw (ES-02, ES-10), and `StartedIsStopped` the parts
behind a broken stop (ADR-073).

Two disagreements were met that no run shows. `docs/diataxis/concepts/sagas/saga-manager.md:78`
describes how recovery resumes the compensation of a saga saved as COMPENSATING; the code
never saves that status (`SagaManager!Compensate`), so a crash during
compensation leaves the saga as it was before, with its whole stack. And the
docstring of `stop()` (`infrastructure/message_broker.py:338-340`) and ADR-074
say that a call from the relay's own task only requests the stop and returns at
once; it does wait for the other runs that are stopping. Two runs that both call
`stop()` from their passes wait for each other for ever: `ApplicationLifecycle`
has two such callers, and `InCircle` in `StartedIsStopped` names this wait as the
only one that does not end. The calling run itself, and a run that a supervisor
starts meanwhile, may still publish to a broker that has been stopped;
`DrainedBeforeBroker` speaks of the other runs.

## 6. Plan

Done: every component whose correctness depends on the order of its steps, each
with a specification, runs and proofs. What would come next:

1. Liveness of the saga under overlapping tasks and with more than one saga
   instance for a correlation id; today the code gives no guarantee there beyond
   `CommandsAccountedFor`.
2. `rebuild()` of a projection next to a running subscription.

### Not modelled

* The message handler of the inbound gateway and the idempotency of events: the
  handler keeps no state, and what a redelivered or swallowed message does is a
  documented gap (INF-01, CQRS-05), about which the code promises nothing.
* The saga registry, the event registry, query routing, upcasting and pruning:
  configuration and pure lookups without steps that interleave.
* Logging, validation, message types and the building blocks of `ddd/`: no
  state that several steps share.
* The translation table of the outbound registry and the backoff formula of the
  relay: sequential arithmetic and a dictionary, for which unit tests are enough.
* `KeyboardInterrupt` and `SystemExit`, which end the process without clean-up.
