------------------------------ MODULE UnitOfWork ------------------------------
(***************************************************************************)
(* AbstractUnitOfWork (cqrs/unit_of_work.py) as CommandBus.dispatch() and  *)
(* MessageBus.dispatch() drive it: a sequence of dispatches over one unit  *)
(* of work and repositories that outlive each scope. At any await of a     *)
(* scope the callee may raise, the task may be cancelled or the process    *)
(* may crash; the handler may also call commit() and rollback() itself,    *)
(* against ADR-020, and swallow what they raise.                           *)
(*                                                                         *)
(* An event stands for the state change that raised it: saving puts the    *)
(* change into the storage transaction and the event into the buffer of    *)
(* its repository. The storage is external: a commit makes the changes and *)
(* outbox rows of the transaction durable at once, a rollback (even one    *)
(* that reports an error) discards them.                                   *)
(***************************************************************************)
EXTENDS Integers, FiniteSets

CONSTANTS
    Repo,               \* the repositories of the unit of work
    MaxEvents,          \* bound: events raised
    Internal,           \* events without an outbound translation
    MaxFaults           \* bound: calls that raise, cancellations and crashes

Event == 1..MaxEvents

ASSUME UnitOfWorkAssumption ==
    /\ MaxEvents \in Nat
    /\ MaxFaults \in Nat
    /\ Internal \subseteq Event

VARIABLES
    tx, txOutbox,       \* changes and outbox rows of the storage transaction
    durable, outbox,    \* changes and outbox rows that are committed
    buffer,             \* the event buffer of each repository
    events,             \* _events: collected and stamped
    commitStarted,      \* _commit_started
    committed,          \* _committed
    pc,                 \* where the dispatch is
    caller,             \* who called commit(): the handler or the bus
    failure,            \* dispatch(): what the body raised
    outcome,            \* how the last dispatch ended
    toPublish,          \* returned events the event bus has not dispatched yet
    published,          \* events dispatched in process
    faults,
    \* Recorded for the properties.
    raised,             \* events 1..raised have been raised
    mine,               \* events raised in the current scope
    late,               \* events raised in a scope that had already committed
    undrained,          \* events left in a buffer whose pull_events() raised
    effects,            \* storage commits the current scope has made
    interrupted         \* the current dispatch was cancelled

storage == <<tx, txOutbox, durable, outbox>>
scope == <<events, commitStarted, committed, mine, effects>>
dispatch == <<failure, outcome, interrupted>>
bus == <<toPublish, published>>
vars == <<storage, buffer, scope, pc, caller, dispatch, bus, faults, raised, late, undrained>>

\* idle: no dispatch; handler: in the pipeline; flush, outbox, commit: in that
\* hook of commit(); rollback: in the handler's rollback(); exit: in __aexit__.
Phase == {"idle", "handler", "flush", "outbox", "commit", "rollback", "exit"}
Raise == {"error", "cancelled"}

TypeOK ==
    /\ tx \subseteq Event /\ txOutbox \subseteq Event
    /\ durable \subseteq Event /\ outbox \subseteq Event
    /\ buffer \in [Repo -> SUBSET Event]
    /\ events \subseteq Event
    /\ commitStarted \in BOOLEAN /\ committed \in BOOLEAN
    /\ pc \in Phase
    /\ caller \in {"handler", "bus"}
    /\ failure \in {"none"} \cup Raise
    /\ outcome \in {"none", "result"} \cup Raise
    /\ toPublish \subseteq Event /\ published \subseteq Event
    /\ faults \in 0..MaxFaults
    /\ raised \in 0..MaxEvents
    /\ mine \subseteq Event /\ late \subseteq Event /\ undrained \subseteq Event
    /\ effects \in Nat
    /\ interrupted \in BOOLEAN

Empty == [r \in Repo |-> {}]

Init ==
    /\ tx = {} /\ txOutbox = {} /\ durable = {} /\ outbox = {}
    /\ buffer = Empty
    /\ events = {} /\ commitStarted = FALSE /\ committed = FALSE
    /\ pc = "idle" /\ caller = "bus"
    /\ failure = "none" /\ outcome = "none" /\ interrupted = FALSE
    /\ toPublish = {} /\ published = {}
    /\ faults = 0 /\ raised = 0
    /\ mine = {} /\ late = {} /\ undrained = {} /\ effects = 0

Fault ==
    /\ faults < MaxFaults
    /\ faults' = faults + 1

\* _start_scope
StartScope ==
    /\ committed' = FALSE
    /\ commitStarted' = FALSE
    /\ events' = {}
    /\ mine' = {}
    /\ effects' = 0

-----------------------------------------------------------------------------
(* The body of the scope: the pipeline and its handler.                    *)

\* CommandBus.dispatch: a message from outside, or from an event handler.
Dispatch ==
    /\ pc = "idle"
    /\ StartScope
    /\ pc' = "handler"
    /\ failure' = "none" /\ outcome' = "none" /\ interrupted' = FALSE
    /\ UNCHANGED <<storage, buffer, caller, bus, faults, raised, late, undrained>>

\* The handler saves an aggregate that raised an event.
Save(r) ==
    /\ pc = "handler"
    /\ raised < MaxEvents
    /\ LET e == raised + 1
       IN  /\ raised' = e
           /\ tx' = tx \cup {e}
           /\ buffer' = [buffer EXCEPT ![r] = @ \cup {e}]
           /\ mine' = mine \cup {e}
           /\ late' = IF committed THEN late \cup {e} ELSE late
    /\ UNCHANGED <<txOutbox, durable, outbox, events, commitStarted, committed, effects,
                   pc, caller, dispatch, bus, faults, undrained>>

\* The body raises: dispatch() notes the failure and leaves the context.
BodyRaises(how) ==
    /\ failure' = how
    /\ interrupted' = (how = "cancelled")
    /\ pc' = "exit"
    /\ UNCHANGED outcome

\* A call of the handler raised: it swallows the exception, or raises it.
HandlerGets(how) ==
    \/ BodyRaises(how)
    \/ pc' = "handler" /\ UNCHANGED dispatch

HandlerRaises ==
    /\ pc = "handler"
    /\ Fault
    /\ \E how \in Raise : BodyRaises(how)
    /\ UNCHANGED <<storage, buffer, scope, caller, bus, raised, late, undrained>>

-----------------------------------------------------------------------------
(* commit(): the guard, then the hook chain.                               *)

\* Mutant: only a commit that succeeded makes the next one raise.
MayCommitAgain == ~committed

MayCommit == ~committed /\ ~commitStarted

\* Called by the handler itself, or by the bus once the pipeline returned.
Commit(who) ==
    /\ pc = "handler"
    /\ MayCommit
    /\ commitStarted' = TRUE
    /\ caller' = who
    /\ pc' = "flush"
    /\ UNCHANGED <<storage, buffer, events, committed, mine, effects, dispatch, bus, faults,
                   raised, late, undrained>>

\* UnitOfWorkAlreadyCommittedError, before any hook runs.
CommitRefused(who) ==
    /\ pc = "handler"
    /\ ~MayCommit
    /\ IF who = "bus" THEN BodyRaises("error") ELSE HandlerGets("error")
    /\ UNCHANGED <<storage, buffer, scope, caller, bus, faults, raised, late, undrained>>

\* A hook raises; what the caller of commit() does with it.
CommitRaises(how) ==
    /\ IF caller = "bus" THEN BodyRaises(how) ELSE HandlerGets(how)
    /\ UNCHANGED <<caller, bus, raised, late, undrained>>

FlushRaises ==
    /\ pc = "flush"
    /\ Fault
    /\ \E how \in Raise : CommitRaises(how)
    /\ UNCHANGED <<storage, buffer, scope>>

Pulled(R) == UNION {buffer[r] : r \in R}

\* _flush returned; _collect_and_stamp drains every buffer into _events.
Collect ==
    /\ pc = "flush"
    /\ events' = events \cup Pulled(Repo)
    /\ buffer' = Empty
    /\ pc' = "outbox"
    /\ UNCHANGED <<storage, commitStarted, committed, mine, effects, caller, dispatch, bus,
                   faults, raised, late, undrained>>

\* The pull_events() of one repository raises; those before it are drained.
CollectRaises ==
    /\ pc = "flush"
    /\ Fault
    /\ \E R \in SUBSET Repo :
          /\ R # Repo
          /\ events' = events \cup Pulled(R)
          /\ buffer' = [r \in Repo |-> IF r \in R THEN {} ELSE buffer[r]]
    /\ CommitRaises("error")
    /\ UNCHANGED <<storage, commitStarted, committed, mine, effects>>

\* OutboxWriter.write: one row for each event that has a translation.
WriteOutbox ==
    /\ pc = "outbox"
    /\ txOutbox' = txOutbox \cup (events \ Internal)
    /\ pc' = "commit"
    /\ UNCHANGED <<tx, durable, outbox, buffer, scope, caller, dispatch, bus, faults,
                   raised, late, undrained>>

\* Mutant: a failing translation is skipped instead of aborting the commit.
WriteOutboxSkips ==
    /\ pc = "outbox"
    /\ Fault
    /\ pc' = "commit"
    /\ UNCHANGED <<storage, buffer, scope, caller, dispatch, bus, raised, late, undrained>>

\* A translator or the store raises, before or after the rows were appended.
WriteOutboxRaises ==
    /\ pc = "outbox"
    /\ Fault
    /\ txOutbox' \in {txOutbox, txOutbox \cup (events \ Internal)}
    /\ \E how \in Raise : CommitRaises(how)
    /\ UNCHANGED <<tx, durable, outbox, buffer, scope>>

StorageCommits ==
    /\ durable' = durable \cup tx
    /\ outbox' = outbox \cup txOutbox
    /\ tx' = {} /\ txOutbox' = {}
    /\ effects' = effects + 1

\* _commit returned. The bus goes on to collect_events() and __aexit__.
CommitStorage ==
    /\ pc = "commit"
    /\ StorageCommits
    /\ committed' = TRUE
    /\ pc' = IF caller = "bus" THEN "exit" ELSE "handler"
    /\ UNCHANGED <<buffer, events, commitStarted, mine, caller, dispatch, bus, faults,
                   raised, late, undrained>>

\* _commit raises, or its answer is lost after the storage committed.
CommitStorageRaises ==
    /\ pc = "commit"
    /\ Fault
    /\ StorageCommits \/ UNCHANGED <<storage, effects>>
    /\ \E how \in Raise : CommitRaises(how)
    /\ UNCHANGED <<buffer, events, commitStarted, committed, mine>>

-----------------------------------------------------------------------------
(* rollback(), __aexit__ and what dispatch() makes of them.                *)

\* Mutant: only the storage is rolled back, the buffers keep their events.
DiscardNothing(F) ==
    UNCHANGED <<buffer, undrained>>

\* _discard_staged_events: every buffer is drained, but for the repositories F
\* whose pull_events() raised.
Discard(F) ==
    /\ buffer' = [r \in Repo |-> IF r \in F THEN buffer[r] ELSE {}]
    /\ undrained' = undrained \cup Pulled(F)

\* The _rollback hook ends as how; then the drain and a new scope, always.
Rollback(how, F) ==
    /\ how = "none" /\ F = {} => UNCHANGED faults
    /\ how # "none" \/ F # {} => Fault
    /\ tx' = {} /\ txOutbox' = {}
    /\ Discard(F)
    /\ StartScope
    /\ UNCHANGED <<durable, outbox, caller, raised, late>>

\* The storage error wins over a drain error.
RollbackRaises(how, F) == IF how # "none" THEN how ELSE IF F # {} THEN "error" ELSE "none"

HandlerCallsRollback ==
    /\ pc = "handler"
    /\ pc' = "rollback"
    /\ UNCHANGED <<storage, buffer, scope, caller, dispatch, bus, faults, raised, late, undrained>>

HandlerRollback ==
    /\ pc = "rollback"
    /\ \E how \in {"none"} \cup Raise, F \in SUBSET Repo :
          /\ Rollback(how, F)
          /\ LET error == RollbackRaises(how, F)
             IN  IF error = "none" THEN pc' = "handler" /\ UNCHANGED dispatch
                 ELSE HandlerGets(error)
    /\ UNCHANGED bus

\* Mutant: any clean-up error turns the failure into CommandExecutionError.
OutcomeWrapped(cleanup) ==
    IF failure = "none" /\ cleanup = "none" THEN "result"
    ELSE IF cleanup = "error" THEN "error"
    ELSE IF cleanup = "cancelled" THEN "cancelled"
    ELSE failure

\* A cancellation stays a cancellation; every other failure is an error.
OutcomeOf(cleanup) ==
    IF failure = "none" /\ cleanup = "none" THEN "result"
    ELSE IF cleanup = "cancelled" THEN "cancelled"
    ELSE IF failure = "cancelled" THEN "cancelled"
    ELSE "error"

\* Mutant: the events are collected whether or not the dispatch succeeded.
FinishReturningAlways(cleanup) ==
    /\ outcome' = OutcomeOf(cleanup)
    /\ interrupted' = (interrupted \/ cleanup = "cancelled")
    /\ toPublish' = toPublish \cup events
    /\ pc' = "idle"
    /\ UNCHANGED <<failure, published>>

\* dispatch() leaves the context, whose __aexit__ ended as cleanup.
Finish(cleanup) ==
    /\ outcome' = OutcomeOf(cleanup)
    /\ interrupted' = (interrupted \/ cleanup = "cancelled")
    /\ toPublish' = IF OutcomeOf(cleanup) = "result" THEN toPublish \cup events ELSE toPublish
    /\ pc' = "idle"
    /\ UNCHANGED <<failure, published>>

\* __aexit__ of a scope that did not commit.
ExitRollback ==
    /\ pc = "exit"
    /\ ~committed
    /\ \E how \in {"none"} \cup Raise, F \in SUBSET Repo :
          /\ Rollback(how, F)
          /\ Finish(RollbackRaises(how, F))

\* __aexit__ of a committed scope drains what was raised after the commit.
ExitCommitted ==
    /\ pc = "exit"
    /\ committed
    /\ \E F \in SUBSET Repo :
          /\ Discard(F)
          /\ IF F = {} THEN UNCHANGED faults ELSE Fault
          /\ Finish(RollbackRaises("none", F))
    /\ UNCHANGED <<storage, scope, caller, raised, late>>

-----------------------------------------------------------------------------
(* MessageBus.dispatch hands the returned events to the event bus.         *)

\* The handlers of one event run; what they raise is logged.
Publish ==
    /\ pc = "idle"
    /\ \E e \in toPublish :
          /\ published' = published \cup {e}
          /\ toPublish' = toPublish \ {e}
    /\ UNCHANGED <<storage, buffer, scope, pc, caller, dispatch, faults, raised, late, undrained>>

\* A cancellation while an event handler runs drops the events after it.
PublishCancelled ==
    /\ pc = "idle"
    /\ toPublish # {}
    /\ Fault
    /\ toPublish' = {}
    /\ UNCHANGED <<storage, buffer, scope, pc, caller, dispatch, published, raised, late, undrained>>

\* The process dies and restarts with fresh objects over the same storage.
Crash ==
    /\ Fault
    /\ tx' = {} /\ txOutbox' = {}
    /\ buffer' = Empty
    /\ StartScope
    /\ pc' = "idle"
    /\ failure' = "none" /\ outcome' = "none" /\ interrupted' = FALSE
    /\ toPublish' = {}
    /\ UNCHANGED <<durable, outbox, caller, published, raised, late, undrained>>

-----------------------------------------------------------------------------
Body ==
    \/ \E r \in Repo : Save(r)
    \/ HandlerRaises
    \/ \E who \in {"handler", "bus"} : Commit(who) \/ CommitRefused(who)
    \/ HandlerCallsRollback \/ HandlerRollback

Hooks ==
    \/ FlushRaises \/ Collect \/ CollectRaises
    \/ WriteOutbox \/ WriteOutboxRaises
    \/ CommitStorage \/ CommitStorageRaises

Next ==
    \/ Dispatch \/ Body \/ Hooks
    \/ ExitRollback \/ ExitCommitted
    \/ Publish \/ PublishCancelled
    \/ Crash

Spec == Init /\ [][Next]_vars

-----------------------------------------------------------------------------
(* Properties.                                                             *)

\* Rows written by a commit are events of its own scope: what an earlier scope
\* raised, rolled back, failed to commit or raised after its commit never
\* reaches a later commit (ADR-068), unless a drain of its buffer raised.
CommitsOwnScopeOnly ==
    [][outbox' \ outbox \subseteq mine \cup undrained]_vars

\* "Anything written here commits atomically with the aggregate state change":
\* every durable change has its row and every row its change, whatever hook
\* failed, was cancelled or crashed. The exceptions are changes saved after
\* their scope committed, and events whose drain raised.
StateAndOutboxAgree ==
    /\ durable \ (late \cup Internal) \subseteq outbox
    /\ outbox \subseteq durable \cup undrained

\* "A scope commits at most once", also after a commit that failed but took
\* effect, however often the handler and the bus call commit().
OneCommitPerScope == effects <= 1

\* Events reach in-process handlers only once they are durable, with their
\* outbox row: no handler acts on an event that is then rolled back.
PublishedAfterCommit ==
    LET handed == published \cup toPublish
    IN  handed \ undrained \subseteq durable /\ handed \ Internal \subseteq outbox

\* "A cancellation is never swallowed or wrapped" (ADR-078): a dispatch that
\* was cancelled ends as cancelled, whatever its clean-up raised.
CancellationSurfaces ==
    pc = "idle" /\ interrupted => outcome = "cancelled"
=============================================================================
