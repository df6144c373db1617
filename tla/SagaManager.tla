----------------------------- MODULE SagaManager -----------------------------
(***************************************************************************)
(* SagaManager over a SagaRepository: events, the recovery sweep and the   *)
(* timeout sweep work on copies of one correlation id's saved states, send *)
(* commands, and save the copy again.                                      *)
(*                                                                         *)
(* The steps of a task are its calls of the repository and the dispatcher; *)
(* what it computes between two calls belongs to the step before.  A task  *)
(* can end at any call: the process crashed, the task was cancelled or a   *)
(* save raised.  save() is an upsert without a version check, as in        *)
(* FakeSagaRepository, so the last writer wins.                            *)
(*                                                                         *)
(* Init chooses how many tasks may be at work at once: several when the    *)
(* events of a dispatched command are handled inside its dispatch          *)
(* (MessageBus) or by another worker, one when answers arrive later and    *)
(* events are handled one at a time.                                       *)
(***************************************************************************)
EXTENDS SagaState

CONSTANTS
    Recovery, Timeouts, \* the two sweeps
    Bounds              \* bounds, for each number of tasks at work at once:
                        \*   deliveries  how often each event is delivered
                        \*   sweeps      timeout sweeps
                        \*   faults      raising dispatches and stops together
                        \*   stops       stops alone

ASSUME ManagerAssumption ==
    /\ Recovery # Timeouts
    /\ {Recovery, Timeouts} \cap (Event \cup {Nudge, NoStep}) = {}
    /\ Bounds \in Seq([deliveries : [Event -> Nat], sweeps : Nat,
                       faults : Nat, stops : Nat])

Task == Event \cup {Recovery, Timeouts}
Command == Event \cup {Nudge}

VARIABLES
    atOnce,             \* how many tasks may be at work at the same time
    store,              \* the repository: the saved states, oldest first
    task,               \* what each task holds in memory
    renamed,            \* commands whose class cannot be imported
    done,               \* how often each forward command was carried out
    undone,             \* undos that were carried out
    logged,             \* undos whose refusal was only logged
    deliveries, sweeps,
    refusals,           \* dispatches that raised and had no effect
    unsure,             \* dispatches that raised after their effect
    stops               \* tasks cut short, and restarts

counters == <<deliveries, sweeps, refusals, unsure, stops>>
vars == <<atOnce, store, task, renamed, done, undone, logged, counters>>

\* What a task that is not at work holds.
NoTask == [at |-> "none"]

\* at: create, a state was not found; save, about to save and then to go on
\* at next; send, dispatching a batch; compensate; unsaved, dispatching
\* commands no state records; redispatch, recovery walks the pending commands.
Place == {"create", "save", "send", "compensate", "unsaved", "redispatch"}
Next_ == {"end", "batch", "send", "marked", "redispatch"}

TypeOK ==
    /\ atOnce \in DOMAIN Bounds
    /\ store \in Seq(State)
    /\ \A t \in Task : task[t] # NoTask =>
          /\ task[t].at \in Place
          /\ task[t].next \in Next_
          /\ task[t].row \in 0..Len(store)
          /\ task[t].state \in State
          /\ task[t].forward \in Seq(Command)
          /\ task[t].undo \in [DOMAIN task[t].undo -> Event]
          /\ DOMAIN task[t].undo \subseteq Nat
          /\ task[t].sent \in Nat
    /\ renamed \subseteq Event
    /\ done \in [Command -> Nat]
    /\ undone \subseteq Event
    /\ logged \subseteq Event

Init ==
    /\ atOnce \in DOMAIN Bounds
    /\ store = <<>>
    /\ task = [t \in Task |-> NoTask]
    /\ renamed = {}
    /\ done = [c \in Command |-> 0]
    /\ undone = {}
    /\ logged = {}
    /\ deliveries = [e \in Event |-> 0]
    /\ sweeps = 0 /\ refusals = 0 /\ unsure = 0 /\ stops = 0

-----------------------------------------------------------------------------
Busy(t) == task[t] # NoTask
At(t, place) == Busy(t) /\ task[t].at = place
MayBegin(t) == ~Busy(t) /\ Cardinality({u \in Task : Busy(u)}) < atOnce

Become(t, value) == task' = [task EXCEPT ![t] = value]
End(t) == Become(t, NoTask)
MayFail == refusals + unsure + stops < Bounds[atOnce].faults
MayStop == MayFail /\ stops < Bounds[atOnce].stops
Done(c) == done' = [done EXCEPT ![c] = @ + 1]

\* A command takes effect: a forward command, or the undo of a step.
Effect(c, forward) ==
    IF forward THEN Done(c) /\ UNCHANGED undone
               ELSE undone' = undone \cup {c} /\ UNCHANGED done

\* dispatch() of a command returns, or raises: without an effect, or after it
\* (a lost commit answer, an event handler that raised).
Returns(c, forward) == Effect(c, forward) /\ UNCHANGED <<refusals, unsure>>
Raises(c, forward) ==
    /\ MayFail
    /\ \/ refusals' = refusals + 1 /\ UNCHANGED <<done, undone, unsure>>
       \/ unsure' = unsure + 1 /\ Effect(c, forward) /\ UNCHANGED refusals

\* The memory of a task about to save s and then to go on at next, or to end.
Saving(m, s, next) == [m EXCEPT !.at = "save", !.state = s, !.next = next]
LastSave(row, s) == [at |-> "save", next |-> "end", row |-> row, state |-> s,
                     forward |-> <<>>, undo |-> <<>>, sent |-> 0]

\* _dispatch_forward_commands() up to its first save: the batch is appended
\* to pending_commands, behind what earlier rounds left there.
Pended(s, batch) ==
    [s EXCEPT !.pending = @ \o
        [i \in DOMAIN batch |-> [of |-> batch[i], dispatched |-> FALSE,
                                 marked |-> FALSE]]]

\* Mutant: every entry goes, not only the batch just sent.
AllCleared(s, sent) == [s EXCEPT !.pending = <<>>]

\* The end of a batch: its entries go, older ones stay.
BatchCleared(s, sent) == [s EXCEPT !.pending = SubSeq(@, 1, Len(@) - sent)]

\* The checkpoint before a batch; with no commands the only save.
SavingBatch(m) ==
    IF m.forward = <<>> THEN LastSave(m.row, m.state)
    ELSE Saving(m, Pended(m.state, m.forward), "send")

\* Where the work made of a state leads, for the task on that row.
Begin(t, row, work) ==
    LET m == [LastSave(row, work.state) EXCEPT !.forward = work.forward,
                                               !.undo = work.undo]
    IN  CASE work.path = "skip" -> End(t)
          [] work.path = "end" -> Become(t, m)
          [] work.path = "failed" -> Become(t, [m EXCEPT !.next = "batch"])
          [] work.path = "forward" -> Become(t, SavingBatch(m))
          [] work.path = "raised" ->
               Become(t, [m EXCEPT !.at = "compensate", !.next = "batch"])
          [] OTHER -> Become(t, [m EXCEPT !.at = work.path])

-----------------------------------------------------------------------------
(* handle() and start_saga(): find_by_correlation_id() returns the oldest  *)
(* state, and a new one is saved when there is none.                       *)

Deliver(e) ==
    /\ MayBegin(e)
    /\ deliveries[e] < Bounds[atOnce].deliveries[e]
    /\ deliveries' = [deliveries EXCEPT ![e] = @ + 1]
    /\ IF store = <<>>
       THEN Become(e, [LastSave(0, NewState) EXCEPT !.at = "create"])
       ELSE \E w \in ProcessEvent(store[1], e, renamed) : Begin(e, 1, w)
    /\ UNCHANGED <<atOnce, store, renamed, done, undone, logged, sweeps,
                   refusals, unsure, stops>>

Create(e) ==
    /\ At(e, "create")
    /\ store' = Append(store, NewState)
    /\ \E w \in ProcessEvent(NewState, e, renamed) : Begin(e, Len(store) + 1, w)
    /\ UNCHANGED <<atOnce, renamed, done, undone, logged, counters>>

\* save(), and what follows it without another call.
Save(t) ==
    /\ At(t, "save")
    /\ store' = [store EXCEPT ![task[t].row] = task[t].state]
    /\ LET m == task[t] IN
       CASE m.next = "end" -> End(t)
         [] m.next = "batch" ->
              Become(t, SavingBatch(m))
         [] m.next \in {"send", "redispatch"} ->
              Become(t, [m EXCEPT !.at = m.next])
         [] m.next = "marked" ->
              IF m.sent < Len(m.forward)
              THEN Become(t, [m EXCEPT !.at = "send"])
              ELSE Become(t, LastSave(m.row, BatchCleared(m.state, m.sent)))
    /\ UNCHANGED <<atOnce, renamed, done, undone, logged, counters>>

-----------------------------------------------------------------------------
(* _dispatch_and_persist_commands() and the stall of a batch.              *)

\* Mutant: the saga is left running for the next attempt.
StalledRunning(s) == [s EXCEPT !.status = "RUNNING", !.retries = @ + 1]

Stalled(s) == [Suspend(s, FALSE) EXCEPT !.retries = @ + 1]

\* The index of the entry of the batch that is sent next.
EntryToSend(m) == Len(m.state.pending) - Len(m.forward) + m.sent + 1

Send(t) ==
    LET m == task[t]
        c == m.forward[m.sent + 1]
    IN
    /\ At(t, "send")
    /\ \/ /\ Returns(c, TRUE)
          /\ Become(t, [Saving(m, [m.state EXCEPT
                !.pending[EntryToSend(m)].dispatched = TRUE], "marked")
                        EXCEPT !.sent = @ + 1])
       \/ /\ Raises(c, TRUE)
          /\ Become(t, LastSave(m.row, Stalled(m.state)))
    /\ UNCHANGED <<atOnce, store, renamed, logged, deliveries, sweeps, stops>>

\* The save that marks a command raises: the loop takes it for a failed
\* dispatch, and the mark is saved with the suspension.
MarkFails(t) ==
    /\ At(t, "save")
    /\ task[t].next = "marked"
    /\ task[t].sent > 0
    /\ MayStop
    /\ stops' = stops + 1
    /\ Become(t, LastSave(task[t].row, Stalled(task[t].state)))
    /\ UNCHANGED <<atOnce, store, renamed, done, undone, logged, deliveries,
                   sweeps, refusals, unsure>>

\* _dispatch_compensations(): forward commands first, then the undos; a
\* command that raises is recorded and the others are still sent.  The state
\* is saved only at the end, so no saved state is ever COMPENSATING.
Compensate(t) ==
    LET m == task[t]
        i == NextUndo(m.undo)
        forward == m.forward # <<>>
        first == IF forward THEN Head(m.forward) ELSE m.undo[i]
        rest == IF forward THEN [m EXCEPT !.forward = Tail(@)]
                ELSE [m EXCEPT !.undo = Restrict(@, DOMAIN @ \ {i})]
    IN
    /\ At(t, "compensate")
    /\ IF m.forward = <<>> /\ DOMAIN m.undo = {}
       THEN /\ Become(t, Saving(m, Settled(m.state), m.next))
            /\ UNCHANGED <<done, undone, refusals, unsure>>
       ELSE \/ Returns(first, forward) /\ Become(t, rest)
            \/ /\ Raises(first, forward)
               /\ Become(t, [rest EXCEPT !.state.failed = @ \cup {first}])
    /\ UNCHANGED <<atOnce, store, renamed, logged, deliveries, sweeps, stops>>

-----------------------------------------------------------------------------
(* recover_pending_sagas(): one stalled state.  The sweep also looks for   *)
(* COMPENSATING states, but none is ever saved: see Compensate.            *)

\* Mutant: recovery does not count its attempt.
AttemptedUncounted(s) == s

Attempted(s) == [s EXCEPT !.retries = @ + 1]

IsStalled(s) == ~IsTerminal(s) /\ s.pending # <<>>

\* _recover_saga() up to its first dispatch or save.
Recover(r) ==
    LET s == store[r]
        failed == Fail(s, TRUE, renamed)
        blank == Work(s, <<>>, <<>>, "end")
        ends(w) == Begin(Recovery, r, w)
    IN
    /\ MayBegin(Recovery)
    /\ IsStalled(s)
    /\ IF Undispatched(s) = {}
       THEN ends([blank EXCEPT !.state = FinishRecovery(s)])
       ELSE IF RetriesExhausted(s)
       THEN IF failed.status = "COMPENSATING"
            THEN ends(Work(failed, <<>>, Undos(s, renamed), "compensate"))
            ELSE ends([blank EXCEPT !.state = failed])
       ELSE Become(Recovery,
              [LastSave(r, Attempted(s)) EXCEPT !.next = "redispatch"])
    /\ UNCHANGED <<atOnce, store, renamed, done, undone, logged, counters>>

\* _redispatch_undispatched(): the next pending command, or the end.
Redispatch ==
    LET m == task[Recovery]
        s == m.state
        i == CHOOSE j \in Undispatched(s) : \A k \in Undispatched(s) : j <= k
        c == s.pending[i].of
    IN
    /\ At(Recovery, "redispatch")
    /\ IF Undispatched(s) = {}
       THEN /\ Become(Recovery, LastSave(m.row, FinishRecovery(s)))
            /\ UNCHANGED <<done, undone, refusals, unsure>>
       ELSE IF c \in renamed
       THEN /\ Become(Recovery, LastSave(m.row, SuspendForHydration(s, i)))
            /\ UNCHANGED <<done, undone, refusals, unsure>>
       ELSE \/ /\ Returns(c, TRUE)
               /\ Become(Recovery, Saving(m,
                    [s EXCEPT !.pending[i].dispatched = TRUE], "redispatch"))
            \/ Raises(c, TRUE) /\ Become(Recovery, LastSave(m.row, s))
    /\ UNCHANGED <<atOnce, store, renamed, logged, deliveries, sweeps, stops>>

-----------------------------------------------------------------------------
(* process_timeouts(): one suspended state whose time has passed.          *)

Expire(r) ==
    /\ MayBegin(Timeouts)
    /\ store[r].status = "SUSPENDED"
    /\ store[r].timed
    /\ sweeps < Bounds[atOnce].sweeps
    /\ sweeps' = sweeps + 1
    /\ \E w \in TimeOut(store[r], renamed) : Begin(Timeouts, r, w)
    /\ UNCHANGED <<atOnce, store, renamed, done, undone, logged, deliveries,
                   refusals, unsure, stops>>

\* The hook's own commands, and the undos a second fail() left among them: no
\* state records them and a failure is only logged.
SendUnsaved ==
    LET m == task[Timeouts]
        i == NextUndo(m.undo)
        forward == m.forward # <<>>
        first == IF forward THEN Head(m.forward) ELSE m.undo[i]
        rest == IF forward THEN [m EXCEPT !.forward = Tail(@)]
                ELSE [m EXCEPT !.undo = Restrict(@, DOMAIN @ \ {i})]
    IN
    /\ At(Timeouts, "unsaved")
    /\ IF m.forward = <<>> /\ DOMAIN m.undo = {}
       THEN /\ Become(Timeouts, LastSave(m.row, m.state))
            /\ UNCHANGED <<done, undone, logged, refusals, unsure>>
       ELSE /\ Become(Timeouts, rest)
            /\ \/ Returns(first, forward) /\ UNCHANGED logged
               \/ /\ Raises(first, forward)
                  /\ logged' = IF forward THEN logged ELSE logged \cup {first}
    /\ UNCHANGED <<atOnce, store, renamed, deliveries, sweeps, stops>>

-----------------------------------------------------------------------------
(* Faults.                                                                 *)

\* A task ends at a call: a save raised, or the task was cancelled.
Stop(t) ==
    /\ Busy(t)
    /\ MayStop
    /\ stops' = stops + 1
    /\ End(t)
    /\ UNCHANGED <<atOnce, store, renamed, done, undone, logged, deliveries,
                   sweeps, refusals, unsure>>

\* The process ends, and a new version starts: other command classes may be
\* gone, or back.
Restart(unknown) ==
    /\ MayStop
    /\ stops' = stops + 1
    /\ task' = [t \in Task |-> NoTask]
    /\ renamed' = unknown
    /\ UNCHANGED <<atOnce, store, done, undone, logged, deliveries, sweeps,
                   refusals, unsure>>

Next ==
    \/ \E e \in Event : Deliver(e) \/ Create(e)
    \/ \E t \in Task : Save(t) \/ Send(t) \/ MarkFails(t) \/ Compensate(t) \/ Stop(t)
    \/ \E r \in DOMAIN store : Recover(r) \/ Expire(r)
    \/ Redispatch \/ SendUnsaved
    \/ \E unknown \in SUBSET Event : Restart(unknown)

Spec == Init /\ [][Next]_vars

-----------------------------------------------------------------------------
(* Fairness: a task at work goes on, and the application runs the recovery *)
(* sweep again and again, as the documentation asks of it.                 *)
Fairness ==
    /\ \A t \in Task : WF_vars(Create(t) \/ Save(t) \/ Send(t) \/ Compensate(t))
    /\ WF_vars(Redispatch) /\ WF_vars(SendUnsaved)
    /\ WF_vars(\E r \in DOMAIN store : Recover(r))

FairSpec == Spec /\ Fairness

-----------------------------------------------------------------------------
(* Properties.                                                             *)

UndispatchedIn(s) == {s.pending[i].of : i \in Undispatched(s)}

\* Of every event that a saga still under way counts as processed, the command
\* was carried out or the saved state holds it where the recovery sweep finds
\* it, whatever crashed, was refused or overlapped: saving pending_commands
\* before the first dispatch, and removing no more than the batch just sent.
\* A saga that ended is left out.  FAILED and COMPENSATED owe no commands;
\* COMPLETED does, but find_stalled_sagas() never returns it, so a crash
\* between the save of its last step and the dispatch strands the command, as
\* does an event that completes a stalled saga (ADR-077, saga-manager.md).
CommandsAccountedFor ==
    \A r \in DOMAIN store :
        ~IsTerminal(store[r]) =>
            \A e \in store[r].processed :
                done[e] > 0 \/ e \in UndispatchedIn(store[r])

\* No event id has been evicted yet: the set of processed ids has room for
\* every event delivered so far.
NoneEvicted ==
    \/ MaxProcessed = 0
    \/ Cardinality({e \in Event : deliveries[e] > 0}) <= MaxProcessed

\* When tasks do not overlap and no event id has been evicted, a command is
\* carried out again only after a fault that hid that it was: a task cut short
\* or a restart between its dispatch and the save of its mark, or a dispatch
\* that raised after its effect, which recovery takes for a refusal and
\* repeats.  Redelivered events, refused dispatches, resumed suspensions and
\* the sweeps add nothing.
OncePerCommandAndFault ==
    (atOnce = 1 /\ NoneEvicted) => \A e \in Event : done[e] <= 1 + stops + unsure

\* When tasks do not overlap, an undo leaves the saved stack only because it
\* was carried out, because the state records it as failed, because the saga
\* completed, or because a timeout hook failed the saga, raised, and the undo
\* it had queued was then refused, which is only logged: a crash during
\* compensation loses none.
CompensationAccountedFor ==
    [][atOnce = 1 =>
          \A r \in DOMAIN store :
              \A e \in ToSet(store[r].stack) \ ToSet(store'[r].stack) :
                  \/ e \in undone \cup logged
                  \/ e \in store'[r].failed
                  \/ store'[r].status = "COMPLETED"]_vars

\* The events registered after e on the stack.
Above(stack, e) ==
    {stack[j] : j \in {k \in DOMAIN stack :
                          \E i \in 1..(k - 1) : stack[i] = e}}

\* When tasks do not overlap, the undo of a step is carried out only after
\* those of the steps registered later on the saved stack were carried out,
\* or were tried and failed: recorded in the state or, for the undos of a
\* timeout hook that raised, in the log (saga-manager.md: "in LIFO order").
\* An event whose id was evicted may register its step again, above the later
\* ones.
CompensatesInReverse ==
    [][(atOnce = 1 /\ NoneEvicted) =>
          \A t \in Task : \A e \in undone' \ undone : Busy(t) =>
              \A d \in Above(store[task[t].row].stack, e) :
                  d \in undone \cup logged \/ d \in task[t].state.failed]_vars

\* When tasks do not overlap, a saga that ended stays ended, but for a step
\* that ended it and whose own commands are then refused: that one is
\* suspended with those commands pending, and never after a compensation.
EndedReopensOnlyWithPending ==
    [][atOnce = 1 =>
          \A r \in DOMAIN store :
              (IsTerminal(store[r]) /\ store'[r].status # store[r].status) =>
                  /\ store[r].status # "COMPENSATED"
                  /\ store'[r].status = "SUSPENDED"
                  /\ store'[r].pending # <<>>]_vars

\* With the recovery sweep run again and again, a stalled saga does not stay
\* stalled: its commands are sent, or its retries run out and it fails.
StalledIsRecovered ==
    \A r \in 1..Cardinality(Event) :
        []<>~(r \in DOMAIN store /\ IsStalled(store[r]))
=============================================================================
