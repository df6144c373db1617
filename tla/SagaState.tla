------------------------------ MODULE SagaState ------------------------------
(***************************************************************************)
(* The saved state of one saga instance and the transitions the saga makes *)
(* on it: SagaState, the lifecycle methods of Saga, and what a declarative *)
(* step (Saga.on) does with one event.                                     *)
(*                                                                         *)
(* Each event has one step.  Its forward command and the compensation it   *)
(* may register are named by the event, so a command is "the command of e" *)
(* and a compensation "the undo of e".  Reasons, timestamps, the step      *)
(* history and the version counter are left out.                           *)
(***************************************************************************)
EXTENDS Integers, FiniteSets, SequencesExt

CONSTANTS
    Event,              \* the events of one correlation id, one step each
    HasUndo,            \* the events whose step registers a compensation
    ResumesFrom,        \* <<e, s>>: e may resume a saga whose step is s's
    Nudge,              \* the command an on_timeout() hook sends
    NoStep,             \* current_step before any event
    MaxProcessed,       \* max_processed_events; 0 keeps every id
    MaxRetries          \* max_retries

ASSUME SagaAssumption ==
    /\ HasUndo \subseteq Event
    /\ ResumesFrom \subseteq Event \X Event
    /\ Nudge \notin Event
    /\ NoStep \notin Event
    /\ MaxProcessed \in Nat
    /\ MaxRetries \in Nat

Status == {"PENDING", "RUNNING", "SUSPENDED", "COMPENSATING",
           "COMPLETED", "FAILED", "COMPENSATED"}

\* An entry of pending_commands; marked is "suspended_by_recovery".
Entry == [of : Event, dispatched : BOOLEAN, marked : BOOLEAN]

State == [status    : Status,
          step      : Event \cup {NoStep},
          processed : SUBSET Event,
          pending   : Seq(Entry),
          stack     : Seq(Event),
          failed    : SUBSET (Event \cup {Nudge}),  \* failed_compensations
          timed     : BOOLEAN,                      \* timeout_at is set
          retries   : Nat]

NewState == [status |-> "PENDING", step |-> NoStep, processed |-> {},
             pending |-> <<>>, stack |-> <<>>, failed |-> {},
             timed |-> FALSE, retries |-> 0]

IsTerminal(s) == s.status \in {"COMPLETED", "FAILED", "COMPENSATED"}

RetriesExhausted(s) == s.retries > MaxRetries

Undispatched(s) == {i \in DOMAIN s.pending : ~s.pending[i].dispatched}

SuspendedByRecovery(s) ==
    /\ s.status = "SUSPENDED"
    /\ \E i \in DOMAIN s.pending : s.pending[i].marked

-----------------------------------------------------------------------------
(* Lifecycle methods of Saga.                                              *)

Complete(s) == [s EXCEPT !.status = "COMPLETED", !.stack = <<>>]

Suspend(s, timeout) == [s EXCEPT !.status = "SUSPENDED", !.timed = timeout]

Resume(s) ==
    IF s.status = "SUSPENDED"
    THEN [s EXCEPT !.status = "RUNNING", !.timed = FALSE]
    ELSE s

\* should_resume(): the resume map blocks every event it does not list.
MayResume(s, e) == ResumesFrom = {} \/ <<e, s.step>> \in ResumesFrom

ClearMarks(s) ==
    [s EXCEPT !.pending = [i \in DOMAIN @ |-> [@[i] EXCEPT !.marked = FALSE]]]

\* Mutant: an undo that cannot be hydrated leaves no record.
FailUnrecorded(s, compensate, unknown) ==
    IF compensate /\ s.stack # <<>>
    THEN [s EXCEPT !.status = "COMPENSATING", !.stack = <<>>]
    ELSE [s EXCEPT !.status = "FAILED"]

\* fail(): with a stack to undo the saga is COMPENSATING and its stack is
\* emptied; an undo that cannot be hydrated is recorded as failed.
Fail(s, compensate, unknown) ==
    IF compensate /\ s.stack # <<>>
    THEN [s EXCEPT !.status = "COMPENSATING", !.stack = <<>>,
                   !.failed = @ \cup (ToSet(s.stack) \cap unknown)]
    ELSE [s EXCEPT !.status = "FAILED"]

\* execute_compensations(): the undos that can be hydrated, each at its place
\* on the stack.
Undos(s, unknown) ==
    [i \in {j \in DOMAIN s.stack : s.stack[j] \notin unknown} |-> s.stack[i]]

\* Mutant: the stack is walked from its bottom.
UndoFromBottom(undo) == Min(DOMAIN undo)

\* The place of the undo to send next: the last registered first.
NextUndo(undo) == Max(DOMAIN undo)

\* mark_event_processed(): a trimmed set keeps an arbitrary choice of ids.
Marked(s, e) ==
    LET all == s.processed \cup {e} IN
    IF MaxProcessed = 0 \/ Cardinality(all) <= MaxProcessed
    THEN {[s EXCEPT !.processed = all]}
    ELSE {[s EXCEPT !.processed = kept] :
             kept \in {k \in SUBSET all : Cardinality(k) = MaxProcessed}}

-----------------------------------------------------------------------------
(* What a step makes of its event.  The result is the state, the forward   *)
(* commands and undos to send, and where the manager goes on.              *)

Work(s, forward, undo, path) ==
    [state |-> s, forward |-> forward, undo |-> undo, path |-> path]

\* The step has begun, and has registered its undo.
Begun(s, e) ==
    [s EXCEPT !.step = e, !.status = IF @ = "PENDING" THEN "RUNNING" ELSE @]
Registered(s, e) ==
    IF e \in HasUndo THEN [Begun(s, e) EXCEPT !.stack = Append(@, e)]
                     ELSE Begun(s, e)

\* Every way a step ends without raising.
StepEnds(s, e, unknown) ==
    LET r == Registered(s, e)
        f == Fail(r, TRUE, unknown)
    IN  {Work(r, <<e>>, <<>>, "forward"),
         Work(Complete(r), <<e>>, <<>>, "forward"),
         Work(Suspend(r, TRUE), <<e>>, <<>>, "forward"),
         Work(Suspend(r, FALSE), <<e>>, <<>>, "forward"),
         IF f.status = "COMPENSATING"
         THEN Work(f, <<e>>, Undos(r, unknown), "compensate")
         ELSE Work(f, <<e>>, <<>>, "forward")}

\* Every way a step raises: before it sent its command, before or after it
\* registered the undo, or after it called fail() itself.  The manager then
\* compensates and drops the command or, with nothing to undo, fails the saga
\* and still sends it (_handle_event_error).
StepRaises(s, e, unknown) ==
    LET Raised(t, queued) ==
            IF t.stack # <<>>
            THEN Work(Fail(t, TRUE, unknown), <<>>, Undos(t, unknown), "raised")
            ELSE Work(Fail(t, TRUE, unknown), queued, <<>>, "failed")
    IN  {Raised(Begun(s, e), <<>>), Raised(Begun(s, e), <<e>>),
         Raised(Registered(s, e), <<e>>)}

\* Mutant: a processed event is handled again.
HandleEventAgain(s, e, unknown) ==
    UNION {{[w EXCEPT !.state = m] : m \in Marked(w.state, e)} :
              w \in StepEnds(s, e, unknown) \cup StepRaises(s, e, unknown)}

\* Saga.handle() and what _process_saga does around it.
HandleEvent(s, e, unknown) ==
    IF e \in s.processed
    THEN {Work(s, <<>>, <<>>, "forward")}
    ELSE UNION {{[w EXCEPT !.state = m] : m \in Marked(w.state, e)} :
                   w \in StepEnds(s, e, unknown) \cup StepRaises(s, e, unknown)}

\* _process_saga() up to its first save or dispatch, for a state just read.
ProcessEvent(s, e, unknown) ==
    CASE IsTerminal(s) -> {Work(s, <<>>, <<>>, "skip")}
      [] ~IsTerminal(s) /\ RetriesExhausted(s) ->
            {Work([s EXCEPT !.status = "FAILED"], <<>>, <<>>, "end")}
      [] ~IsTerminal(s) /\ ~RetriesExhausted(s) /\ s.status = "SUSPENDED"
            /\ ~SuspendedByRecovery(s) /\ ~MayResume(s, e) ->
            {Work(s, <<>>, <<>>, "skip")}
      [] OTHER ->
            IF s.status = "SUSPENDED"
            THEN HandleEvent(ClearMarks(Resume(s)), e, unknown)
            ELSE HandleEvent(s, e, unknown)

\* process_timeouts() up to its first dispatch or save: the default hook
\* fails the saga; an overridden one may queue a command and then fail or
\* raise, do nothing, complete the saga, or resume it.  One that awaits fail()
\* and then raises fails the saga again, with its stack already emptied: the
\* undos go out as the hook's own commands and what was queued is dropped.
TimeOut(s, unknown) ==
    LET failed == Fail(s, TRUE, unknown)
        Failing(queued, sent) ==
            IF failed.status = "COMPENSATING"
            THEN Work(failed, sent, Undos(s, unknown), "compensate")
            ELSE Work(failed, queued, <<>>, "unsaved")
        FailedTwice ==
            Work([failed EXCEPT !.status = "FAILED"], <<>>, Undos(s, unknown),
                 "unsaved")
    IN  {Failing(<<>>, <<>>), Failing(<<Nudge>>, <<>>), Failing(<<Nudge>>, <<Nudge>>),
         FailedTwice,
         Work(Fail(s, FALSE, unknown), <<>>, <<>>, "unsaved"),
         Work(Complete(s), <<Nudge>>, <<>>, "unsaved"),
         Work(Resume(s), <<>>, <<>>, "unsaved"),
         Work(Resume(s), <<Nudge>>, <<>>, "unsaved")}

\* The end of compensation (_dispatch_compensations).
Settled(s) == [s EXCEPT !.status = IF s.failed = {} THEN "COMPENSATED" ELSE "FAILED"]

\* _suspend_for_hydration(): the entry at i cannot be hydrated.
SuspendForHydration(s, i) ==
    IF s.status # "SUSPENDED"
    THEN [ClearMarks(Suspend(s, FALSE)) EXCEPT !.pending[i].marked = TRUE]
    ELSE IF SuspendedByRecovery(s)
         THEN [ClearMarks(s) EXCEPT !.pending[i].marked = TRUE]
         ELSE s

\* _finish_recovery(): only recovery's own suspension ends.
FinishRecovery(s) ==
    LET cleared == [s EXCEPT !.pending = <<>>, !.retries = 0] IN
    IF SuspendedByRecovery(s) THEN Resume(cleared) ELSE cleared
=============================================================================
