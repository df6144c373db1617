-------------------------- MODULE SagaManagerProofs --------------------------
(***************************************************************************)
(* Theorems about SagaManager, for any events and steps, retry budget,     *)
(* sweeps, deliveries and faults.  First BooksInv, which speaks of each    *)
(* copy of a state alone: no command of a saga under way is lost, whatever *)
(* overlaps.  Then the                                                     *)
(* types.  Last SoloInv, which relates the copy of the only task at work   *)
(* to the saved state: how often a command is carried out, what becomes of *)
(* each undo and in which order, and that a saga that ended stays ended.   *)
(***************************************************************************)
EXTENDS SagaManager, FiniteSetTheorems, WellFoundedInduction, TLAPS

\* A state, with the fields the argument needs typed.
IsState(s) ==
    /\ DOMAIN s = {"status", "step", "processed", "pending", "stack", "failed",
                   "timed", "retries"}
    /\ s.status \in Status
    /\ s.processed \in SUBSET Event
    /\ s.pending \in Seq(Entry)

\* A saga that ended FAILED or COMPENSATED owes no commands.
Owes(s) == s.status \notin {"FAILED", "COMPENSATED"}

\* Every event s counts as processed had its command carried out, still has
\* it among the pending ones, or is among those about to be recorded.
Covered(s, extra, counts) ==
    \A x \in s.processed : counts[x] > 0 \/ x \in UndispatchedIn(s) \cup extra

CoveredIfOwing(s, counts) == Owes(s) => Covered(s, {}, counts)

\* t knows the same events and commands as s.
SameBooks(s, t) ==
    t.processed = s.processed /\ UndispatchedIn(t) = UndispatchedIn(s)

-----------------------------------------------------------------------------
(* The operations of a state.                                              *)

\* A change of the other fields leaves the books alone.
LEMMA OtherFieldsKeepBooks ==
  ASSUME NEW s, IsState(s), NEW t, IsState(t),
         t.processed = s.processed, t.pending = s.pending
  PROVE  SameBooks(s, t)
  BY DEF SameBooks, UndispatchedIn, Undispatched

\* t differs from s in fields that are no part of the books.
SameFields(s, t) ==
    IsState(t) /\ t.processed = s.processed /\ t.pending = s.pending

LEMMA LifecycleKeepsFields ==
  ASSUME NEW s, IsState(s), NEW b, NEW e
  PROVE  /\ SameFields(s, Complete(s))
         /\ SameFields(s, Suspend(s, b))
         /\ SameFields(s, Resume(s))
         /\ SameFields(s, Fail(s, b, e))
         /\ SameFields(s, Stalled(s))
         /\ SameFields(s, Attempted(s))
         /\ SameFields(s, Settled(s))
         /\ SameFields(s, Begun(s, e))
         /\ SameFields(s, Registered(s, e))
<1>1. SameFields(s, Complete(s))
  BY DEF Complete, SameFields, IsState, Status
<1>2. SameFields(s, Suspend(s, b))
  BY DEF Suspend, SameFields, IsState, Status
<1>3. SameFields(s, Resume(s))
  BY DEF Resume, SameFields, IsState, Status
<1>4. SameFields(s, Fail(s, b, e))
  BY DEF Fail, SameFields, IsState, Status
<1>5. SameFields(s, Stalled(s))
  <2>1. SameFields(s, Suspend(s, FALSE))
    BY DEF SameFields, IsState, Status, Suspend
  <2> QED
    BY <2>1 DEF SameFields, IsState, Status, Stalled
<1>6. SameFields(s, Attempted(s))
  BY DEF Attempted, SameFields, IsState, Status
<1>7. SameFields(s, Settled(s))
  BY DEF Settled, SameFields, IsState, Status
<1>8. SameFields(s, Begun(s, e))
  BY DEF Begun, SameFields, IsState, Status
<1>9. SameFields(s, Registered(s, e))
  BY <1>8 DEF SameFields, IsState, Status, Registered
<1> QED
  BY <1>1, <1>2, <1>3, <1>4, <1>5, <1>6, <1>7, <1>8, <1>9

LEMMA LifecycleKeepsBooks ==
  ASSUME NEW s, IsState(s), NEW b, NEW e
  PROVE  /\ IsState(Complete(s)) /\ SameBooks(s, Complete(s))
         /\ IsState(Suspend(s, b)) /\ SameBooks(s, Suspend(s, b))
         /\ IsState(Resume(s)) /\ SameBooks(s, Resume(s))
         /\ IsState(Fail(s, b, e)) /\ SameBooks(s, Fail(s, b, e))
         /\ IsState(Stalled(s)) /\ SameBooks(s, Stalled(s))
         /\ IsState(Attempted(s)) /\ SameBooks(s, Attempted(s))
         /\ IsState(Settled(s)) /\ SameBooks(s, Settled(s))
         /\ IsState(Begun(s, e)) /\ SameBooks(s, Begun(s, e))
         /\ IsState(Registered(s, e)) /\ SameBooks(s, Registered(s, e))
<1>1. \A t : SameFields(s, t) => IsState(t) /\ SameBooks(s, t)
  BY OtherFieldsKeepBooks DEF SameFields
<1> QED
  BY <1>1, LifecycleKeepsFields

LEMMA EntryFields ==
  ASSUME NEW x \in Entry, NEW b \in BOOLEAN
  PROVE  /\ [x EXCEPT !.marked = b] \in Entry
         /\ [x EXCEPT !.marked = b].of = x.of
         /\ [x EXCEPT !.marked = b].dispatched = x.dispatched
         /\ [x EXCEPT !.dispatched = TRUE] \in Entry
         /\ [x EXCEPT !.dispatched = TRUE].of = x.of
         /\ [x EXCEPT !.dispatched = TRUE].dispatched
  BY DEF Entry

\* Marks of recovery are no part of the books.
LEMMA MarksKeepBooks ==
  ASSUME NEW s, IsState(s), NEW t, IsState(t), t.processed = s.processed,
         Len(t.pending) = Len(s.pending),
         \A i \in 1..Len(s.pending) :
            /\ t.pending[i].of = s.pending[i].of
            /\ t.pending[i].dispatched = s.pending[i].dispatched
  PROVE  SameBooks(s, t)
<1>1. DOMAIN t.pending = 1..Len(s.pending) /\ DOMAIN s.pending = 1..Len(s.pending)
  BY DEF IsState
<1> QED
  BY <1>1 DEF SameBooks, UndispatchedIn, Undispatched

LEMMA ClearMarksKeepsBooks ==
  ASSUME NEW s, IsState(s)
  PROVE  /\ IsState(ClearMarks(s)) /\ SameBooks(s, ClearMarks(s))
         /\ Len(ClearMarks(s).pending) = Len(s.pending)
         /\ ClearMarks(s).status = s.status
<1> DEFINE Cleared(i) == [s.pending[i] EXCEPT !.marked = FALSE]
           cleared == [i \in 1..Len(s.pending) |-> Cleared(i)]
<1>1. /\ s.pending \in Seq(Entry) /\ DOMAIN s.pending = 1..Len(s.pending)
      /\ Len(s.pending) \in Nat
  BY DEF IsState
<1>2. ASSUME NEW i \in 1..Len(s.pending)
      PROVE  /\ Cleared(i) \in Entry
             /\ Cleared(i).of = s.pending[i].of
             /\ Cleared(i).dispatched = s.pending[i].dispatched
  <2>1. s.pending[i] \in Entry
    BY <1>1
  <2> QED
    BY <2>1, EntryFields
<1>3. /\ cleared \in Seq(Entry) /\ Len(cleared) = Len(s.pending)
      /\ \A i \in 1..Len(s.pending) :
            /\ cleared[i].of = s.pending[i].of
            /\ cleared[i].dispatched = s.pending[i].dispatched
  <2> HIDE DEF Cleared
  <2> QED
    BY <1>1, <1>2
<1>4. ClearMarks(s) = [s EXCEPT !.pending = cleared]
  BY <1>1 DEF ClearMarks
<1> HIDE DEF cleared
<1>5. /\ IsState(ClearMarks(s)) /\ ClearMarks(s).pending = cleared
      /\ ClearMarks(s).processed = s.processed /\ ClearMarks(s).status = s.status
  BY <1>3, <1>4 DEF IsState
<1> QED
  BY <1>3, <1>5, MarksKeepBooks

LEMMA HydrationKeepsBooks ==
  ASSUME NEW s, IsState(s), NEW i \in DOMAIN s.pending
  PROVE  /\ IsState(SuspendForHydration(s, i))
         /\ SameBooks(s, SuspendForHydration(s, i))
<1> DEFINE Flag(t) == [t EXCEPT !.pending[i].marked = TRUE]
<1>1. ASSUME NEW t, IsState(t), SameBooks(s, t), Len(t.pending) = Len(s.pending)
      PROVE  IsState(Flag(t)) /\ SameBooks(s, Flag(t))
  <2>1. i \in 1..Len(t.pending) /\ t.pending \in Seq(Entry)
    BY <1>1 DEF IsState
  <2>2. Flag(t) = [t EXCEPT !.pending =
                        [t.pending EXCEPT ![i] = [t.pending[i] EXCEPT !.marked = TRUE]]]
    BY <1>1 DEF IsState
  <2>3. [t.pending[i] EXCEPT !.marked = TRUE] \in Entry
    <3>1. t.pending[i] \in Entry
      BY <2>1
    <3> QED
      BY <3>1, EntryFields
  <2>4. /\ [t.pending EXCEPT ![i] = [t.pending[i] EXCEPT !.marked = TRUE]] \in Seq(Entry)
        /\ Len([t.pending EXCEPT ![i] = [t.pending[i] EXCEPT !.marked = TRUE]]) = Len(t.pending)
    BY <2>1, <2>3
  <2>5. /\ IsState(Flag(t)) /\ Flag(t).processed = t.processed
        /\ Flag(t).pending = [t.pending EXCEPT ![i] = [t.pending[i] EXCEPT !.marked = TRUE]]
    BY <1>1, <2>2, <2>4 DEF IsState
  <2>6. \A j \in 1..Len(t.pending) :
           /\ Flag(t).pending[j].of = t.pending[j].of
           /\ Flag(t).pending[j].dispatched = t.pending[j].dispatched
    BY <2>1, <2>5 DEF Entry
  <2>7. SameBooks(t, Flag(t))
    BY <1>1, <2>4, <2>5, <2>6, MarksKeepBooks
  <2> QED
    BY <1>1, <2>5, <2>7 DEF SameBooks
<1> HIDE DEF Flag
<1>2. LET t == ClearMarks(Suspend(s, FALSE)) IN
      IsState(t) /\ SameBooks(s, t) /\ Len(t.pending) = Len(s.pending)
  <2>1. IsState(Suspend(s, FALSE)) /\ SameBooks(s, Suspend(s, FALSE))
    BY LifecycleKeepsBooks
  <2>2. Suspend(s, FALSE).pending = s.pending
    BY DEF Suspend, IsState
  <2> QED
    BY <2>1, <2>2, ClearMarksKeepsBooks DEF SameBooks
<1>3. IsState(ClearMarks(s)) /\ SameBooks(s, ClearMarks(s))
      /\ Len(ClearMarks(s).pending) = Len(s.pending)
  BY ClearMarksKeepsBooks
<1>4. SuspendForHydration(s, i) \in
         {Flag(ClearMarks(Suspend(s, FALSE))), Flag(ClearMarks(s)), s}
  BY DEF SuspendForHydration, Flag
<1> QED
  BY <1>1, <1>2, <1>3, <1>4 DEF SameBooks

-----------------------------------------------------------------------------
(* What a step makes of its event, and a timeout of its state.             *)

\* A batch to be recorded: empty, or the command of one event.
BatchOK(s, forward, counts) ==
    \/ forward = <<>> /\ CoveredIfOwing(s, counts)
    \/ \E e \in Event : forward = <<e>> /\ Covered(s, {e}, counts)

WorkOK(w, counts) ==
    /\ IsState(w.state)
    /\ w.forward \in Seq(Command)
    /\ w.path \in {"skip", "end", "forward", "compensate", "raised", "failed", "unsaved"}
    /\ w.path \in {"end", "unsaved"} => CoveredIfOwing(w.state, counts)
    /\ w.path \in {"forward", "failed"} => BatchOK(w.state, w.forward, counts)
    /\ w.path = "failed" => ~Owes(w.state)
    /\ w.path = "raised" => w.forward = <<>>

\* The work of a step for e, on a state with the books of s.
StepWork(w, s, e) ==
    /\ DOMAIN w = {"state", "forward", "undo", "path"}
    /\ IsState(w.state) /\ SameBooks(s, w.state)
    /\ \/ w.path \in {"forward", "compensate"} /\ w.forward = <<e>>
       \/ w.path = "raised" /\ w.forward = <<>>
       \/ w.path = "failed" /\ ~Owes(w.state) /\ w.forward \in {<<>>, <<e>>}

LEMMA SameBooksTransitive ==
  ASSUME NEW r, NEW s, NEW t, SameBooks(r, s), SameBooks(s, t)
  PROVE  SameBooks(r, t)
  BY DEF SameBooks

LEMMA StepEndsWork ==
  ASSUME NEW s, IsState(s), NEW e \in Event, NEW u, NEW w \in StepEnds(s, e, u)
  PROVE  StepWork(w, s, e)
<1> DEFINE r == Registered(s, e)
           f == Fail(r, TRUE, u)
           states == {r, Complete(r), Suspend(r, TRUE), Suspend(r, FALSE), f}
<1>1. IsState(r) /\ SameBooks(s, r)
  BY LifecycleKeepsBooks
<1>2. \A t \in states : IsState(t) /\ SameBooks(r, t)
  <2> HIDE DEF r
  <2>1. SameBooks(r, r)
    BY DEF SameBooks
  <2> QED
    BY <1>1, <2>1, LifecycleKeepsBooks
<1>3. \A t \in states : IsState(t) /\ SameBooks(s, t)
  <2> HIDE DEF r, states
  <2> QED
    BY <1>1, <1>2, SameBooksTransitive
<1>4. \E t \in states, undo \in {<<>>, Undos(r, u)}, p \in {"forward", "compensate"} :
         w = Work(t, <<e>>, undo, p)
  <2>1. w \in {Work(r, <<e>>, <<>>, "forward"), Work(Complete(r), <<e>>, <<>>, "forward"),
               Work(Suspend(r, TRUE), <<e>>, <<>>, "forward"),
               Work(Suspend(r, FALSE), <<e>>, <<>>, "forward"),
               Work(f, <<e>>, Undos(r, u), "compensate"), Work(f, <<e>>, <<>>, "forward")}
    BY DEF StepEnds
  <2> HIDE DEF r, f
  <2> QED
    BY <2>1
<1> HIDE DEF states
<1> QED
  BY <1>3, <1>4 DEF StepWork, Work

LEMMA StepRaisesWork ==
  ASSUME NEW s, IsState(s), NEW e \in Event, NEW u, NEW w \in StepRaises(s, e, u)
  PROVE  StepWork(w, s, e)
<1> DEFINE Raised(t, queued) ==
              IF t.stack # <<>>
              THEN Work(Fail(t, TRUE, u), <<>>, Undos(t, u), "raised")
              ELSE Work(Fail(t, TRUE, u), queued, <<>>, "failed")
<1>1. ASSUME NEW t, IsState(t), SameBooks(s, t), NEW queued \in {<<>>, <<e>>}
      PROVE  StepWork(Raised(t, queued), s, e)
  <2>1. IsState(Fail(t, TRUE, u)) /\ SameBooks(s, Fail(t, TRUE, u))
    BY <1>1, LifecycleKeepsBooks, SameBooksTransitive
  <2>2. CASE t.stack # <<>>
    BY <2>1, <2>2 DEF StepWork, Work
  <2>3. CASE t.stack = <<>>
    <3>1. ~Owes(Fail(t, TRUE, u))
      BY <1>1, <2>3 DEF Fail, Owes, IsState
    <3> QED
      BY <1>1, <2>1, <2>3, <3>1 DEF StepWork, Work
  <2> QED
    BY <2>2, <2>3
<1>2. /\ IsState(Begun(s, e)) /\ SameBooks(s, Begun(s, e))
      /\ IsState(Registered(s, e)) /\ SameBooks(s, Registered(s, e))
  BY LifecycleKeepsBooks
<1>3. w \in {Raised(Begun(s, e), <<>>), Raised(Begun(s, e), <<e>>),
             Raised(Registered(s, e), <<e>>)}
  BY DEF StepRaises
<1> HIDE DEF Raised
<1> QED
  BY <1>1, <1>2, <1>3

LEMMA MarkedFields ==
  ASSUME NEW s, IsState(s), NEW e \in Event, NEW m \in Marked(s, e)
  PROVE  /\ IsState(m)
         /\ m.processed \subseteq s.processed \cup {e}
         /\ UndispatchedIn(m) = UndispatchedIn(s)
         /\ m.status = s.status
<1>1. PICK kept \in SUBSET (s.processed \cup {e}) : m = [s EXCEPT !.processed = kept]
  BY DEF Marked
<1>2. /\ IsState(m) /\ m.processed = kept /\ m.pending = s.pending
      /\ m.status = s.status
  BY <1>1 DEF IsState
<1> QED
  BY <1>1, <1>2 DEF UndispatchedIn, Undispatched

LEMMA HandledWork ==
  ASSUME NEW counts, NEW s, IsState(s), Covered(s, {}, counts),
         NEW e \in Event, NEW u, NEW w \in HandleEvent(s, e, u)
  PROVE  WorkOK(w, counts)
<1>1. CASE e \in s.processed
  <2>1. w = Work(s, <<>>, <<>>, "forward")
    BY <1>1 DEF HandleEvent
  <2> QED
    BY <2>1 DEF WorkOK, BatchOK, CoveredIfOwing, Work
<1>2. CASE e \notin s.processed
  <2>1. PICK v \in StepEnds(s, e, u) \cup StepRaises(s, e, u) :
           \E m \in Marked(v.state, e) : w = [v EXCEPT !.state = m]
    BY <1>2 DEF HandleEvent
  <2>0. PICK m \in Marked(v.state, e) : w = [v EXCEPT !.state = m]
    BY <2>1
  <2>2. StepWork(v, s, e)
    BY StepEndsWork, StepRaisesWork
  <2>3. IsState(v.state) /\ SameBooks(s, v.state)
    BY <2>2 DEF StepWork
  <2>4. /\ IsState(m) /\ m.status = v.state.status
        /\ m.processed \subseteq s.processed \cup {e}
        /\ UndispatchedIn(m) = UndispatchedIn(s)
    BY <2>3, MarkedFields DEF SameBooks
  <2>5. Covered(m, {e}, counts)
    BY <2>4 DEF Covered
  <2>6. /\ w.state = m /\ w.forward = v.forward /\ w.path = v.path
    BY <2>0, <2>2 DEF StepWork
  <2>7. Owes(m) <=> Owes(v.state)
    BY <2>4 DEF Owes
  <2>8. w.forward \in Seq(Command)
    <3>1. w.forward \in {<<>>, <<e>>} /\ e \in Command
      BY <2>2, <2>6 DEF StepWork, Command
    <3>2. <<>> \in Seq(Command) /\ <<e>> \in Seq(Command)
      BY <3>1
    <3> QED
      BY <3>1, <3>2
  <2>9. w.path \in {"forward", "failed"} => BatchOK(m, w.forward, counts)
    BY <2>2, <2>5, <2>6, <2>7 DEF StepWork, BatchOK, CoveredIfOwing
  <2> QED
    BY <2>2, <2>4, <2>6, <2>7, <2>8, <2>9 DEF StepWork, WorkOK
<1> QED
  BY <1>1, <1>2

\* Resumed or not, the state an event is handled on has the books of s.
LEMMA ProcessedWork ==
  ASSUME NEW counts, NEW s, IsState(s), CoveredIfOwing(s, counts),
         NEW e \in Event, NEW u, NEW w \in ProcessEvent(s, e, u)
  PROVE  WorkOK(w, counts)
<1>1. CASE w = Work(s, <<>>, <<>>, "skip")
  BY <1>1 DEF WorkOK, Work
<1>2. CASE w = Work([s EXCEPT !.status = "FAILED"], <<>>, <<>>, "end")
  <2>1. /\ IsState([s EXCEPT !.status = "FAILED"])
        /\ ~Owes([s EXCEPT !.status = "FAILED"])
    BY DEF IsState, Status, Owes
  <2> QED
    BY <1>2, <2>1 DEF WorkOK, Work, CoveredIfOwing
<1>3. CASE /\ ~IsTerminal(s)
           /\ w \in HandleEvent(ClearMarks(Resume(s)), e, u) \cup HandleEvent(s, e, u)
  <2>1. Covered(s, {}, counts)
    BY <1>3 DEF CoveredIfOwing, Owes, IsTerminal
  <2>2. IsState(Resume(s)) /\ SameBooks(s, Resume(s))
    BY LifecycleKeepsBooks
  <2>3. IsState(ClearMarks(Resume(s))) /\ SameBooks(s, ClearMarks(Resume(s)))
    BY <2>2, ClearMarksKeepsBooks, SameBooksTransitive
  <2>4. Covered(ClearMarks(Resume(s)), {}, counts)
    BY <2>1, <2>3 DEF Covered, SameBooks
  <2> QED
    BY <1>3, <2>1, <2>3, <2>4, HandledWork
<1> QED
  BY <1>1, <1>2, <1>3 DEF ProcessEvent

\* Whatever the hook of a timeout does, the books stay.
LEMMA TimedOutWork ==
  ASSUME NEW counts, NEW s, IsState(s), Covered(s, {}, counts),
         NEW u, NEW w \in TimeOut(s, u)
  PROVE  WorkOK(w, counts)
<1> DEFINE f == Fail(s, TRUE, u)
           twice == [f EXCEPT !.status = "FAILED"]
           states == {f, twice, Fail(s, FALSE, u), Complete(s), Resume(s)}
           batches == {<<>>, <<Nudge>>}
<1>1. \A t \in states : IsState(t) /\ SameBooks(s, t)
  <2>1. IsState(f) /\ SameBooks(s, f)
    BY LifecycleKeepsBooks
  <2>2. SameFields(f, twice)
    <3> HIDE DEF f
    <3> QED
      BY <2>1 DEF SameFields, IsState, Status
  <2>3. IsState(twice) /\ SameBooks(s, twice)
    BY <2>1, <2>2, OtherFieldsKeepBooks, SameBooksTransitive DEF SameFields
  <2> QED
    BY <2>1, <2>3, LifecycleKeepsBooks
<1>2. \A t \in states : IsState(t) /\ CoveredIfOwing(t, counts)
  <2> HIDE DEF states
  <2> QED
    BY <1>1 DEF SameBooks, CoveredIfOwing, Covered
<1>3. \A b \in batches : b \in Seq(Command)
  <2>1. Nudge \in Command
    BY DEF Command
  <2>2. <<>> \in Seq(Command) /\ <<Nudge>> \in Seq(Command)
    BY <2>1
  <2> QED
    BY <2>2
<1>4. \E t \in states, b \in batches, undo \in {<<>>, Undos(s, u)},
         p \in {"compensate", "unsaved"} : w = Work(t, b, undo, p)
  <2> DEFINE Failing(queued, sent) ==
                IF f.status = "COMPENSATING"
                THEN Work(f, sent, Undos(s, u), "compensate")
                ELSE Work(f, queued, <<>>, "unsaved")
  <2>1. w \in {Failing(<<>>, <<>>), Failing(<<Nudge>>, <<>>), Failing(<<Nudge>>, <<Nudge>>),
               Work(twice, <<>>, Undos(s, u), "unsaved"),
               Work(Fail(s, FALSE, u), <<>>, <<>>, "unsaved"),
               Work(Complete(s), <<Nudge>>, <<>>, "unsaved"),
               Work(Resume(s), <<>>, <<>>, "unsaved"),
               Work(Resume(s), <<Nudge>>, <<>>, "unsaved")}
    BY DEF TimeOut
  <2>2. \A queued, sent \in batches :
           Failing(queued, sent) \in {Work(f, sent, Undos(s, u), "compensate"),
                                      Work(f, queued, <<>>, "unsaved")}
    OBVIOUS
  <2> HIDE DEF f, Failing
  <2> QED
    BY <2>1, <2>2
<1> HIDE DEF states, batches
<1> QED
  BY <1>2, <1>3, <1>4 DEF WorkOK, Work

-----------------------------------------------------------------------------
(* The entries of pending_commands.                                        *)

\* What has been carried out stays carried out.
Kept(counts, later) == \A x \in Event : counts[x] > 0 => later[x] > 0

LEMMA CoverLasts ==
  ASSUME NEW counts, NEW later, Kept(counts, later), NEW s, IsState(s), NEW extra,
         Covered(s, extra, counts)
  PROVE  Covered(s, extra, later)
  BY DEF Kept, Covered, IsState

\* The command of e is the last entry.
EndsWith(s, e) == s.pending # <<>> /\ s.pending[Len(s.pending)].of = e

LEMMA PendedCovers ==
  ASSUME NEW counts, NEW s, IsState(s), NEW e \in Event, Covered(s, {e}, counts)
  PROVE  /\ IsState(Pended(s, <<e>>))
         /\ Covered(Pended(s, <<e>>), {}, counts)
         /\ EndsWith(Pended(s, <<e>>), e)
<1> DEFINE entry == [of |-> e, dispatched |-> FALSE, marked |-> FALSE]
           t == Pended(s, <<e>>)
<1>1. s.pending \in Seq(Entry) /\ Len(s.pending) \in Nat
  BY DEF IsState
<1>2. entry \in Entry /\ ~entry.dispatched /\ entry.of = e
  BY DEF Entry
<1>3. [i \in DOMAIN <<e>> |-> [of |-> <<e>>[i], dispatched |-> FALSE, marked |-> FALSE]]
         = <<entry>>
  <2> DEFINE Made(x) == [of |-> x, dispatched |-> FALSE, marked |-> FALSE]
  <2>1. entry = Made(e)
    OBVIOUS
  <2> HIDE DEF entry, Made
  <2>2. [i \in DOMAIN <<e>> |-> Made(<<e>>[i])] = <<Made(e)>>
    OBVIOUS
  <2> QED
    BY <2>1, <2>2 DEF Made
<1>4. t = [s EXCEPT !.pending = s.pending \o <<entry>>]
  BY <1>3 DEF Pended
<1> HIDE DEF entry, t
<1>5. s.pending \o <<entry>> \in Seq(Entry)
  BY <1>1, <1>2
<1>6. /\ IsState(t) /\ t.processed = s.processed
      /\ t.pending = s.pending \o <<entry>>
  BY <1>4, <1>5 DEF IsState
<1>7. /\ DOMAIN t.pending = 1..(Len(s.pending) + 1)
      /\ Len(t.pending) = Len(s.pending) + 1
      /\ t.pending[Len(s.pending) + 1] = entry
      /\ \A i \in 1..Len(s.pending) : t.pending[i] = s.pending[i]
  BY <1>1, <1>2, <1>6
<1>8. DOMAIN s.pending = 1..Len(s.pending)
  BY <1>1
<1>9. UndispatchedIn(s) \cup {e} \subseteq UndispatchedIn(t)
  BY <1>1, <1>2, <1>7, <1>8 DEF UndispatchedIn, Undispatched
<1>10. Covered(t, {}, counts)
  BY <1>6, <1>9 DEF Covered
<1>11. EndsWith(t, e)
  BY <1>1, <1>2, <1>7 DEF EndsWith
<1> QED
  BY <1>6, <1>10, <1>11 DEF t

\* An entry is marked dispatched once its command was carried out.
LEMMA DispatchedCovers ==
  ASSUME NEW counts, NEW later, Kept(counts, later), NEW s, IsState(s),
         Covered(s, {}, counts), NEW i \in DOMAIN s.pending,
         later[s.pending[i].of] > 0, NEW t,
         t = [s EXCEPT !.pending[i].dispatched = TRUE]
  PROVE  /\ IsState(t) /\ Covered(t, {}, later)
         /\ Len(t.pending) = Len(s.pending)
         /\ t.pending[i].of = s.pending[i].of
         /\ t.pending[i].dispatched
<1>1. /\ s.pending \in Seq(Entry) /\ DOMAIN s.pending = 1..Len(s.pending)
      /\ s.pending[i] \in Entry /\ Len(s.pending) \in Nat
  BY DEF IsState
<1> DEFINE entry == [s.pending[i] EXCEPT !.dispatched = TRUE]
<1>2. entry \in Entry /\ entry.of = s.pending[i].of /\ entry.dispatched
  BY <1>1, EntryFields
<1>3. t = [s EXCEPT !.pending = [s.pending EXCEPT ![i] = entry]]
  OBVIOUS
<1> HIDE DEF entry
<1>4. /\ [s.pending EXCEPT ![i] = entry] \in Seq(Entry)
      /\ Len([s.pending EXCEPT ![i] = entry]) = Len(s.pending)
  BY <1>1, <1>2
<1>5. /\ IsState(t) /\ t.processed = s.processed
      /\ t.pending = [s.pending EXCEPT ![i] = entry]
  BY <1>3, <1>4 DEF IsState
<1>6. /\ DOMAIN t.pending = DOMAIN s.pending /\ t.pending[i] = entry
      /\ \A j \in DOMAIN s.pending : j # i => t.pending[j] = s.pending[j]
  BY <1>1, <1>5
<1>7. \A x \in UndispatchedIn(s) : x = s.pending[i].of \/ x \in UndispatchedIn(t)
  BY <1>6 DEF UndispatchedIn, Undispatched
<1>8. Covered(t, {}, later)
  <2> SUFFICES ASSUME NEW x \in s.processed
               PROVE  later[x] > 0 \/ x \in UndispatchedIn(t)
    BY <1>5 DEF Covered
  <2>1. x \in Event
    BY DEF IsState
  <2> QED
    BY <1>7, <2>1 DEF Covered, Kept
<1> QED
  BY <1>2, <1>4, <1>5, <1>6, <1>8

\* The last entry goes once it was marked.
LEMMA ClearedCovers ==
  ASSUME NEW counts, NEW s, IsState(s), Covered(s, {}, counts),
         s.pending # <<>>, s.pending[Len(s.pending)].dispatched
  PROVE  /\ IsState(BatchCleared(s, 1))
         /\ Covered(BatchCleared(s, 1), {}, counts)
<1> DEFINE n == Len(s.pending)
           t == BatchCleared(s, 1)
<1>1. s.pending \in Seq(Entry) /\ DOMAIN s.pending = 1..n /\ n \in Nat \ {0}
  BY DEF IsState
<1>2. t = [s EXCEPT !.pending = SubSeq(s.pending, 1, n - 1)]
  BY DEF BatchCleared
<1>3. /\ SubSeq(s.pending, 1, n - 1) \in Seq(Entry)
      /\ DOMAIN SubSeq(s.pending, 1, n - 1) = 1..(n - 1)
      /\ \A j \in 1..(n - 1) : SubSeq(s.pending, 1, n - 1)[j] = s.pending[j]
  <2>1. 1 \in 1..(n + 1) /\ n - 1 \in (1 - 1)..n
    BY <1>1
  <2> QED
    BY <1>1, <2>1
<1> HIDE DEF n, t
<1>4. /\ IsState(t) /\ t.processed = s.processed
      /\ t.pending = SubSeq(s.pending, 1, n - 1)
  BY <1>2, <1>3 DEF IsState
<1>5. Undispatched(s) \subseteq 1..(n - 1)
  BY <1>1 DEF Undispatched, n
<1>6. UndispatchedIn(s) \subseteq UndispatchedIn(t)
  BY <1>3, <1>4, <1>5 DEF UndispatchedIn, Undispatched
<1>7. Covered(t, {}, counts)
  BY <1>4, <1>6 DEF Covered
<1> QED
  BY <1>4, <1>7 DEF t

-----------------------------------------------------------------------------
(* The invariant.                                                          *)

\* The batch of m is one command, the last entry of its state.
InBatch(m, counts) ==
    /\ Covered(m.state, {}, counts)
    /\ \E e \in Event : m.forward = <<e>> /\ EndsWith(m.state, e)

IsSaving(m, next) == m.at = "save" /\ m.next = next

TaskFields(m) ==
    /\ DOMAIN m = {"at", "next", "row", "state", "forward", "undo", "sent"}
    /\ m.at \in Place /\ m.next \in Next_
    /\ m.forward \in Seq(Command)
    /\ IsState(m.state)

\* What a task at each of its calls holds is accounted for.
TaskOK(m, counts) ==
    /\ TaskFields(m)
    /\ IsSaving(m, "end") \/ m.at = "unsaved" => CoveredIfOwing(m.state, counts)
    /\ IsSaving(m, "batch") =>
          /\ BatchOK(m.state, m.forward, counts)
          /\ m.forward # <<>> => ~Owes(m.state)
          /\ m.sent = 0
    /\ m.at = "send" \/ IsSaving(m, "send") => InBatch(m, counts) /\ m.sent = 0
    /\ IsSaving(m, "marked") =>
          /\ InBatch(m, counts) /\ m.sent = 1
          /\ m.state.pending[Len(m.state.pending)].dispatched
    /\ m.at = "redispatch" \/ IsSaving(m, "redispatch") => Covered(m.state, {}, counts)
    /\ m.at = "compensate" =>
          /\ m.next \in {"end", "batch"} /\ m.sent = 0
          /\ m.next = "batch" => m.forward = <<>>
    /\ m.at = "unsaved" => m.next = "end"

RowOK(s, counts) == IsState(s) /\ CoveredIfOwing(s, counts)

BooksInv ==
    /\ done \in [Command -> Nat]
    /\ \E S : store \in Seq(S)
    /\ \A r \in DOMAIN store : RowOK(store[r], done)
    /\ DOMAIN task = Task /\ task = [t \in Task |-> task[t]]
    /\ \A t \in Task : task[t] # NoTask => TaskOK(task[t], done)

LEMMA LastSaveOK ==
  ASSUME NEW counts, NEW row, NEW s, RowOK(s, counts)
  PROVE  TaskOK(LastSave(row, s), counts)
<1>1. <<>> \in Seq(Command)
  OBVIOUS
<1> QED
  BY <1>1 DEF LastSave, TaskOK, TaskFields, IsSaving, RowOK, Place, Next_

\* The checkpoint of a batch.
LEMMA SavingBatchOK ==
  ASSUME NEW counts, NEW m, TaskFields(m), m.sent = 0,
         BatchOK(m.state, m.forward, counts)
  PROVE  TaskOK(SavingBatch(m), counts)
<1>1. CASE m.forward = <<>>
  <2>1. CoveredIfOwing(m.state, counts)
    BY <1>1 DEF BatchOK
  <2> QED
    BY <1>1, <2>1, LastSaveOK DEF SavingBatch, RowOK, TaskFields
<1>2. CASE m.forward # <<>>
  <2>1. PICK e \in Event : m.forward = <<e>> /\ Covered(m.state, {e}, counts)
    BY <1>2 DEF BatchOK
  <2> DEFINE t == Pended(m.state, <<e>>)
  <2>2. IsState(t) /\ Covered(t, {}, counts) /\ EndsWith(t, e)
    BY <2>1, PendedCovers DEF TaskFields
  <2> DEFINE k == [m EXCEPT !.at = "save", !.state = t, !.next = "send"]
  <2>3. SavingBatch(m) = k
    BY <1>2, <2>1 DEF SavingBatch, Saving
  <2> HIDE DEF t
  <2>4. /\ DOMAIN k = DOMAIN m
        /\ k.at = "save" /\ k.next = "send" /\ k.state = t
        /\ k.forward = m.forward /\ k.sent = m.sent
    BY DEF TaskFields
  <2> HIDE DEF k
  <2>5. TaskFields(k)
    BY <2>2, <2>4 DEF TaskFields, Place, Next_
  <2>6. InBatch(k, counts)
    BY <2>1, <2>2, <2>4 DEF InBatch
  <2> QED
    BY <2>3, <2>4, <2>5, <2>6 DEF TaskOK, IsSaving
<1> QED
  BY <1>1, <1>2

LEMMA BeginOK ==
  ASSUME NEW t \in Task, NEW row, NEW w, WorkOK(w, done'), Begin(t, row, w)
  PROVE  \E m : task' = [task EXCEPT ![t] = m] /\ (m = NoTask \/ TaskOK(m, done'))
<1> DEFINE m == [LastSave(row, w.state) EXCEPT !.forward = w.forward, !.undo = w.undo]
<1>1. /\ TaskFields(m) /\ m.sent = 0 /\ m.at = "save" /\ m.next = "end"
      /\ m.state = w.state /\ m.forward = w.forward
  BY DEF LastSave, TaskFields, WorkOK, Place, Next_
<1>2. CASE w.path = "skip"
  BY <1>2 DEF Begin, End, Become
<1>3. CASE w.path = "end"
  <2>1. TaskOK(m, done')
    BY <1>1, <1>3 DEF TaskOK, IsSaving, WorkOK
  <2>2. task' = [task EXCEPT ![t] = m]
    BY <1>3 DEF Begin, Become
  <2> QED
    BY <2>1, <2>2
<1>4. CASE w.path = "failed"
  <2>1. TaskOK([m EXCEPT !.next = "batch"], done')
    <3> HIDE DEF m
    <3> QED
      BY <1>1, <1>4 DEF TaskOK, TaskFields, IsSaving, WorkOK, Next_
  <2>2. task' = [task EXCEPT ![t] = [m EXCEPT !.next = "batch"]]
    BY <1>4 DEF Begin, Become
  <2> QED
    BY <2>1, <2>2
<1>5. CASE w.path = "forward"
  <2>1. TaskOK(SavingBatch(m), done')
    <3> HIDE DEF m
    <3> QED
      BY <1>1, <1>5, SavingBatchOK DEF WorkOK
  <2>2. task' = [task EXCEPT ![t] = SavingBatch(m)]
    BY <1>5 DEF Begin, Become
  <2> QED
    BY <2>1, <2>2
<1>6. CASE w.path = "raised"
  <2>1. TaskOK([m EXCEPT !.at = "compensate", !.next = "batch"], done')
    <3> HIDE DEF m
    <3> QED
      BY <1>1, <1>6 DEF TaskOK, TaskFields, IsSaving, WorkOK, Next_, Place
  <2>2. task' = [task EXCEPT ![t] = [m EXCEPT !.at = "compensate", !.next = "batch"]]
    BY <1>6 DEF Begin, Become
  <2> QED
    BY <2>1, <2>2
<1>7. CASE w.path \in {"compensate", "unsaved"}
  <2>1. TaskOK([m EXCEPT !.at = w.path], done')
    <3> HIDE DEF m
    <3> QED
      BY <1>1, <1>7 DEF TaskOK, TaskFields, IsSaving, WorkOK, Next_, Place
  <2>2. task' = [task EXCEPT ![t] = [m EXCEPT !.at = w.path]]
    BY <1>7 DEF Begin, Become
  <2> QED
    BY <2>1, <2>2
<1> QED
  BY <1>2, <1>3, <1>4, <1>5, <1>6, <1>7 DEF WorkOK

-----------------------------------------------------------------------------
(* The steps.                                                              *)

LEMMA BooksLast ==
  ASSUME NEW counts, NEW later, Kept(counts, later)
  PROVE  /\ \A s : RowOK(s, counts) => RowOK(s, later)
         /\ \A m : TaskOK(m, counts) => TaskOK(m, later)
<1>1. \A s, extra : IsState(s) /\ Covered(s, extra, counts) => Covered(s, extra, later)
  BY CoverLasts
<1>2. \A s : IsState(s) /\ CoveredIfOwing(s, counts) => CoveredIfOwing(s, later)
  BY <1>1 DEF CoveredIfOwing
<1>3. \A s, b : IsState(s) /\ BatchOK(s, b, counts) => BatchOK(s, b, later)
  BY <1>1, <1>2 DEF BatchOK
<1>4. \A m : IsState(m.state) /\ InBatch(m, counts) => InBatch(m, later)
  BY <1>1 DEF InBatch
<1>5. ASSUME NEW s, RowOK(s, counts) PROVE RowOK(s, later)
  BY <1>2, <1>5 DEF RowOK
<1>6. ASSUME NEW m, TaskOK(m, counts) PROVE TaskOK(m, later)
  <2>1. IsState(m.state)
    BY <1>6 DEF TaskOK, TaskFields
  <2> QED
    BY <1>1, <1>2, <1>3, <1>4, <1>6, <2>1 DEF TaskOK
<1> QED
  BY <1>5, <1>6

\* Carrying out a command.
LEMMA DoneKeeps ==
  ASSUME done \in [Command -> Nat], NEW c \in Command, Done(c)
  PROVE  done' \in [Command -> Nat] /\ Kept(done, done') /\ done'[c] > 0
<1>1. \A x \in Command : done'[x] \in Nat /\ (done[x] > 0 => done'[x] > 0)
  BY DEF Done
<1> QED
  BY <1>1 DEF Done, Kept, Command

LEMMA NothingDone ==
  ASSUME done \in [Command -> Nat], UNCHANGED done
  PROVE  done' \in [Command -> Nat] /\ Kept(done, done')
  BY DEF Kept

\* The dispatch of a command returned, or raised without an effect or after it.
ForwardReturned(c) == Done(c) /\ UNCHANGED <<undone, unsure>>
ForwardRaised(c) ==
    /\ UNCHANGED undone
    /\ UNCHANGED <<done, unsure>> \/ (Done(c) /\ unsure' = unsure + 1)
UndoReturned(e) == undone' = undone \cup {e} /\ UNCHANGED <<done, unsure>>
UndoRaised(e) ==
    /\ UNCHANGED done
    /\ \/ UNCHANGED <<undone, unsure>>
       \/ undone' = undone \cup {e} /\ unsure' = unsure + 1

LEMMA DispatchOutcomes ==
  ASSUME NEW c
  PROVE  /\ Returns(c, TRUE) => ForwardReturned(c)
         /\ Raises(c, TRUE) => ForwardRaised(c)
         /\ Returns(c, FALSE) => UndoReturned(c)
         /\ Raises(c, FALSE) => UndoRaised(c)
  BY DEF Returns, Raises, Effect, ForwardReturned, ForwardRaised, UndoReturned, UndoRaised

\* Whatever its outcome, a dispatch takes nothing back.
LEMMA DispatchKeeps ==
  ASSUME done \in [Command -> Nat], NEW c \in Command,
         ForwardReturned(c) \/ ForwardRaised(c)
  PROVE  done' \in [Command -> Nat] /\ Kept(done, done')
  BY DoneKeeps, NothingDone DEF ForwardReturned, ForwardRaised

\* A step of one task that leaves the saved states alone.
LEMMA TaskStep ==
  ASSUME BooksInv, done' \in [Command -> Nat], Kept(done, done'), UNCHANGED store,
         NEW t \in Task, NEW m, m = NoTask \/ TaskOK(m, done'), Become(t, m)
  PROVE  BooksInv'
<1>1. /\ \A r \in DOMAIN store : RowOK(store[r], done')
      /\ \A u \in Task : task[u] # NoTask => TaskOK(task[u], done')
  BY BooksLast DEF BooksInv
<1>2. /\ DOMAIN task' = Task /\ task'[t] = m
      /\ \A u \in Task : u # t => task'[u] = task[u]
  BY DEF Become, BooksInv
<1>3. task' = [u \in Task |-> task'[u]]
  BY <1>2 DEF Become, BooksInv
<1> QED
  BY <1>1, <1>2, <1>3 DEF BooksInv

\* A step that saves a state too.
LEMMA SaveStep ==
  ASSUME BooksInv, UNCHANGED done, NEW r, NEW s, RowOK(s, done),
         store' = [store EXCEPT ![r] = s],
         NEW t \in Task, NEW m, m = NoTask \/ TaskOK(m, done), Become(t, m)
  PROVE  BooksInv'
<1>1. /\ DOMAIN task' = Task /\ task'[t] = m
      /\ \A u \in Task : u # t => task'[u] = task[u]
  BY DEF Become, BooksInv
<1>2. task' = [u \in Task |-> task'[u]]
  BY <1>1 DEF Become, BooksInv
<1>3. Len(store) \in Nat /\ DOMAIN store = 1..Len(store)
  BY DEF BooksInv
<1>4. store' = [i \in 1..Len(store) |-> IF i = r THEN s ELSE store[i]]
  BY <1>3 DEF BooksInv
<1>5. DOMAIN store' = 1..Len(store)
  BY <1>4
<1>6. \A i \in DOMAIN store' : RowOK(store'[i], done)
  BY <1>3, <1>4, <1>5 DEF BooksInv
<1>7. \E S : store' \in Seq(S)
  <2>1. PICK S : store \in Seq(S)
    BY DEF BooksInv
  <2>2. store \in Seq(S \cup {s})
    BY <2>1
  <2>3. store' \in Seq(S \cup {s})
    <3>1. CASE r \in 1..Len(store)
      BY <1>3, <2>2, <3>1
    <3>2. CASE r \notin 1..Len(store)
      <4>1. store' = [i \in 1..Len(store) |-> store[i]]
        BY <1>4, <3>2
      <4>2. store = [i \in 1..Len(store) |-> store[i]]
        BY <2>2
      <4> QED
        BY <2>2, <4>1, <4>2
    <3> QED
      BY <3>1, <3>2
  <2> QED
    BY <2>3
<1> QED
  BY <1>1, <1>2, <1>6, <1>7 DEF BooksInv

LEMMA BooksInit ==
  ASSUME Init
  PROVE  BooksInv
<1>1. \A t \in Task : task[t] = NoTask
  BY DEF Init
<1>2. done \in [Command -> Nat] /\ DOMAIN task = Task /\ task = [t \in Task |-> task[t]]
  BY DEF Init
<1>3. DOMAIN store = {} /\ store \in Seq({})
  BY DEF Init
<1> QED
  BY <1>1, <1>2, <1>3 DEF BooksInv

\* A new saga is saved.
LEMMA CreateStep ==
  ASSUME BooksInv, UNCHANGED done, store' = Append(store, NewState),
         NEW t \in Task, NEW m, m = NoTask \/ TaskOK(m, done), Become(t, m)
  PROVE  BooksInv'
<1>1. /\ DOMAIN task' = Task /\ task'[t] = m
      /\ \A u \in Task : u # t => task'[u] = task[u]
  BY DEF Become, BooksInv
<1>2. task' = [u \in Task |-> task'[u]]
  BY <1>1 DEF Become, BooksInv
<1>3. PICK S : store \in Seq(S)
  BY DEF BooksInv
<1>4. store \in Seq(S \cup {NewState})
  BY <1>3
<1>5. /\ store' \in Seq(S \cup {NewState}) /\ DOMAIN store = 1..Len(store)
      /\ DOMAIN store' = 1..(Len(store) + 1) /\ Len(store) \in Nat
      /\ store'[Len(store) + 1] = NewState
      /\ \A r \in DOMAIN store : store'[r] = store[r]
  BY <1>4
<1>6. RowOK(NewState, done)
  BY DEF RowOK, NewState, IsState, CoveredIfOwing, Covered, Status
<1>7. \A r \in DOMAIN store' : RowOK(store'[r], done)
  BY <1>5, <1>6 DEF BooksInv
<1> QED
  BY <1>1, <1>2, <1>5, <1>7 DEF BooksInv

LEMMA DeliverStep ==
  ASSUME BooksInv, NEW e \in Event, Deliver(e)
  PROVE  BooksInv'
<1>1. /\ done' = done /\ done' \in [Command -> Nat] /\ Kept(done, done')
      /\ store' = store /\ e \in Task
  BY NothingDone DEF Deliver, BooksInv, Task
<1>2. CASE store = <<>>
  <2> DEFINE m == [LastSave(0, NewState) EXCEPT !.at = "create"]
  <2>1. TaskOK(m, done')
    <3>1. IsState(NewState) /\ <<>> \in Seq(Command)
      BY DEF IsState, NewState, Status
    <3> HIDE DEF NewState
    <3> QED
      BY <3>1 DEF LastSave, TaskOK, TaskFields, IsSaving, Place, Next_
  <2>2. Become(e, m)
    BY <1>2 DEF Deliver
  <2> HIDE DEF m
  <2> QED
    BY <1>1, <2>1, <2>2, TaskStep
<1>3. CASE store # <<>>
  <2>1. PICK w \in ProcessEvent(store[1], e, renamed) : Begin(e, 1, w)
    BY <1>3 DEF Deliver
  <2>2. 1 \in DOMAIN store
    BY <1>3 DEF BooksInv
  <2>3. RowOK(store[1], done')
    BY <1>1, <2>2 DEF BooksInv
  <2>4. WorkOK(w, done')
    BY <2>3, ProcessedWork DEF RowOK
  <2>5. PICK m : task' = [task EXCEPT ![e] = m] /\ (m = NoTask \/ TaskOK(m, done'))
    BY <1>1, <2>1, <2>4, BeginOK
  <2> QED
    BY <1>1, <2>5, TaskStep DEF Become
<1> QED
  BY <1>2, <1>3

LEMMA CreateKeeps ==
  ASSUME BooksInv, NEW e \in Event, Create(e)
  PROVE  BooksInv'
<1>1. /\ done' = done /\ done' \in [Command -> Nat]
      /\ store' = Append(store, NewState) /\ e \in Task
  BY DEF Create, BooksInv, Task, counters
<1>2. PICK w \in ProcessEvent(NewState, e, renamed) : Begin(e, Len(store) + 1, w)
  BY DEF Create
<1>3. IsState(NewState) /\ CoveredIfOwing(NewState, done')
  BY DEF NewState, IsState, CoveredIfOwing, Covered, Status
<1>4. WorkOK(w, done')
  BY <1>2, <1>3, ProcessedWork
<1>5. PICK m : task' = [task EXCEPT ![e] = m] /\ (m = NoTask \/ TaskOK(m, done'))
  BY <1>1, <1>2, <1>4, BeginOK
<1> QED
  BY <1>1, <1>5, CreateStep DEF Become

LEMMA SaveKeeps ==
  ASSUME BooksInv, NEW t \in Task, Save(t)
  PROVE  BooksInv'
<1> DEFINE m == task[t]
<1>1. /\ done' = done /\ m.at = "save" /\ TaskOK(m, done)
      /\ store' = [store EXCEPT ![m.row] = m.state]
  BY DEF Save, At, Busy, BooksInv
<1>2. IsState(m.state) /\ m.next \in Next_ /\ TaskFields(m)
  BY <1>1 DEF TaskOK, TaskFields
<1> HIDE DEF m
<1>3. CASE m.next = "end"
  <2>1. RowOK(m.state, done)
    BY <1>1, <1>2, <1>3 DEF TaskOK, IsSaving, RowOK
  <2>2. Become(t, NoTask)
    BY <1>3 DEF Save, End, m
  <2> QED
    BY <1>1, <2>1, <2>2, SaveStep
<1>4. CASE m.next = "batch"
  <2>1. /\ BatchOK(m.state, m.forward, done) /\ m.sent = 0
        /\ m.forward # <<>> => ~Owes(m.state)
    BY <1>1, <1>4 DEF TaskOK, IsSaving
  <2>2. RowOK(m.state, done)
    <3>1. CASE m.forward = <<>>
      <4>1. \A e \in Event : m.forward # <<e>>
        BY <3>1
      <4> QED
        BY <1>2, <2>1, <4>1 DEF RowOK, BatchOK
    <3>2. CASE m.forward # <<>>
      BY <1>2, <2>1, <3>2 DEF RowOK, CoveredIfOwing
    <3> QED
      BY <3>1, <3>2
  <2>3. TaskOK(SavingBatch(m), done)
    BY <1>2, <2>1, SavingBatchOK
  <2>4. Become(t, SavingBatch(m))
    BY <1>4 DEF Save, m
  <2> QED
    BY <1>1, <2>2, <2>3, <2>4, SaveStep
<1>5. CASE m.next \in {"send", "redispatch"}
  <2> DEFINE k == [m EXCEPT !.at = m.next]
  <2>1. /\ Covered(m.state, {}, done)
        /\ m.next = "send" => InBatch(m, done) /\ m.sent = 0
    BY <1>1, <1>5 DEF TaskOK, IsSaving, InBatch
  <2>2. RowOK(m.state, done)
    BY <1>2, <2>1 DEF RowOK, CoveredIfOwing
  <2>3. /\ DOMAIN k = DOMAIN m /\ k.at = m.next /\ k.next = m.next
        /\ k.state = m.state /\ k.forward = m.forward /\ k.sent = m.sent
    BY <1>2 DEF TaskFields
  <2>4. Become(t, k)
    BY <1>5 DEF Save, m
  <2> HIDE DEF k
  <2>5. TaskFields(k)
    BY <1>2, <1>5, <2>3 DEF TaskFields, Place
  <2>6. TaskOK(k, done)
    BY <1>5, <2>1, <2>3, <2>5 DEF TaskOK, IsSaving, InBatch
  <2> QED
    BY <1>1, <2>2, <2>4, <2>6, SaveStep
<1>6. CASE m.next = "marked"
  <2>1. /\ Covered(m.state, {}, done) /\ m.sent = 1 /\ m.state.pending # <<>>
        /\ m.state.pending[Len(m.state.pending)].dispatched
        /\ Len(m.forward) = 1
    BY <1>1, <1>6 DEF TaskOK, IsSaving, InBatch, EndsWith
  <2>2. RowOK(m.state, done)
    BY <1>2, <2>1 DEF RowOK, CoveredIfOwing
  <2>3. RowOK(BatchCleared(m.state, 1), done)
    BY <1>2, <2>1, ClearedCovers DEF RowOK, CoveredIfOwing
  <2>4. TaskOK(LastSave(m.row, BatchCleared(m.state, 1)), done)
    BY <2>3, LastSaveOK
  <2>5. Become(t, LastSave(m.row, BatchCleared(m.state, 1)))
    BY <1>6, <2>1 DEF Save, m
  <2> QED
    BY <1>1, <2>2, <2>4, <2>5, SaveStep
<1> QED
  BY <1>2, <1>3, <1>4, <1>5, <1>6 DEF Next_

LEMMA SendKeeps ==
  ASSUME BooksInv, NEW t \in Task, Send(t)
  PROVE  BooksInv'
<1> DEFINE m == task[t]
<1>1. m.at = "send" /\ TaskOK(m, done) /\ store' = store /\ done \in [Command -> Nat]
  BY DEF Send, At, Busy, BooksInv
<1>2. TaskFields(m) /\ InBatch(m, done) /\ m.sent = 0
  BY <1>1 DEF TaskOK
<1>3. IsState(m.state) /\ Covered(m.state, {}, done)
  BY <1>2 DEF TaskFields, InBatch
<1>4. PICK e \in Event : m.forward = <<e>> /\ EndsWith(m.state, e)
  BY <1>2 DEF InBatch
<1>5. CASE /\ ForwardReturned(m.forward[m.sent + 1])
           /\ Become(t, [Saving(m, [m.state EXCEPT
                 !.pending[EntryToSend(m)].dispatched = TRUE], "marked") EXCEPT !.sent = @ + 1])
  <2> DEFINE n == Len(m.state.pending)
             s == [m.state EXCEPT !.pending[n].dispatched = TRUE]
             k == [Saving(m, s, "marked") EXCEPT !.sent = @ + 1]
  <2>1. /\ n \in DOMAIN m.state.pending /\ EntryToSend(m) = n
        /\ m.state.pending[n].of = e /\ Len(m.forward) = 1 /\ m.forward[m.sent + 1] = e
    BY <1>2, <1>3, <1>4 DEF EntryToSend, EndsWith, IsState
  <2>2. Done(e) /\ Become(t, k) /\ e \in Command
    BY <1>5, <2>1 DEF Command, ForwardReturned
  <2>3. done' \in [Command -> Nat] /\ Kept(done, done') /\ done'[e] > 0
    BY <1>1, <2>2, DoneKeeps
  <2>4. /\ IsState(s) /\ Covered(s, {}, done') /\ Len(s.pending) = n
        /\ s.pending[n].of = e /\ s.pending[n].dispatched
    <3>1. done'[m.state.pending[n].of] > 0
      BY <2>1, <2>3
    <3>2. s = [m.state EXCEPT !.pending[n].dispatched = TRUE]
      OBVIOUS
    <3> HIDE DEF s, n
    <3>3. /\ IsState(s) /\ Covered(s, {}, done') /\ Len(s.pending) = Len(m.state.pending)
          /\ s.pending[n].of = m.state.pending[n].of /\ s.pending[n].dispatched
      BY <1>3, <2>1, <2>3, <3>1, <3>2, DispatchedCovers
    <3> QED
      BY <2>1, <3>3 DEF n
  <2> HIDE DEF s
  <2>5. /\ DOMAIN k = DOMAIN m
        /\ k.at = "save" /\ k.next = "marked" /\ k.state = s
        /\ k.forward = m.forward /\ k.sent = 1
    BY <1>2 DEF TaskFields, Saving
  <2> HIDE DEF k
  <2>6. TaskFields(k)
    BY <1>2, <2>4, <2>5 DEF TaskFields, Place, Next_
  <2>7. InBatch(k, done')
    <3>1. s.pending # <<>>
      BY <1>3, <2>1, <2>4 DEF IsState
    <3> QED
      BY <1>4, <2>4, <2>5, <3>1 DEF InBatch, EndsWith
  <2>8. TaskOK(k, done')
    BY <2>4, <2>5, <2>6, <2>7 DEF TaskOK, IsSaving
  <2> QED
    BY <1>1, <2>2, <2>3, <2>8, TaskStep
<1>6. CASE /\ ForwardRaised(m.forward[m.sent + 1])
           /\ Become(t, LastSave(m.row, Stalled(m.state)))
  <2>1. done' \in [Command -> Nat] /\ Kept(done, done')
    <3>1. m.forward[m.sent + 1] = e /\ e \in Command
      BY <1>2, <1>4 DEF Command
    <3> QED
      BY <1>1, <1>6, <3>1, DispatchKeeps
  <2>2. IsState(Stalled(m.state)) /\ SameBooks(m.state, Stalled(m.state))
    BY <1>3, LifecycleKeepsBooks
  <2>3. RowOK(Stalled(m.state), done)
    BY <1>3, <2>2 DEF RowOK, CoveredIfOwing, Covered, SameBooks
  <2>4. RowOK(Stalled(m.state), done')
    BY <2>1, <2>3, BooksLast
  <2> QED
    BY <1>1, <1>6, <2>1, <2>4, LastSaveOK, TaskStep
<1> QED
  <2>1. \/ /\ Returns(m.forward[m.sent + 1], TRUE)
           /\ Become(t, [Saving(m, [m.state EXCEPT
                 !.pending[EntryToSend(m)].dispatched = TRUE], "marked") EXCEPT !.sent = @ + 1])
        \/ /\ Raises(m.forward[m.sent + 1], TRUE)
           /\ Become(t, LastSave(m.row, Stalled(m.state)))
    BY DEF Send
  <2> QED
    BY <1>5, <1>6, <2>1, DispatchOutcomes

LEMMA MarkFailsKeeps ==
  ASSUME BooksInv, NEW t \in Task, MarkFails(t)
  PROVE  BooksInv'
<1> DEFINE m == task[t]
<1>1. /\ IsSaving(m, "marked") /\ TaskOK(m, done) /\ store' = store
      /\ done' = done /\ done \in [Command -> Nat]
      /\ Become(t, LastSave(m.row, Stalled(m.state)))
  BY DEF MarkFails, At, Busy, BooksInv, IsSaving
<1>2. IsState(m.state) /\ Covered(m.state, {}, done)
  BY <1>1 DEF TaskOK, TaskFields, InBatch
<1>3. IsState(Stalled(m.state)) /\ SameBooks(m.state, Stalled(m.state))
  BY <1>2, LifecycleKeepsBooks
<1>4. RowOK(Stalled(m.state), done')
  BY <1>1, <1>2, <1>3 DEF RowOK, CoveredIfOwing, Covered, SameBooks
<1> QED
  BY <1>1, <1>4, LastSaveOK, TaskStep, NothingDone

\* What is left once the next forward command, or the next undo, was sent;
\* and the same when its dispatch raised.
AfterForward(m) == [m EXCEPT !.forward = Tail(@)]
AfterUndo(m) == [m EXCEPT !.undo = Restrict(@, DOMAIN @ \ {NextUndo(m.undo)})]
Refused(k, c) == [k EXCEPT !.state.failed = @ \cup {c}]

LEMMA CompensateCases ==
  ASSUME NEW t, NEW m, m = task[t], Compensate(t)
  PROVE  /\ UNCHANGED <<atOnce, store, renamed, logged, deliveries, sweeps, stops>>
         /\ m # NoTask /\ m.at = "compensate"
         /\ \/ /\ m.forward = <<>> /\ DOMAIN m.undo = {}
               /\ Become(t, Saving(m, Settled(m.state), m.next))
               /\ UNCHANGED <<done, undone, unsure>>
            \/ /\ m.forward # <<>>
               /\ \/ /\ ForwardReturned(Head(m.forward))
                     /\ Become(t, AfterForward(m))
                  \/ /\ ForwardRaised(Head(m.forward))
                     /\ Become(t, Refused(AfterForward(m), Head(m.forward)))
            \/ /\ m.forward = <<>> /\ DOMAIN m.undo # {}
               /\ \/ /\ UndoReturned(m.undo[NextUndo(m.undo)])
                     /\ Become(t, AfterUndo(m))
                  \/ /\ UndoRaised(m.undo[NextUndo(m.undo)])
                     /\ Become(t, Refused(AfterUndo(m), m.undo[NextUndo(m.undo)]))
<1> DEFINE i == NextUndo(m.undo)
           forward == m.forward # <<>>
           first == IF forward THEN Head(m.forward) ELSE m.undo[i]
           rest == IF forward THEN [m EXCEPT !.forward = Tail(@)]
                   ELSE [m EXCEPT !.undo = Restrict(@, DOMAIN @ \ {i})]
<1>1. IF m.forward = <<>> /\ DOMAIN m.undo = {}
      THEN /\ Become(t, Saving(m, Settled(m.state), m.next))
           /\ UNCHANGED <<done, undone, refusals, unsure>>
      ELSE \/ Returns(first, forward) /\ Become(t, rest)
           \/ /\ Raises(first, forward)
              /\ Become(t, [rest EXCEPT !.state.failed = @ \cup {first}])
  BY Zenon DEF Compensate
<1>2. /\ UNCHANGED <<atOnce, store, renamed, logged, deliveries, sweeps, stops>>
      /\ m # NoTask /\ m.at = "compensate"
  BY DEF Compensate, At, Busy
<1>3. /\ forward => first = Head(m.forward) /\ rest = AfterForward(m)
      /\ ~forward => first = m.undo[NextUndo(m.undo)] /\ rest = AfterUndo(m)
  BY DEF AfterForward, AfterUndo
<1>4. [rest EXCEPT !.state.failed = @ \cup {first}] = Refused(rest, first)
  BY DEF Refused
<1>5. /\ forward = TRUE \/ forward = FALSE
      /\ forward <=> m.forward # <<>>
  OBVIOUS
<1>6. CASE m.forward # <<>>
  <2>1. forward = TRUE
    BY <1>6
  <2> HIDE DEF first, rest, forward
  <2>2. /\ Returns(first, TRUE) => ForwardReturned(first)
        /\ Raises(first, TRUE) => ForwardRaised(first)
    BY DispatchOutcomes
  <2> QED
    BY <1>1, <1>2, <1>3, <1>4, <1>6, <2>1, <2>2
<1>7. CASE m.forward = <<>>
  <2>1. forward = FALSE
    BY <1>7
  <2> HIDE DEF first, rest, forward
  <2>2. /\ Returns(first, FALSE) => UndoReturned(first)
        /\ Raises(first, FALSE) => UndoRaised(first)
    BY DispatchOutcomes
  <2> QED
    BY <1>1, <1>2, <1>3, <1>4, <1>7, <2>1, <2>2
<1> QED
  BY <1>6, <1>7

LEMMA CompensateFields ==
  ASSUME NEW m, TaskFields(m)
  PROVE  /\ \A k \in {AfterForward(m), AfterUndo(m)} :
               /\ DOMAIN k = DOMAIN m /\ k.at = m.at /\ k.next = m.next
               /\ k.row = m.row /\ k.sent = m.sent /\ k.state = m.state
         /\ AfterForward(m).forward = Tail(m.forward) /\ AfterForward(m).undo = m.undo
         /\ AfterUndo(m).forward = m.forward
         /\ AfterUndo(m).undo = Restrict(m.undo, DOMAIN m.undo \ {NextUndo(m.undo)})
  BY DEF TaskFields, AfterForward, AfterUndo

LEMMA CompensateKeeps ==
  ASSUME BooksInv, NEW t \in Task, Compensate(t)
  PROVE  BooksInv'
<1> DEFINE m == task[t]
<1>1. /\ m.at = "compensate" /\ TaskOK(m, done) /\ store' = store /\ done \in [Command -> Nat]
      /\ m # NoTask
  BY DEF Compensate, At, Busy, BooksInv
<1>2. /\ TaskFields(m) /\ m.next \in {"end", "batch"} /\ m.sent = 0
      /\ m.next = "batch" => m.forward = <<>>
  BY <1>1 DEF TaskOK
<1>3. IsState(m.state)
  BY <1>2 DEF TaskFields
<1>4. ASSUME NEW k, DOMAIN k = DOMAIN m, k.at = m.at, k.next = m.next, k.sent = m.sent,
             k.forward \in Seq(Command), k.next = "batch" => k.forward = <<>>,
             IsState(k.state), Become(t, k), done' \in [Command -> Nat], Kept(done, done')
      PROVE  BooksInv'
  <2>1. TaskFields(k)
    BY <1>1, <1>2, <1>4 DEF TaskFields, Place
  <2>2. TaskOK(k, done')
    BY <1>1, <1>2, <1>4, <2>1 DEF TaskOK, IsSaving
  <2> QED
    BY <1>1, <1>4, <2>2, TaskStep
<1>5. ASSUME NEW k, DOMAIN k = DOMAIN m, k.at = m.at, k.next = m.next, k.sent = m.sent,
             k.forward \in Seq(Command), k.next = "batch" => k.forward = <<>>,
             k.state = m.state, NEW c,
             done' \in [Command -> Nat], Kept(done, done'),
             Become(t, k) \/ Become(t, Refused(k, c))
      PROVE  BooksInv'
  <2>1. CASE Become(t, k)
    BY <1>3, <1>4, <1>5, <2>1
  <2>2. CASE Become(t, Refused(k, c))
    <3> DEFINE f == Refused(k, c)
    <3>1. /\ DOMAIN f = DOMAIN m /\ f.at = m.at /\ f.next = m.next /\ f.sent = m.sent
          /\ f.forward = k.forward /\ f.state = [m.state EXCEPT !.failed = @ \cup {c}]
      BY <1>2, <1>5 DEF Refused, TaskFields
    <3>2. IsState([m.state EXCEPT !.failed = @ \cup {c}])
      BY <1>3 DEF IsState
    <3> HIDE DEF f, m
    <3> QED
      BY <1>4, <1>5, <2>2, <3>1, <3>2 DEF f
  <2> QED
    BY <1>5, <2>1, <2>2
<1>6. CASE /\ Become(t, Saving(m, Settled(m.state), m.next)) /\ m.forward = <<>>
           /\ UNCHANGED done
  <2> DEFINE k == Saving(m, Settled(m.state), m.next)
  <2>1. IsState(Settled(m.state)) /\ ~Owes(Settled(m.state))
    <3>1. IsState(Settled(m.state))
      BY <1>3, LifecycleKeepsBooks
    <3>2. Settled(m.state).status \in {"COMPENSATED", "FAILED"}
      BY <1>3 DEF Settled, IsState
    <3> QED
      BY <3>1, <3>2 DEF Owes
  <2>2. /\ DOMAIN k = DOMAIN m
        /\ k.at = "save" /\ k.next = m.next /\ k.state = Settled(m.state)
        /\ k.forward = m.forward /\ k.sent = m.sent
    BY <1>2 DEF TaskFields, Saving
  <2> HIDE DEF k
  <2>3. TaskFields(k)
    BY <1>2, <2>1, <2>2 DEF TaskFields, Place
  <2>4. TaskOK(k, done')
    BY <1>2, <1>6, <2>1, <2>2, <2>3 DEF TaskOK, IsSaving, BatchOK, CoveredIfOwing
  <2> QED
    BY <1>1, <1>6, <2>4, TaskStep, NothingDone DEF k
<1>7. CASE /\ m.forward # <<>>
           /\ ForwardReturned(Head(m.forward)) \/ ForwardRaised(Head(m.forward))
           /\ \/ Become(t, AfterForward(m))
              \/ Become(t, Refused(AfterForward(m), Head(m.forward)))
  <2> DEFINE k == AfterForward(m)
  <2>1. Head(m.forward) \in Command /\ Tail(m.forward) \in Seq(Command)
    BY <1>2, <1>7 DEF TaskFields
  <2>2. /\ DOMAIN k = DOMAIN m /\ k.at = m.at /\ k.next = m.next /\ k.sent = m.sent
        /\ k.forward = Tail(m.forward) /\ k.state = m.state
    BY <1>2, CompensateFields
  <2>3. done' \in [Command -> Nat] /\ Kept(done, done')
    BY <1>1, <1>7, <2>1, DispatchKeeps
  <2> HIDE DEF k
  <2>4. k.next = "batch" => k.forward = <<>>
    BY <1>2, <1>7, <2>2
  <2> QED
    BY <1>5, <1>7, <2>1, <2>2, <2>3, <2>4 DEF k
<1>8. CASE /\ m.forward = <<>> /\ UNCHANGED done
           /\ \/ Become(t, AfterUndo(m))
              \/ Become(t, Refused(AfterUndo(m), m.undo[NextUndo(m.undo)]))
  <2> DEFINE k == AfterUndo(m)
  <2>1. /\ DOMAIN k = DOMAIN m /\ k.at = m.at /\ k.next = m.next /\ k.sent = m.sent
        /\ k.forward = m.forward /\ k.state = m.state
    BY <1>2, CompensateFields
  <2>2. done' \in [Command -> Nat] /\ Kept(done, done') /\ m.forward \in Seq(Command)
    BY <1>1, <1>2, <1>8, NothingDone DEF TaskFields
  <2> HIDE DEF k
  <2> QED
    BY <1>5, <1>8, <2>1, <2>2 DEF k
<1> QED
  BY <1>6, <1>7, <1>8, CompensateCases DEF UndoReturned, UndoRaised

LEMMA FinishRecoveryOK ==
  ASSUME NEW counts, NEW s, IsState(s), Covered(s, {}, counts), Undispatched(s) = {}
  PROVE  RowOK(FinishRecovery(s), counts)
<1> DEFINE c == [s EXCEPT !.pending = <<>>, !.retries = 0]
<1>1. <<>> \in Seq(Entry)
  OBVIOUS
<1>2. IsState(c) /\ c.processed = s.processed
  BY <1>1 DEF IsState
<1>3. \A x \in s.processed : counts[x] > 0
  BY DEF Covered, UndispatchedIn
<1>4. FinishRecovery(s) \in {c, Resume(c)}
  BY DEF FinishRecovery
<1> HIDE DEF c
<1>5. IsState(Resume(c)) /\ Resume(c).processed = c.processed
  BY <1>2, LifecycleKeepsBooks DEF SameBooks
<1> QED
  BY <1>2, <1>3, <1>4, <1>5 DEF RowOK, CoveredIfOwing, Covered

\* Where recovery of a stalled state leads.
LEMMA RecoverCases ==
  ASSUME NEW r, Recover(r)
  PROVE  \/ /\ Undispatched(store[r]) = {}
            /\ Begin(Recovery, r, Work(FinishRecovery(store[r]), <<>>, <<>>, "end"))
         \/ /\ Fail(store[r], TRUE, renamed).status = "COMPENSATING"
            /\ Begin(Recovery, r, Work(Fail(store[r], TRUE, renamed), <<>>,
                                       Undos(store[r], renamed), "compensate"))
         \/ /\ Fail(store[r], TRUE, renamed).status # "COMPENSATING"
            /\ Begin(Recovery, r, Work(Fail(store[r], TRUE, renamed), <<>>, <<>>, "end"))
         \/ Become(Recovery,
                   [LastSave(r, Attempted(store[r])) EXCEPT !.next = "redispatch"])
<1> DEFINE s == store[r]
           failed == Fail(s, TRUE, renamed)
           k == [LastSave(r, Attempted(s)) EXCEPT !.next = "redispatch"]
<1>1. \A x, y : [Work(x, <<>>, <<>>, "end") EXCEPT !.state = y] = Work(y, <<>>, <<>>, "end")
  BY DEF Work
<1>2. IF Undispatched(s) = {}
      THEN Begin(Recovery, r,
                 [Work(s, <<>>, <<>>, "end") EXCEPT !.state = FinishRecovery(s)])
      ELSE IF RetriesExhausted(s)
      THEN IF failed.status = "COMPENSATING"
           THEN Begin(Recovery, r, Work(failed, <<>>, Undos(s, renamed), "compensate"))
           ELSE Begin(Recovery, r, [Work(s, <<>>, <<>>, "end") EXCEPT !.state = failed])
      ELSE Become(Recovery, k)
  BY Zenon DEF Recover
<1> HIDE DEF failed, k, s
<1>3. \/ /\ Undispatched(s) = {}
         /\ Begin(Recovery, r, Work(FinishRecovery(s), <<>>, <<>>, "end"))
      \/ /\ failed.status = "COMPENSATING"
         /\ Begin(Recovery, r, Work(failed, <<>>, Undos(s, renamed), "compensate"))
      \/ /\ failed.status # "COMPENSATING"
         /\ Begin(Recovery, r, Work(failed, <<>>, <<>>, "end"))
      \/ Become(Recovery, k)
  BY <1>1, <1>2
<1> QED
  BY <1>3 DEF failed, k, s

LEMMA RecoverKeeps ==
  ASSUME BooksInv, NEW r \in DOMAIN store, Recover(r)
  PROVE  BooksInv'
<1> DEFINE s == store[r]
           failed == Fail(s, TRUE, renamed)
           k == [LastSave(r, Attempted(s)) EXCEPT !.next = "redispatch"]
<1>1. /\ done' = done /\ done' \in [Command -> Nat] /\ Kept(done, done')
      /\ store' = store /\ Recovery \in Task
  BY NothingDone DEF Recover, BooksInv, Task, counters
<1>2. IsState(s) /\ CoveredIfOwing(s, done) /\ Owes(s)
  BY DEF BooksInv, RowOK, Recover, IsStalled, IsTerminal, Owes
<1>3. Covered(s, {}, done')
  BY <1>1, <1>2 DEF CoveredIfOwing
<1>4. \/ /\ Undispatched(s) = {}
         /\ Begin(Recovery, r, Work(FinishRecovery(s), <<>>, <<>>, "end"))
      \/ Begin(Recovery, r, Work(failed, <<>>, Undos(s, renamed), "compensate"))
      \/ /\ failed.status # "COMPENSATING"
         /\ Begin(Recovery, r, Work(failed, <<>>, <<>>, "end"))
      \/ Become(Recovery, k)
  BY RecoverCases
<1>5. IsState(failed) /\ failed.status \in {"COMPENSATING", "FAILED"}
  <2>1. failed.status \in {"COMPENSATING", "FAILED"}
    BY <1>2 DEF Fail, IsState
  <2> QED
    BY <1>2, <2>1, LifecycleKeepsBooks
<1> HIDE DEF failed, s
<1>6. ASSUME NEW w, WorkOK(w, done'), Begin(Recovery, r, w)
      PROVE  BooksInv'
  <2>1. PICK m : task' = [task EXCEPT ![Recovery] = m] /\ (m = NoTask \/ TaskOK(m, done'))
    BY <1>1, <1>6, BeginOK
  <2> QED
    BY <1>1, <2>1, TaskStep DEF Become
<1>7. CASE /\ Undispatched(s) = {}
           /\ Begin(Recovery, r, Work(FinishRecovery(s), <<>>, <<>>, "end"))
  <2>1. RowOK(FinishRecovery(s), done')
    BY <1>2, <1>3, <1>7, FinishRecoveryOK
  <2>2. WorkOK(Work(FinishRecovery(s), <<>>, <<>>, "end"), done')
    BY <2>1 DEF WorkOK, Work, RowOK
  <2> QED
    BY <1>6, <1>7, <2>2
<1>8. CASE Begin(Recovery, r, Work(failed, <<>>, Undos(s, renamed), "compensate"))
  <2>1. WorkOK(Work(failed, <<>>, Undos(s, renamed), "compensate"), done')
    BY <1>5 DEF WorkOK, Work
  <2> QED
    BY <1>6, <1>8, <2>1
<1>9. CASE /\ failed.status # "COMPENSATING"
           /\ Begin(Recovery, r, Work(failed, <<>>, <<>>, "end"))
  <2>1. WorkOK(Work(failed, <<>>, <<>>, "end"), done')
    BY <1>5, <1>9 DEF WorkOK, Work, CoveredIfOwing, Owes
  <2> QED
    BY <1>6, <1>9, <2>1
<1>10. CASE Become(Recovery, k)
  <2>1. IsState(Attempted(s)) /\ SameBooks(s, Attempted(s))
    BY <1>2, LifecycleKeepsBooks
  <2>2. Covered(Attempted(s), {}, done')
    BY <1>3, <2>1 DEF Covered, SameBooks
  <2>3. /\ DOMAIN k = {"at", "next", "row", "state", "forward", "undo", "sent"}
        /\ k.at = "save" /\ k.next = "redispatch" /\ k.state = Attempted(s)
        /\ k.forward = <<>>
    BY DEF LastSave
  <2> HIDE DEF k
  <2>4. k.forward \in Seq(Command)
    BY <2>3
  <2>5. TaskOK(k, done')
    BY <2>1, <2>2, <2>3, <2>4 DEF TaskOK, TaskFields, IsSaving, Place, Next_
  <2> QED
    BY <1>1, <1>10, <2>5, TaskStep
<1> QED
  BY <1>4, <1>7, <1>8, <1>9, <1>10

\* The pending command recovery sends next.
LEMMA FirstUndispatched ==
  ASSUME NEW s, IsState(s), Undispatched(s) # {}
  PROVE  (CHOOSE j \in Undispatched(s) : \A k \in Undispatched(s) : j <= k)
            \in Undispatched(s)
<1> DEFINE R == OpToRel(<, Nat)
           D == Undispatched(s)
<1>1. D \subseteq Nat /\ D # {}
  BY DEF Undispatched, IsState
<1> HIDE DEF D
<1>2. PICK x \in D : \A y \in D : ~(<<y, x>> \in R)
  <2> HIDE DEF R
  <2>1. IsWellFoundedOn(R, Nat)
    BY NatLessThanWellFounded DEF R
  <2> QED
    BY <1>1, <2>1, WFMin
<1>3. \A y \in D : ~(y < x)
  BY <1>1, <1>2 DEF OpToRel
<1>4. \A y \in D : x <= y
  <2> HIDE DEF R
  <2> QED
    BY <1>1, <1>3
<1>5. (CHOOSE j \in D : \A k \in D : j <= k) \in D
  BY <1>4
<1> QED
  BY <1>5 DEF D

LEMMA RedispatchCases ==
  ASSUME NEW m, m = task[Recovery], IsState(m.state), Redispatch
  PROVE  /\ UNCHANGED <<atOnce, store, renamed, undone, logged, deliveries, sweeps, stops>>
         /\ m # NoTask /\ m.at = "redispatch"
         /\ \/ /\ Undispatched(m.state) = {} /\ UNCHANGED <<done, unsure>>
               /\ Become(Recovery, LastSave(m.row, FinishRecovery(m.state)))
            \/ /\ UNCHANGED <<done, unsure>>
               /\ \E i \in Undispatched(m.state) :
                     Become(Recovery, LastSave(m.row, SuspendForHydration(m.state, i)))
            \/ \E i \in Undispatched(m.state) :
                  /\ ForwardReturned(m.state.pending[i].of)
                  /\ Become(Recovery, Saving(m,
                        [m.state EXCEPT !.pending[i].dispatched = TRUE], "redispatch"))
            \/ \E i \in Undispatched(m.state) :
                  /\ ForwardRaised(m.state.pending[i].of)
                  /\ Become(Recovery, LastSave(m.row, m.state))
<1> DEFINE s == m.state
           i == CHOOSE j \in Undispatched(s) : \A l \in Undispatched(s) : j <= l
<1>1. Undispatched(s) # {} => i \in Undispatched(s)
  BY FirstUndispatched
<1>2. /\ UNCHANGED <<atOnce, store, renamed, logged, deliveries, sweeps, stops>>
      /\ m # NoTask /\ m.at = "redispatch"
  BY DEF Redispatch, At, Busy
<1>3. \/ /\ Undispatched(s) = {} /\ UNCHANGED <<done, undone, unsure>>
         /\ Become(Recovery, LastSave(m.row, FinishRecovery(s)))
      \/ /\ Undispatched(s) # {}
         /\ \/ /\ Become(Recovery, LastSave(m.row, SuspendForHydration(s, i)))
               /\ UNCHANGED <<done, undone, unsure>>
            \/ /\ Returns(s.pending[i].of, TRUE)
               /\ Become(Recovery,
                     Saving(m, [s EXCEPT !.pending[i].dispatched = TRUE], "redispatch"))
            \/ Raises(s.pending[i].of, TRUE) /\ Become(Recovery, LastSave(m.row, s))
  BY DEF Redispatch
<1> HIDE DEF i
<1>4. /\ Returns(s.pending[i].of, TRUE) => ForwardReturned(s.pending[i].of)
      /\ Raises(s.pending[i].of, TRUE) => ForwardRaised(s.pending[i].of)
  BY DispatchOutcomes
<1>5. ForwardReturned(s.pending[i].of) \/ ForwardRaised(s.pending[i].of) => UNCHANGED undone
  BY DEF ForwardReturned, ForwardRaised
<1> QED
  BY <1>1, <1>2, <1>3, <1>4, <1>5

LEMMA RedispatchKeeps ==
  ASSUME BooksInv, Redispatch
  PROVE  BooksInv'
<1> DEFINE m == task[Recovery]
           s == m.state
<1>1. /\ m.at = "redispatch" /\ TaskOK(m, done) /\ store' = store
      /\ done \in [Command -> Nat] /\ Recovery \in Task
  BY DEF Redispatch, At, Busy, BooksInv, Task
<1>2. TaskFields(m) /\ IsState(s) /\ Covered(s, {}, done)
  BY <1>1 DEF TaskOK, TaskFields
<1>3. ASSUME NEW x, RowOK(x, done), UNCHANGED done, Become(Recovery, LastSave(m.row, x))
      PROVE  BooksInv'
  BY <1>1, <1>3, LastSaveOK, TaskStep, NothingDone
<1>4. \/ /\ Undispatched(s) = {} /\ UNCHANGED done
         /\ Become(Recovery, LastSave(m.row, FinishRecovery(s)))
      \/ /\ UNCHANGED done
         /\ \E i \in Undispatched(s) :
               Become(Recovery, LastSave(m.row, SuspendForHydration(s, i)))
      \/ \E i \in Undispatched(s) :
            /\ ForwardReturned(s.pending[i].of)
            /\ Become(Recovery,
                  Saving(m, [s EXCEPT !.pending[i].dispatched = TRUE], "redispatch"))
      \/ \E i \in Undispatched(s) :
            /\ ForwardRaised(s.pending[i].of)
            /\ Become(Recovery, LastSave(m.row, s))
  BY <1>2, RedispatchCases
<1>5. CASE /\ Undispatched(s) = {} /\ UNCHANGED done
           /\ Become(Recovery, LastSave(m.row, FinishRecovery(s)))
  BY <1>2, <1>3, <1>5, FinishRecoveryOK
<1>6. CASE UNCHANGED done /\ \E i \in Undispatched(s) :
              Become(Recovery, LastSave(m.row, SuspendForHydration(s, i)))
  <2>1. PICK i \in Undispatched(s) :
           Become(Recovery, LastSave(m.row, SuspendForHydration(s, i)))
    BY <1>6
  <2>2. i \in DOMAIN s.pending
    BY DEF Undispatched
  <2>3. IsState(SuspendForHydration(s, i)) /\ SameBooks(s, SuspendForHydration(s, i))
    BY <1>2, <2>2, HydrationKeepsBooks
  <2>4. RowOK(SuspendForHydration(s, i), done)
    BY <1>2, <2>3 DEF RowOK, CoveredIfOwing, Covered, SameBooks
  <2> QED
    BY <1>3, <1>6, <2>1, <2>4
<1>7. CASE \E i \in Undispatched(s) :
              /\ ForwardReturned(s.pending[i].of)
              /\ Become(Recovery,
                    Saving(m, [s EXCEPT !.pending[i].dispatched = TRUE], "redispatch"))
  <2>0. PICK i \in Undispatched(s) :
              /\ ForwardReturned(s.pending[i].of)
              /\ Become(Recovery,
                    Saving(m, [s EXCEPT !.pending[i].dispatched = TRUE], "redispatch"))
    BY <1>7
  <2>1. i \in DOMAIN s.pending
    BY DEF Undispatched
  <2> DEFINE z == [s EXCEPT !.pending[i].dispatched = TRUE]
             k == Saving(m, z, "redispatch")
  <2>2. s.pending[i].of \in Command
    <3>1. s.pending[i] \in Entry
      BY <1>2, <2>1 DEF IsState
    <3> QED
      BY <3>1 DEF Entry, Command
  <2>3. done' \in [Command -> Nat] /\ Kept(done, done') /\ done'[s.pending[i].of] > 0
    BY <1>1, <2>0, <2>2, DoneKeeps DEF ForwardReturned
  <2>4. IsState(z) /\ Covered(z, {}, done')
    <3>1. z = [s EXCEPT !.pending[i].dispatched = TRUE]
      OBVIOUS
    <3> HIDE DEF z, s
    <3> QED
      BY <1>2, <2>1, <2>3, <3>1, DispatchedCovers
  <2> HIDE DEF z
  <2>5. /\ DOMAIN k = DOMAIN m /\ k.at = "save" /\ k.next = "redispatch"
        /\ k.state = z /\ k.forward = m.forward
    BY <1>2 DEF TaskFields, Saving
  <2>6. Become(Recovery, k)
    BY <2>0 DEF z
  <2> HIDE DEF k
  <2>7. TaskOK(k, done')
    BY <1>2, <2>4, <2>5 DEF TaskOK, TaskFields, IsSaving, Place, Next_
  <2> QED
    BY <1>1, <2>3, <2>6, <2>7, TaskStep
<1>8. CASE \E i \in Undispatched(s) :
              ForwardRaised(s.pending[i].of) /\ Become(Recovery, LastSave(m.row, s))
  <2>0. PICK i \in Undispatched(s) :
              ForwardRaised(s.pending[i].of) /\ Become(Recovery, LastSave(m.row, s))
    BY <1>8
  <2>1. s.pending[i].of \in Command
    <3>1. s.pending[i] \in Entry
      BY <1>2 DEF IsState, Undispatched
    <3> QED
      BY <3>1 DEF Entry, Command
  <2>2. done' \in [Command -> Nat] /\ Kept(done, done')
    BY <1>1, <2>0, <2>1, DispatchKeeps
  <2>3. RowOK(s, done)
    BY <1>2 DEF RowOK, CoveredIfOwing
  <2>4. RowOK(s, done')
    BY <2>2, <2>3, BooksLast
  <2> QED
    BY <1>1, <2>0, <2>2, <2>4, LastSaveOK, TaskStep
<1> QED
  BY <1>4, <1>5, <1>6, <1>7, <1>8

LEMMA ExpireKeeps ==
  ASSUME BooksInv, NEW r \in DOMAIN store, Expire(r)
  PROVE  BooksInv'
<1>1. /\ done' = done /\ done' \in [Command -> Nat] /\ Kept(done, done')
      /\ store' = store /\ Timeouts \in Task
  BY NothingDone DEF Expire, BooksInv, Task
<1>2. IsState(store[r]) /\ Covered(store[r], {}, done')
  BY <1>1 DEF BooksInv, RowOK, CoveredIfOwing, Owes, Expire
<1>3. PICK w \in TimeOut(store[r], renamed) : Begin(Timeouts, r, w)
  BY DEF Expire
<1>4. WorkOK(w, done')
  BY <1>2, TimedOutWork
<1>5. PICK m : task' = [task EXCEPT ![Timeouts] = m] /\ (m = NoTask \/ TaskOK(m, done'))
  BY <1>1, <1>3, <1>4, BeginOK
<1> QED
  BY <1>1, <1>5, TaskStep DEF Become

LEMMA SendUnsavedCases ==
  ASSUME NEW m, m = task[Timeouts], SendUnsaved
  PROVE  /\ UNCHANGED <<atOnce, store, renamed, deliveries, sweeps, stops>>
         /\ m # NoTask /\ m.at = "unsaved"
         /\ \/ /\ m.forward = <<>> /\ DOMAIN m.undo = {}
               /\ Become(Timeouts, LastSave(m.row, m.state))
               /\ UNCHANGED <<done, undone, logged, unsure>>
            \/ /\ m.forward # <<>> /\ UNCHANGED logged
               /\ ForwardReturned(Head(m.forward)) \/ ForwardRaised(Head(m.forward))
               /\ Become(Timeouts, AfterForward(m))
            \/ /\ m.forward = <<>> /\ DOMAIN m.undo # {}
               /\ \/ /\ UndoReturned(m.undo[NextUndo(m.undo)])
                     /\ UNCHANGED logged
                  \/ /\ UndoRaised(m.undo[NextUndo(m.undo)])
                     /\ logged' = logged \cup {m.undo[NextUndo(m.undo)]}
               /\ Become(Timeouts, AfterUndo(m))
<1> DEFINE i == NextUndo(m.undo)
           forward == m.forward # <<>>
           first == IF forward THEN Head(m.forward) ELSE m.undo[i]
           rest == IF forward THEN [m EXCEPT !.forward = Tail(@)]
                   ELSE [m EXCEPT !.undo = Restrict(@, DOMAIN @ \ {i})]
<1>1. IF m.forward = <<>> /\ DOMAIN m.undo = {}
      THEN /\ Become(Timeouts, LastSave(m.row, m.state))
           /\ UNCHANGED <<done, undone, logged, refusals, unsure>>
      ELSE /\ Become(Timeouts, rest)
           /\ \/ Returns(first, forward) /\ UNCHANGED logged
              \/ /\ Raises(first, forward)
                 /\ logged' = IF forward THEN logged ELSE logged \cup {first}
  BY Zenon DEF SendUnsaved
<1>2. /\ UNCHANGED <<atOnce, store, renamed, deliveries, sweeps, stops>>
      /\ m # NoTask /\ m.at = "unsaved"
  BY DEF SendUnsaved, At, Busy
<1>3. /\ forward => first = Head(m.forward) /\ rest = AfterForward(m)
      /\ ~forward => first = m.undo[NextUndo(m.undo)] /\ rest = AfterUndo(m)
  BY DEF AfterForward, AfterUndo
<1>4. CASE m.forward # <<>>
  <2>1. forward = TRUE
    BY <1>4
  <2> HIDE DEF first, rest, forward
  <2>2. /\ Returns(first, TRUE) => ForwardReturned(first)
        /\ Raises(first, TRUE) => ForwardRaised(first)
    BY DispatchOutcomes
  <2> QED
    BY <1>1, <1>2, <1>3, <1>4, <2>1, <2>2
<1>5. CASE m.forward = <<>>
  <2>1. forward = FALSE
    BY <1>5
  <2> HIDE DEF first, rest, forward
  <2>2. /\ Returns(first, FALSE) => UndoReturned(first)
        /\ Raises(first, FALSE) => UndoRaised(first)
    BY DispatchOutcomes
  <2> QED
    BY <1>1, <1>2, <1>3, <1>5, <2>1, <2>2
<1> QED
  BY <1>4, <1>5

LEMMA SendUnsavedKeeps ==
  ASSUME BooksInv, SendUnsaved
  PROVE  BooksInv'
<1> DEFINE m == task[Timeouts]
<1>1. /\ m.at = "unsaved" /\ TaskOK(m, done) /\ store' = store
      /\ done \in [Command -> Nat] /\ Timeouts \in Task
  BY DEF SendUnsaved, At, Busy, BooksInv, Task
<1>2. TaskFields(m) /\ CoveredIfOwing(m.state, done) /\ m.next = "end"
  BY <1>1 DEF TaskOK
<1>3. RowOK(m.state, done)
  BY <1>2 DEF RowOK, TaskFields
<1>4. ASSUME NEW k, k \in {AfterForward(m), AfterUndo(m)}, k.forward \in Seq(Command),
             Become(Timeouts, k), done' \in [Command -> Nat], Kept(done, done')
      PROVE  BooksInv'
  <2>1. /\ DOMAIN k = DOMAIN m /\ k.at = "unsaved" /\ k.next = "end"
        /\ k.state = m.state
    BY <1>1, <1>2, <1>4, CompensateFields
  <2>2. CoveredIfOwing(m.state, done')
    BY <1>3, <1>4, BooksLast DEF RowOK
  <2>3. TaskOK(k, done')
    BY <1>2, <1>4, <2>1, <2>2 DEF TaskOK, TaskFields, IsSaving, Place
  <2> QED
    BY <1>1, <1>4, <2>3, TaskStep
<1>5. CASE Become(Timeouts, LastSave(m.row, m.state)) /\ UNCHANGED done
  BY <1>1, <1>3, <1>5, LastSaveOK, TaskStep, NothingDone
<1>6. CASE /\ m.forward # <<>> /\ Become(Timeouts, AfterForward(m))
           /\ ForwardReturned(Head(m.forward)) \/ ForwardRaised(Head(m.forward))
  <2>1. Head(m.forward) \in Command /\ Tail(m.forward) \in Seq(Command)
    BY <1>2, <1>6 DEF TaskFields
  <2>2. done' \in [Command -> Nat] /\ Kept(done, done')
    BY <1>1, <1>6, <2>1, DispatchKeeps
  <2>3. AfterForward(m).forward = Tail(m.forward)
    BY <1>2, CompensateFields
  <2> QED
    BY <1>4, <1>6, <2>1, <2>2, <2>3
<1>7. CASE Become(Timeouts, AfterUndo(m)) /\ UNCHANGED done
  <2>1. AfterUndo(m).forward \in Seq(Command)
    BY <1>2, CompensateFields DEF TaskFields
  <2>2. done' \in [Command -> Nat] /\ Kept(done, done')
    BY <1>1, <1>7, NothingDone
  <2> QED
    BY <1>4, <1>7, <2>1, <2>2
<1> QED
  BY <1>5, <1>6, <1>7, SendUnsavedCases DEF UndoReturned, UndoRaised

LEMMA RestartKeeps ==
  ASSUME BooksInv, NEW u, Restart(u)
  PROVE  BooksInv'
<1>1. UNCHANGED <<store, done>> /\ task' = [t \in Task |-> NoTask]
  BY DEF Restart
<1> QED
  BY <1>1 DEF BooksInv

LEMMA BooksStep ==
  ASSUME BooksInv, [Next]_vars
  PROVE  BooksInv'
<1>1. CASE \E e \in Event : Deliver(e) \/ Create(e)
  BY <1>1, DeliverStep, CreateKeeps
<1>2. CASE \E t \in Task : Save(t) \/ Send(t) \/ MarkFails(t) \/ Compensate(t)
  BY <1>2, SaveKeeps, SendKeeps, MarkFailsKeeps, CompensateKeeps
<1>3. CASE \E t \in Task : Stop(t)
  <2>1. PICK t \in Task : Stop(t)
    BY <1>3
  <2>2. Become(t, NoTask) /\ UNCHANGED <<store, done>>
    BY <2>1 DEF Stop, End
  <2>3. done' \in [Command -> Nat] /\ Kept(done, done')
    BY <2>2, NothingDone DEF BooksInv
  <2> QED
    BY <2>2, <2>3, TaskStep
<1>4. CASE \E r \in DOMAIN store : Recover(r) \/ Expire(r)
  BY <1>4, RecoverKeeps, ExpireKeeps
<1>5. CASE Redispatch \/ SendUnsaved
  BY <1>5, RedispatchKeeps, SendUnsavedKeeps
<1>6. CASE \E unknown \in SUBSET Event : Restart(unknown)
  BY <1>6, RestartKeeps
<1>7. CASE UNCHANGED vars
  BY <1>7 DEF BooksInv, vars, counters
<1> QED
  BY <1>1, <1>2, <1>3, <1>4, <1>5, <1>6, <1>7 DEF Next

-----------------------------------------------------------------------------
(* The theorem.                                                            *)

\* No command of a saga under way is lost: of every event its saved state
\* counts as processed the command was carried out, or is pending in that
\* state for the recovery sweep, however tasks overlap, dispatches are refused
\* or raise after their effect, saves raise and processes end between the
\* calls of SagaManager.
THEOREM NoLiveCommandIsLost == Spec => []CommandsAccountedFor
<1>1. Init => BooksInv
  BY BooksInit
<1>2. BooksInv /\ [Next]_vars => BooksInv'
  BY BooksStep
<1>3. BooksInv => CommandsAccountedFor
  BY DEF BooksInv, RowOK, CoveredIfOwing, Covered, Owes, IsTerminal, CommandsAccountedFor
<1> QED
  BY <1>1, <1>2, <1>3, PTL DEF Spec
-----------------------------------------------------------------------------
(* Types.  The undos of a compensation are finitely many, at places of the *)
(* stack they were taken from.                                             *)

IsUndos(undo) ==
    /\ \E n \in Nat : DOMAIN undo \subseteq 1..n
    /\ undo \in [DOMAIN undo -> Event]

IsMemory(m) ==
    /\ m \in [at : Place, next : Next_, row : Nat, state : State,
              forward : Seq(Command), undo : {m.undo}, sent : Nat]
    /\ IsUndos(m.undo)

IsWork(w) ==
    /\ w \in [state : State, forward : Seq(Command), undo : {w.undo},
              path : {"skip", "end", "forward", "compensate", "raised",
                      "failed", "unsaved"}]
    /\ IsUndos(w.undo)

LEMMA StateIsState ==
  ASSUME NEW s \in State
  PROVE  IsState(s)
  BY DEF State, IsState

LEMMA NoUndos == IsUndos(<<>>)
  BY DEF IsUndos

LEMMA LifecycleTypes ==
  ASSUME NEW s \in State, NEW b \in BOOLEAN, NEW u
  PROVE  /\ Complete(s) \in State
         /\ Suspend(s, b) \in State
         /\ Resume(s) \in State
         /\ Fail(s, b, u) \in State
         /\ Stalled(s) \in State
         /\ Attempted(s) \in State
         /\ Settled(s) \in State
         /\ [s EXCEPT !.status = "FAILED"] \in State
<1>1. <<>> \in Seq(Event)
  OBVIOUS
<1>12. s.retries + 1 \in Nat
  <2>1. s.retries \in Nat
    BY DEF State
  <2> QED
    BY <2>1
<1>2. Complete(s) \in State
  BY <1>1 DEF Complete, State, Status
<1>3. Suspend(s, b) \in State
  BY DEF Suspend, State, Status
<1>4. Resume(s) \in State
  BY DEF Resume, State, Status
<1>5. Fail(s, b, u) \in State
  <2>1. ToSet(s.stack) \subseteq Event
    BY DEF ToSet, State
  <2>2. s.failed \cup (ToSet(s.stack) \cap u) \subseteq Event \cup {Nudge}
    BY <2>1 DEF State
  <2> HIDE DEF ToSet
  <2> QED
    BY <1>1, <2>2 DEF Fail, State, Status
<1>6. Stalled(s) \in State
  <2>1. Suspend(s, FALSE) \in State /\ Suspend(s, FALSE).retries = s.retries
    BY DEF Suspend, State, Status
  <2>2. Stalled(s) = [Suspend(s, FALSE) EXCEPT !.retries = s.retries + 1]
    BY <2>1 DEF Stalled
  <2> HIDE DEF Suspend
  <2> QED
    BY <1>12, <2>1, <2>2 DEF State
<1>7. Attempted(s) \in State
  BY <1>12 DEF Attempted, State
<1>8. Settled(s) \in State
  BY DEF Settled, State, Status
<1>9. [s EXCEPT !.status = "FAILED"] \in State
  BY DEF State, Status
<1> QED
  BY <1>2, <1>3, <1>4, <1>5, <1>6, <1>7, <1>8, <1>9

LEMMA StepTypes ==
  ASSUME NEW s \in State, NEW e \in Event
  PROVE  Begun(s, e) \in State /\ Registered(s, e) \in State
<1>1. Append(s.stack, e) \in Seq(Event)
  BY DEF State
<1>2. Begun(s, e) \in State /\ Begun(s, e).stack = s.stack
  BY DEF Begun, State, Status
<1>3. [Begun(s, e) EXCEPT !.stack = Append(s.stack, e)] \in State
  BY <1>1, <1>2 DEF State
<1> QED
  BY <1>2, <1>3 DEF Registered

\* A change of the pending commands alone.
LEMMA PendingTypes ==
  ASSUME NEW s \in State, NEW p \in Seq(Entry)
  PROVE  [s EXCEPT !.pending = p] \in State
  BY DEF State

LEMMA EntryTypes ==
  ASSUME NEW s \in State, NEW i \in DOMAIN s.pending
  PROVE  /\ [s EXCEPT !.pending[i].marked = TRUE] \in State
         /\ [s EXCEPT !.pending[i].dispatched = TRUE] \in State
         /\ s.pending[i].of \in Event
<1>1. s.pending \in Seq(Entry) /\ s.pending[i] \in Entry
  BY DEF State
<1>2. /\ [s.pending[i] EXCEPT !.marked = TRUE] \in Entry
      /\ [s.pending[i] EXCEPT !.dispatched = TRUE] \in Entry
  BY <1>1, EntryFields
<1>3. \A x \in Entry : [s.pending EXCEPT ![i] = x] \in Seq(Entry)
  BY <1>1
<1>4. \A x \in Entry : [s EXCEPT !.pending = [s.pending EXCEPT ![i] = x]] \in State
  BY <1>3, PendingTypes
<1> QED
  BY <1>1, <1>2, <1>4 DEF Entry

LEMMA ClearMarksType ==
  ASSUME NEW s \in State
  PROVE  ClearMarks(s) \in State
<1> DEFINE cleared == [i \in DOMAIN s.pending |-> [s.pending[i] EXCEPT !.marked = FALSE]]
<1>1. /\ s.pending \in Seq(Entry) /\ DOMAIN s.pending = 1..Len(s.pending)
      /\ Len(s.pending) \in Nat
  BY DEF State
<1>2. ASSUME NEW i \in DOMAIN s.pending
      PROVE  [s.pending[i] EXCEPT !.marked = FALSE] \in Entry
  <2>1. s.pending[i] \in Entry
    BY <1>1
  <2> QED
    BY <2>1, EntryFields
<1>3. cleared \in [1..Len(s.pending) -> Entry]
  BY <1>1, <1>2
<1>4. cleared \in Seq(Entry)
  <2> HIDE DEF cleared
  <2> QED
    BY <1>1, <1>3
<1>5. ClearMarks(s) = [s EXCEPT !.pending = cleared]
  BY DEF ClearMarks
<1> HIDE DEF cleared
<1> QED
  BY <1>4, <1>5, PendingTypes

LEMMA HydrationType ==
  ASSUME NEW s \in State, NEW i \in DOMAIN s.pending
  PROVE  SuspendForHydration(s, i) \in State
<1> DEFINE Flag(t) == [t EXCEPT !.pending[i].marked = TRUE]
<1>1. Suspend(s, FALSE) \in State /\ Suspend(s, FALSE).pending = s.pending
  <2>1. Suspend(s, FALSE) \in State
    BY DEF Suspend, State, Status
  <2> QED
    BY <2>1 DEF Suspend, State
<1>2. \A t \in State : ClearMarks(t) \in State /\ DOMAIN ClearMarks(t).pending = DOMAIN t.pending
  <2> SUFFICES ASSUME NEW t \in State
               PROVE  ClearMarks(t) \in State /\ DOMAIN ClearMarks(t).pending = DOMAIN t.pending
    OBVIOUS
  <2>1. ClearMarks(t) \in State
    BY ClearMarksType
  <2>2. DOMAIN ClearMarks(t).pending = DOMAIN t.pending
    BY DEF ClearMarks, State
  <2> QED
    BY <2>1, <2>2
<1>3. \A t \in State : i \in DOMAIN t.pending => Flag(t) \in State
  BY EntryTypes
<1>4. SuspendForHydration(s, i) \in
         {Flag(ClearMarks(Suspend(s, FALSE))), Flag(ClearMarks(s)), s}
  BY DEF SuspendForHydration
<1> HIDE DEF Flag
<1> QED
  BY <1>1, <1>2, <1>3, <1>4

LEMMA FinishRecoveryType ==
  ASSUME NEW s \in State
  PROVE  FinishRecovery(s) \in State
<1> DEFINE c == [s EXCEPT !.pending = <<>>, !.retries = 0]
<1>1. <<>> \in Seq(Entry)
  OBVIOUS
<1>2. c \in State
  BY <1>1 DEF State
<1>3. FinishRecovery(s) \in {c, Resume(c)}
  BY DEF FinishRecovery
<1> HIDE DEF c
<1> QED
  BY <1>2, <1>3, LifecycleTypes

LEMMA BatchTypes ==
  ASSUME NEW s \in State, NEW e \in Event
  PROVE  /\ Pended(s, <<e>>) \in State
         /\ s.pending # <<>> => BatchCleared(s, 1) \in State
<1>1. IsState(Pended(s, <<e>>)) /\ (s.pending # <<>> => IsState(BatchCleared(s, 1)))
  <2>1. IsState(s)
    BY StateIsState
  <2>2. IsState(Pended(s, <<e>>))
    <3> DEFINE c == [x \in Event |-> 1]
    <3>1. Covered(s, {e}, c)
      BY <2>1 DEF Covered, IsState
    <3> HIDE DEF c
    <3> QED
      BY <2>1, <3>1, PendedCovers
  <2>3. ASSUME s.pending # <<>> PROVE IsState(BatchCleared(s, 1))
    <3> DEFINE n == Len(s.pending)
    <3>1. s.pending \in Seq(Entry) /\ n \in Nat \ {0}
      BY <2>1, <2>3 DEF IsState
    <3>2. SubSeq(s.pending, 1, n - 1) \in Seq(Entry)
      BY <3>1
    <3>3. BatchCleared(s, 1) = [s EXCEPT !.pending = SubSeq(s.pending, 1, n - 1)]
      BY DEF BatchCleared
    <3> HIDE DEF n
    <3> QED
      BY <3>2, <3>3, PendingTypes, StateIsState
  <2> QED
    BY <2>2, <2>3
<1>2. \A p : IsState([s EXCEPT !.pending = p]) => [s EXCEPT !.pending = p] \in State
  BY DEF IsState, State
<1>3. /\ \E p : Pended(s, <<e>>) = [s EXCEPT !.pending = p]
      /\ \E p : BatchCleared(s, 1) = [s EXCEPT !.pending = p]
  BY DEF Pended, BatchCleared
<1> QED
  BY <1>1, <1>2, <1>3

LEMMA UndosType ==
  ASSUME NEW s \in State, NEW u
  PROVE  /\ IsUndos(Undos(s, u))
         /\ DOMAIN Undos(s, u) = {j \in DOMAIN s.stack : s.stack[j] \notin u}
         /\ \A i \in DOMAIN Undos(s, u) : Undos(s, u)[i] = s.stack[i]
<1>1. /\ DOMAIN s.stack = 1..Len(s.stack) /\ Len(s.stack) \in Nat
      /\ \A i \in DOMAIN s.stack : s.stack[i] \in Event
  BY DEF State
<1> QED
  BY <1>1 DEF Undos, IsUndos

\* The place of the undo to send next is the last one.
LEMMA NextUndoIsLast ==
  ASSUME NEW undo, IsUndos(undo), DOMAIN undo # {}
  PROVE  /\ NextUndo(undo) \in DOMAIN undo
         /\ \A j \in DOMAIN undo : j <= NextUndo(undo)
<1> DEFINE D == DOMAIN undo
           R == OpToRel(<, Nat)
<1>1. PICK n \in Nat : D \subseteq 1..n
  BY DEF IsUndos
<1> DEFINE B == {n - j : j \in D}
<1>2. B \subseteq Nat /\ B # {}
  BY <1>1
<1>3. PICK x \in B : \A y \in B : ~(<<y, x>> \in R)
  <2> HIDE DEF R, B
  <2>1. IsWellFoundedOn(R, Nat)
    BY NatLessThanWellFounded DEF R
  <2> QED
    BY <1>2, <2>1, WFMin
<1>4. \A y \in B : ~(y < x)
  BY <1>2, <1>3 DEF OpToRel
<1>5. PICK i \in D : x = n - i
  BY <1>3
<1>6. \A j \in D : i >= j
  <2> SUFFICES ASSUME NEW j \in D PROVE i >= j
    OBVIOUS
  <2>1. n - j \in B
    OBVIOUS
  <2>2. ~(n - j < n - i)
    BY <1>4, <1>5, <2>1
  <2>3. i \in Nat /\ j \in Nat
    BY <1>1
  <2> QED
    BY <2>2, <2>3
<1> HIDE DEF D
<1>7. NextUndo(undo) = CHOOSE l \in D : \A j \in D : l >= j
  BY DEF NextUndo, Max, D
<1>8. NextUndo(undo) \in D /\ \A j \in D : NextUndo(undo) >= j
  BY <1>6, <1>7
<1>9. D \subseteq Nat
  BY <1>1
<1> QED
  BY <1>8, <1>9 DEF D

LEMMA StepEndsType ==
  ASSUME NEW s \in State, NEW e \in Event, NEW u, NEW w \in StepEnds(s, e, u)
  PROVE  IsWork(w)
<1> DEFINE r == Registered(s, e)
           f == Fail(r, TRUE, u)
           states == {r, Complete(r), Suspend(r, TRUE), Suspend(r, FALSE), f}
<1>1. r \in State
  BY StepTypes
<1>2. states \subseteq State
  <2> HIDE DEF r
  <2> QED
    BY <1>1, LifecycleTypes
<1>3. \E t \in states, undo \in {<<>>, Undos(r, u)}, p \in {"forward", "compensate"} :
         w = Work(t, <<e>>, undo, p)
  <2>1. w \in {Work(r, <<e>>, <<>>, "forward"), Work(Complete(r), <<e>>, <<>>, "forward"),
               Work(Suspend(r, TRUE), <<e>>, <<>>, "forward"),
               Work(Suspend(r, FALSE), <<e>>, <<>>, "forward"),
               Work(f, <<e>>, Undos(r, u), "compensate"), Work(f, <<e>>, <<>>, "forward")}
    BY DEF StepEnds
  <2> HIDE DEF r, f
  <2> QED
    BY <2>1
<1>4. \A undo \in {<<>>, Undos(r, u)} : IsUndos(undo)
  <2> HIDE DEF r
  <2>1. IsUndos(Undos(r, u))
    BY <1>1, UndosType
  <2> QED
    BY <2>1, NoUndos
<1>5. <<e>> \in Seq(Command)
  <2>1. e \in Command
    BY DEF Command
  <2> QED
    BY <2>1
<1> HIDE DEF states, r
<1> QED
  BY <1>2, <1>3, <1>4, <1>5 DEF IsWork, Work

LEMMA StepRaisesType ==
  ASSUME NEW s \in State, NEW e \in Event, NEW u, NEW w \in StepRaises(s, e, u)
  PROVE  IsWork(w)
<1> DEFINE Raised(t, queued) ==
              IF t.stack # <<>>
              THEN Work(Fail(t, TRUE, u), <<>>, Undos(t, u), "raised")
              ELSE Work(Fail(t, TRUE, u), queued, <<>>, "failed")
<1>1. <<>> \in Seq(Command) /\ <<e>> \in Seq(Command)
  <2>1. e \in Command
    BY DEF Command
  <2> QED
    BY <2>1
<1>2. ASSUME NEW t \in State, NEW queued \in {<<>>, <<e>>}
      PROVE  IsWork(Raised(t, queued))
  <2>1. Fail(t, TRUE, u) \in State /\ IsUndos(Undos(t, u)) /\ IsUndos(<<>>)
    BY LifecycleTypes, UndosType, NoUndos
  <2> QED
    BY <1>1, <2>1 DEF IsWork, Work
<1>3. Begun(s, e) \in State /\ Registered(s, e) \in State
  BY StepTypes
<1>4. w \in {Raised(Begun(s, e), <<>>), Raised(Begun(s, e), <<e>>),
             Raised(Registered(s, e), <<e>>)}
  BY DEF StepRaises
<1> HIDE DEF Raised
<1> QED
  BY <1>2, <1>3, <1>4

LEMMA MarkedType ==
  ASSUME NEW s \in State, NEW e \in Event, NEW m \in Marked(s, e)
  PROVE  m \in State
<1>1. PICK kept \in SUBSET (s.processed \cup {e}) : m = [s EXCEPT !.processed = kept]
  BY DEF Marked
<1>2. kept \in SUBSET Event
  BY DEF State
<1> QED
  BY <1>1, <1>2 DEF State

LEMMA HandledType ==
  ASSUME NEW s \in State, NEW e \in Event, NEW u, NEW w \in HandleEvent(s, e, u)
  PROVE  IsWork(w)
<1>0. IsUndos(<<>>) /\ <<>> \in Seq(Command)
  BY NoUndos
<1>1. CASE e \in s.processed
  <2>1. w = Work(s, <<>>, <<>>, "forward")
    BY <1>1 DEF HandleEvent
  <2> QED
    BY <1>0, <2>1 DEF IsWork, Work
<1>2. CASE e \notin s.processed
  <2>1. PICK v \in StepEnds(s, e, u) \cup StepRaises(s, e, u) :
           \E m \in Marked(v.state, e) : w = [v EXCEPT !.state = m]
    BY <1>2 DEF HandleEvent
  <2>2. PICK m \in Marked(v.state, e) : w = [v EXCEPT !.state = m]
    BY <2>1
  <2>3. IsWork(v)
    BY StepEndsType, StepRaisesType
  <2>4. m \in State
    BY <2>3, MarkedType DEF IsWork
  <2> QED
    BY <2>2, <2>3, <2>4 DEF IsWork
<1> QED
  BY <1>1, <1>2

LEMMA ProcessedType ==
  ASSUME NEW s \in State, NEW e \in Event, NEW u, NEW w \in ProcessEvent(s, e, u)
  PROVE  IsWork(w)
<1>1. ASSUME NEW t \in State, NEW p \in {"skip", "end"}, w = Work(t, <<>>, <<>>, p)
      PROVE  IsWork(w)
  <2>1. <<>> \in Seq(Command)
    OBVIOUS
  <2> QED
    BY <1>1, <2>1, NoUndos DEF IsWork, Work
<1>2. CASE w \in {Work(s, <<>>, <<>>, "skip"),
                  Work([s EXCEPT !.status = "FAILED"], <<>>, <<>>, "end")}
  <2>1. [s EXCEPT !.status = "FAILED"] \in State
    BY DEF State, Status
  <2> QED
    BY <1>1, <1>2, <2>1
<1>3. CASE w \in HandleEvent(ClearMarks(Resume(s)), e, u) \cup HandleEvent(s, e, u)
  <2>1. ClearMarks(Resume(s)) \in State
    BY LifecycleTypes, ClearMarksType
  <2> QED
    BY <1>3, <2>1, HandledType
<1> QED
  BY <1>2, <1>3 DEF ProcessEvent

LEMMA TimedOutType ==
  ASSUME NEW s \in State, NEW u, NEW w \in TimeOut(s, u)
  PROVE  IsWork(w)
<1> DEFINE f == Fail(s, TRUE, u)
           twice == [f EXCEPT !.status = "FAILED"]
           states == {f, twice, Fail(s, FALSE, u), Complete(s), Resume(s)}
           batches == {<<>>, <<Nudge>>}
<1>1. states \subseteq State
  <2>1. f \in State
    BY LifecycleTypes
  <2>2. twice \in State
    <3> HIDE DEF f
    <3> QED
      BY <2>1, LifecycleTypes
  <2> QED
    BY <2>1, <2>2, LifecycleTypes
<1>2. \A b \in batches : b \in Seq(Command)
  <2>1. Nudge \in Command
    BY DEF Command
  <2>2. <<>> \in Seq(Command) /\ <<Nudge>> \in Seq(Command)
    BY <2>1
  <2> QED
    BY <2>2
<1>3. \A undo \in {<<>>, Undos(s, u)} : IsUndos(undo)
  BY UndosType, NoUndos
<1>4. \E t \in states, b \in batches, undo \in {<<>>, Undos(s, u)},
         p \in {"compensate", "unsaved"} : w = Work(t, b, undo, p)
  <2> DEFINE Failing(queued, sent) ==
                IF f.status = "COMPENSATING"
                THEN Work(f, sent, Undos(s, u), "compensate")
                ELSE Work(f, queued, <<>>, "unsaved")
  <2>1. w \in {Failing(<<>>, <<>>), Failing(<<Nudge>>, <<>>), Failing(<<Nudge>>, <<Nudge>>),
               Work(twice, <<>>, Undos(s, u), "unsaved"),
               Work(Fail(s, FALSE, u), <<>>, <<>>, "unsaved"),
               Work(Complete(s), <<Nudge>>, <<>>, "unsaved"),
               Work(Resume(s), <<>>, <<>>, "unsaved"),
               Work(Resume(s), <<Nudge>>, <<>>, "unsaved")}
    BY DEF TimeOut
  <2>2. \A queued, sent \in batches :
           Failing(queued, sent) \in {Work(f, sent, Undos(s, u), "compensate"),
                                      Work(f, queued, <<>>, "unsaved")}
    OBVIOUS
  <2> HIDE DEF f, Failing
  <2> QED
    BY <2>1, <2>2
<1> HIDE DEF states, batches
<1> QED
  BY <1>1, <1>2, <1>3, <1>4 DEF IsWork, Work

TypeInv ==
    /\ atOnce \in DOMAIN Bounds
    /\ store \in Seq(State)
    /\ \A t \in Task : task[t] # NoTask =>
          IsMemory(task[t]) /\ task[t].row \in 0..Len(store)
    /\ renamed \subseteq Event
    /\ undone \cup logged \subseteq Event

LEMMA TypeInit ==
  ASSUME Init
  PROVE  TypeInv
<1>1. \A t \in Task : task[t] = NoTask
  BY DEF Init
<1>2. store \in Seq(State)
  BY DEF Init
<1> QED
  BY <1>1, <1>2 DEF Init, TypeInv

\* A step of one task.
LEMMA TypeStep ==
  ASSUME TypeInv, BooksInv, UNCHANGED <<atOnce, renamed>>,
         store' \in Seq(State), Len(store) <= Len(store'), undone' \cup logged' \subseteq Event,
         NEW t \in Task, NEW m,
         m # NoTask => IsMemory(m) /\ m.row \in 0..Len(store'), Become(t, m)
  PROVE  TypeInv'
<1>1. /\ task'[t] = m
      /\ \A u \in Task : u # t => task'[u] = task[u]
  BY DEF Become, BooksInv
<1>2. Len(store) \in Nat /\ Len(store') \in Nat
  BY DEF TypeInv
<1>3. 0..Len(store) \subseteq 0..Len(store')
  BY <1>2
<1> QED
  BY <1>1, <1>3 DEF TypeInv

\* A step of one task that saves nothing.
LEMMA TypeStepUnsaved ==
  ASSUME TypeInv, BooksInv, UNCHANGED <<atOnce, renamed, store>>, undone' \cup logged' \subseteq Event,
         NEW t \in Task, NEW m,
         m # NoTask => IsMemory(m) /\ m.row \in 0..Len(store), Become(t, m)
  PROVE  TypeInv'
<1>1. store' \in Seq(State) /\ Len(store) <= Len(store')
  BY DEF TypeInv
<1> QED
  BY <1>1, TypeStep

LEMMA LastSaveType ==
  ASSUME NEW row \in Nat, NEW s \in State
  PROVE  IsMemory(LastSave(row, s)) /\ LastSave(row, s).row = row
<1>1. <<>> \in Seq(Command)
  OBVIOUS
<1> QED
  BY <1>1, NoUndos DEF LastSave, IsMemory, Place, Next_

\* A batch is at most one command, that of an event.
SmallBatch(forward) == forward = <<>> \/ \E e \in Event : forward = <<e>>

LEMMA SavingBatchType ==
  ASSUME NEW m, IsMemory(m), SmallBatch(m.forward)
  PROVE  IsMemory(SavingBatch(m)) /\ SavingBatch(m).row = m.row
<1>1. CASE m.forward = <<>>
  BY <1>1, LastSaveType DEF SavingBatch, IsMemory
<1>2. CASE m.forward # <<>>
  <2>1. PICK e \in Event : m.forward = <<e>>
    BY <1>2 DEF SmallBatch
  <2>2. Pended(m.state, m.forward) \in State
    BY <2>1, BatchTypes DEF IsMemory
  <2>3. SavingBatch(m) = Saving(m, Pended(m.state, m.forward), "send")
    BY <1>2 DEF SavingBatch
  <2> HIDE DEF Pended
  <2> QED
    BY <2>2, <2>3 DEF Saving, IsMemory, Place, Next_
<1> QED
  BY <1>1, <1>2

LEMMA BeginType ==
  ASSUME NEW t \in Task, NEW row \in Nat, NEW w, IsWork(w), Begin(t, row, w),
         w.path = "forward" => SmallBatch(w.forward)
  PROVE  \E m : Become(t, m) /\ (m # NoTask => IsMemory(m) /\ m.row = row)
<1> DEFINE m == [LastSave(row, w.state) EXCEPT !.forward = w.forward, !.undo = w.undo]
<1>1. /\ IsMemory(m) /\ m.row = row /\ m.forward = w.forward
  <2>1. IsMemory(LastSave(row, w.state)) /\ LastSave(row, w.state).row = row
    BY LastSaveType DEF IsWork
  <2> HIDE DEF LastSave
  <2> QED
    BY <2>1 DEF IsMemory, IsWork
<1>2. \/ End(t)
      \/ Become(t, m)
      \/ Become(t, [m EXCEPT !.next = "batch"])
      \/ w.path = "forward" /\ Become(t, SavingBatch(m))
      \/ Become(t, [m EXCEPT !.at = "compensate", !.next = "batch"])
      \/ w.path \in {"compensate", "unsaved"} /\ Become(t, [m EXCEPT !.at = w.path])
  <2>1. w.path \in {"skip", "end", "forward", "compensate", "raised", "failed", "unsaved"}
    BY DEF IsWork
  <2> QED
    BY <2>1 DEF Begin
<1> HIDE DEF m
<1>3. /\ IsMemory([m EXCEPT !.next = "batch"]) /\ [m EXCEPT !.next = "batch"].row = row
      /\ IsMemory([m EXCEPT !.at = "compensate", !.next = "batch"])
      /\ [m EXCEPT !.at = "compensate", !.next = "batch"].row = row
      /\ \A p \in {"compensate", "unsaved"} :
            IsMemory([m EXCEPT !.at = p]) /\ [m EXCEPT !.at = p].row = row
  BY <1>1 DEF IsMemory, Place, Next_
<1>4. w.path = "forward" => IsMemory(SavingBatch(m)) /\ SavingBatch(m).row = row
  BY <1>1, SavingBatchType
<1> QED
  BY <1>1, <1>2, <1>3, <1>4 DEF End

\* What an event or a timeout makes of a saved state.
LEMMA BeginKeepsType ==
  ASSUME TypeInv, BooksInv, UNCHANGED <<atOnce, renamed, store, undone, logged>>,
         NEW t \in Task, NEW row \in 0..Len(store), NEW w, IsWork(w), WorkOK(w, done),
         Begin(t, row, w)
  PROVE  TypeInv'
<1>1. row \in Nat
  BY DEF TypeInv
<1>2. w.path = "forward" => SmallBatch(w.forward)
  BY DEF WorkOK, BatchOK, SmallBatch
<1>3. PICK m : Become(t, m) /\ (m # NoTask => IsMemory(m) /\ m.row = row)
  BY <1>1, <1>2, BeginType
<1>4. undone' \cup logged' \subseteq Event
  BY DEF TypeInv
<1> QED
  BY <1>3, <1>4, TypeStepUnsaved

LEMMA NewStateType == NewState \in State
  BY DEF NewState, State, Status

LEMMA StoredType ==
  ASSUME TypeInv, NEW r \in DOMAIN store
  PROVE  store[r] \in State /\ r \in 0..Len(store) /\ r \in Nat
  BY DEF TypeInv

LEMMA DeliverType ==
  ASSUME TypeInv, BooksInv, NEW e \in Event, Deliver(e)
  PROVE  TypeInv'
<1>1. UNCHANGED <<atOnce, renamed, store, undone, logged, done>> /\ e \in Task /\ undone' \cup logged' \subseteq Event
  BY DEF Deliver, TypeInv, Task
<1>2. CASE store = <<>>
  <2> DEFINE m == [LastSave(0, NewState) EXCEPT !.at = "create"]
  <2>1. IsMemory(m) /\ m.row \in 0..Len(store)
    <3>1. IsMemory(LastSave(0, NewState)) /\ LastSave(0, NewState).row = 0
      BY NewStateType, LastSaveType
    <3>2. Len(store) \in Nat
      BY DEF TypeInv
    <3> HIDE DEF LastSave
    <3> QED
      BY <3>1, <3>2 DEF IsMemory, Place
  <2>2. Become(e, m)
    BY <1>2 DEF Deliver
  <2> HIDE DEF m
  <2> QED
    BY <1>1, <2>1, <2>2, TypeStepUnsaved
<1>3. CASE store # <<>>
  <2>1. PICK w \in ProcessEvent(store[1], e, renamed) : Begin(e, 1, w)
    BY <1>3 DEF Deliver
  <2>2. 1 \in DOMAIN store
    BY <1>3 DEF TypeInv
  <2>3. store[1] \in State /\ 1 \in 0..Len(store) /\ RowOK(store[1], done)
    BY <2>2, StoredType DEF BooksInv
  <2>4. IsWork(w)
    BY <2>3, ProcessedType
  <2>5. WorkOK(w, done)
    BY <2>3, ProcessedWork DEF RowOK
  <2> QED
    BY <1>1, <2>1, <2>3, <2>4, <2>5, BeginKeepsType
<1> QED
  BY <1>2, <1>3

LEMMA CreateType ==
  ASSUME TypeInv, BooksInv, NEW e \in Event, Create(e)
  PROVE  TypeInv'
<1>1. /\ UNCHANGED <<atOnce, renamed, undone, logged>> /\ e \in Task /\ undone' \cup logged' \subseteq Event
      /\ store' = Append(store, NewState)
  BY DEF Create, TypeInv, Task
<1>2. PICK w \in ProcessEvent(NewState, e, renamed) : Begin(e, Len(store) + 1, w)
  BY DEF Create
<1>3. IsWork(w)
  BY <1>2, NewStateType, ProcessedType
<1>4. WorkOK(w, done)
  <2>1. IsState(NewState) /\ CoveredIfOwing(NewState, done)
    BY DEF NewState, IsState, CoveredIfOwing, Covered, Status
  <2> QED
    BY <1>2, <2>1, ProcessedWork
<1>5. w.path = "forward" => SmallBatch(w.forward)
  BY <1>4 DEF WorkOK, BatchOK, SmallBatch
<1>6. Len(store) + 1 \in Nat /\ store' \in Seq(State) /\ Len(store') = Len(store) + 1
      /\ Len(store) <= Len(store') /\ Len(store) + 1 \in 0..Len(store')
  BY <1>1, NewStateType DEF TypeInv
<1>7. PICK m : Become(e, m) /\ (m # NoTask => IsMemory(m) /\ m.row = Len(store) + 1)
  BY <1>1, <1>2, <1>3, <1>5, <1>6, BeginType
<1> QED
  BY <1>1, <1>6, <1>7, TypeStep

LEMMA SavedType ==
  ASSUME NEW s \in Seq(State), NEW r \in 0..Len(s), NEW x \in State
  PROVE  /\ [s EXCEPT ![r] = x] \in Seq(State)
         /\ Len([s EXCEPT ![r] = x]) = Len(s)
<1>1. Len(s) \in Nat /\ DOMAIN s = 1..Len(s) /\ s = [i \in 1..Len(s) |-> s[i]]
  OBVIOUS
<1>2. CASE r \in 1..Len(s)
  BY <1>2
<1>3. CASE r \notin 1..Len(s)
  <2>1. [s EXCEPT ![r] = x] = s
    BY <1>1, <1>3
  <2> QED
    BY <2>1
<1> QED
  BY <1>2, <1>3

LEMMA SaveType ==
  ASSUME TypeInv, BooksInv, NEW t \in Task, Save(t)
  PROVE  TypeInv'
<1> DEFINE m == task[t]
<1>1. /\ UNCHANGED <<atOnce, renamed, undone, logged>> /\ undone' \cup logged' \subseteq Event
      /\ store' = [store EXCEPT ![m.row] = m.state]
      /\ m.at = "save" /\ TaskOK(m, done) /\ IsMemory(m) /\ m.row \in 0..Len(store)
  BY DEF Save, At, Busy, BooksInv, TypeInv
<1>2. store' \in Seq(State) /\ Len(store) <= Len(store') /\ Len(store') = Len(store)
  BY <1>1, SavedType DEF TypeInv, IsMemory
<1>3. \/ Become(t, NoTask)
      \/ m.next = "batch" /\ Become(t, SavingBatch(m))
      \/ m.next \in {"send", "redispatch"} /\ Become(t, [m EXCEPT !.at = m.next])
      \/ m.next = "marked" /\ Become(t, [m EXCEPT !.at = "send"])
      \/ m.next = "marked" /\ Become(t, LastSave(m.row, BatchCleared(m.state, m.sent)))
  <2>1. m.next \in Next_
    BY <1>1 DEF IsMemory
  <2> QED
    BY <2>1 DEF Save, End, Next_
<1> HIDE DEF m
<1>4. ASSUME NEW k, IsMemory(k), k.row = m.row, Become(t, k)
      PROVE  TypeInv'
  BY <1>1, <1>2, <1>4, TypeStep
<1>5. CASE Become(t, NoTask)
  BY <1>1, <1>2, <1>5, TypeStep
<1>6. CASE m.next = "batch" /\ Become(t, SavingBatch(m))
  <2>1. SmallBatch(m.forward)
    BY <1>1, <1>6 DEF TaskOK, IsSaving, BatchOK, SmallBatch
  <2> QED
    BY <1>1, <1>4, <1>6, <2>1, SavingBatchType
<1>7. CASE m.next \in {"send", "redispatch"} /\ Become(t, [m EXCEPT !.at = m.next])
  <2>1. IsMemory([m EXCEPT !.at = m.next]) /\ [m EXCEPT !.at = m.next].row = m.row
    BY <1>1, <1>7 DEF IsMemory, Place
  <2> QED
    BY <1>4, <1>7, <2>1
<1>8. CASE m.next = "marked" /\ Become(t, [m EXCEPT !.at = "send"])
  <2>1. IsMemory([m EXCEPT !.at = "send"]) /\ [m EXCEPT !.at = "send"].row = m.row
    BY <1>1 DEF IsMemory, Place
  <2> QED
    BY <1>4, <1>8, <2>1
<1>9. CASE m.next = "marked" /\ Become(t, LastSave(m.row, BatchCleared(m.state, m.sent)))
  <2>1. m.sent = 1 /\ m.state.pending # <<>> /\ \E e \in Event : TRUE
    BY <1>1, <1>9 DEF TaskOK, IsSaving, InBatch, EndsWith
  <2>2. BatchCleared(m.state, 1) \in State
    BY <1>1, <2>1, BatchTypes DEF IsMemory
  <2>3. m.row \in Nat
    BY <1>1 DEF IsMemory
  <2> QED
    BY <1>4, <1>9, <2>1, <2>2, <2>3, LastSaveType
<1> QED
  BY <1>3, <1>5, <1>6, <1>7, <1>8, <1>9

LEMMA StalledType ==
  ASSUME TypeInv, BooksInv, UNCHANGED <<atOnce, renamed, store, undone, logged>>, NEW t \in Task,
         task[t] # NoTask, Become(t, LastSave(task[t].row, Stalled(task[t].state)))
  PROVE  TypeInv'
<1>1. IsMemory(task[t]) /\ task[t].row \in 0..Len(store) /\ undone' \cup logged' \subseteq Event
  BY DEF TypeInv
<1>2. Stalled(task[t].state) \in State /\ task[t].row \in Nat
  BY <1>1, LifecycleTypes DEF IsMemory
<1> QED
  BY <1>1, <1>2, LastSaveType, TypeStepUnsaved

\* The entry of the batch that is sent next is the last one.
LEMMA EntryToSendIsLast ==
  ASSUME NEW m, NEW counts, TaskOK(m, counts), m.at = "send"
  PROVE  /\ EntryToSend(m) = Len(m.state.pending)
         /\ EntryToSend(m) \in DOMAIN m.state.pending
         /\ m.sent = 0
         /\ \E e \in Event : /\ m.forward = <<e>> /\ m.forward[m.sent + 1] = e
                             /\ m.state.pending[EntryToSend(m)].of = e
<1>1. /\ InBatch(m, counts) /\ m.sent = 0 /\ IsState(m.state)
  BY DEF TaskOK, TaskFields
<1>2. PICK e \in Event : m.forward = <<e>> /\ EndsWith(m.state, e)
  BY <1>1 DEF InBatch
<1>3. Len(m.forward) = 1 /\ m.forward[m.sent + 1] = e
  BY <1>1, <1>2
<1>4. m.state.pending # <<>> /\ m.state.pending \in Seq(Entry)
  BY <1>1, <1>2 DEF EndsWith, IsState
<1>5. EntryToSend(m) = Len(m.state.pending) /\ EntryToSend(m) \in DOMAIN m.state.pending
  BY <1>1, <1>3, <1>4 DEF EntryToSend
<1> QED
  BY <1>1, <1>2, <1>3, <1>5 DEF EndsWith

LEMMA SendType ==
  ASSUME TypeInv, BooksInv, NEW t \in Task, Send(t)
  PROVE  TypeInv'
<1> DEFINE m == task[t]
           s == [m.state EXCEPT !.pending[EntryToSend(m)].dispatched = TRUE]
           k == [Saving(m, s, "marked") EXCEPT !.sent = @ + 1]
<1>1. /\ UNCHANGED <<atOnce, renamed, store, undone, logged>> /\ undone' \cup logged' \subseteq Event /\ m # NoTask
      /\ m.at = "send" /\ TaskOK(m, done) /\ IsMemory(m) /\ m.row \in 0..Len(store)
  BY DispatchOutcomes DEF Send, At, Busy, BooksInv, TypeInv, ForwardReturned, ForwardRaised
<1>2. Become(t, k) \/ Become(t, LastSave(m.row, Stalled(m.state)))
  BY DEF Send
<1>3. CASE Become(t, LastSave(m.row, Stalled(m.state)))
  BY <1>1, <1>3, StalledType
<1>4. CASE Become(t, k)
  <2>1. EntryToSend(m) \in DOMAIN m.state.pending /\ m.state \in State /\ m.sent = 0
    BY <1>1, EntryToSendIsLast DEF IsMemory
  <2>2. s \in State
    <3> DEFINE i == EntryToSend(m)
    <3> HIDE DEF i
    <3>1. [m.state EXCEPT !.pending[i].dispatched = TRUE] \in State
      BY <2>1, EntryTypes DEF i
    <3> QED
      BY <3>1 DEF i
  <2> HIDE DEF s, m
  <2>3. k = [[m EXCEPT !.at = "save", !.state = s, !.next = "marked"] EXCEPT !.sent = 1]
    <3>1. Saving(m, s, "marked").sent = 0
      BY <1>1, <2>1 DEF Saving, IsMemory
    <3>2. Saving(m, s, "marked").sent + 1 = 1
      BY <3>1
    <3> QED
      BY <3>2 DEF Saving
  <2>4. IsMemory(k) /\ k.row = m.row
    <3> HIDE DEF k
    <3> QED
      BY <1>1, <2>2, <2>3 DEF IsMemory, Place, Next_
  <2> QED
    BY <1>1, <1>4, <2>4, TypeStepUnsaved
<1> QED
  BY <1>2, <1>3, <1>4

LEMMA MemoryFields ==
  ASSUME NEW m, IsMemory(m)
  PROVE  TaskFields(m)
  BY StateIsState DEF IsMemory, TaskFields

LEMMA FailedType ==
  ASSUME NEW s \in State, NEW c \in Event \cup {Nudge}
  PROVE  [s EXCEPT !.failed = @ \cup {c}] \in State
  BY DEF State

\* What is left of a compensation after one of its commands.
LEMMA RestTypes ==
  ASSUME NEW m, IsMemory(m)
  PROVE  /\ m.forward # <<>> =>
               /\ IsMemory(AfterForward(m)) /\ AfterForward(m).row = m.row
               /\ Head(m.forward) \in Event \cup {Nudge}
         /\ DOMAIN m.undo # {} =>
               /\ IsMemory(AfterUndo(m)) /\ AfterUndo(m).row = m.row
               /\ m.undo[NextUndo(m.undo)] \in Event
         /\ \A k, c : IsMemory(k) /\ c \in Event \cup {Nudge} =>
               IsMemory(Refused(k, c)) /\ Refused(k, c).row = k.row
<1>1. ASSUME m.forward # <<>>
      PROVE  /\ IsMemory(AfterForward(m)) /\ AfterForward(m).row = m.row
             /\ Head(m.forward) \in Event \cup {Nudge}
  <2>1. Head(m.forward) \in Command /\ Tail(m.forward) \in Seq(Command)
    BY <1>1 DEF IsMemory
  <2> QED
    BY <2>1 DEF AfterForward, IsMemory, Command
<1>2. ASSUME DOMAIN m.undo # {}
      PROVE  /\ IsMemory(AfterUndo(m)) /\ AfterUndo(m).row = m.row
             /\ m.undo[NextUndo(m.undo)] \in Event
  <2> DEFINE D == DOMAIN m.undo \ {NextUndo(m.undo)}
             rest == Restrict(m.undo, D)
  <2>1. IsUndos(m.undo)
    BY DEF IsMemory
  <2>2. NextUndo(m.undo) \in DOMAIN m.undo
    BY <1>2, <2>1, NextUndoIsLast
  <2>3. IsUndos(rest)
    <3> HIDE DEF D
    <3>1. D \subseteq DOMAIN m.undo
      BY DEF D
    <3> QED
      BY <2>1, <3>1 DEF IsUndos, Restrict
  <2>4. AfterUndo(m) = [m EXCEPT !.undo = rest]
    BY DEF AfterUndo
  <2>5. m.undo[NextUndo(m.undo)] \in Event
    BY <2>1, <2>2 DEF IsUndos
  <2> HIDE DEF rest
  <2> QED
    BY <2>3, <2>4, <2>5 DEF IsMemory
<1>3. ASSUME NEW k, NEW c, IsMemory(k), c \in Event \cup {Nudge}
      PROVE  IsMemory(Refused(k, c)) /\ Refused(k, c).row = k.row
  <2> DEFINE s == [k.state EXCEPT !.failed = @ \cup {c}]
  <2>1. s \in State
    BY <1>3, FailedType DEF IsMemory
  <2>2. Refused(k, c) = [k EXCEPT !.state = s]
    BY DEF Refused
  <2> HIDE DEF s
  <2> QED
    BY <1>3, <2>1, <2>2 DEF IsMemory
<1> QED
  BY <1>1, <1>2, <1>3

LEMMA CompensateType ==
  ASSUME TypeInv, BooksInv, NEW t \in Task, Compensate(t)
  PROVE  TypeInv'
<1> DEFINE m == task[t]
<1>1. /\ UNCHANGED <<atOnce, renamed, store, logged>> /\ m # NoTask
  BY CompensateCases
<1>2. IsMemory(m) /\ m.row \in 0..Len(store) /\ undone \cup logged \subseteq Event
  BY <1>1 DEF TypeInv
<1>3. ASSUME NEW k, IsMemory(k), k.row = m.row, Become(t, k), undone' \cup logged' \subseteq Event
      PROVE  TypeInv'
  BY <1>1, <1>2, <1>3, TypeStepUnsaved
<1>4. IsMemory(Saving(m, Settled(m.state), m.next))
      /\ Saving(m, Settled(m.state), m.next).row = m.row
  <2>1. Settled(m.state) \in State
    BY <1>2, LifecycleTypes DEF IsMemory
  <2> HIDE DEF m
  <2> QED
    BY <1>2, <2>1 DEF Saving, IsMemory, Place
<1>5. \/ /\ Become(t, Saving(m, Settled(m.state), m.next)) /\ UNCHANGED undone
      \/ /\ m.forward # <<>> /\ UNCHANGED undone
         /\ \/ Become(t, AfterForward(m))
            \/ Become(t, Refused(AfterForward(m), Head(m.forward)))
      \/ /\ DOMAIN m.undo # {}
         /\ \/ /\ undone' = undone \cup {m.undo[NextUndo(m.undo)]}
               /\ Become(t, AfterUndo(m))
            \/ /\ undone' \subseteq undone \cup {m.undo[NextUndo(m.undo)]}
               /\ Become(t, Refused(AfterUndo(m), m.undo[NextUndo(m.undo)]))
  BY CompensateCases DEF ForwardReturned, ForwardRaised, UndoReturned, UndoRaised
<1> HIDE DEF m
<1>6. CASE Become(t, Saving(m, Settled(m.state), m.next)) /\ UNCHANGED undone
  BY <1>1, <1>2, <1>3, <1>4, <1>6
<1>7. CASE /\ m.forward # <<>> /\ UNCHANGED undone
           /\ \/ Become(t, AfterForward(m))
              \/ Become(t, Refused(AfterForward(m), Head(m.forward)))
  <2>1. /\ IsMemory(AfterForward(m)) /\ AfterForward(m).row = m.row
        /\ IsMemory(Refused(AfterForward(m), Head(m.forward)))
        /\ Refused(AfterForward(m), Head(m.forward)).row = m.row
    BY <1>2, <1>7, RestTypes
  <2> QED
    BY <1>1, <1>2, <1>3, <1>7, <2>1
<1>8. CASE /\ DOMAIN m.undo # {}
           /\ \/ /\ undone' = undone \cup {m.undo[NextUndo(m.undo)]}
                 /\ Become(t, AfterUndo(m))
              \/ /\ undone' \subseteq undone \cup {m.undo[NextUndo(m.undo)]}
                 /\ Become(t, Refused(AfterUndo(m), m.undo[NextUndo(m.undo)]))
  <2>1. /\ IsMemory(AfterUndo(m)) /\ AfterUndo(m).row = m.row
        /\ m.undo[NextUndo(m.undo)] \in Event
        /\ IsMemory(Refused(AfterUndo(m), m.undo[NextUndo(m.undo)]))
        /\ Refused(AfterUndo(m), m.undo[NextUndo(m.undo)]).row = m.row
    BY <1>2, <1>8, RestTypes
  <2>2. undone' \cup logged' \subseteq Event
    BY <1>1, <1>2, <1>8, <2>1
  <2> QED
    BY <1>3, <1>8, <2>1, <2>2
<1> QED
  BY <1>5, <1>6, <1>7, <1>8

LEMMA MarkFailsType ==
  ASSUME TypeInv, BooksInv, NEW t \in Task, MarkFails(t)
  PROVE  TypeInv'
<1>1. /\ UNCHANGED <<atOnce, renamed, store, undone, logged>> /\ task[t] # NoTask
      /\ Become(t, LastSave(task[t].row, Stalled(task[t].state)))
  BY DEF MarkFails, At, Busy
<1> QED
  BY <1>1, StalledType

LEMMA RecoverType ==
  ASSUME TypeInv, BooksInv, NEW r \in DOMAIN store, Recover(r)
  PROVE  TypeInv'
<1> DEFINE s == store[r]
           failed == Fail(s, TRUE, renamed)
<1>1. /\ UNCHANGED <<atOnce, renamed, store, undone, logged>> /\ Recovery \in Task
      /\ undone' \cup logged' \subseteq Event
  BY DEF Recover, TypeInv, Task
<1>2. s \in State /\ r \in 0..Len(store) /\ r \in Nat
  BY StoredType
<1>3. /\ failed \in State /\ Attempted(s) \in State /\ FinishRecovery(s) \in State
      /\ IsUndos(Undos(s, renamed)) /\ IsUndos(<<>>)
  BY <1>2, LifecycleTypes, FinishRecoveryType, UndosType, NoUndos
<1>4. <<>> \in Seq(Command)
  OBVIOUS
<1>5. ASSUME NEW x \in State, NEW undo, IsUndos(undo), NEW p \in {"end", "compensate"},
             Begin(Recovery, r, Work(x, <<>>, undo, p))
      PROVE  TypeInv'
  <2> DEFINE w == Work(x, <<>>, undo, p)
  <2>1. IsWork(w) /\ w.path # "forward"
    BY <1>4, <1>5 DEF IsWork, Work
  <2> HIDE DEF w
  <2>2. PICK m : Become(Recovery, m) /\ (m # NoTask => IsMemory(m) /\ m.row = r)
    BY <1>1, <1>2, <1>5, <2>1, BeginType DEF w
  <2> QED
    BY <1>1, <1>2, <2>2, TypeStepUnsaved
<1>6. ASSUME Become(Recovery, [LastSave(r, Attempted(s)) EXCEPT !.next = "redispatch"])
      PROVE  TypeInv'
  <2> DEFINE k == LastSave(r, Attempted(s))
  <2>1. IsMemory(k) /\ k.row = r
    BY <1>2, <1>3, LastSaveType
  <2> HIDE DEF k
  <2>2. IsMemory([k EXCEPT !.next = "redispatch"]) /\ [k EXCEPT !.next = "redispatch"].row = r
    BY <2>1 DEF IsMemory, Next_
  <2> QED
    BY <1>1, <1>2, <1>6, <2>2, TypeStepUnsaved DEF k
<1> HIDE DEF s, failed
<1>7. \/ Begin(Recovery, r, Work(FinishRecovery(s), <<>>, <<>>, "end"))
      \/ Begin(Recovery, r, Work(failed, <<>>, Undos(s, renamed), "compensate"))
      \/ Begin(Recovery, r, Work(failed, <<>>, <<>>, "end"))
      \/ Become(Recovery, [LastSave(r, Attempted(s)) EXCEPT !.next = "redispatch"])
  BY RecoverCases DEF s, failed
<1> QED
  BY <1>3, <1>5, <1>6, <1>7

LEMMA RedispatchType ==
  ASSUME TypeInv, BooksInv, Redispatch
  PROVE  TypeInv'
<1> DEFINE m == task[Recovery]
           s == m.state
<1>1. Recovery \in Task /\ m # NoTask
  BY DEF Redispatch, At, Busy, Task
<1>2. IsMemory(m) /\ m.row \in 0..Len(store) /\ s \in State /\ IsState(s)
  BY <1>1, StateIsState DEF TypeInv, IsMemory
<1>3. UNCHANGED <<atOnce, renamed, store, undone, logged>> /\ undone' \cup logged' \subseteq Event
  BY <1>2, RedispatchCases DEF TypeInv
<1> HIDE DEF m
<1>4. ASSUME NEW x \in State, Become(Recovery, LastSave(m.row, x))
      PROVE  TypeInv'
  <2>1. m.row \in Nat
    BY <1>2 DEF IsMemory
  <2> QED
    BY <1>1, <1>2, <1>3, <1>4, <2>1, LastSaveType, TypeStepUnsaved
<1>5. \A i \in Undispatched(s) :
         /\ SuspendForHydration(s, i) \in State
         /\ [s EXCEPT !.pending[i].dispatched = TRUE] \in State
  <2> SUFFICES ASSUME NEW i \in Undispatched(s)
               PROVE  /\ SuspendForHydration(s, i) \in State
                      /\ [s EXCEPT !.pending[i].dispatched = TRUE] \in State
    OBVIOUS
  <2> HIDE DEF s
  <2>1. i \in DOMAIN s.pending
    BY DEF Undispatched
  <2> QED
    BY <1>2, <2>1, HydrationType, EntryTypes
<1>6. ASSUME NEW x \in State, Become(Recovery, Saving(m, x, "redispatch"))
      PROVE  TypeInv'
  <2>1. /\ IsMemory(Saving(m, x, "redispatch"))
        /\ Saving(m, x, "redispatch").row = m.row
    BY <1>2 DEF Saving, IsMemory, Place, Next_
  <2> QED
    BY <1>1, <1>2, <1>3, <1>6, <2>1, TypeStepUnsaved
<1>7. FinishRecovery(s) \in State
  BY <1>2, FinishRecoveryType
<1>8. \/ Become(Recovery, LastSave(m.row, FinishRecovery(s)))
      \/ \E i \in Undispatched(s) :
            Become(Recovery, LastSave(m.row, SuspendForHydration(s, i)))
      \/ \E i \in Undispatched(s) : Become(Recovery, Saving(m,
                        [s EXCEPT !.pending[i].dispatched = TRUE], "redispatch"))
      \/ Become(Recovery, LastSave(m.row, s))
  BY <1>2, RedispatchCases DEF m
<1> HIDE DEF s
<1> QED
  BY <1>2, <1>4, <1>5, <1>6, <1>7, <1>8

LEMMA ExpireType ==
  ASSUME TypeInv, BooksInv, NEW r \in DOMAIN store, Expire(r)
  PROVE  TypeInv'
<1>1. /\ UNCHANGED <<atOnce, renamed, store, undone, logged>> /\ Timeouts \in Task
      /\ store[r].status = "SUSPENDED"
  BY DEF Expire, Task
<1>2. PICK w \in TimeOut(store[r], renamed) : Begin(Timeouts, r, w)
  BY DEF Expire
<1>3. store[r] \in State /\ r \in 0..Len(store)
  BY StoredType
<1>4. IsState(store[r]) /\ Covered(store[r], {}, done)
  BY <1>1 DEF BooksInv, RowOK, CoveredIfOwing, Owes
<1> QED
  BY <1>1, <1>2, <1>3, <1>4, TimedOutType, TimedOutWork, BeginKeepsType

LEMMA SendUnsavedType ==
  ASSUME TypeInv, BooksInv, SendUnsaved
  PROVE  TypeInv'
<1> DEFINE m == task[Timeouts]
<1>1. UNCHANGED <<atOnce, renamed, store>> /\ Timeouts \in Task /\ m # NoTask
  BY SendUnsavedCases DEF Task
<1>2. IsMemory(m) /\ m.row \in 0..Len(store) /\ undone \cup logged \subseteq Event
  BY <1>1 DEF TypeInv
<1>3. \/ Become(Timeouts, LastSave(m.row, m.state)) /\ UNCHANGED <<undone, logged>>
      \/ /\ m.forward # <<>> /\ Become(Timeouts, AfterForward(m))
         /\ UNCHANGED <<undone, logged>>
      \/ /\ DOMAIN m.undo # {} /\ Become(Timeouts, AfterUndo(m))
         /\ undone' \cup logged' \subseteq
               undone \cup logged \cup {m.undo[NextUndo(m.undo)]}
  BY SendUnsavedCases DEF ForwardReturned, ForwardRaised, UndoReturned, UndoRaised
<1> HIDE DEF m
<1>4. CASE Become(Timeouts, LastSave(m.row, m.state)) /\ UNCHANGED <<undone, logged>>
  <2>1. m.row \in Nat /\ m.state \in State
    BY <1>2 DEF IsMemory
  <2> QED
    BY <1>1, <1>2, <1>4, <2>1, LastSaveType, TypeStepUnsaved
<1>5. CASE /\ m.forward # <<>> /\ Become(Timeouts, AfterForward(m))
           /\ UNCHANGED <<undone, logged>>
  BY <1>1, <1>2, <1>5, RestTypes, TypeStepUnsaved
<1>6. CASE /\ DOMAIN m.undo # {} /\ Become(Timeouts, AfterUndo(m))
           /\ undone' \cup logged' \subseteq
                 undone \cup logged \cup {m.undo[NextUndo(m.undo)]}
  <2>1. /\ IsMemory(AfterUndo(m)) /\ AfterUndo(m).row = m.row
        /\ m.undo[NextUndo(m.undo)] \in Event
    BY <1>2, <1>6, RestTypes
  <2>2. undone' \cup logged' \subseteq Event
    BY <1>2, <1>6, <2>1
  <2> QED
    BY <1>1, <1>2, <1>6, <2>1, <2>2, TypeStepUnsaved
<1> QED
  BY <1>3, <1>4, <1>5, <1>6

LEMMA TypesStep ==
  ASSUME TypeInv, BooksInv, [Next]_vars
  PROVE  TypeInv'
<1>1. CASE \E e \in Event : Deliver(e) \/ Create(e)
  BY <1>1, DeliverType, CreateType
<1>2. CASE \E t \in Task : Save(t) \/ Send(t) \/ MarkFails(t) \/ Compensate(t)
  BY <1>2, SaveType, SendType, MarkFailsType, CompensateType
<1>3. CASE \E t \in Task : Stop(t)
  <2>1. PICK t \in Task : Stop(t)
    BY <1>3
  <2>2. /\ UNCHANGED <<atOnce, renamed, store, undone, logged>> /\ undone' \cup logged' \subseteq Event
        /\ Become(t, NoTask)
    BY <2>1 DEF Stop, End, TypeInv
  <2> QED
    BY <2>2, TypeStepUnsaved
<1>4. CASE \E r \in DOMAIN store : Recover(r) \/ Expire(r)
  BY <1>4, RecoverType, ExpireType
<1>5. CASE Redispatch \/ SendUnsaved
  BY <1>5, RedispatchType, SendUnsavedType
<1>6. CASE \E unknown \in SUBSET Event : Restart(unknown)
  <2>1. PICK unknown \in SUBSET Event : Restart(unknown)
    BY <1>6
  <2>2. \A t \in Task : task'[t] = NoTask
    BY <2>1 DEF Restart
  <2> QED
    BY <2>1, <2>2 DEF Restart, TypeInv
<1>7. CASE UNCHANGED vars
  BY <1>7 DEF TypeInv, vars, counters
<1> QED
  BY <1>1, <1>2, <1>3, <1>4, <1>5, <1>6, <1>7 DEF Next

\* Every variable of the manager, its tasks and its repository keeps its type:
\* what is saved is always a state, and a task never works on a row that the
\* repository does not have.
THEOREM SagaTypeCorrect == Spec => []TypeOK
<1>1. Init => TypeInv /\ BooksInv
  BY TypeInit, BooksInit
<1>2. TypeInv /\ BooksInv /\ [Next]_vars => TypeInv' /\ BooksInv'
  BY TypesStep, BooksStep
<1>3. TypeInv /\ BooksInv => TypeOK
  BY DEF TypeInv, BooksInv, TypeOK, IsMemory, IsUndos
<1> QED
  BY <1>1, <1>2, <1>3, PTL DEF Spec

-----------------------------------------------------------------------------
(* One task at a time.  What holds of the saved state s and of the memory  *)
(* m of the only task: counts are the commands carried out, carried the    *)
(* undos that were, or were given up with a line in the log, slack the     *)
(* tasks cut short and the dispatches that raised after their effect,      *)
(* known the delivered events, and intact says that no event id was        *)
(* evicted.                                                                *)

\* No two places of f hold the same.
Distinct(f) == \A i, j \in DOMAIN f : f[i] = f[j] => i = j

PendingOf(s) == {s.pending[i].of : i \in DOMAIN s.pending}

\* A state has each processed event at most once among its pending commands
\* and at most once on its stack.
Neat(s) ==
    /\ \A i, j \in DOMAIN s.pending : s.pending[i].of = s.pending[j].of => i = j
    /\ Distinct(s.stack)
    /\ PendingOf(s) \subseteq s.processed
    /\ ToSet(s.stack) \subseteq s.processed

SavedOK(s, known, intact) == s.processed \subseteq known /\ (intact => Neat(s))

\* The commands that s may still have carried out: those of events it would
\* handle, those left to recovery, and those ahead of their record.
Owing(s, ahead) == (Event \ s.processed) \cup UndispatchedIn(s) \cup ahead

\* A command that is still owed was carried out once less than it may be.
Balanced(s, ahead, counts, slack) ==
    \A e \in Event : /\ counts[e] <= 1 + slack
                     /\ e \in Owing(s, ahead) => counts[e] <= slack

\* The commands m sends before a state records them.
Ahead(m) ==
    IF m.at \in {"compensate", "unsaved"} \/ IsSaving(m, "batch")
    THEN ToSet(m.forward) ELSE {}

AheadOK(s, ahead) == ahead \cap Event \subseteq s.processed \ PendingOf(s)

\* Every undo on the stack of s is on that of x, or has a reason not to be.
StackKept(s, x, carried) ==
    \A e \in ToSet(s.stack) :
        e \in ToSet(x.stack) \/ e \in carried \/ e \in x.failed \/ x.status = "COMPLETED"

\* A compensation walks down a stack K that begins with the saved one; what
\* undo no longer has was carried out or is recorded as failed.
Walk(s, x, undo, carried, intact) ==
    \E K \in Seq(Event) :
        /\ \A i \in DOMAIN s.stack : i \in DOMAIN K /\ K[i] = s.stack[i]
        /\ \A i \in DOMAIN undo : i \in DOMAIN K /\ K[i] = undo[i]
        /\ \A i \in DOMAIN K : i \in DOMAIN undo \/ K[i] \in carried \cup x.failed
        /\ intact => Distinct(K)

\* Of undos no state records: a walk, or none at all.
Unwound(s, x, undo, carried, intact) ==
    \/ Walk(s, x, undo, carried, intact)
    \/ StackKept(s, x, carried) /\ DOMAIN undo = {}

\* Saving x over s reopens a saga that ended only as it may.
Reopens(s, x) ==
    (IsTerminal(s) /\ x.status # s.status) =>
        s.status # "COMPENSATED" /\ x.status = "SUSPENDED" /\ x.pending # <<>>

\* m works on a copy of the saved state, but for its books.
SameAsSaved(m) ==
    m.at \in {"send", "redispatch"} \/ IsSaving(m, "marked") \/ IsSaving(m, "redispatch")

\* m has saved nothing since it read the saved state.
NothingSaved(m) ==
    \/ m.at \in {"compensate", "unsaved", "redispatch"}
    \/ IsSaving(m, "redispatch") \/ IsSaving(m, "batch")

Batched(m) ==
    \/ m.at = "send" \/ IsSaving(m, "marked") \/ IsSaving(m, "send")
    \/ IsSaving(m, "batch") /\ m.forward # <<>>

SingleBatch(forward) == forward = <<>> \/ \E c \in Command : forward = <<c>>

HeldOK(m, s, counts, carried, slack, known, intact) ==
    /\ m.at = "save" => Reopens(s, m.state)
    /\ NothingSaved(m) => ~IsTerminal(s)
    /\ Batched(m) => m.state.status # "COMPENSATED"
    /\ m.at = "send" \/ IsSaving(m, "send") =>
          ~m.state.pending[Len(m.state.pending)].dispatched
    /\ SameAsSaved(m) => m.state.status = s.status /\ m.state.stack = s.stack
    /\ m.at = "save" => StackKept(s, m.state, carried)
    /\ m.at = "compensate" => Walk(s, m.state, m.undo, carried, intact)
    /\ m.at = "unsaved" => Unwound(s, m.state, m.undo, carried, intact)
    /\ SingleBatch(m.forward)
    /\ m.state.processed \subseteq known
    /\ intact => /\ Neat(m.state)
                 /\ AheadOK(m.state, Ahead(m))
                 /\ Balanced(m.state, Ahead(m), counts, slack)

Delivered == {e \in Event : deliveries[e] > 0}

Gone == undone \cup logged

Slack == stops + unsure

Idle == \A t \in Task : task[t] = NoTask

CountersInv ==
    /\ deliveries \in [Event -> Nat] /\ IsFiniteSet(Delivered)
    /\ stops \in Nat /\ unsure \in Nat

OneTaskInv ==
    /\ Len(store) <= 1
    /\ \A t, u \in Task : task[t] # NoTask /\ task[u] # NoTask => t = u
    /\ store = <<>> => \A e \in Event : done[e] = 0
    /\ store # <<>> => SavedOK(store[1], Delivered, NoneEvicted)
    /\ (store # <<>> /\ Idle /\ NoneEvicted) => Balanced(store[1], {}, done, Slack)
    /\ \A t \in Task : task[t] # NoTask =>
          IF task[t].at = "create"
          THEN store = <<>> /\ t \in Delivered
          ELSE /\ store # <<>> /\ task[t].row = 1
               /\ HeldOK(task[t], store[1], done, Gone, Slack, Delivered, NoneEvicted)

SoloInv == CountersInv /\ (atOnce = 1 => OneTaskInv)

-----------------------------------------------------------------------------
(* The operations of a state once more: its lifecycle and its stack.       *)

LEMMA FailShape ==
  ASSUME NEW s \in State, NEW u
  PROVE  /\ Fail(s, FALSE, u).status = "FAILED" /\ Fail(s, FALSE, u).stack = s.stack
         /\ s.stack # <<>> =>
               /\ Fail(s, TRUE, u).status = "COMPENSATING"
               /\ Fail(s, TRUE, u).stack = <<>>
               /\ ToSet(s.stack) \cap u \subseteq Fail(s, TRUE, u).failed
         /\ s.stack = <<>> =>
               Fail(s, TRUE, u).status = "FAILED" /\ Fail(s, TRUE, u).stack = <<>>
         /\ Fail(s, TRUE, u).processed = s.processed
         /\ Fail(s, TRUE, u).pending = s.pending
         /\ Fail(s, FALSE, u).processed = s.processed
         /\ Fail(s, FALSE, u).pending = s.pending
<1> USE DEF State
<1>1. /\ Fail(s, FALSE, u).status = "FAILED" /\ Fail(s, FALSE, u).stack = s.stack
      /\ s.stack = <<>> =>
            Fail(s, TRUE, u).status = "FAILED" /\ Fail(s, TRUE, u).stack = <<>>
  BY DEF Fail
<1>2. ASSUME s.stack # <<>>
      PROVE  /\ Fail(s, TRUE, u).status = "COMPENSATING"
             /\ Fail(s, TRUE, u).stack = <<>>
             /\ ToSet(s.stack) \cap u \subseteq Fail(s, TRUE, u).failed
  BY <1>2 DEF Fail
<1>3. /\ Fail(s, TRUE, u).processed = s.processed
      /\ Fail(s, TRUE, u).pending = s.pending
      /\ Fail(s, FALSE, u).processed = s.processed
      /\ Fail(s, FALSE, u).pending = s.pending
  BY DEF Fail
<1> QED
  BY <1>1, <1>2, <1>3

LEMMA LifecycleShape ==
  ASSUME NEW s \in State
  PROVE  /\ Complete(s).status = "COMPLETED" /\ Complete(s).stack = <<>>
         /\ Suspend(s, TRUE).status = "SUSPENDED" /\ Suspend(s, TRUE).stack = s.stack
         /\ Suspend(s, FALSE).status = "SUSPENDED" /\ Suspend(s, FALSE).stack = s.stack
         /\ Stalled(s).status = "SUSPENDED" /\ Stalled(s).stack = s.stack
         /\ Attempted(s).status = s.status /\ Attempted(s).stack = s.stack
         /\ Resume(s).stack = s.stack
         /\ Resume(s).status \in {s.status, "RUNNING"}
         /\ Settled(s).status \in {"COMPENSATED", "FAILED"}
         /\ Settled(s).stack = s.stack /\ Settled(s).failed = s.failed
         /\ \A t \in {Complete(s), Suspend(s, TRUE), Suspend(s, FALSE), Stalled(s),
                      Attempted(s), Resume(s), Settled(s)} :
               t.processed = s.processed /\ t.pending = s.pending
<1> USE DEF State
<1>1. Complete(s).status = "COMPLETED" /\ Complete(s).stack = <<>>
  BY DEF Complete
<1>2. /\ Suspend(s, TRUE).status = "SUSPENDED" /\ Suspend(s, TRUE).stack = s.stack
      /\ Suspend(s, FALSE).status = "SUSPENDED" /\ Suspend(s, FALSE).stack = s.stack
  BY DEF Suspend
<1>3. Stalled(s).status = "SUSPENDED" /\ Stalled(s).stack = s.stack
  BY DEF Stalled, Suspend
<1>4. Attempted(s).status = s.status /\ Attempted(s).stack = s.stack
  BY DEF Attempted
<1>5. Resume(s).stack = s.stack /\ Resume(s).status \in {s.status, "RUNNING"}
  BY DEF Resume
<1>6. /\ Settled(s).status \in {"COMPENSATED", "FAILED"}
      /\ Settled(s).stack = s.stack /\ Settled(s).failed = s.failed
  BY DEF Settled
<1>7. \A t \in {Complete(s), Suspend(s, TRUE), Suspend(s, FALSE), Stalled(s),
                Attempted(s), Resume(s), Settled(s)} :
         t.processed = s.processed /\ t.pending = s.pending
  BY DEF Complete, Suspend, Stalled, Attempted, Resume, Settled
<1> QED
  BY <1>1, <1>2, <1>3, <1>4, <1>5, <1>6, <1>7

LEMMA StepShape ==
  ASSUME NEW s \in State, NEW e \in Event
  PROVE  /\ Begun(s, e).stack = s.stack
         /\ Begun(s, e).status \in {s.status, "RUNNING"}
         /\ Registered(s, e).stack \in {s.stack, Append(s.stack, e)}
         /\ Registered(s, e).status \in {s.status, "RUNNING"}
         /\ Registered(s, e).stack = <<>> => s.stack = <<>>
         /\ Begun(s, e).processed = s.processed /\ Begun(s, e).pending = s.pending
         /\ Registered(s, e).processed = s.processed
         /\ Registered(s, e).pending = s.pending
<1>1. Begun(s, e).stack = s.stack /\ Begun(s, e).status \in {s.status, "RUNNING"}
  BY DEF Begun, State
<1>2. /\ Registered(s, e).stack \in {s.stack, Append(s.stack, e)}
      /\ Registered(s, e).status = Begun(s, e).status
  BY <1>1, StepTypes DEF Registered, State
<1>3. Append(s.stack, e) # <<>>
  BY DEF State
<1>4. Begun(s, e).processed = s.processed /\ Begun(s, e).pending = s.pending
  BY DEF Begun, State
<1>5. /\ Registered(s, e).processed = s.processed
      /\ Registered(s, e).pending = s.pending
  BY <1>4, StepTypes DEF Registered, State
<1> QED
  BY <1>1, <1>2, <1>3, <1>4, <1>5

\* Fields that decide what is pending: the same processed ids, and the same
\* events among the pending commands.
SameLedger(s, t) ==
    /\ t.processed = s.processed
    /\ Len(t.pending) = Len(s.pending)
    /\ \A i \in 1..Len(s.pending) : t.pending[i].of = s.pending[i].of

LEMMA PendingDomain ==
  ASSUME NEW s \in State
  PROVE  /\ DOMAIN s.pending = 1..Len(s.pending) /\ Len(s.pending) \in Nat
         /\ DOMAIN s.stack = 1..Len(s.stack) /\ Len(s.stack) \in Nat
  BY DEF State

LEMMA LedgerNeat ==
  ASSUME NEW s \in State, NEW t \in State, SameLedger(s, t), Neat(s),
         t.stack = s.stack \/ t.stack = <<>>
  PROVE  Neat(t) /\ PendingOf(t) = PendingOf(s)
<1>1. DOMAIN t.pending = DOMAIN s.pending
  BY PendingDomain DEF SameLedger
<1>2. \A i \in DOMAIN s.pending : t.pending[i].of = s.pending[i].of
  BY PendingDomain DEF SameLedger
<1>3. PendingOf(t) = PendingOf(s)
  BY <1>1, <1>2 DEF PendingOf
<1>4. Distinct(t.stack) /\ ToSet(t.stack) \subseteq t.processed
  BY DEF Neat, Distinct, ToSet, SameLedger
<1> QED
  BY <1>1, <1>2, <1>3, <1>4 DEF Neat, SameLedger

LEMMA MarksShape ==
  ASSUME NEW s \in State
  PROVE  /\ SameLedger(s, ClearMarks(s))
         /\ ClearMarks(s).stack = s.stack /\ ClearMarks(s).status = s.status
         /\ \A i \in DOMAIN s.pending :
               /\ SameLedger(s, [s EXCEPT !.pending[i].marked = TRUE])
               /\ [s EXCEPT !.pending[i].marked = TRUE].stack = s.stack
               /\ SameLedger(s, [s EXCEPT !.pending[i].dispatched = TRUE])
               /\ [s EXCEPT !.pending[i].dispatched = TRUE].stack = s.stack
               /\ [s EXCEPT !.pending[i].dispatched = TRUE].status = s.status
<1>1. /\ s.pending \in Seq(Entry) /\ DOMAIN s.pending = 1..Len(s.pending)
      /\ Len(s.pending) \in Nat /\ \A i \in DOMAIN s.pending : s.pending[i] \in Entry
  BY DEF State
<1>2. /\ ClearMarks(s).stack = s.stack /\ ClearMarks(s).status = s.status
      /\ ClearMarks(s).processed = s.processed
      /\ ClearMarks(s).pending =
            [i \in DOMAIN s.pending |-> [s.pending[i] EXCEPT !.marked = FALSE]]
  BY DEF ClearMarks, State
<1>3. Len(ClearMarks(s).pending) = Len(s.pending)
  BY StateIsState, ClearMarksKeepsBooks
<1>4. \A i \in DOMAIN s.pending : [s.pending[i] EXCEPT !.marked = FALSE].of = s.pending[i].of
  BY <1>1, EntryFields
<1>5. SameLedger(s, ClearMarks(s))
  BY <1>1, <1>2, <1>3, <1>4 DEF SameLedger
<1>6. ASSUME NEW i \in DOMAIN s.pending, NEW x \in Entry, x.of = s.pending[i].of
      PROVE  /\ SameLedger(s, [s EXCEPT !.pending = [s.pending EXCEPT ![i] = x]])
             /\ [s EXCEPT !.pending = [s.pending EXCEPT ![i] = x]].stack = s.stack
             /\ [s EXCEPT !.pending = [s.pending EXCEPT ![i] = x]].status = s.status
  <2> DEFINE p == [s.pending EXCEPT ![i] = x]
  <2>1. /\ p \in Seq(Entry) /\ Len(p) = Len(s.pending)
        /\ \A j \in 1..Len(s.pending) : p[j].of = s.pending[j].of
    BY <1>1, <1>6
  <2> HIDE DEF p
  <2>2. /\ [s EXCEPT !.pending = p].pending = p
        /\ [s EXCEPT !.pending = p].processed = s.processed
        /\ [s EXCEPT !.pending = p].stack = s.stack
        /\ [s EXCEPT !.pending = p].status = s.status
    BY DEF State
  <2>3. SameLedger(s, [s EXCEPT !.pending = p])
    BY <2>1, <2>2 DEF SameLedger
  <2> QED
    BY <2>2, <2>3 DEF p
<1>7. ASSUME NEW i \in DOMAIN s.pending
      PROVE  /\ SameLedger(s, [s EXCEPT !.pending[i].marked = TRUE])
             /\ [s EXCEPT !.pending[i].marked = TRUE].stack = s.stack
             /\ SameLedger(s, [s EXCEPT !.pending[i].dispatched = TRUE])
             /\ [s EXCEPT !.pending[i].dispatched = TRUE].stack = s.stack
             /\ [s EXCEPT !.pending[i].dispatched = TRUE].status = s.status
  <2> DEFINE a == [s.pending[i] EXCEPT !.marked = TRUE]
             b == [s.pending[i] EXCEPT !.dispatched = TRUE]
  <2>1. a \in Entry /\ b \in Entry /\ a.of = s.pending[i].of /\ b.of = s.pending[i].of
    BY <1>1, EntryFields
  <2>2. /\ [s EXCEPT !.pending[i].marked = TRUE]
              = [s EXCEPT !.pending = [s.pending EXCEPT ![i] = a]]
        /\ [s EXCEPT !.pending[i].dispatched = TRUE]
              = [s EXCEPT !.pending = [s.pending EXCEPT ![i] = b]]
    OBVIOUS
  <2> HIDE DEF a, b
  <2> QED
    BY <1>6, <2>1, <2>2
<1> QED
  BY <1>2, <1>5, <1>7

LEMMA SameFieldsLedger ==
  ASSUME NEW s, NEW t, t.processed = s.processed, t.pending = s.pending
  PROVE  SameLedger(s, t)
  BY DEF SameLedger

LEMMA LedgerTransitive ==
  ASSUME NEW r, NEW s, NEW t, SameLedger(r, s), SameLedger(s, t)
  PROVE  SameLedger(r, t)
  BY DEF SameLedger

LEMMA HydrationShape ==
  ASSUME NEW s \in State, NEW i \in DOMAIN s.pending
  PROVE  /\ SameLedger(s, SuspendForHydration(s, i))
         /\ SuspendForHydration(s, i).stack = s.stack
<1> DEFINE Flag(t) == [t EXCEPT !.pending[i].marked = TRUE]
<1>1. /\ Suspend(s, FALSE) \in State /\ Suspend(s, FALSE).stack = s.stack
      /\ Suspend(s, FALSE).pending = s.pending /\ Suspend(s, FALSE).processed = s.processed
  BY DEF Suspend, State, Status
<1>2. SameLedger(s, Suspend(s, FALSE)) /\ SameLedger(s, s)
  BY <1>1 DEF SameLedger
<1>3. ASSUME NEW t \in State, SameLedger(s, t), t.stack = s.stack
      PROVE  SameLedger(s, Flag(ClearMarks(t))) /\ Flag(ClearMarks(t)).stack = s.stack
  <2>1. /\ ClearMarks(t) \in State /\ SameLedger(t, ClearMarks(t))
        /\ ClearMarks(t).stack = s.stack
    BY <1>3, ClearMarksType, MarksShape
  <2>2. SameLedger(s, ClearMarks(t))
    BY <1>3, <2>1, LedgerTransitive
  <2>3. i \in DOMAIN ClearMarks(t).pending
    BY <2>1, <2>2, PendingDomain DEF SameLedger
  <2>4. /\ SameLedger(ClearMarks(t), Flag(ClearMarks(t)))
        /\ Flag(ClearMarks(t)).stack = ClearMarks(t).stack
    BY <2>1, <2>3, MarksShape
  <2> HIDE DEF Flag
  <2> QED
    BY <2>1, <2>2, <2>4, LedgerTransitive
<1>4. SuspendForHydration(s, i) \in
         {Flag(ClearMarks(Suspend(s, FALSE))), Flag(ClearMarks(s)), s}
  BY DEF SuspendForHydration
<1> HIDE DEF Flag
<1> QED
  BY <1>1, <1>2, <1>3, <1>4

\* The undos of x, a state whose stack was K, and what they leave out.
Undoes(undo, x, K) ==
    /\ \A i \in DOMAIN undo : i \in DOMAIN K /\ K[i] = undo[i]
    /\ \A i \in DOMAIN K : i \in DOMAIN undo \/ K[i] \in x.failed

\* What a step for e makes of s, before e is recorded as processed.
StepResult(v, s, e) ==
    /\ v.state.processed = s.processed /\ v.state.pending = s.pending
    /\ \/ /\ v.path = "forward" /\ v.forward = <<e>>
          /\ \/ v.state.stack \in {s.stack, Append(s.stack, e)}
             \/ v.state.stack = <<>> /\ v.state.status = "COMPLETED"
          /\ v.state.status # "COMPENSATED"
       \/ /\ v.path \in {"compensate", "raised"} /\ v.forward \in {<<>>, <<e>>}
          /\ v.state.stack = <<>>
          /\ \E K \in {s.stack, Append(s.stack, e)} : Undoes(v.undo, v.state, K)
       \/ /\ v.path = "failed" /\ v.forward \in {<<>>, <<e>>}
          /\ v.state.stack = s.stack /\ v.state.status = "FAILED"

\* A state that fails with something to undo.
LEMMA FailUndoes ==
  ASSUME NEW s \in State, NEW u, s.stack # <<>>
  PROVE  Undoes(Undos(s, u), Fail(s, TRUE, u), s.stack)
<1>1. /\ DOMAIN Undos(s, u) = {j \in DOMAIN s.stack : s.stack[j] \notin u}
      /\ \A i \in DOMAIN Undos(s, u) : Undos(s, u)[i] = s.stack[i]
  BY UndosType
<1>2. ToSet(s.stack) \cap u \subseteq Fail(s, TRUE, u).failed
  BY FailShape
<1>3. \A i \in DOMAIN s.stack : s.stack[i] \in ToSet(s.stack)
  BY DEF ToSet
<1> QED
  BY <1>1, <1>2, <1>3 DEF Undoes

LEMMA StepEndsResult ==
  ASSUME NEW s \in State, ~IsTerminal(s), NEW e \in Event, NEW u, NEW w \in StepEnds(s, e, u)
  PROVE  StepResult(w, s, e)
<1> DEFINE r == Registered(s, e)
           f == Fail(r, TRUE, u)
<1>1. r \in State
  BY StepTypes
<1>2. /\ r.processed = s.processed /\ r.pending = s.pending
      /\ r.stack \in {s.stack, Append(s.stack, e)} /\ r.status # "COMPENSATED"
      /\ r.stack = <<>> => s.stack = <<>>
  BY StepShape DEF IsTerminal
<1> HIDE DEF r
<1>3. /\ f.processed = s.processed /\ f.pending = s.pending /\ f.stack = <<>>
      /\ r.stack # <<>> => f.status = "COMPENSATING"
      /\ r.stack = <<>> => f.status = "FAILED"
  <2>1. /\ f.processed = r.processed /\ f.pending = r.pending
        /\ r.stack # <<>> => f.status = "COMPENSATING" /\ f.stack = <<>>
        /\ r.stack = <<>> => f.status = "FAILED" /\ f.stack = <<>>
    BY <1>1, FailShape
  <2> HIDE DEF f
  <2> QED
    BY <1>2, <2>1
<1>4. \/ w = Work(r, <<e>>, <<>>, "forward")
      \/ w = Work(Complete(r), <<e>>, <<>>, "forward")
      \/ w = Work(Suspend(r, TRUE), <<e>>, <<>>, "forward")
      \/ w = Work(Suspend(r, FALSE), <<e>>, <<>>, "forward")
      \/ f.status = "COMPENSATING" /\ w = Work(f, <<e>>, Undos(r, u), "compensate")
      \/ f.status # "COMPENSATING" /\ w = Work(f, <<e>>, <<>>, "forward")
  BY DEF StepEnds, r
<1>5. CASE w = Work(r, <<e>>, <<>>, "forward")
  BY <1>2, <1>5 DEF StepResult, Work
<1>6. ASSUME NEW t, w = Work(t, <<e>>, <<>>, "forward"),
             t.processed = r.processed, t.pending = r.pending,
             \/ t.stack = <<>> /\ t.status = "COMPLETED"
             \/ t.stack = r.stack /\ t.status = "SUSPENDED"
      PROVE  StepResult(w, s, e)
  BY <1>2, <1>6 DEF StepResult, Work
<1>7. /\ Complete(r).processed = r.processed /\ Complete(r).pending = r.pending
      /\ Complete(r).stack = <<>> /\ Complete(r).status = "COMPLETED"
      /\ Suspend(r, TRUE).processed = r.processed /\ Suspend(r, TRUE).pending = r.pending
      /\ Suspend(r, TRUE).stack = r.stack /\ Suspend(r, TRUE).status = "SUSPENDED"
      /\ Suspend(r, FALSE).processed = r.processed /\ Suspend(r, FALSE).pending = r.pending
      /\ Suspend(r, FALSE).stack = r.stack /\ Suspend(r, FALSE).status = "SUSPENDED"
  BY <1>1, LifecycleShape
<1>8. CASE f.status = "COMPENSATING" /\ w = Work(f, <<e>>, Undos(r, u), "compensate")
  <2>1. r.stack # <<>>
    BY <1>3, <1>8
  <2>2. Undoes(Undos(r, u), f, r.stack)
    BY <1>1, <2>1, FailUndoes
  <2> HIDE DEF f
  <2> QED
    BY <1>2, <1>3, <1>8, <2>2 DEF StepResult, Work
<1>9. CASE f.status # "COMPENSATING" /\ w = Work(f, <<e>>, <<>>, "forward")
  <2>1. r.stack = <<>> /\ s.stack = <<>> /\ f.status = "FAILED"
    BY <1>2, <1>3, <1>9
  <2> HIDE DEF f
  <2> QED
    BY <1>3, <1>9, <2>1 DEF StepResult, Work
<1> QED
  BY <1>4, <1>5, <1>6, <1>7, <1>8, <1>9

LEMMA StepRaisesResult ==
  ASSUME NEW s \in State, NEW e \in Event, NEW u, NEW w \in StepRaises(s, e, u)
  PROVE  StepResult(w, s, e)
<1> DEFINE Raised(t, queued) ==
              IF t.stack # <<>>
              THEN Work(Fail(t, TRUE, u), <<>>, Undos(t, u), "raised")
              ELSE Work(Fail(t, TRUE, u), queued, <<>>, "failed")
<1>1. ASSUME NEW t \in State, t.processed = s.processed, t.pending = s.pending,
             t.stack \in {s.stack, Append(s.stack, e)}, t.stack = <<>> => s.stack = <<>>,
             NEW queued \in {<<>>, <<e>>}
      PROVE  StepResult(Raised(t, queued), s, e)
  <2> DEFINE f == Fail(t, TRUE, u)
  <2>1. f.processed = s.processed /\ f.pending = s.pending
    BY <1>1, FailShape
  <2>2. CASE t.stack # <<>>
    <3>1. f.stack = <<>> /\ Undoes(Undos(t, u), f, t.stack)
      BY <2>2, FailShape, FailUndoes
    <3> HIDE DEF f
    <3> QED
      BY <1>1, <2>1, <2>2, <3>1 DEF StepResult, Work, f
  <2>3. CASE t.stack = <<>>
    <3>1. f.stack = <<>> /\ f.status = "FAILED"
      BY <2>3, FailShape
    <3> QED
      BY <1>1, <2>1, <2>3, <3>1 DEF StepResult, Work
  <2> QED
    BY <2>2, <2>3
<1>2. /\ Begun(s, e) \in State /\ Registered(s, e) \in State
      /\ Begun(s, e).processed = s.processed /\ Begun(s, e).pending = s.pending
      /\ Registered(s, e).processed = s.processed /\ Registered(s, e).pending = s.pending
  BY StepTypes, StepShape
<1>3. w \in {Raised(Begun(s, e), <<>>), Raised(Begun(s, e), <<e>>),
             Raised(Registered(s, e), <<e>>)}
  BY DEF StepRaises
<1> HIDE DEF Raised
<1> QED
  BY <1>1, <1>2, <1>3, StepShape

-----------------------------------------------------------------------------
(* Batches and the ledger.                                                 *)

LEMMA PendedShape ==
  ASSUME NEW s \in State, NEW e \in Event, NEW t, t = Pended(s, <<e>>)
  PROVE  /\ t.processed = s.processed /\ t.stack = s.stack /\ t.status = s.status
         /\ t.failed = s.failed
         /\ Len(t.pending) = Len(s.pending) + 1
         /\ \A i \in 1..Len(s.pending) : t.pending[i] = s.pending[i]
         /\ t.pending[Len(t.pending)].of = e
         /\ ~t.pending[Len(t.pending)].dispatched
<1> DEFINE entry == [of |-> e, dispatched |-> FALSE, marked |-> FALSE]
<1>1. entry \in Entry /\ ~entry.dispatched /\ entry.of = e
  BY DEF Entry
<1>2. [i \in DOMAIN <<e>> |-> [of |-> <<e>>[i], dispatched |-> FALSE, marked |-> FALSE]]
         = <<entry>>
  <2> DEFINE Made(x) == [of |-> x, dispatched |-> FALSE, marked |-> FALSE]
  <2>1. entry = Made(e)
    OBVIOUS
  <2> HIDE DEF entry, Made
  <2>2. [i \in DOMAIN <<e>> |-> Made(<<e>>[i])] = <<Made(e)>>
    OBVIOUS
  <2> QED
    BY <2>1, <2>2 DEF Made
<1>3. t = [s EXCEPT !.pending = s.pending \o <<entry>>]
  BY <1>2 DEF Pended
<1> HIDE DEF entry
<1>4. /\ t.pending = s.pending \o <<entry>>
      /\ t.processed = s.processed /\ t.stack = s.stack /\ t.status = s.status
      /\ t.failed = s.failed
  BY <1>3 DEF State
<1>5. /\ Len(t.pending) = Len(s.pending) + 1
      /\ \A i \in 1..Len(s.pending) : t.pending[i] = s.pending[i]
      /\ t.pending[Len(s.pending) + 1] = entry
  <2>1. s.pending \in Seq(Entry)
    BY DEF State
  <2> QED
    BY <1>1, <1>4, <2>1
<1> QED
  BY <1>1, <1>4, <1>5

\* Recording a processed event that is not pending.
LEMMA PendedNeat ==
  ASSUME NEW s \in State, NEW e \in Event, Neat(s), AheadOK(s, {e})
  PROVE  /\ Neat(Pended(s, <<e>>))
         /\ Owing(Pended(s, <<e>>), {}) \subseteq Owing(s, {e})
<1> DEFINE t == Pended(s, <<e>>)
           n == Len(s.pending)
<1>1. /\ t.processed = s.processed /\ t.stack = s.stack
      /\ Len(t.pending) = n + 1
      /\ \A i \in 1..n : t.pending[i] = s.pending[i]
      /\ t.pending[n + 1].of = e /\ n \in Nat
  <2>1. Len(t.pending) = n + 1
    BY PendedShape
  <2> QED
    BY <2>1, PendedShape, PendingDomain
<1>2. DOMAIN t.pending = 1..(n + 1) /\ DOMAIN s.pending = 1..n
  BY <1>1, BatchTypes, PendingDomain
<1>3. e \in s.processed /\ \A i \in 1..n : s.pending[i].of # e
  BY <1>2 DEF AheadOK, PendingOf
<1> HIDE DEF t, n
<1>4. \A i, j \in DOMAIN t.pending : t.pending[i].of = t.pending[j].of => i = j
  <2> SUFFICES ASSUME NEW i \in 1..(n + 1), NEW j \in 1..(n + 1),
                      t.pending[i].of = t.pending[j].of
               PROVE  i = j
    BY <1>2
  <2>1. CASE i \in 1..n /\ j \in 1..n
    BY <1>1, <1>2, <2>1 DEF Neat
  <2>2. CASE i = n + 1 /\ j \in 1..n
    BY <1>1, <1>3, <2>2
  <2>3. CASE i \in 1..n /\ j = n + 1
    BY <1>1, <1>3, <2>3
  <2> QED
    BY <1>1, <2>1, <2>2, <2>3
<1>5. \A i \in 1..(n + 1) : i \in 1..n \/ t.pending[i].of = e
  BY <1>1
<1>6. PendingOf(t) \subseteq PendingOf(s) \cup {e}
  BY <1>1, <1>2, <1>5 DEF PendingOf
<1>7. Neat(t)
  BY <1>1, <1>3, <1>4, <1>6 DEF Neat
<1>8. UndispatchedIn(t) \subseteq UndispatchedIn(s) \cup {e}
  BY <1>1, <1>2, <1>5 DEF UndispatchedIn, Undispatched
<1>9. Owing(t, {}) \subseteq Owing(s, {e})
  BY <1>1, <1>8 DEF Owing
<1> QED
  BY <1>7, <1>9 DEF t

LEMMA ClearedShape ==
  ASSUME NEW s \in State, s.pending # <<>>, NEW t, t = BatchCleared(s, 1)
  PROVE  /\ t.processed = s.processed /\ t.stack = s.stack /\ t.status = s.status
         /\ DOMAIN t.pending = 1..(Len(s.pending) - 1)
         /\ DOMAIN t.pending \subseteq DOMAIN s.pending
         /\ \A i \in DOMAIN t.pending : t.pending[i] = s.pending[i]
<1> DEFINE n == Len(s.pending)
<1>1. s.pending \in Seq(Entry) /\ n \in Nat \ {0} /\ DOMAIN s.pending = 1..n
  BY DEF State
<1>2. /\ DOMAIN SubSeq(s.pending, 1, n - 1) = 1..(n - 1)
      /\ \A j \in 1..(n - 1) : SubSeq(s.pending, 1, n - 1)[j] = s.pending[j]
  <2>1. 1 \in 1..(n + 1) /\ n - 1 \in (1 - 1)..n
    BY <1>1
  <2> QED
    BY <1>1, <2>1
<1>3. t = [s EXCEPT !.pending = SubSeq(s.pending, 1, n - 1)]
  BY DEF BatchCleared
<1>4. /\ t.pending = SubSeq(s.pending, 1, n - 1)
      /\ t.processed = s.processed /\ t.stack = s.stack /\ t.status = s.status
  BY <1>3 DEF State
<1>5. 1..(n - 1) \subseteq 1..n
  BY <1>1
<1> HIDE DEF n
<1> QED
  BY <1>1, <1>2, <1>4, <1>5 DEF n

\* Fewer pending commands of the same events.
LEMMA FewerNeat ==
  ASSUME NEW s, NEW t, Neat(s),
         t.processed = s.processed, t.stack = s.stack,
         DOMAIN t.pending \subseteq DOMAIN s.pending,
         \A i \in DOMAIN t.pending : t.pending[i] = s.pending[i]
  PROVE  /\ Neat(t)
         /\ Owing(t, {}) \subseteq Owing(s, {})
<1>1. PendingOf(t) \subseteq PendingOf(s)
  BY DEF PendingOf
<1>2. UndispatchedIn(t) \subseteq UndispatchedIn(s)
  BY DEF UndispatchedIn, Undispatched
<1>3. Neat(t)
  BY <1>1 DEF Neat
<1> QED
  BY <1>2, <1>3 DEF Owing

LEMMA FinishShape ==
  ASSUME NEW s \in State
  PROVE  /\ FinishRecovery(s).processed = s.processed
         /\ FinishRecovery(s).stack = s.stack
         /\ FinishRecovery(s).pending = <<>>
<1> DEFINE c == [s EXCEPT !.pending = <<>>, !.retries = 0]
<1>1. <<>> \in Seq(Entry)
  OBVIOUS
<1>2. c \in State /\ c.processed = s.processed /\ c.stack = s.stack /\ c.pending = <<>>
  BY <1>1 DEF State
<1>3. FinishRecovery(s) \in {c, Resume(c)}
  BY DEF FinishRecovery
<1>4. /\ Resume(c).processed = c.processed /\ Resume(c).stack = c.stack
      /\ Resume(c).pending = c.pending
  <2> HIDE DEF c
  <2> QED
    BY <1>2 DEF Resume, State
<1> HIDE DEF c
<1> QED
  BY <1>2, <1>3, <1>4

LEMMA FinishNeat ==
  ASSUME NEW s \in State, Neat(s)
  PROVE  /\ Neat(FinishRecovery(s))
         /\ Owing(FinishRecovery(s), {}) \subseteq Owing(s, {})
<1>1. DOMAIN FinishRecovery(s).pending = {}
  BY FinishShape
<1> QED
  BY <1>1, FinishShape, FewerNeat

\* A command that was carried out is owed no more once its entry says so.
LEMMA DispatchedOwing ==
  ASSUME NEW s \in State, Neat(s), NEW i \in DOMAIN s.pending,
         NEW t, t = [s EXCEPT !.pending[i].dispatched = TRUE]
  PROVE  /\ Neat(t)
         /\ Owing(t, {}) \subseteq Owing(s, {}) \ {s.pending[i].of}
<1>1. t \in State /\ SameLedger(s, t) /\ t.stack = s.stack
  BY EntryTypes, MarksShape
<1>2. Neat(t)
  BY <1>1, LedgerNeat
<1>3. DOMAIN t.pending = DOMAIN s.pending
  BY <1>1, PendingDomain DEF SameLedger
<1>4. /\ t.pending[i].dispatched
      /\ \A j \in DOMAIN s.pending : j # i => t.pending[j] = s.pending[j]
  <2>1. s.pending \in Seq(Entry) /\ s.pending[i] \in Entry
    BY DEF State
  <2>2. t.pending = [s.pending EXCEPT ![i] = [s.pending[i] EXCEPT !.dispatched = TRUE]]
    BY DEF State
  <2>3. [s.pending[i] EXCEPT !.dispatched = TRUE].dispatched
    BY <2>1, EntryFields
  <2> QED
    BY <2>1, <2>2, <2>3
<1>5. UndispatchedIn(t) \subseteq UndispatchedIn(s) \ {s.pending[i].of}
  <2> SUFFICES ASSUME NEW j \in Undispatched(t)
               PROVE  /\ t.pending[j].of \in UndispatchedIn(s)
                      /\ t.pending[j].of # s.pending[i].of
    BY DEF UndispatchedIn
  <2>1. j \in DOMAIN s.pending /\ j # i /\ t.pending[j] = s.pending[j]
    BY <1>3, <1>4 DEF Undispatched
  <2>2. j \in Undispatched(s)
    BY <2>1 DEF Undispatched
  <2> QED
    BY <2>1, <2>2 DEF Neat, UndispatchedIn
<1>6. s.pending[i].of \in s.processed /\ t.processed = s.processed
  BY <1>1 DEF Neat, PendingOf, SameLedger
<1>7. Owing(t, {}) \subseteq Owing(s, {}) \ {s.pending[i].of}
  BY <1>5, <1>6 DEF Owing
<1> QED
  BY <1>2, <1>7

\* The same ledger and pending commands that only a mark may differ in.
LEMMA LedgerOwing ==
  ASSUME NEW s, NEW t, SameBooks(s, t), NEW ahead
  PROVE  Owing(t, ahead) = Owing(s, ahead)
  BY DEF SameBooks, Owing

-----------------------------------------------------------------------------
(* What is made of a state.                                                *)

Roomy(known) == MaxProcessed = 0 \/ Cardinality(known) <= MaxProcessed

LEMMA MarkedShape ==
  ASSUME NEW s \in State, NEW e \in Event, NEW m \in Marked(s, e),
         NEW known, IsFiniteSet(known), s.processed \cup {e} \subseteq known
  PROVE  /\ m.processed \subseteq known
         /\ Roomy(known) => m.processed = s.processed \cup {e}
         /\ m.pending = s.pending /\ m.stack = s.stack /\ m.status = s.status
         /\ m.failed = s.failed
<1> DEFINE all == s.processed \cup {e}
<1>1. PICK kept \in SUBSET all : m = [s EXCEPT !.processed = kept]
  BY DEF Marked
<1>2. /\ m.processed = kept /\ m.pending = s.pending /\ m.stack = s.stack
      /\ m.status = s.status /\ m.failed = s.failed
  BY <1>1 DEF State
<1>3. ASSUME Roomy(known) PROVE m.processed = all
  <2>1. Cardinality(all) <= Cardinality(known) /\ Cardinality(all) \in Nat
        /\ Cardinality(known) \in Nat
    BY FS_Subset, FS_CardinalityType
  <2>2. MaxProcessed \in Nat
    BY SagaAssumption
  <2> DEFINE n == Cardinality(all)
             k == Cardinality(known)
  <2>3. MaxProcessed = 0 \/ n <= MaxProcessed
    <3>1. n <= k /\ n \in Nat /\ k \in Nat /\ (MaxProcessed = 0 \/ k <= MaxProcessed)
      BY <1>3, <2>1 DEF Roomy
    <3> HIDE DEF n, k
    <3> QED
      BY <2>2, <3>1
  <2>4. m \in {[s EXCEPT !.processed = all]}
    BY <2>3 DEF Marked
  <2> QED
    BY <2>4 DEF State
<1> QED
  BY <1>1, <1>2, <1>3

\* What the work w, made of the saved state s, leaves true until it is saved.
SoloWork(w, s, carried, known, intact) ==
    w.path # "skip" =>
        /\ ~IsTerminal(s)
        /\ w.path \in {"end", "failed", "forward"} => StackKept(s, w.state, carried)
        /\ w.path \in {"compensate", "raised"} =>
              Walk(s, w.state, w.undo, carried, intact)
        /\ w.path = "unsaved" => Unwound(s, w.state, w.undo, carried, intact)
        /\ w.path \in {"forward", "failed"} /\ w.forward # <<>> =>
              w.state.status # "COMPENSATED"
        /\ w.path = "forward" => SmallBatch(w.forward)
        /\ SingleBatch(w.forward)
        /\ w.path = "end" => w.forward = <<>>
        /\ w.state.processed \subseteq known
        /\ intact => /\ Neat(w.state)
                     /\ AheadOK(w.state, ToSet(w.forward))
                     /\ Event \cap Owing(w.state, ToSet(w.forward)) \subseteq Owing(s, {})

LEMMA HandledSolo ==
  ASSUME NEW s \in State, ~IsTerminal(s), NEW e \in Event, NEW u,
         NEW w \in HandleEvent(s, e, u), NEW carried,
         NEW known, IsFiniteSet(known), s.processed \cup {e} \subseteq known,
         NEW intact \in BOOLEAN, intact => Roomy(known) /\ Neat(s)
  PROVE  SoloWork(w, s, carried, known, intact)
<1>0. /\ ToSet(<<>>) = {} /\ ToSet(<<e>>) = {e} /\ e \in Command
      /\ SmallBatch(<<>>) /\ SmallBatch(<<e>>) /\ SingleBatch(<<>>) /\ SingleBatch(<<e>>)
  BY DEF ToSet, Command, SmallBatch, SingleBatch
<1>1. CASE e \in s.processed
  <2>1. w = Work(s, <<>>, <<>>, "forward")
    BY <1>1 DEF HandleEvent
  <2>2. StackKept(s, s, carried) /\ AheadOK(s, {})
    BY DEF StackKept, AheadOK
  <2>3. w.state = s /\ w.forward = <<>> /\ w.path = "forward"
    BY <2>1 DEF Work
  <2> QED
    BY <1>0, <2>2, <2>3 DEF SoloWork
<1>2. CASE e \notin s.processed
  <2>1. PICK v \in StepEnds(s, e, u) \cup StepRaises(s, e, u) :
           \E m \in Marked(v.state, e) : w = [v EXCEPT !.state = m]
    BY <1>2 DEF HandleEvent
  <2>2. PICK m \in Marked(v.state, e) : w = [v EXCEPT !.state = m]
    BY <2>1
  <2>3. IsWork(v) /\ StepResult(v, s, e)
    BY StepEndsType, StepRaisesType, StepEndsResult, StepRaisesResult
  <2>4. /\ v.state \in State /\ v.state.processed = s.processed
        /\ v.state.pending = s.pending
    BY <2>3 DEF IsWork, StepResult
  <2>5. /\ w.state = m /\ w.forward = v.forward /\ w.undo = v.undo /\ w.path = v.path
    BY <2>2, <2>3 DEF IsWork
  <2>6. /\ m.processed \subseteq known
        /\ Roomy(known) => m.processed = s.processed \cup {e}
        /\ m.pending = s.pending /\ m.stack = v.state.stack
        /\ m.status = v.state.status /\ m.failed = v.state.failed
    <3>1. v.state.processed \cup {e} \subseteq known
      BY <2>4
    <3> QED
      BY <2>4, <3>1, MarkedShape
  <2>7. /\ v.forward \in {<<>>, <<e>>} /\ v.path \notin {"skip", "end", "unsaved"}
        /\ m.stack \in {s.stack, Append(s.stack, e), <<>>}
        /\ v.path \in {"forward", "failed"} =>
              /\ m.stack \in {s.stack, Append(s.stack, e)} \/ m.status = "COMPLETED"
              /\ m.status # "COMPENSATED"
        /\ v.path \in {"compensate", "raised"} =>
              \E K \in {s.stack, Append(s.stack, e)} : Undoes(v.undo, v.state, K)
    BY <2>3, <2>6 DEF StepResult
  <2>8. /\ s.stack \in Seq(Event) /\ Append(s.stack, e) \in Seq(Event)
        /\ \A i \in DOMAIN s.stack :
              /\ i \in DOMAIN Append(s.stack, e) /\ Append(s.stack, e)[i] = s.stack[i]
        /\ ToSet(Append(s.stack, e)) = ToSet(s.stack) \cup {e}
    <3>1. s.stack \in Seq(Event)
      BY DEF State
    <3>2. /\ Len(s.stack) \in Nat /\ DOMAIN s.stack = 1..Len(s.stack)
          /\ DOMAIN Append(s.stack, e) = 1..(Len(s.stack) + 1)
          /\ \A i \in 1..Len(s.stack) : Append(s.stack, e)[i] = s.stack[i]
          /\ Append(s.stack, e)[Len(s.stack) + 1] = e
      BY <3>1
    <3>3. ToSet(Append(s.stack, e)) = ToSet(s.stack) \cup {e}
      <4>1. \A i \in 1..(Len(s.stack) + 1) : i \in 1..Len(s.stack) \/ i = Len(s.stack) + 1
        BY <3>2
      <4>2. \A i \in 1..Len(s.stack) : i \in 1..(Len(s.stack) + 1)
        BY <3>2
      <4>3. Len(s.stack) + 1 \in 1..(Len(s.stack) + 1)
        BY <3>2
      <4> QED
        BY <3>2, <4>1, <4>2, <4>3 DEF ToSet
    <3> QED
      BY <3>1, <3>2, <3>3
  <2>9. ASSUME v.path \in {"forward", "failed"}
        PROVE  StackKept(s, m, carried)
    BY <2>7, <2>8, <2>9 DEF StackKept
  <2>10. ASSUME intact
         PROVE  Distinct(s.stack) /\ Distinct(Append(s.stack, e))
    <3>1. Distinct(s.stack) /\ \A i \in DOMAIN s.stack : s.stack[i] # e
      BY <1>2, <2>10 DEF Neat, ToSet
    <3>2. Append(s.stack, e)[Len(s.stack) + 1] = e
          /\ DOMAIN Append(s.stack, e) = DOMAIN s.stack \cup {Len(s.stack) + 1}
      BY <2>8
    <3> QED
      BY <2>8, <3>1, <3>2 DEF Distinct
  <2>11. ASSUME v.path \in {"compensate", "raised"}
         PROVE  Walk(s, m, v.undo, carried, intact)
    <3>1. PICK K \in {s.stack, Append(s.stack, e)} : Undoes(v.undo, v.state, K)
      BY <2>7, <2>11
    <3>2. K \in Seq(Event) /\ \A i \in DOMAIN s.stack : i \in DOMAIN K /\ K[i] = s.stack[i]
      BY <2>8, <3>1
    <3>3. intact => Distinct(K)
      BY <2>10, <3>1
    <3> QED
      BY <2>6, <3>1, <3>2, <3>3 DEF Walk, Undoes
  <2>12. ASSUME intact
         PROVE  /\ Neat(m) /\ AheadOK(m, ToSet(v.forward))
                /\ Owing(m, ToSet(v.forward)) \subseteq Owing(s, {})
    <3>1. /\ m.processed = s.processed \cup {e} /\ m.pending = s.pending
          /\ PendingOf(m) = PendingOf(s) /\ UndispatchedIn(m) = UndispatchedIn(s)
      BY <2>6, <2>12 DEF PendingOf, UndispatchedIn, Undispatched
    <3>2. ToSet(v.forward) \subseteq {e}
      BY <1>0, <2>7
    <3>3. Distinct(m.stack) /\ ToSet(m.stack) \subseteq s.processed \cup {e}
      <4>1. Distinct(<<>>)
        BY DEF Distinct
      <4>2. ToSet(s.stack) \subseteq s.processed
        BY <2>12 DEF Neat
      <4> QED
        BY <1>0, <2>7, <2>8, <2>10, <2>12, <4>1, <4>2
    <3>4. Neat(m)
      BY <2>12, <3>1, <3>3 DEF Neat
    <3>5. AheadOK(m, ToSet(v.forward))
      BY <1>2, <2>12, <3>1, <3>2 DEF AheadOK, Neat
    <3>6. Owing(m, ToSet(v.forward)) \subseteq Owing(s, {})
      BY <1>2, <3>1, <3>2 DEF Owing
    <3> QED
      BY <3>4, <3>5, <3>6
  <2>13. SmallBatch(v.forward) /\ SingleBatch(v.forward)
    BY <1>0, <2>7
  <2> QED
    BY <2>5, <2>6, <2>7, <2>9, <2>11, <2>12, <2>13 DEF SoloWork
<1> QED
  BY <1>1, <1>2

\* A state that differs from s in no field that is recorded or owed.
LEMMA QuietWork ==
  ASSUME NEW s \in State, NEW x, SameFields(s, x), x.stack = s.stack \/ x.stack = <<>>,
         NEW forward \in {<<>>, <<Nudge>>},
         NEW known, s.processed \subseteq known, NEW intact, intact => Neat(s)
  PROVE  /\ x.processed \subseteq known /\ SingleBatch(forward)
         /\ intact => /\ Neat(x)
                      /\ AheadOK(x, ToSet(forward))
                      /\ Event \cap Owing(x, ToSet(forward)) \subseteq Owing(s, {})
<1>1. x.processed = s.processed /\ x.pending = s.pending
  BY DEF SameFields
<1>2. /\ PendingOf(x) = PendingOf(s) /\ UndispatchedIn(x) = UndispatchedIn(s)
  BY <1>1 DEF PendingOf, UndispatchedIn, Undispatched
<1>3. ToSet(forward) \cap Event = {} /\ SingleBatch(forward)
  <2>1. ToSet(<<>>) = {} /\ ToSet(<<Nudge>>) = {Nudge}
    BY DEF ToSet
  <2> QED
    BY <2>1, SagaAssumption DEF SingleBatch, Command
<1>4. Neat(s) => Neat(x)
  BY <1>1, <1>2 DEF Neat, Distinct, ToSet
<1>5. AheadOK(x, ToSet(forward))
  BY <1>3 DEF AheadOK
<1>6. Event \cap Owing(x, ToSet(forward)) \subseteq Owing(s, {})
  BY <1>1, <1>2, <1>3 DEF Owing
<1> QED
  BY <1>1, <1>3, <1>4, <1>5, <1>6

LEMMA ProcessedSolo ==
  ASSUME NEW s \in State, NEW e \in Event, NEW u, NEW w \in ProcessEvent(s, e, u),
         NEW carried, NEW known, IsFiniteSet(known), s.processed \cup {e} \subseteq known,
         NEW intact \in BOOLEAN, intact => Roomy(known) /\ Neat(s)
  PROVE  SoloWork(w, s, carried, known, intact)
<1> DEFINE f == [s EXCEPT !.status = "FAILED"]
           x == ClearMarks(Resume(s))
<1>1. CASE w = Work(s, <<>>, <<>>, "skip")
  BY <1>1 DEF SoloWork, Work
<1>2. CASE ~IsTerminal(s) /\ w = Work(f, <<>>, <<>>, "end")
  <2>1. SameFields(s, f) /\ f.stack = s.stack
    BY DEF SameFields, IsState, State, Status
  <2>2. w.state = f /\ w.forward = <<>> /\ w.path = "end"
    BY <1>2 DEF Work
  <2> HIDE DEF f
  <2>3. StackKept(s, f, carried)
    BY <2>1 DEF StackKept
  <2>4. /\ f.processed \subseteq known /\ SingleBatch(<<>>)
        /\ intact => /\ Neat(f)
                     /\ AheadOK(f, ToSet(<<>>))
                     /\ Event \cap Owing(f, ToSet(<<>>)) \subseteq Owing(s, {})
    <3>1. s.processed \subseteq known
      OBVIOUS
    <3> QED
      BY <2>1, <3>1, QuietWork
  <2> QED
    BY <1>2, <2>2, <2>3, <2>4 DEF SoloWork
<1>3. CASE ~IsTerminal(s) /\ w \in HandleEvent(s, e, u)
  BY <1>3, HandledSolo
<1>4. CASE ~IsTerminal(s) /\ w \in HandleEvent(x, e, u)
  <2>1. /\ Resume(s) \in State /\ Resume(s).stack = s.stack
        /\ Resume(s).status \in {s.status, "RUNNING"}
        /\ Resume(s).processed = s.processed /\ Resume(s).pending = s.pending
    <3>1. Resume(s) \in State
      BY LifecycleTypes
    <3> QED
      BY <3>1 DEF Resume, State
  <2>2. /\ x \in State /\ x.stack = s.stack /\ x.status = Resume(s).status
        /\ SameLedger(Resume(s), x)
    BY <2>1, ClearMarksType, MarksShape
  <2>3. SameLedger(s, x)
    BY <2>1, <2>2, SameFieldsLedger, LedgerTransitive
  <2>4. ~IsTerminal(x)
    BY <1>4, <2>1, <2>2 DEF IsTerminal
  <2>5. Neat(s) => Neat(x)
    BY <2>2, <2>3, LedgerNeat
  <2>6. Owing(x, {}) = Owing(s, {})
    <3>1. SameBooks(s, Resume(s))
      BY <2>1 DEF SameBooks, UndispatchedIn, Undispatched
    <3>2. SameBooks(s, x)
      BY <2>1, <3>1, StateIsState, ClearMarksKeepsBooks, SameBooksTransitive
    <3> QED
      BY <3>2, LedgerOwing
  <2>7. x.processed \cup {e} \subseteq known
    BY <2>3 DEF SameLedger
  <2>8. SoloWork(w, x, carried, known, intact)
    BY <1>4, <2>2, <2>4, <2>5, <2>7, HandledSolo
  <2> HIDE DEF x
  <2> QED
    BY <1>4, <2>2, <2>6, <2>8 DEF SoloWork, StackKept, Walk, Unwound
<1> QED
  BY <1>1, <1>2, <1>3, <1>4 DEF ProcessEvent

LEMMA TimedOutSolo ==
  ASSUME NEW s \in State, ~IsTerminal(s), NEW u, NEW w \in TimeOut(s, u),
         NEW carried, NEW known, s.processed \subseteq known,
         NEW intact \in BOOLEAN, intact => Neat(s)
  PROVE  SoloWork(w, s, carried, known, intact)
<1> DEFINE f == Fail(s, TRUE, u)
           d == [f EXCEPT !.status = "FAILED"]
           g == Fail(s, FALSE, u)
           c == Complete(s)
           r == Resume(s)
<1>1. /\ SameFields(s, f) /\ SameFields(s, g) /\ SameFields(s, c) /\ SameFields(s, r)
      /\ f.stack = <<>> /\ g.stack = s.stack /\ r.stack = s.stack
      /\ c.stack = <<>> /\ c.status = "COMPLETED"
      /\ s.stack # <<>> => f.status = "COMPENSATING"
      /\ s.stack = <<>> => f.status = "FAILED"
  <2>1. SameFields(s, f) /\ SameFields(s, g) /\ SameFields(s, c) /\ SameFields(s, r)
    <3>1. IsState(s)
      BY StateIsState
    <3> HIDE DEF f, g, c, r
    <3> QED
      BY <3>1, LifecycleKeepsFields DEF f, g, c, r
  <2>2. f.stack = <<>> /\ g.stack = s.stack
        /\ (s.stack # <<>> => f.status = "COMPENSATING")
        /\ (s.stack = <<>> => f.status = "FAILED")
    BY FailShape
  <2>3. c.stack = <<>> /\ c.status = "COMPLETED" /\ r.stack = s.stack
    BY DEF Complete, Resume, State
  <2> QED
    BY <2>1, <2>2, <2>3
<1>10. SameFields(s, d) /\ d.stack = <<>> /\ d.failed = f.failed
  <2>1. IsState(f) /\ f.processed = s.processed /\ f.pending = s.pending
    BY <1>1 DEF SameFields
  <2> HIDE DEF f
  <2> QED
    BY <1>1, <2>1 DEF SameFields, IsState, Status
<1>2. Undoes(Undos(s, u), f, s.stack) \/ s.stack = <<>>
  BY FailUndoes
<1>3. \E b \in {<<>>, <<Nudge>>} :
         \/ f.status = "COMPENSATING" /\ w = Work(f, b, Undos(s, u), "compensate")
         \/ f.status # "COMPENSATING" /\ w = Work(f, b, <<>>, "unsaved")
         \/ b = <<>> /\ w = Work(d, b, Undos(s, u), "unsaved")
         \/ w = Work(g, b, <<>>, "unsaved")
         \/ w = Work(c, b, <<>>, "unsaved")
         \/ w = Work(r, b, <<>>, "unsaved")
  <2> DEFINE Failing(queued, sent) ==
                IF f.status = "COMPENSATING"
                THEN Work(f, sent, Undos(s, u), "compensate")
                ELSE Work(f, queued, <<>>, "unsaved")
  <2>1. w \in {Failing(<<>>, <<>>), Failing(<<Nudge>>, <<>>), Failing(<<Nudge>>, <<Nudge>>),
               Work(d, <<>>, Undos(s, u), "unsaved"),
               Work(g, <<>>, <<>>, "unsaved"), Work(c, <<Nudge>>, <<>>, "unsaved"),
               Work(r, <<>>, <<>>, "unsaved"), Work(r, <<Nudge>>, <<>>, "unsaved")}
    BY DEF TimeOut
  <2> HIDE DEF f, d, g, c, r
  <2>2. \A queued, sent \in {<<>>, <<Nudge>>} :
           \/ f.status = "COMPENSATING"
              /\ Failing(queued, sent) = Work(f, sent, Undos(s, u), "compensate")
           \/ f.status # "COMPENSATING"
              /\ Failing(queued, sent) = Work(f, queued, <<>>, "unsaved")
    OBVIOUS
  <2> HIDE DEF Failing
  <2> QED
    BY <2>1, <2>2
<1> HIDE DEF f, d, g, c, r
<1>4. PICK b \in {<<>>, <<Nudge>>} :
         \/ f.status = "COMPENSATING" /\ w = Work(f, b, Undos(s, u), "compensate")
         \/ f.status # "COMPENSATING" /\ w = Work(f, b, <<>>, "unsaved")
         \/ b = <<>> /\ w = Work(d, b, Undos(s, u), "unsaved")
         \/ w = Work(g, b, <<>>, "unsaved")
         \/ w = Work(c, b, <<>>, "unsaved")
         \/ w = Work(r, b, <<>>, "unsaved")
  BY <1>3
<1>5. ASSUME NEW x, NEW undo, NEW p, w = Work(x, b, undo, p), SameFields(s, x),
             x.stack = s.stack \/ x.stack = <<>>,
             \/ p = "unsaved" /\ Unwound(s, x, undo, carried, intact)
             \/ p = "compensate" /\ Walk(s, x, undo, carried, intact)
      PROVE  SoloWork(w, s, carried, known, intact)
  <2>1. w.state = x /\ w.forward = b /\ w.undo = undo /\ w.path = p
    BY <1>5 DEF Work
  <2>2. /\ x.processed \subseteq known /\ SingleBatch(b)
        /\ intact => /\ Neat(x)
                     /\ AheadOK(x, ToSet(b))
                     /\ Event \cap Owing(x, ToSet(b)) \subseteq Owing(s, {})
    BY <1>5, QuietWork
  <2> QED
    BY <1>5, <2>1, <2>2 DEF SoloWork
<1>6. CASE f.status = "COMPENSATING" /\ w = Work(f, b, Undos(s, u), "compensate")
  <2>1. s.stack # <<>> /\ s.stack \in Seq(Event) /\ (intact => Distinct(s.stack))
    BY <1>1, <1>6 DEF State, Neat
  <2>2. Undoes(Undos(s, u), f, s.stack)
    BY <1>2, <2>1
  <2>3. Walk(s, f, Undos(s, u), carried, intact)
    BY <2>1, <2>2 DEF Walk, Undoes
  <2> QED
    BY <1>1, <1>5, <1>6, <2>3
<1>7. /\ StackKept(s, g, carried) /\ StackKept(s, c, carried) /\ StackKept(s, r, carried)
      /\ f.status # "COMPENSATING" => StackKept(s, f, carried)
  BY <1>1 DEF StackKept
<1>8. \A x \in {f, g, c, r} :
         StackKept(s, x, carried) => Unwound(s, x, <<>>, carried, intact)
  BY DEF Unwound
<1>9. Unwound(s, d, Undos(s, u), carried, intact)
  <2>1. CASE s.stack = <<>>
    <3>1. DOMAIN Undos(s, u) = {j \in DOMAIN s.stack : s.stack[j] \notin u}
      BY UndosType
    <3>2. DOMAIN s.stack = {} /\ ToSet(s.stack) = {}
      BY <2>1 DEF ToSet
    <3>3. DOMAIN Undos(s, u) = {}
      BY <3>1, <3>2
    <3>4. StackKept(s, d, carried)
      BY <3>2 DEF StackKept
    <3> QED
      BY <3>3, <3>4 DEF Unwound
  <2>2. CASE s.stack # <<>>
    <3>1. s.stack \in Seq(Event) /\ (intact => Distinct(s.stack))
      BY DEF State, Neat
    <3>2. Undoes(Undos(s, u), d, s.stack)
      BY <1>2, <1>10, <2>2 DEF Undoes
    <3> QED
      BY <3>1, <3>2 DEF Unwound, Walk, Undoes
  <2> QED
    BY <2>1, <2>2
<1> QED
  BY <1>1, <1>4, <1>5, <1>6, <1>7, <1>8, <1>9, <1>10

\* What recovery makes of a stalled state it does not send commands of.
LEMMA RecoverSolo ==
  ASSUME NEW s \in State, ~IsTerminal(s), NEW u, NEW w,
         \/ w = Work(FinishRecovery(s), <<>>, <<>>, "end")
         \/ /\ Fail(s, TRUE, u).status = "COMPENSATING"
            /\ w = Work(Fail(s, TRUE, u), <<>>, Undos(s, u), "compensate")
         \/ /\ Fail(s, TRUE, u).status # "COMPENSATING"
            /\ w = Work(Fail(s, TRUE, u), <<>>, <<>>, "end"),
         NEW carried, NEW known, s.processed \subseteq known,
         NEW intact \in BOOLEAN, intact => Neat(s)
  PROVE  SoloWork(w, s, carried, known, intact)
<1> DEFINE f == Fail(s, TRUE, u)
<1>1. /\ SameFields(s, f) /\ f.stack = <<>>
      /\ s.stack # <<>> => f.status = "COMPENSATING"
      /\ s.stack = <<>> => f.status = "FAILED"
  <2>1. IsState(s)
    BY StateIsState
  <2>2. SameFields(s, f)
    BY <2>1, LifecycleKeepsFields
  <2>3. /\ f.stack = <<>>
        /\ s.stack # <<>> => f.status = "COMPENSATING"
        /\ s.stack = <<>> => f.status = "FAILED"
    BY FailShape
  <2> QED
    BY <2>2, <2>3
<1>2. s.stack = <<>> \/ Undoes(Undos(s, u), f, s.stack)
  BY FailUndoes
<1> HIDE DEF f
<1>3. ToSet(<<>>) = {} /\ SingleBatch(<<>>)
  BY DEF ToSet, SingleBatch
<1>4. /\ f.processed \subseteq known
      /\ intact => /\ Neat(f)
                   /\ AheadOK(f, ToSet(<<>>))
                   /\ Event \cap Owing(f, ToSet(<<>>)) \subseteq Owing(s, {})
  BY <1>1, QuietWork
<1>5. CASE w = Work(FinishRecovery(s), <<>>, <<>>, "end")
  <2> DEFINE x == FinishRecovery(s)
  <2>1. w.state = x /\ w.forward = <<>> /\ w.path = "end"
    BY <1>5 DEF Work
  <2>2. x.processed = s.processed /\ x.stack = s.stack
    BY FinishShape
  <2>3. StackKept(s, x, carried) /\ AheadOK(x, {})
    <3> HIDE DEF x
    <3> QED
      BY <2>2 DEF StackKept, AheadOK
  <2>4. intact => Neat(x) /\ Owing(x, {}) \subseteq Owing(s, {})
    BY FinishNeat
  <2> HIDE DEF x
  <2> QED
    BY <1>3, <2>1, <2>2, <2>3, <2>4 DEF SoloWork
<1>6. CASE f.status = "COMPENSATING" /\ w = Work(f, <<>>, Undos(s, u), "compensate")
  <2>1. /\ w.state = f /\ w.forward = <<>> /\ w.undo = Undos(s, u)
        /\ w.path = "compensate"
    BY <1>6 DEF Work
  <2>2. s.stack # <<>> /\ s.stack \in Seq(Event) /\ (intact => Distinct(s.stack))
    BY <1>1, <1>6 DEF State, Neat
  <2>3. Walk(s, f, Undos(s, u), carried, intact)
    BY <1>2, <2>2 DEF Walk, Undoes
  <2> QED
    BY <1>3, <1>4, <2>1, <2>3 DEF SoloWork
<1>7. CASE f.status # "COMPENSATING" /\ w = Work(f, <<>>, <<>>, "end")
  <2>1. w.state = f /\ w.forward = <<>> /\ w.path = "end"
    BY <1>7 DEF Work
  <2>2. StackKept(s, f, carried)
    BY <1>1, <1>7 DEF StackKept
  <2> QED
    BY <1>3, <1>4, <2>1, <2>2 DEF SoloWork
<1> QED
  BY <1>5, <1>6, <1>7 DEF f

\* Less is owed by a state that follows.
LEMMA BalanceShrinks ==
  ASSUME NEW s, NEW x, NEW a, NEW b, NEW counts, NEW slack,
         Balanced(s, a, counts, slack), Event \cap Owing(x, b) \subseteq Owing(s, a)
  PROVE  Balanced(x, b, counts, slack)
  BY DEF Balanced

LEMMA BatchHeld ==
  ASSUME NEW m, IsMemory(m), m.sent = 0, SmallBatch(m.forward),
         NEW s, IsTerminal(s) => m.state.status = s.status,
         NEW counts, NEW carried, NEW slack, NEW known, NEW intact \in BOOLEAN,
         StackKept(s, m.state, carried),
         m.forward # <<>> => m.state.status # "COMPENSATED",
         m.state.processed \subseteq known,
         intact => /\ Neat(m.state)
                   /\ AheadOK(m.state, ToSet(m.forward))
                   /\ Balanced(m.state, ToSet(m.forward), counts, slack),
         NEW k, k = SavingBatch(m)
  PROVE  /\ k # NoTask /\ k.at # "create" /\ k.row = m.row
         /\ HeldOK(k, s, counts, carried, slack, known, intact)
<1> USE DEF IsSaving
<1>0. k.at = "save" => k # NoTask
  BY DEF NoTask
<1>1. CASE m.forward = <<>>
  <2>1. /\ k.at = "save" /\ k.next = "end" /\ k.row = m.row /\ k.state = m.state
        /\ k.forward = <<>>
    BY <1>1 DEF SavingBatch, LastSave
  <2>2. ToSet(m.forward) = {}
    BY <1>1 DEF ToSet
  <2>3. Ahead(k) = {} /\ AheadOK(k.state, {})
    BY <2>1 DEF Ahead, AheadOK
  <2> QED
    BY <1>0, <2>1, <2>2, <2>3
    DEF HeldOK, Reopens, NothingSaved, Batched, SameAsSaved, SingleBatch
<1>2. CASE m.forward # <<>>
  <2>1. PICK e \in Event : m.forward = <<e>>
    BY <1>2 DEF SmallBatch
  <2> DEFINE x == m.state
             y == Pended(m.state, <<e>>)
  <2>2. k = [m EXCEPT !.at = "save", !.state = y, !.next = "send"]
    BY <1>2, <2>1 DEF SavingBatch, Saving
  <2>3. /\ k.at = "save" /\ k.next = "send" /\ k.row = m.row /\ k.state = y
        /\ k.forward = <<e>>
    <3> HIDE DEF y
    <3> QED
      BY <2>1, <2>2 DEF IsMemory
  <2>4. x \in State
    BY DEF IsMemory
  <2>5. y.processed = x.processed /\ y.stack = x.stack /\ y.status = x.status
        /\ y.failed = x.failed /\ ~y.pending[Len(y.pending)].dispatched
    BY <2>4, PendedShape
  <2>6. ToSet(m.forward) = {e} /\ SingleBatch(<<e>>)
    BY <2>1 DEF ToSet, SingleBatch, Command
  <2>7. ASSUME intact
        PROVE  Neat(y) /\ AheadOK(y, {}) /\ Balanced(y, {}, counts, slack)
    <3>1. Neat(x) /\ AheadOK(x, {e}) /\ Balanced(x, {e}, counts, slack)
      BY <2>6, <2>7
    <3>2. Neat(y) /\ Owing(y, {}) \subseteq Owing(x, {e})
      BY <2>4, <3>1, PendedNeat
    <3> HIDE DEF x, y
    <3>3. AheadOK(y, {})
      BY DEF AheadOK
    <3> QED
      BY <3>1, <3>2, <3>3, BalanceShrinks
  <2>8. StackKept(s, x, carried) /\ x.status # "COMPENSATED"
    BY <1>2
  <2> HIDE DEF y
  <2>9. StackKept(s, y, carried) /\ Ahead(k) = {}
    BY <2>3, <2>5, <2>8 DEF StackKept, Ahead
  <2> QED
    BY <1>0, <2>3, <2>5, <2>6, <2>7, <2>8, <2>9
    DEF HeldOK, Reopens, NothingSaved, Batched, SameAsSaved
<1> QED
  BY <1>1, <1>2

LEMMA BeginHeld ==
  ASSUME NEW t, NEW row \in Nat, NEW w, IsWork(w), Begin(t, row, w),
         NEW s, NEW counts, NEW carried, NEW slack, NEW known, NEW intact \in BOOLEAN,
         SoloWork(w, s, carried, known, intact),
         intact => Balanced(s, {}, counts, slack)
  PROVE  \E k : /\ Become(t, k)
                /\ \/ k = NoTask
                   \/ /\ k.at # "create" /\ k.row = row
                      /\ HeldOK(k, s, counts, carried, slack, known, intact)
<1> DEFINE m == [LastSave(row, w.state) EXCEPT !.forward = w.forward, !.undo = w.undo]
           Fits(k) == /\ k.at # "create" /\ k.row = row
                      /\ HeldOK(k, s, counts, carried, slack, known, intact)
<1>1. /\ IsMemory(m) /\ m.row = row /\ m.sent = 0 /\ m.at = "save" /\ m.next = "end"
      /\ m.state = w.state /\ m.forward = w.forward /\ m.undo = w.undo
  <2>1. IsMemory(LastSave(row, w.state)) /\ LastSave(row, w.state).row = row
    BY LastSaveType DEF IsWork
  <2>2. LastSave(row, w.state).sent = 0 /\ LastSave(row, w.state).at = "save"
        /\ LastSave(row, w.state).next = "end" /\ LastSave(row, w.state).state = w.state
    BY DEF LastSave
  <2> HIDE DEF LastSave
  <2> QED
    BY <2>1, <2>2 DEF IsMemory, IsWork
<1>2. /\ w.path = "skip" => Become(t, NoTask)
      /\ w.path = "end" => Become(t, m)
      /\ w.path = "failed" => Become(t, [m EXCEPT !.next = "batch"])
      /\ w.path = "forward" => Become(t, SavingBatch(m))
      /\ w.path = "raised" => Become(t, [m EXCEPT !.at = "compensate", !.next = "batch"])
      /\ w.path \in {"compensate", "unsaved"} => Become(t, [m EXCEPT !.at = w.path])
  BY DEF Begin, End
<1> HIDE DEF m
<1>3. ASSUME w.path # "skip"
      PROVE  /\ ~IsTerminal(s) /\ SingleBatch(m.forward)
             /\ m.state.processed \subseteq known
             /\ intact => /\ Neat(m.state)
                          /\ AheadOK(m.state, ToSet(m.forward))
                          /\ Balanced(m.state, ToSet(m.forward), counts, slack)
  <2>1. intact => /\ Neat(m.state)
                  /\ AheadOK(m.state, ToSet(m.forward))
                  /\ Event \cap Owing(m.state, ToSet(m.forward)) \subseteq Owing(s, {})
    BY <1>1, <1>3 DEF SoloWork
  <2>2. intact => Balanced(m.state, ToSet(m.forward), counts, slack)
    BY <2>1, BalanceShrinks
  <2> QED
    BY <1>1, <1>3, <2>1, <2>2 DEF SoloWork
<1>4. CASE w.path = "skip"
  BY <1>2, <1>4
<1>5. CASE w.path = "end"
  <2>1. ToSet(m.forward) = {} /\ Ahead(m) = {} /\ m.forward = <<>>
    <3>1. m.forward = <<>>
      BY <1>1, <1>5 DEF SoloWork
    <3> QED
      BY <1>1, <3>1 DEF ToSet, Ahead, IsSaving
  <2>2. StackKept(s, m.state, carried)
    BY <1>1, <1>5 DEF SoloWork
  <2>3. Fits(m)
    BY <1>1, <1>3, <1>5, <2>1, <2>2
    DEF HeldOK, Reopens, NothingSaved, Batched, SameAsSaved, IsSaving
  <2> QED
    BY <1>2, <1>5, <2>3
<1>6. CASE w.path = "failed"
  <2> DEFINE k == [m EXCEPT !.next = "batch"]
  <2>1. /\ k.at = "save" /\ k.next = "batch" /\ k.row = row /\ k.state = m.state
        /\ k.forward = m.forward
    BY <1>1 DEF IsMemory
  <2> HIDE DEF k
  <2>2. /\ StackKept(s, m.state, carried)
        /\ m.forward # <<>> => m.state.status # "COMPENSATED"
    BY <1>1, <1>6 DEF SoloWork
  <2>3. Ahead(k) = ToSet(m.forward)
    BY <2>1 DEF Ahead, IsSaving
  <2>4. Fits(k)
    BY <1>3, <1>6, <2>1, <2>2, <2>3
    DEF HeldOK, Reopens, NothingSaved, Batched, SameAsSaved, IsSaving
  <2> QED
    BY <1>2, <1>6, <2>4 DEF k
<1>7. CASE w.path = "forward"
  <2>1. /\ StackKept(s, m.state, carried) /\ SmallBatch(m.forward)
        /\ m.forward # <<>> => m.state.status # "COMPENSATED"
    BY <1>1, <1>7 DEF SoloWork
  <2>2. Fits(SavingBatch(m))
    BY <1>1, <1>3, <1>7, <2>1, BatchHeld
  <2> QED
    BY <1>2, <1>7, <2>2
<1>8. CASE w.path \in {"raised", "compensate"}
  <2>1. PICK k : /\ Become(t, k) /\ k.at = "compensate" /\ k.row = row /\ k.state = m.state
                 /\ k.forward = m.forward /\ k.undo = m.undo
    <3> DEFINE a == [m EXCEPT !.at = "compensate", !.next = "batch"]
               b == [m EXCEPT !.at = "compensate"]
    <3>1. /\ a.at = "compensate" /\ a.row = row /\ a.state = m.state
          /\ a.forward = m.forward /\ a.undo = m.undo
          /\ b.at = "compensate" /\ b.row = row /\ b.state = m.state
          /\ b.forward = m.forward /\ b.undo = m.undo
      BY <1>1 DEF IsMemory
    <3>2. Become(t, a) \/ Become(t, b)
      BY <1>2, <1>8
    <3> HIDE DEF a, b
    <3> QED
      BY <3>1, <3>2
  <2>2. Walk(s, m.state, m.undo, carried, intact)
    BY <1>1, <1>8 DEF SoloWork
  <2>3. Ahead(k) = ToSet(m.forward)
    BY <2>1 DEF Ahead
  <2>4. Fits(k)
    BY <1>3, <1>8, <2>1, <2>2, <2>3
    DEF HeldOK, Reopens, NothingSaved, Batched, SameAsSaved, IsSaving
  <2> QED
    BY <2>1, <2>4
<1>9. CASE w.path = "unsaved"
  <2> DEFINE k == [m EXCEPT !.at = "unsaved"]
  <2>1. /\ k.at = "unsaved" /\ k.row = row /\ k.state = m.state
        /\ k.forward = m.forward /\ k.undo = m.undo
    BY <1>1 DEF IsMemory
  <2>2. Become(t, k)
    BY <1>2, <1>9
  <2> HIDE DEF k
  <2>3. Unwound(s, m.state, m.undo, carried, intact)
    BY <1>1, <1>9 DEF SoloWork
  <2>4. Ahead(k) = ToSet(m.forward)
    BY <2>1 DEF Ahead
  <2>5. Fits(k)
    BY <1>3, <1>9, <2>1, <2>3, <2>4
    DEF HeldOK, Reopens, NothingSaved, Batched, SameAsSaved, IsSaving
  <2> QED
    BY <2>2, <2>5
<1> QED
  BY <1>4, <1>5, <1>6, <1>7, <1>8, <1>9 DEF IsWork

-----------------------------------------------------------------------------
(* The steps, when one task is at work at a time.                          *)

LEMMA OneTaskStep ==
  ASSUME BooksInv, NEW t \in Task, \A u \in Task : u # t => task[u] = NoTask,
         NEW k, Become(t, k), NEW s, store' = <<s>>,
         SavedOK(s, Delivered', NoneEvicted'),
         k = NoTask /\ NoneEvicted' => Balanced(s, {}, done', Slack'),
         k # NoTask =>
            /\ k.at # "create" /\ k.row = 1
            /\ HeldOK(k, s, done', Gone', Slack', Delivered', NoneEvicted')
  PROVE  OneTaskInv'
<1>1. task'[t] = k /\ \A u \in Task : u # t => task'[u] = NoTask
  BY DEF Become, BooksInv
<1>2. Len(store') = 1 /\ store'[1] = s /\ store' # <<>>
  OBVIOUS
<1>3. Idle' => k = NoTask
  BY <1>1 DEF Idle
<1> QED
  BY <1>1, <1>2, <1>3 DEF OneTaskInv

\* The same before a state is saved.
LEMMA OneTaskStepEmpty ==
  ASSUME BooksInv, NEW t \in Task, \A u \in Task : u # t => task[u] = NoTask,
         NEW k, Become(t, k), store' = <<>>, \A e \in Event : done'[e] = 0,
         k # NoTask => k.at = "create" /\ t \in Delivered'
  PROVE  OneTaskInv'
<1>1. task'[t] = k /\ \A u \in Task : u # t => task'[u] = NoTask
  BY DEF Become, BooksInv
<1>2. Len(store') = 0
  OBVIOUS
<1> QED
  BY <1>1, <1>2 DEF OneTaskInv

LEMMA OneRow ==
  ASSUME NEW S, NEW q \in Seq(S), Len(q) <= 1, q # <<>>
  PROVE  Len(q) = 1 /\ DOMAIN q = {1} /\ q[1] \in S /\ q = <<q[1]>>
<1>1. Len(q) \in Nat /\ DOMAIN q = 1..Len(q) /\ Len(q) # 0
  OBVIOUS
<1>2. Len(q) = 1
  BY <1>1
<1>3. DOMAIN q = {1} /\ q[1] \in S
  BY <1>1, <1>2
<1>4. q = <<q[1]>>
  BY <1>2, <1>3
<1> QED
  BY <1>2, <1>3, <1>4

\* What the invariants say of the task at work.
LEMMA HeldByTask ==
  ASSUME TypeInv, BooksInv, OneTaskInv, NEW t \in Task, NEW m, m = task[t], m # NoTask,
         m.at # "create"
  PROVE  /\ \A u \in Task : u # t => task[u] = NoTask
         /\ store = <<store[1]>> /\ store[1] \in State /\ m.row = 1
         /\ IsMemory(m) /\ TaskOK(m, done) /\ m.state \in State
         /\ SavedOK(store[1], Delivered, NoneEvicted)
         /\ HeldOK(m, store[1], done, Gone, Slack, Delivered, NoneEvicted)
<1>1. store \in Seq(State) /\ Len(store) <= 1 /\ store # <<>>
  BY DEF TypeInv, OneTaskInv
<1>2. store[1] \in State /\ store = <<store[1]>>
  BY <1>1, OneRow
<1>3. IsMemory(m) /\ TaskOK(m, done) /\ m.state \in State
  BY DEF TypeInv, BooksInv, IsMemory
<1> QED
  BY <1>1, <1>2, <1>3 DEF OneTaskInv

\* What they say when none is.
LEMMA HeldByNone ==
  ASSUME TypeInv, BooksInv, OneTaskInv, atOnce = 1, NEW t \in Task, MayBegin(t)
  PROVE  /\ \A u \in Task : task[u] = NoTask
         /\ store = <<>> => \A e \in Event : done[e] = 0
         /\ store # <<>> =>
               /\ store = <<store[1]>> /\ store[1] \in State /\ DOMAIN store = {1}
               /\ SavedOK(store[1], Delivered, NoneEvicted)
               /\ NoneEvicted => Balanced(store[1], {}, done, Slack)
<1> DEFINE B == {u \in Task : Busy(u)}
<1>1. B = {}
  <2> SUFFICES ASSUME NEW u \in B PROVE FALSE
    OBVIOUS
  <2>1. B = {u}
    BY DEF OneTaskInv, Busy
  <2>2. Cardinality({u}) = 1
    BY FS_Singleton
  <2>3. Cardinality(B) < 1
    BY DEF MayBegin
  <2> HIDE DEF B
  <2> QED
    BY <2>1, <2>2, <2>3
<1>2. Idle
  BY <1>1 DEF Idle, Busy
<1>3. store # <<>> => store[1] \in State /\ store = <<store[1]>> /\ DOMAIN store = {1}
  <2>1. store \in Seq(State) /\ Len(store) <= 1
    BY DEF TypeInv, OneTaskInv
  <2> QED
    BY <2>1, OneRow
<1> QED
  BY <1>2, <1>3 DEF OneTaskInv, Idle

\* One more task cut short allows for one more lost mark.
LEMMA FaultBalances ==
  ASSUME NEW counts \in [Command -> Nat], NEW slack \in Nat, NEW s, NEW a, NEW x, NEW b,
         Balanced(s, a, counts, slack)
  PROVE  Balanced(x, b, counts, slack + 1)
<1> SUFFICES ASSUME NEW e \in Event
             PROVE  counts[e] <= 1 + slack /\ counts[e] <= slack + 1
                    /\ counts[e] <= 1 + (slack + 1)
  BY DEF Balanced
<1>1. counts[e] \in Nat /\ counts[e] <= 1 + slack
  BY DEF Balanced, Command
<1> QED
  BY <1>1

\* The counts once c was carried out, and a state once its entry i says so.
Counted(counts, c) == [counts EXCEPT ![c] = @ + 1]
MarkSent(s, i) == [s EXCEPT !.pending[i].dispatched = TRUE]

\* Carrying out an owed command, which is then owed no more.
LEMMA DoneBalances ==
  ASSUME NEW counts \in [Command -> Nat], NEW slack \in Nat, NEW s, NEW a, NEW x, NEW b,
         Balanced(s, a, counts, slack), NEW c \in Command,
         c \in Event => c \in Owing(s, a),
         Event \cap Owing(x, b) \subseteq Owing(s, a) \ {c}
  PROVE  Balanced(x, b, Counted(counts, c), slack)
<1> DEFINE later == Counted(counts, c)
<1> SUFFICES ASSUME NEW e \in Event
             PROVE  later[e] <= 1 + slack /\ (e \in Owing(x, b) => later[e] <= slack)
  BY DEF Balanced
<1>1. /\ counts[e] \in Nat /\ counts[e] <= 1 + slack
      /\ e \in Owing(s, a) => counts[e] <= slack
  BY DEF Balanced, Command
<1>2. /\ e # c => later[e] = counts[e]
      /\ e = c => later[e] = counts[e] + 1
  BY DEF Command, Counted
<1>3. CASE e = c
  BY <1>1, <1>2, <1>3
<1>4. CASE e # c
  BY <1>1, <1>2, <1>4
<1> QED
  BY <1>3, <1>4

\* Later counts exceed the counts by no more than the slack grew.
Looser(counts, slack, later, more) ==
    /\ slack <= more
    /\ \A e \in Event : later[e] + slack <= counts[e] + more

LEMMA LooserBalances ==
  ASSUME NEW counts \in [Command -> Nat], NEW slack \in Nat,
         NEW later \in [Command -> Nat], NEW more \in Nat,
         Looser(counts, slack, later, more), NEW s, NEW a, Balanced(s, a, counts, slack)
  PROVE  Balanced(s, a, later, more)
<1> SUFFICES ASSUME NEW e \in Event
             PROVE  later[e] <= 1 + more /\ (e \in Owing(s, a) => later[e] <= more)
  BY DEF Balanced
<1>1. /\ counts[e] \in Nat /\ later[e] \in Nat /\ later[e] + slack <= counts[e] + more
      /\ counts[e] <= 1 + slack /\ (e \in Owing(s, a) => counts[e] <= slack)
  BY DEF Balanced, Looser, Command
<1> QED
  BY <1>1

LEMMA WalkOutlasts ==
  ASSUME NEW s, NEW x, NEW undo, NEW carried, NEW intact, NEW later, carried \subseteq later
  PROVE  /\ StackKept(s, x, carried) => StackKept(s, x, later)
         /\ Walk(s, x, undo, carried, intact) => Walk(s, x, undo, later, intact)
<1>1. StackKept(s, x, carried) => StackKept(s, x, later)
  BY DEF StackKept
<1>2. ASSUME Walk(s, x, undo, carried, intact)
      PROVE  Walk(s, x, undo, later, intact)
  <2>1. PICK K \in Seq(Event) :
           /\ \A i \in DOMAIN s.stack : i \in DOMAIN K /\ K[i] = s.stack[i]
           /\ \A i \in DOMAIN undo : i \in DOMAIN K /\ K[i] = undo[i]
           /\ \A i \in DOMAIN K : i \in DOMAIN undo \/ K[i] \in carried \cup x.failed
           /\ intact => Distinct(K)
    BY <1>2 DEF Walk
  <2>2. \A i \in DOMAIN K : i \in DOMAIN undo \/ K[i] \in later \cup x.failed
    BY <2>1
  <2> QED
    BY <2>1, <2>2 DEF Walk
<1> QED
  BY <1>1, <1>2

\* What the memory of a task is good for, it stays good for as undos are
\* carried out and faults are counted.
LEMMA HeldLasts ==
  ASSUME NEW counts \in [Command -> Nat], NEW slack \in Nat,
         NEW later \in [Command -> Nat], NEW more \in Nat,
         Looser(counts, slack, later, more), NEW carried, NEW after, carried \subseteq after,
         NEW m, NEW s, NEW known, NEW intact,
         HeldOK(m, s, counts, carried, slack, known, intact)
  PROVE  HeldOK(m, s, later, after, more, known, intact)
<1>1. Balanced(m.state, Ahead(m), counts, slack) => Balanced(m.state, Ahead(m), later, more)
  BY LooserBalances
<1>2. /\ StackKept(s, m.state, carried) => StackKept(s, m.state, after)
      /\ Walk(s, m.state, m.undo, carried, intact) => Walk(s, m.state, m.undo, after, intact)
  BY WalkOutlasts
<1>3. Unwound(s, m.state, m.undo, carried, intact) => Unwound(s, m.state, m.undo, after, intact)
  BY <1>2 DEF Unwound
<1> QED
  BY <1>1, <1>2, <1>3 DEF HeldOK

\* A step after which what was held is still good.
Loosens ==
    /\ done' \in [Command -> Nat] /\ Slack' \in Nat /\ Gone \subseteq Gone'
    /\ Looser(done, Slack, done', Slack')

LEMMA NothingLoosens ==
  ASSUME BooksInv, CountersInv, UNCHANGED <<done, unsure, stops>>, Gone \subseteq Gone'
  PROVE  Loosens
<1>1. Slack' = Slack /\ Slack \in Nat /\ done' = done /\ done \in [Command -> Nat]
  BY DEF Slack, CountersInv, BooksInv
<1>2. Looser(done, Slack, done, Slack)
  <2>1. \A e \in Event : done[e] \in Nat
    BY <1>1 DEF Command
  <2> QED
    BY <1>1, <2>1 DEF Looser
<1> QED
  BY <1>1, <1>2 DEF Loosens

LEMMA RaisedLoosens ==
  ASSUME BooksInv, CountersInv, NEW c \in Command, ForwardRaised(c), UNCHANGED <<logged, stops>>
  PROVE  Loosens
<1>1. Gone' = Gone
  BY DEF ForwardRaised, Gone
<1>2. CASE UNCHANGED <<done, unsure>>
  BY <1>1, <1>2, NothingLoosens
<1>3. CASE Done(c) /\ unsure' = unsure + 1
  <2>1. done \in [Command -> Nat] /\ Slack \in Nat /\ Slack' = Slack + 1
    <3>1. done \in [Command -> Nat]
      BY DEF BooksInv
    <3>2. stops \in Nat /\ unsure \in Nat /\ stops' = stops /\ unsure' = unsure + 1
      BY <1>3 DEF CountersInv
    <3> QED
      BY <3>1, <3>2 DEF Slack
  <2>2. done' \in [Command -> Nat]
    BY <1>3, <2>1, DoneKeeps
  <2>3. \A e \in Event : done[e] \in Nat /\ done'[e] \in {done[e], done[e] + 1}
    BY <1>3, <2>1 DEF Done, Command
  <2>4. \A e \in Event : done'[e] + Slack <= done[e] + (Slack + 1)
    BY <2>1, <2>3
  <2>5. Looser(done, Slack, done', Slack')
    BY <2>1, <2>4 DEF Looser
  <2> QED
    BY <1>1, <2>1, <2>2, <2>5 DEF Loosens
<1> QED
  BY <1>2, <1>3 DEF ForwardRaised

LEMMA UndoRaisedLoosens ==
  ASSUME BooksInv, CountersInv, NEW e, UndoRaised(e), logged \subseteq logged', UNCHANGED stops
  PROVE  Loosens
<1>1. Gone \subseteq Gone'
  BY DEF UndoRaised, Gone
<1>2. CASE UNCHANGED unsure
  BY <1>1, <1>2, NothingLoosens DEF UndoRaised
<1>3. CASE unsure' = unsure + 1
  <2>1. done' = done /\ done \in [Command -> Nat] /\ Slack \in Nat /\ Slack' = Slack + 1
    <3>1. done' = done /\ done \in [Command -> Nat]
      BY DEF UndoRaised, BooksInv
    <3>2. stops \in Nat /\ unsure \in Nat /\ stops' = stops /\ unsure' = unsure + 1
      BY <1>3 DEF CountersInv
    <3> QED
      BY <3>1, <3>2 DEF Slack
  <2>2. \A x \in Event : done[x] \in Nat /\ done[x] + Slack <= done[x] + (Slack + 1)
    BY <2>1 DEF Command
  <2>3. Looser(done, Slack, done', Slack')
    BY <2>1, <2>2 DEF Looser
  <2> QED
    BY <1>1, <2>1, <2>3 DEF Loosens
<1> QED
  BY <1>2, <1>3 DEF UndoRaised

\* The task at work goes on with what is good for it, and saves nothing.
LEMMA TaskGoesOn ==
  ASSUME BooksInv, CountersInv, NEW t \in Task, \A u \in Task : u # t => task[u] = NoTask,
         store = <<store[1]>>, SavedOK(store[1], Delivered, NoneEvicted),
         UNCHANGED <<store, deliveries>>, Loosens,
         NEW k, Become(t, k), k # NoTask, k.at # "create", k.row = 1,
         HeldOK(k, store[1], done, Gone, Slack, Delivered, NoneEvicted)
  PROVE  OneTaskInv'
<1>1. Delivered' = Delivered /\ NoneEvicted' = NoneEvicted
  BY DEF Delivered, NoneEvicted
<1>2. done \in [Command -> Nat] /\ Slack \in Nat
  BY DEF BooksInv, CountersInv, Slack
<1>3. /\ done' \in [Command -> Nat] /\ Slack' \in Nat /\ Gone \subseteq Gone'
      /\ Looser(done, Slack, done', Slack')
  BY DEF Loosens
<1>4. HeldOK(k, store[1], done', Gone', Slack', Delivered, NoneEvicted)
  BY <1>2, <1>3, HeldLasts
<1> QED
  BY <1>1, <1>4, OneTaskStep

\* The last save of a state that was not sent: it owes what the memory owed.
LEMMA LastSaveHeld ==
  ASSUME NEW x, NEW s, NEW row, NEW counts, NEW carried, NEW slack, NEW known,
         NEW intact \in BOOLEAN, Reopens(s, x), StackKept(s, x, carried), x.processed \subseteq known,
         intact => Neat(x) /\ Balanced(x, {}, counts, slack)
  PROVE  /\ LastSave(row, x) # NoTask
         /\ LastSave(row, x).at # "create" /\ LastSave(row, x).row = row
         /\ HeldOK(LastSave(row, x), s, counts, carried, slack, known, intact)
<1> DEFINE k == LastSave(row, x)
<1>1. k.at = "save" /\ k.next = "end" /\ k.row = row /\ k.state = x /\ k.forward = <<>>
  BY DEF LastSave
<1> HIDE DEF k
<1>2. Ahead(k) = {} /\ AheadOK(x, {})
  BY <1>1 DEF Ahead, AheadOK, IsSaving
<1>3. HeldOK(k, s, counts, carried, slack, known, intact)
  BY <1>1, <1>2 DEF HeldOK, NothingSaved, Batched, SameAsSaved, SingleBatch, IsSaving
<1>4. k # NoTask
  BY <1>1 DEF NoTask
<1> QED
  BY <1>1, <1>3, <1>4 DEF k

LEMMA StopOne ==
  ASSUME TypeInv, BooksInv, CountersInv, OneTaskInv, NEW t \in Task, Stop(t)
  PROVE  OneTaskInv'
<1> DEFINE m == task[t]
<1>1. /\ m # NoTask /\ Become(t, NoTask) /\ stops' = stops + 1
      /\ UNCHANGED <<store, done, undone, logged, unsure, deliveries>>
  BY DEF Stop, Busy, End
<1>2. /\ Delivered' = Delivered /\ NoneEvicted' = NoneEvicted
      /\ Gone' = Gone /\ Slack' = Slack + 1
  BY <1>1 DEF Delivered, NoneEvicted, Gone, Slack, CountersInv
<1> HIDE DEF m
<1>3. CASE m.at = "create"
  <2>1. store = <<>> /\ \A u \in Task : u # t => task[u] = NoTask
    BY <1>1, <1>3 DEF OneTaskInv, m
  <2>2. store' = <<>> /\ \A e \in Event : done'[e] = 0
    BY <1>1, <2>1 DEF OneTaskInv
  <2> QED
    BY <1>1, <2>1, <2>2, OneTaskStepEmpty
<1>4. CASE m.at # "create"
  <2>1. /\ \A u \in Task : u # t => task[u] = NoTask
        /\ store' = <<store[1]>> /\ SavedOK(store[1], Delivered', NoneEvicted')
        /\ HeldOK(m, store[1], done, Gone, Slack, Delivered, NoneEvicted)
    BY <1>1, <1>2, <1>4, HeldByTask DEF m
  <2>2. NoneEvicted' => Balanced(store[1], {}, done', Slack')
    <3>1. NoneEvicted => Balanced(m.state, Ahead(m), done, Slack)
      BY <2>1 DEF HeldOK
    <3>2. done \in [Command -> Nat] /\ Slack \in Nat
      BY DEF BooksInv, CountersInv, Slack
    <3> QED
      BY <1>1, <1>2, <3>1, <3>2, FaultBalances
  <2> QED
    BY <1>1, <2>1, <2>2, OneTaskStep
<1> QED
  BY <1>3, <1>4

LEMMA RestartOne ==
  ASSUME TypeInv, BooksInv, CountersInv, OneTaskInv, NEW unknown, Restart(unknown)
  PROVE  OneTaskInv'
<1>1. /\ \A t \in Task : task'[t] = NoTask
      /\ stops' = stops + 1
      /\ UNCHANGED <<store, done, undone, logged, unsure, deliveries>>
  BY DEF Restart
<1>2. /\ Delivered' = Delivered /\ NoneEvicted' = NoneEvicted
      /\ Slack' = Slack + 1
  BY <1>1 DEF Delivered, NoneEvicted, Slack, CountersInv
<1>3. ASSUME store # <<>>, NoneEvicted
      PROVE  Balanced(store[1], {}, done, Slack + 1)
  <2>1. done \in [Command -> Nat] /\ Slack \in Nat
    BY DEF BooksInv, CountersInv, Slack
  <2>2. CASE Idle
    <3>1. Balanced(store[1], {}, done, Slack)
      BY <1>3, <2>2 DEF OneTaskInv
    <3> QED
      BY <2>1, <3>1, FaultBalances
  <2>3. CASE ~Idle
    <3>1. PICK t \in Task : task[t] # NoTask
      BY <2>3 DEF Idle
    <3>2. HeldOK(task[t], store[1], done, Gone, Slack, Delivered, NoneEvicted)
      BY <1>3, <3>1 DEF OneTaskInv
    <3>3. Balanced(task[t].state, Ahead(task[t]), done, Slack)
      BY <1>3, <3>2 DEF HeldOK
    <3> QED
      BY <2>1, <3>3, FaultBalances
  <2> QED
    BY <2>2, <2>3
<1> QED
  BY <1>1, <1>2, <1>3 DEF OneTaskInv

\* A batch that cannot be sent suspends the saga with its command pending.
LEMMA StalledHeld ==
  ASSUME NEW m, IsMemory(m), NEW s, NEW counts, NEW carried, NEW slack, NEW known,
         NEW intact \in BOOLEAN, TaskOK(m, counts),
         m.at = "send" \/ IsSaving(m, "marked"),
         NEW past, HeldOK(m, s, counts, carried, past, known, intact),
         intact => Balanced(m.state, {}, counts, slack),
         NEW k, k = LastSave(m.row, Stalled(m.state))
  PROVE  /\ k # NoTask /\ k.at # "create" /\ k.row = m.row
         /\ HeldOK(k, s, counts, carried, slack, known, intact)
<1> DEFINE x == Stalled(m.state)
<1>1. m.state \in State
  BY DEF IsMemory
<1>2. /\ x.status = "SUSPENDED" /\ x.stack = m.state.stack
      /\ x.processed = m.state.processed /\ x.pending = m.state.pending
  BY <1>1 DEF Stalled, Suspend, State
<1>3. m.state.pending # <<>>
  BY DEF TaskOK, InBatch, EndsWith
<1>4. /\ m.state.status = s.status /\ m.state.stack = s.stack
      /\ m.state.status # "COMPENSATED" /\ m.state.processed \subseteq known
      /\ intact => Neat(m.state)
  BY DEF HeldOK, SameAsSaved, Batched, IsSaving
<1> HIDE DEF x
<1>5. Reopens(s, x) /\ StackKept(s, x, carried)
  BY <1>2, <1>3, <1>4 DEF Reopens, StackKept
<1>6. intact => Neat(x) /\ Balanced(x, {}, counts, slack)
  <2>1. Neat(m.state) => Neat(x)
    BY <1>2 DEF Neat, Distinct, ToSet, PendingOf
  <2>2. Owing(x, {}) = Owing(m.state, {})
    BY <1>2 DEF Owing, UndispatchedIn, Undispatched
  <2> QED
    BY <1>4, <2>1, <2>2, BalanceShrinks
<1> QED
  BY <1>2, <1>4, <1>5, <1>6, LastSaveHeld DEF x

LEMMA MarkFailsOne ==
  ASSUME TypeInv, BooksInv, CountersInv, OneTaskInv, NEW t \in Task, MarkFails(t)
  PROVE  OneTaskInv'
<1> DEFINE m == task[t]
<1>1. /\ m # NoTask /\ m.at = "save" /\ m.next = "marked"
      /\ Become(t, LastSave(m.row, Stalled(m.state))) /\ stops' = stops + 1
      /\ UNCHANGED <<store, done, undone, logged, unsure, deliveries>>
  BY DEF MarkFails, At, Busy
<1>2. /\ Delivered' = Delivered /\ NoneEvicted' = NoneEvicted
      /\ Gone' = Gone /\ Slack' = Slack + 1
  BY <1>1 DEF Delivered, NoneEvicted, Gone, Slack, CountersInv
<1> HIDE DEF m
<1>3. /\ \A u \in Task : u # t => task[u] = NoTask
      /\ store' = <<store[1]>> /\ SavedOK(store[1], Delivered', NoneEvicted')
      /\ IsMemory(m) /\ TaskOK(m, done) /\ m.row = 1
      /\ HeldOK(m, store[1], done, Gone, Slack, Delivered, NoneEvicted)
  BY <1>1, <1>2, HeldByTask DEF m
<1>4. NoneEvicted => Balanced(m.state, {}, done, Slack + 1)
  <2>1. done \in [Command -> Nat] /\ Slack \in Nat
    BY DEF BooksInv, CountersInv, Slack
  <2> QED
    BY <1>3, <2>1, FaultBalances DEF HeldOK
<1>5. PICK k : k = LastSave(m.row, Stalled(m.state))
  OBVIOUS
<1>6. /\ k # NoTask /\ k.at # "create" /\ k.row = 1
      /\ HeldOK(k, store[1], done, Gone, Slack + 1, Delivered, NoneEvicted)
  <2>1. IsSaving(m, "marked") /\ NoneEvicted \in BOOLEAN
    BY <1>1 DEF IsSaving, NoneEvicted
  <2>2. /\ IsMemory(m) /\ TaskOK(m, done)
        /\ HeldOK(m, store[1], done, Gone, Slack, Delivered, NoneEvicted)
    BY <1>3
  <2>3. /\ k # NoTask /\ k.at # "create" /\ k.row = m.row
        /\ HeldOK(k, store[1], done, Gone, Slack + 1, Delivered, NoneEvicted)
    BY <1>4, <1>5, <2>1, <2>2, StalledHeld, Z3
  <2> QED
    BY <1>3, <2>3
<1>7. HeldOK(k, store[1], done', Gone', Slack', Delivered', NoneEvicted')
  BY <1>1, <1>2, <1>6
<1>8. Become(t, k)
  BY <1>1, <1>5
<1> QED
  BY <1>3, <1>6, <1>7, <1>8, OneTaskStep

\* What the task holds once it saved its state.
LEMMA SaveHeld ==
  ASSUME NEW m, IsMemory(m), m.at = "save", NEW s, NEW counts, NEW carried, NEW slack,
         NEW known, NEW intact \in BOOLEAN, TaskOK(m, counts),
         HeldOK(m, s, counts, carried, slack, known, intact), NEW k,
         \/ m.next = "end" /\ k = NoTask
         \/ m.next = "batch" /\ k = SavingBatch(m)
         \/ m.next \in {"send", "redispatch"} /\ k = [m EXCEPT !.at = m.next]
         \/ m.next = "marked" /\ k = LastSave(m.row, BatchCleared(m.state, 1))
  PROVE  /\ SavedOK(m.state, known, intact)
         /\ k = NoTask => (intact => Balanced(m.state, {}, counts, slack))
         /\ k # NoTask => /\ k.at # "create" /\ k.row = m.row
                          /\ HeldOK(k, m.state, counts, carried, slack, known, intact)
<1> DEFINE x == m.state
<1>1. /\ x \in State /\ x.processed \subseteq known /\ SingleBatch(m.forward)
      /\ StackKept(s, x, carried)
      /\ intact => /\ Neat(x) /\ AheadOK(x, Ahead(m))
                   /\ Balanced(x, Ahead(m), counts, slack)
  BY DEF HeldOK, IsMemory
<1>2. SavedOK(x, known, intact) /\ StackKept(x, x, carried) /\ Reopens(x, x)
  BY <1>1 DEF SavedOK, StackKept, Reopens
<1>3. m.next # "batch" => Ahead(m) = {}
  BY DEF Ahead, IsSaving
<1>4. CASE m.next = "end" /\ k = NoTask
  BY <1>1, <1>2, <1>3, <1>4
<1>5. CASE m.next = "batch" /\ k = SavingBatch(m)
  <2>1. Ahead(m) = ToSet(m.forward)
    BY <1>5 DEF Ahead, IsSaving
  <2>2. SmallBatch(m.forward) /\ m.sent = 0
    BY <1>5 DEF TaskOK, IsSaving, BatchOK, SmallBatch
  <2>3. m.forward # <<>> => x.status # "COMPENSATED"
    BY <1>5 DEF HeldOK, Batched, IsSaving
  <2>4. /\ k # NoTask /\ k.at # "create" /\ k.row = m.row
        /\ HeldOK(k, x, counts, carried, slack, known, intact)
    BY <1>1, <1>2, <1>5, <2>1, <2>2, <2>3, BatchHeld
  <2> QED
    BY <1>2, <2>4
<1>6. CASE m.next \in {"send", "redispatch"} /\ k = [m EXCEPT !.at = m.next]
  <2>1. /\ k.at = m.next /\ k.row = m.row /\ k.state = x /\ k.forward = m.forward
        /\ k # NoTask
    BY <1>6 DEF IsMemory, NoTask
  <2>2. /\ m.next = "send" =>
              /\ x.status # "COMPENSATED" /\ ~x.pending[Len(x.pending)].dispatched
        /\ m.next = "redispatch" => ~IsTerminal(s) /\ x.status = s.status
    BY <1>6 DEF HeldOK, Batched, NothingSaved, SameAsSaved, IsSaving
  <2>3. m.next = "redispatch" => ~IsTerminal(x)
    BY <2>2 DEF IsTerminal
  <2>4. Ahead(k) = {} /\ Ahead(m) = {}
    BY <1>3, <1>6, <2>1 DEF Ahead, IsSaving
  <2>5. HeldOK(k, x, counts, carried, slack, known, intact)
    BY <1>1, <1>6, <2>1, <2>2, <2>3, <2>4
    DEF HeldOK, Batched, NothingSaved, SameAsSaved, IsSaving
  <2> QED
    BY <1>2, <1>6, <2>1, <2>5
<1>7. CASE m.next = "marked" /\ k = LastSave(m.row, BatchCleared(x, 1))
  <2> DEFINE y == BatchCleared(x, 1)
  <2>1. x.pending # <<>>
    BY <1>7 DEF TaskOK, InBatch, EndsWith, IsSaving
  <2>2. /\ y.processed = x.processed /\ y.stack = x.stack /\ y.status = x.status
        /\ DOMAIN y.pending \subseteq DOMAIN x.pending
        /\ \A i \in DOMAIN y.pending : y.pending[i] = x.pending[i]
    BY <1>1, <2>1, ClearedShape
  <2> HIDE DEF y
  <2>3. Reopens(x, y) /\ StackKept(x, y, carried)
    BY <2>2 DEF Reopens, StackKept
  <2>4. intact => Neat(y) /\ Balanced(y, {}, counts, slack)
    <3>1. Neat(x) => Neat(y) /\ Owing(y, {}) \subseteq Owing(x, {})
      BY <2>2, FewerNeat
    <3> QED
      BY <1>1, <1>3, <1>7, <3>1, BalanceShrinks
  <2>5. /\ k # NoTask /\ k.at # "create" /\ k.row = m.row
        /\ HeldOK(k, x, counts, carried, slack, known, intact)
    BY <1>1, <1>7, <2>2, <2>3, <2>4, LastSaveHeld DEF y
  <2> QED
    BY <1>2, <2>5
<1> QED
  BY <1>4, <1>5, <1>6, <1>7

LEMMA SaveCases ==
  ASSUME NEW t, NEW m, m = task[t], IsMemory(m), NEW counts, TaskOK(m, counts), Save(t)
  PROVE  /\ UNCHANGED <<atOnce, renamed, done, undone, logged, counters>>
         /\ m # NoTask /\ m.at = "save"
         /\ store' = [store EXCEPT ![m.row] = m.state]
         /\ \E k : /\ Become(t, k)
                   /\ \/ m.next = "end" /\ k = NoTask
                      \/ m.next = "batch" /\ k = SavingBatch(m)
                      \/ m.next \in {"send", "redispatch"} /\ k = [m EXCEPT !.at = m.next]
                      \/ m.next = "marked" /\ k = LastSave(m.row, BatchCleared(m.state, 1))
<1>1. m.next = "marked" => m.sent = 1 /\ Len(m.forward) = 1
  <2>1. m.at = "save"
    BY DEF Save, At
  <2> QED
    BY <2>1 DEF TaskOK, InBatch, IsSaving
<1>2. m.next \in Next_
  BY DEF IsMemory
<1>3. /\ UNCHANGED <<atOnce, renamed, done, undone, logged, counters>>
      /\ m # NoTask /\ m.at = "save"
      /\ store' = [store EXCEPT ![m.row] = m.state]
  BY DEF Save, At, Busy
<1>4. m.next = "end" => Become(t, NoTask)
  BY DEF Save, End
<1>5. m.next = "batch" => Become(t, SavingBatch(m))
  BY DEF Save
<1>6. m.next \in {"send", "redispatch"} => Become(t, [m EXCEPT !.at = m.next])
  BY DEF Save
<1>7. ASSUME m.next = "marked"
      PROVE  Become(t, LastSave(m.row, BatchCleared(m.state, 1)))
  <2>0. m.sent = 1 /\ Len(m.forward) = 1 /\ ~(1 < 1)
    BY <1>1, <1>7
  <2>1. ~(m.sent < Len(m.forward)) /\ m.sent = 1
    BY <2>0, Zenon
  <2>2. Become(t, LastSave(m.row, BatchCleared(m.state, m.sent)))
    BY <1>7, <2>1 DEF Save
  <2> QED
    BY <2>1, <2>2
<1> QED
  BY <1>2, <1>3, <1>4, <1>5, <1>6, <1>7 DEF Next_

LEMMA SaveOne ==
  ASSUME TypeInv, BooksInv, CountersInv, OneTaskInv, NEW t \in Task, Save(t)
  PROVE  OneTaskInv'
<1> DEFINE m == task[t]
<1>1. m # NoTask /\ m.at = "save"
  BY DEF Save, At, Busy
<1>2. /\ \A u \in Task : u # t => task[u] = NoTask
      /\ store = <<store[1]>>
      /\ IsMemory(m) /\ TaskOK(m, done) /\ m.row = 1
      /\ HeldOK(m, store[1], done, Gone, Slack, Delivered, NoneEvicted)
  BY <1>1, HeldByTask
<1>3. /\ UNCHANGED <<done, undone, logged, deliveries, unsure, stops>>
      /\ store' = [store EXCEPT ![1] = m.state]
      /\ \E k : /\ Become(t, k)
                /\ \/ m.next = "end" /\ k = NoTask
                   \/ m.next = "batch" /\ k = SavingBatch(m)
                   \/ m.next \in {"send", "redispatch"} /\ k = [m EXCEPT !.at = m.next]
                   \/ m.next = "marked" /\ k = LastSave(m.row, BatchCleared(m.state, 1))
  BY <1>2, SaveCases DEF counters
<1> HIDE DEF m
<1>4. PICK k : /\ Become(t, k)
               /\ \/ m.next = "end" /\ k = NoTask
                  \/ m.next = "batch" /\ k = SavingBatch(m)
                  \/ m.next \in {"send", "redispatch"} /\ k = [m EXCEPT !.at = m.next]
                  \/ m.next = "marked" /\ k = LastSave(m.row, BatchCleared(m.state, 1))
  BY <1>3
<1>5. /\ Delivered' = Delivered /\ NoneEvicted' = NoneEvicted /\ NoneEvicted \in BOOLEAN
      /\ Gone' = Gone /\ Slack' = Slack
  BY <1>3 DEF Delivered, NoneEvicted, Gone, Slack
<1>6. /\ SavedOK(m.state, Delivered, NoneEvicted)
      /\ k = NoTask => (NoneEvicted => Balanced(m.state, {}, done, Slack))
      /\ k # NoTask => /\ k.at # "create" /\ k.row = m.row
                       /\ HeldOK(k, m.state, done, Gone, Slack, Delivered, NoneEvicted)
  <2>1. /\ IsMemory(m) /\ TaskOK(m, done)
        /\ HeldOK(m, store[1], done, Gone, Slack, Delivered, NoneEvicted)
    BY <1>2
  <2> QED
    BY <1>1, <1>4, <1>5, <2>1, SaveHeld, Z3 DEF m
<1>7. store' = <<m.state>>
  BY <1>2, <1>3
<1> QED
  BY <1>2, <1>3, <1>4, <1>5, <1>6, <1>7, OneTaskStep

\* A command was carried out and its entry is about to be marked.
LEMMA MarkHeld ==
  ASSUME NEW m, IsMemory(m), NEW s, NEW counts \in [Command -> Nat], NEW carried,
         NEW slack \in Nat, NEW known, NEW intact \in BOOLEAN,
         HeldOK(m, s, counts, carried, slack, known, intact),
         NEW i \in Undispatched(m.state), NEW k,
         k.at = "save" /\ k.forward = m.forward /\ k.row = m.row,
         k.state = MarkSent(m.state, i),
         \/ m.at = "send" /\ k.next = "marked"
         \/ m.at = "redispatch" /\ k.next = "redispatch",
         NEW later, later = Counted(counts, m.state.pending[i].of)
  PROVE  /\ k # NoTask /\ k.at # "create" /\ k.row = m.row
         /\ HeldOK(k, s, later, carried, slack, known, intact)
<1> DEFINE x == m.state
           y == k.state
           c == x.pending[i].of
<1>1. /\ x \in State /\ i \in DOMAIN x.pending /\ x.processed \subseteq known
      /\ x.status = s.status /\ x.stack = s.stack /\ SingleBatch(m.forward)
      /\ m.at = "send" => x.status # "COMPENSATED"
      /\ m.at = "redispatch" => ~IsTerminal(s)
  BY DEF HeldOK, IsMemory, Undispatched, SameAsSaved, Batched, NothingSaved
<1>2. /\ y.status = x.status /\ y.stack = x.stack /\ y.processed = x.processed
  BY <1>1, MarksShape DEF SameLedger, MarkSent
<1>3. Ahead(m) = {} /\ Ahead(k) = {}
  BY DEF Ahead, IsSaving
<1>4. ASSUME intact
      PROVE  Neat(y) /\ Balanced(y, {}, later, slack)
  <2>1. Neat(x) /\ Balanced(x, {}, counts, slack)
    BY <1>3, <1>4 DEF HeldOK
  <2>2. Neat(y) /\ Owing(y, {}) \subseteq Owing(x, {}) \ {c}
    BY <1>1, <2>1, DispatchedOwing DEF MarkSent
  <2>3. c \in Event /\ c \in Command /\ c \in Owing(x, {}) /\ later = Counted(counts, c)
    BY <1>1, EntryTypes DEF Command, Owing, UndispatchedIn
  <2> HIDE DEF x, y, c
  <2>4. Event \cap Owing(y, {}) \subseteq Owing(x, {}) \ {c}
    BY <2>2
  <2>5. Balanced(y, {}, later, slack)
    BY <2>1, <2>3, <2>4, DoneBalances
  <2> QED
    BY <2>2, <2>5
<1>5. k # NoTask
  BY DEF NoTask
<1> HIDE DEF x, y
<1>6. Reopens(s, y) /\ StackKept(s, y, carried) /\ AheadOK(y, {})
  BY <1>1, <1>2 DEF Reopens, StackKept, AheadOK
<1>7. HeldOK(k, s, later, carried, slack, known, intact)
  BY <1>1, <1>2, <1>3, <1>4, <1>6
  DEF HeldOK, NothingSaved, Batched, SameAsSaved, IsSaving, y
<1> QED
  BY <1>5, <1>7

LEMMA SendCases ==
  ASSUME NEW t, NEW m, m = task[t], IsMemory(m), NEW counts, TaskOK(m, counts), Send(t)
  PROVE  /\ UNCHANGED <<atOnce, store, renamed, undone, logged, deliveries, sweeps, stops>>
         /\ m # NoTask /\ m.at = "send"
         /\ \E i \in DOMAIN m.state.pending :
               /\ i = Len(m.state.pending)
               /\ \/ /\ ForwardRaised(m.state.pending[i].of)
                     /\ Become(t, LastSave(m.row, Stalled(m.state)))
                  \/ \E k : /\ ForwardReturned(m.state.pending[i].of)
                           /\ Become(t, k) /\ k.at = "save" /\ k.next = "marked"
                           /\ k.forward = m.forward /\ k.row = m.row
                           /\ k.state = MarkSent(m.state, i)
<1>1. /\ UNCHANGED <<atOnce, store, renamed, logged, deliveries, sweeps, stops>>
      /\ m # NoTask /\ m.at = "send"
  BY DEF Send, At, Busy
<1>2. \/ /\ ForwardRaised(m.forward[m.sent + 1])
         /\ Become(t, LastSave(m.row, Stalled(m.state)))
      \/ /\ ForwardReturned(m.forward[m.sent + 1])
         /\ Become(t, [Saving(m, [m.state EXCEPT
               !.pending[EntryToSend(m)].dispatched = TRUE], "marked") EXCEPT !.sent = @ + 1])
  BY DispatchOutcomes DEF Send
<1>3. /\ EntryToSend(m) = Len(m.state.pending)
      /\ EntryToSend(m) \in DOMAIN m.state.pending
      /\ m.forward[m.sent + 1] = m.state.pending[EntryToSend(m)].of
  BY <1>1, EntryToSendIsLast
<1>4. PICK i \in DOMAIN m.state.pending : i = EntryToSend(m)
  BY <1>3
<1> DEFINE y == MarkSent(m.state, i)
           k == [Saving(m, y, "marked") EXCEPT !.sent = @ + 1]
<1>5. /\ k.at = "save" /\ k.next = "marked" /\ k.forward = m.forward /\ k.row = m.row
      /\ k.state = y
  <2> HIDE DEF y
  <2> QED
    BY DEF Saving, IsMemory
<1>6. \/ /\ ForwardRaised(m.state.pending[i].of)
         /\ Become(t, LastSave(m.row, Stalled(m.state)))
      \/ ForwardReturned(m.state.pending[i].of) /\ Become(t, k)
  BY <1>2, <1>3, <1>4 DEF MarkSent
<1>7. UNCHANGED undone
  BY <1>6 DEF ForwardRaised, ForwardReturned
<1> HIDE DEF k
<1> QED
  BY <1>1, <1>3, <1>4, <1>5, <1>6, <1>7

LEMMA SendOne ==
  ASSUME TypeInv, BooksInv, CountersInv, OneTaskInv, NEW t \in Task, Send(t)
  PROVE  OneTaskInv'
<1> DEFINE m == task[t]
<1>1. m # NoTask /\ m.at = "send"
  BY DEF Send, At, Busy
<1>2. /\ \A u \in Task : u # t => task[u] = NoTask
      /\ store = <<store[1]>> /\ SavedOK(store[1], Delivered, NoneEvicted)
      /\ IsMemory(m) /\ TaskOK(m, done) /\ m.row = 1 /\ m.state \in State
      /\ HeldOK(m, store[1], done, Gone, Slack, Delivered, NoneEvicted)
  BY <1>1, HeldByTask
<1>3. UNCHANGED <<store, undone, logged, deliveries, stops>>
  BY <1>2, SendCases
<1>4. PICK i \in DOMAIN m.state.pending :
         /\ i = Len(m.state.pending)
         /\ \/ /\ ForwardRaised(m.state.pending[i].of)
               /\ Become(t, LastSave(m.row, Stalled(m.state)))
            \/ \E k : /\ ForwardReturned(m.state.pending[i].of)
                     /\ Become(t, k) /\ k.at = "save" /\ k.next = "marked"
                     /\ k.forward = m.forward /\ k.row = m.row
                     /\ k.state = MarkSent(m.state, i)
  BY <1>2, SendCases
<1> HIDE DEF m
<1>5. done \in [Command -> Nat] /\ Slack \in Nat /\ NoneEvicted \in BOOLEAN
  BY DEF BooksInv, CountersInv, Slack, NoneEvicted
<1>6. /\ IsMemory(m) /\ TaskOK(m, done)
      /\ HeldOK(m, store[1], done, Gone, Slack, Delivered, NoneEvicted)
  BY <1>2
<1>7. CASE /\ ForwardRaised(m.state.pending[i].of)
           /\ Become(t, LastSave(m.row, Stalled(m.state)))
  <2>1. PICK k : k = LastSave(m.row, Stalled(m.state))
    OBVIOUS
  <2>2. NoneEvicted => Balanced(m.state, {}, done, Slack)
    BY <1>1, <1>6 DEF HeldOK, Ahead, IsSaving
  <2>3. /\ k # NoTask /\ k.at # "create" /\ k.row = m.row
        /\ HeldOK(k, store[1], done, Gone, Slack, Delivered, NoneEvicted)
    BY <1>1, <1>5, <1>6, <2>1, <2>2, StalledHeld, Z3
  <2>4. Loosens
    <3>1. m.state.pending[i].of \in Command
      BY <1>2, EntryTypes DEF Command
    <3> QED
      BY <1>3, <1>7, <3>1, RaisedLoosens
  <2> QED
    BY <1>2, <1>3, <1>7, <2>1, <2>3, <2>4, TaskGoesOn
<1>8. ASSUME NEW k, ForwardReturned(m.state.pending[i].of),
             Become(t, k), k.at = "save", k.next = "marked",
             k.forward = m.forward, k.row = m.row,
             k.state = MarkSent(m.state, i)
      PROVE  OneTaskInv'
  <2>1. i \in Undispatched(m.state)
    BY <1>1, <1>4, <1>6 DEF HeldOK, Undispatched
  <2>2. done' = Counted(done, m.state.pending[i].of)
    BY <1>8 DEF Done, Counted, ForwardReturned
  <2>3. /\ k.at = "save" /\ k.forward = m.forward /\ k.row = m.row
        /\ k.state = MarkSent(m.state, i) /\ m.at = "send" /\ k.next = "marked"
    BY <1>1, <1>8
  <2>4. /\ k # NoTask /\ k.at # "create" /\ k.row = m.row
        /\ HeldOK(k, store[1], done', Gone, Slack, Delivered, NoneEvicted)
    BY <1>5, <1>6, <2>1, <2>2, <2>3, MarkHeld, Z3
  <2>5. /\ Delivered' = Delivered /\ NoneEvicted' = NoneEvicted
        /\ Gone' = Gone /\ Slack' = Slack
    BY <1>3, <1>8 DEF Delivered, NoneEvicted, Gone, Slack, ForwardReturned
  <2> QED
    BY <1>2, <1>3, <1>8, <2>4, <2>5, OneTaskStep
<1> QED
  BY <1>4, <1>7, <1>8

\* Recovery ends its round on a state that owes no more than the one it read.
LEMMA RoundEndsHeld ==
  ASSUME NEW m, IsMemory(m), m.at = "redispatch", NEW s, NEW counts, NEW carried, NEW slack,
         NEW known, NEW intact \in BOOLEAN,
         HeldOK(m, s, counts, carried, slack, known, intact), NEW x,
         x.stack = m.state.stack, x.processed = m.state.processed,
         Neat(m.state) => Neat(x) /\ Owing(x, {}) \subseteq Owing(m.state, {}),
         NEW k, k = LastSave(m.row, x)
  PROVE  /\ k # NoTask /\ k.at # "create" /\ k.row = m.row
         /\ HeldOK(k, s, counts, carried, slack, known, intact)
<1>1. /\ ~IsTerminal(s) /\ m.state.stack = s.stack /\ m.state.processed \subseteq known
      /\ intact => Neat(m.state) /\ Balanced(m.state, {}, counts, slack)
  BY DEF HeldOK, NothingSaved, SameAsSaved, Ahead, IsSaving
<1>2. Reopens(s, x) /\ StackKept(s, x, carried) /\ x.processed \subseteq known
  BY <1>1 DEF Reopens, StackKept
<1>3. intact => Neat(x) /\ Balanced(x, {}, counts, slack)
  BY <1>1, BalanceShrinks
<1> QED
  BY <1>2, <1>3, LastSaveHeld

LEMMA RedispatchOne ==
  ASSUME TypeInv, BooksInv, CountersInv, OneTaskInv, Redispatch
  PROVE  OneTaskInv'
<1> DEFINE m == task[Recovery]
           x == m.state
<1>0. Recovery \in Task
  BY DEF Task
<1>1. m # NoTask /\ m.at = "redispatch"
  BY DEF Redispatch, At, Busy
<1>2. /\ \A u \in Task : u # Recovery => task[u] = NoTask
      /\ store = <<store[1]>> /\ SavedOK(store[1], Delivered, NoneEvicted)
      /\ IsMemory(m) /\ TaskOK(m, done) /\ m.row = 1 /\ x \in State
      /\ HeldOK(m, store[1], done, Gone, Slack, Delivered, NoneEvicted)
  BY <1>0, <1>1, HeldByTask
<1>3. /\ UNCHANGED <<store, undone, logged, deliveries, stops>>
      /\ \/ /\ Undispatched(x) = {} /\ UNCHANGED <<done, unsure>>
            /\ Become(Recovery, LastSave(m.row, FinishRecovery(x)))
         \/ /\ UNCHANGED <<done, unsure>>
            /\ \E i \in Undispatched(x) :
                  Become(Recovery, LastSave(m.row, SuspendForHydration(x, i)))
         \/ \E i \in Undispatched(x) :
               /\ ForwardReturned(x.pending[i].of)
               /\ Become(Recovery, Saving(m,
                     [x EXCEPT !.pending[i].dispatched = TRUE], "redispatch"))
         \/ \E i \in Undispatched(x) :
               /\ ForwardRaised(x.pending[i].of)
               /\ Become(Recovery, LastSave(m.row, x))
  BY <1>2, StateIsState, RedispatchCases
<1>4. /\ Delivered' = Delivered /\ NoneEvicted' = NoneEvicted /\ NoneEvicted \in BOOLEAN
      /\ Gone' = Gone
  BY <1>3 DEF Delivered, NoneEvicted, Gone
<1>5. done \in [Command -> Nat] /\ Slack \in Nat
  BY DEF BooksInv, CountersInv, Slack
<1>6. IsMemory(m) /\ HeldOK(m, store[1], done, Gone, Slack, Delivered, NoneEvicted)
  BY <1>2
<1> HIDE DEF m
<1>7. ASSUME NEW y, y.stack = x.stack, y.processed = x.processed,
             Neat(x) => Neat(y) /\ Owing(y, {}) \subseteq Owing(x, {}),
             Become(Recovery, LastSave(m.row, y)), Loosens
      PROVE  OneTaskInv'
  <2>1. PICK k : k = LastSave(m.row, y)
    OBVIOUS
  <2>2. /\ k # NoTask /\ k.at # "create" /\ k.row = m.row
        /\ HeldOK(k, store[1], done, Gone, Slack, Delivered, NoneEvicted)
    BY <1>1, <1>4, <1>6, <1>7, <2>1, RoundEndsHeld, Z3
  <2> QED
    BY <1>0, <1>2, <1>3, <1>7, <2>1, <2>2, TaskGoesOn
<1> HIDE DEF x
<1>12. UNCHANGED <<done, unsure>> => Loosens
  BY <1>3, <1>4, NothingLoosens
<1>8. CASE /\ Undispatched(x) = {} /\ UNCHANGED <<done, unsure>>
           /\ Become(Recovery, LastSave(m.row, FinishRecovery(x)))
  BY <1>2, <1>7, <1>8, <1>12, FinishShape, FinishNeat
<1>9. ASSUME NEW i \in Undispatched(x), UNCHANGED <<done, unsure>>,
             Become(Recovery, LastSave(m.row, SuspendForHydration(x, i)))
      PROVE  OneTaskInv'
  <2> DEFINE y == SuspendForHydration(x, i)
  <2>1. i \in DOMAIN x.pending
    BY DEF Undispatched
  <2>2. y \in State /\ SameLedger(x, y) /\ y.stack = x.stack /\ SameBooks(x, y)
    BY <1>2, <2>1, HydrationType, HydrationShape, StateIsState, HydrationKeepsBooks
  <2>3. Become(Recovery, LastSave(m.row, y))
    BY <1>9
  <2> HIDE DEF y
  <2>4. Owing(y, {}) = Owing(x, {}) /\ y.processed = x.processed
    BY <2>2, LedgerOwing DEF SameLedger
  <2>5. Neat(x) => Neat(y)
    BY <1>2, <2>2, LedgerNeat
  <2> QED
    BY <1>7, <1>9, <1>12, <2>2, <2>3, <2>4, <2>5
<1>10. ASSUME NEW i \in Undispatched(x), ForwardReturned(x.pending[i].of),
              Become(Recovery, Saving(m,
                 [x EXCEPT !.pending[i].dispatched = TRUE], "redispatch"))
       PROVE  OneTaskInv'
  <2>1. PICK y : y = MarkSent(x, i)
    OBVIOUS
  <2>2. Become(Recovery, Saving(m, y, "redispatch"))
    BY <1>10, <2>1 DEF MarkSent
  <2>3. PICK k : k = Saving(m, y, "redispatch")
    OBVIOUS
  <2>4. /\ k.at = "save" /\ k.next = "redispatch" /\ k.forward = m.forward
        /\ k.row = m.row /\ k.state = y
    BY <1>2, <2>3 DEF Saving, IsMemory
  <2>5. done' = Counted(done, m.state.pending[i].of) /\ i \in Undispatched(m.state)
        /\ k.state = MarkSent(m.state, i)
    BY <1>10, <2>1, <2>4 DEF Done, Counted, ForwardReturned, x
  <2>6. /\ k # NoTask /\ k.at # "create" /\ k.row = m.row
        /\ HeldOK(k, store[1], done', Gone, Slack, Delivered, NoneEvicted)
    BY <1>1, <1>4, <1>5, <1>6, <2>4, <2>5, MarkHeld, Z3
  <2>7. Slack' = Slack
    BY <1>3, <1>10 DEF Slack, ForwardReturned
  <2> QED
    BY <1>0, <1>2, <1>3, <1>4, <2>2, <2>3, <2>6, <2>7, OneTaskStep
<1>11. ASSUME NEW i \in Undispatched(x), ForwardRaised(x.pending[i].of),
              Become(Recovery, LastSave(m.row, x))
       PROVE  OneTaskInv'
  <2>1. x.pending[i].of \in Command
    BY <1>2, EntryTypes DEF Command, Undispatched
  <2>2. Loosens
    BY <1>3, <1>11, <2>1, RaisedLoosens
  <2> QED
    BY <1>7, <1>11, <2>2
<1> QED
  BY <1>3, <1>8, <1>9, <1>10, <1>11

\* Sending one of the commands that no state records yet.
LEMMA AheadHeld ==
  ASSUME NEW m, IsMemory(m), m.at \in {"compensate", "unsaved"}, NEW s,
         NEW counts \in [Command -> Nat], NEW carried, NEW slack \in Nat, NEW known,
         NEW intact \in BOOLEAN, HeldOK(m, s, counts, carried, slack, known, intact),
         m.forward # <<>>, NEW k, k = AfterForward(m)
  PROVE  /\ k # NoTask /\ k.at = m.at /\ k.row = m.row
         /\ HeldOK(k, s, counts, carried, slack, known, intact)
         /\ HeldOK(k, s, Counted(counts, Head(m.forward)), carried, slack, known, intact)
<1>1. PICK c \in Command : m.forward = <<c>>
  BY DEF HeldOK, SingleBatch
<1>2. /\ k.at = m.at /\ k.row = m.row /\ k.state = m.state /\ k.undo = m.undo
      /\ k.forward = <<>>
  <2>1. TaskFields(m) /\ Tail(m.forward) = <<>>
    BY <1>1, MemoryFields
  <2> QED
    BY <2>1, CompensateFields DEF IsMemory, AfterForward
<1>3. Ahead(m) = {c} /\ Ahead(k) = {}
  BY <1>1, <1>2 DEF Ahead, ToSet, IsSaving
<1>4. ASSUME intact
      PROVE  /\ Neat(m.state) /\ AheadOK(m.state, {})
             /\ Balanced(m.state, {}, counts, slack)
             /\ Balanced(m.state, {}, Counted(counts, c), slack)
  <2>1. Neat(m.state) /\ AheadOK(m.state, {c}) /\ Balanced(m.state, {c}, counts, slack)
    BY <1>3, <1>4 DEF HeldOK
  <2>2. Event \cap Owing(m.state, {}) \subseteq Owing(m.state, {c}) \ {c}
    <3>1. UndispatchedIn(m.state) \subseteq PendingOf(m.state)
      BY DEF UndispatchedIn, Undispatched, PendingOf
    <3> QED
      BY <2>1, <3>1 DEF AheadOK, Owing
  <2>3. c \in Event => c \in Owing(m.state, {c})
    BY DEF Owing
  <2>4. Event \cap Owing(m.state, {}) \subseteq Owing(m.state, {c})
    BY <2>2
  <2>5. Balanced(m.state, {}, counts, slack)
    BY <2>1, <2>4, BalanceShrinks
  <2>6. Balanced(m.state, {}, Counted(counts, c), slack)
    BY <1>1, <2>1, <2>2, <2>3, DoneBalances
  <2> QED
    BY <2>1, <2>5, <2>6 DEF AheadOK
<1>5. k # NoTask /\ SingleBatch(<<>>) /\ Head(m.forward) = c
  BY <1>1, <1>2 DEF NoTask, SingleBatch
<1>6. HeldOK(k, s, counts, carried, slack, known, intact)
  BY <1>2, <1>3, <1>4, <1>5 DEF HeldOK, NothingSaved, Batched, SameAsSaved, IsSaving
<1>7. HeldOK(k, s, Counted(counts, c), carried, slack, known, intact)
  BY <1>2, <1>3, <1>4, <1>5, <1>6 DEF HeldOK
<1> QED
  BY <1>2, <1>5, <1>6, <1>7

\* Undos go on being carried out, with the ledger they had.
LEMMA WalkHeld ==
  ASSUME NEW m, m.at \in {"compensate", "unsaved"}, NEW s, NEW counts, NEW carried,
         NEW slack, NEW known, NEW intact \in BOOLEAN,
         HeldOK(m, s, counts, carried, slack, known, intact),
         NEW k, k.at = m.at, k.forward = m.forward,
         k.state.processed = m.state.processed, k.state.pending = m.state.pending,
         k.state.stack = m.state.stack,
         NEW later, Walk(s, k.state, k.undo, later, intact)
  PROVE  k # NoTask /\ HeldOK(k, s, counts, later, slack, known, intact)
<1>1. k # NoTask
  BY DEF NoTask
<1>2. Ahead(k) = Ahead(m)
  BY DEF Ahead
<1>3. Neat(m.state) => Neat(k.state)
  BY DEF Neat, PendingOf
<1>4. AheadOK(m.state, Ahead(m)) => AheadOK(k.state, Ahead(m))
  BY DEF AheadOK, PendingOf
<1>5. Owing(k.state, Ahead(m)) = Owing(m.state, Ahead(m))
  BY DEF Owing, UndispatchedIn, Undispatched
<1>6. Balanced(m.state, Ahead(m), counts, slack) => Balanced(k.state, Ahead(m), counts, slack)
  BY <1>5 DEF Balanced
<1>7. /\ ~IsTerminal(s) /\ SingleBatch(m.forward) /\ m.state.processed \subseteq known
      /\ intact => /\ Neat(m.state) /\ AheadOK(m.state, Ahead(m))
                   /\ Balanced(m.state, Ahead(m), counts, slack)
  BY DEF HeldOK, NothingSaved
<1>8. HeldOK(k, s, counts, later, slack, known, intact)
  BY <1>2, <1>3, <1>4, <1>6, <1>7
  DEF HeldOK, NothingSaved, Batched, SameAsSaved, IsSaving, Unwound
<1> QED
  BY <1>1, <1>8

\* The next undo was carried out, or was refused and is recorded as failed.
LEMMA UndoWalks ==
  ASSUME NEW s, NEW x, NEW undo, NEW carried, NEW intact, Walk(s, x, undo, carried, intact),
         NEW i \in DOMAIN undo, NEW y, NEW later,
         carried \subseteq later, x.failed \subseteq y.failed,
         undo[i] \in later \cup y.failed
  PROVE  Walk(s, y, Restrict(undo, DOMAIN undo \ {i}), later, intact)
<1> DEFINE rest == Restrict(undo, DOMAIN undo \ {i})
<1>1. PICK K \in Seq(Event) :
         /\ \A j \in DOMAIN s.stack : j \in DOMAIN K /\ K[j] = s.stack[j]
         /\ \A j \in DOMAIN undo : j \in DOMAIN K /\ K[j] = undo[j]
         /\ \A j \in DOMAIN K : j \in DOMAIN undo \/ K[j] \in carried \cup x.failed
         /\ intact => Distinct(K)
  BY DEF Walk
<1>2. DOMAIN rest = DOMAIN undo \ {i} /\ \A j \in DOMAIN rest : rest[j] = undo[j]
  BY DEF Restrict
<1> HIDE DEF rest
<1>3. \A j \in DOMAIN rest : j \in DOMAIN K /\ K[j] = rest[j]
  BY <1>1, <1>2
<1>4. \A j \in DOMAIN K : j \in DOMAIN rest \/ K[j] \in later \cup y.failed
  BY <1>1, <1>2
<1>5. Walk(s, y, rest, later, intact)
  BY <1>1, <1>3, <1>4 DEF Walk
<1> QED
  BY <1>5 DEF rest

LEMMA WalkLasts ==
  ASSUME NEW s, NEW x, NEW undo, NEW carried, NEW intact, Walk(s, x, undo, carried, intact),
         NEW y, x.failed \subseteq y.failed
  PROVE  Walk(s, y, undo, carried, intact)
<1>1. PICK K \in Seq(Event) :
         /\ \A j \in DOMAIN s.stack : j \in DOMAIN K /\ K[j] = s.stack[j]
         /\ \A j \in DOMAIN undo : j \in DOMAIN K /\ K[j] = undo[j]
         /\ \A j \in DOMAIN K : j \in DOMAIN undo \/ K[j] \in carried \cup x.failed
         /\ intact => Distinct(K)
  BY DEF Walk
<1>2. \A j \in DOMAIN K : j \in DOMAIN undo \/ K[j] \in carried \cup y.failed
  BY <1>1
<1> QED
  BY <1>1, <1>2 DEF Walk

\* The end of a walk: what left the stack was undone or has failed.
LEMMA WalkEnds ==
  ASSUME NEW s, NEW x, NEW undo, NEW carried, NEW intact, NEW y,
         Unwound(s, x, undo, carried, intact), DOMAIN undo = {},
         y.stack = x.stack, y.failed = x.failed, y.status = x.status
  PROVE  StackKept(s, y, carried)
<1>1. CASE Walk(s, x, undo, carried, intact)
  <2>1. \A i \in DOMAIN s.stack : s.stack[i] \in carried \cup x.failed
    BY <1>1 DEF Walk
  <2> QED
    BY <2>1 DEF StackKept, ToSet
<1>2. CASE StackKept(s, x, carried)
  BY <1>2 DEF StackKept
<1> QED
  BY <1>1, <1>2 DEF Unwound

\* The end of a compensation: what left the stack was undone or has failed.
LEMMA SettledHeld ==
  ASSUME NEW m, IsMemory(m), m.at = "compensate", m.next \in {"end", "batch"}, NEW s, NEW counts, NEW carried,
         NEW slack, NEW known, NEW intact \in BOOLEAN,
         HeldOK(m, s, counts, carried, slack, known, intact),
         m.forward = <<>>, DOMAIN m.undo = {},
         NEW k, k = Saving(m, Settled(m.state), m.next)
  PROVE  /\ k # NoTask /\ k.at # "create" /\ k.row = m.row
         /\ HeldOK(k, s, counts, carried, slack, known, intact)
<1> DEFINE x == m.state
           y == Settled(x)
<1>1. x \in State
  BY DEF IsMemory
<1>2. /\ y.processed = x.processed /\ y.pending = x.pending /\ y.stack = x.stack
      /\ y.failed = x.failed
  BY <1>1 DEF Settled, State
<1> HIDE DEF y
<1>3. /\ k.at = "save" /\ k.next = m.next /\ k.row = m.row /\ k.forward = <<>>
      /\ k.state = y
  BY DEF Saving, IsMemory, y
<1>4. Ahead(m) = {} /\ Ahead(k) = {} /\ k # NoTask
  BY <1>3 DEF Ahead, ToSet, NoTask
<1>5. StackKept(s, y, carried)
  <2>1. \A i \in DOMAIN s.stack : s.stack[i] \in carried \cup x.failed
    BY DEF HeldOK, Walk
  <2> QED
    BY <1>2, <2>1 DEF StackKept, ToSet
<1>6. intact => Neat(y) /\ AheadOK(y, {}) /\ Balanced(y, {}, counts, slack)
  <2>1. intact => Neat(x) /\ Balanced(x, {}, counts, slack)
    BY <1>4 DEF HeldOK
  <2>2. Neat(x) => Neat(y)
    BY <1>2 DEF Neat, PendingOf
  <2>3. Owing(y, {}) = Owing(x, {})
    BY <1>2 DEF Owing, UndispatchedIn, Undispatched
  <2> QED
    BY <2>1, <2>2, <2>3, BalanceShrinks DEF AheadOK
<1>7. ~IsTerminal(s) /\ x.processed \subseteq known /\ SingleBatch(<<>>)
  BY DEF HeldOK, NothingSaved, SingleBatch
<1>9. Reopens(s, y) /\ ~Batched(k) /\ ~SameAsSaved(k)
  BY <1>2, <1>3, <1>7 DEF Reopens, Batched, SameAsSaved, IsSaving
<1>10. HeldOK(k, s, counts, carried, slack, known, intact)
  <2>1. k.at # "send" /\ ~IsSaving(k, "send") /\ k.at # "compensate"
    BY <1>3 DEF IsSaving
  <2>2. k.state.processed \subseteq known /\ SingleBatch(k.forward)
    BY <1>2, <1>3, <1>7
  <2> QED
    BY <1>3, <1>4, <1>5, <1>6, <1>7, <1>9, <2>1, <2>2 DEF HeldOK
<1> QED
  BY <1>3, <1>4, <1>10

LEMMA RefusedFields ==
  ASSUME NEW k, IsMemory(k), NEW c
  PROVE  LET r == Refused(k, c) IN
         /\ r.at = k.at /\ r.row = k.row /\ r.forward = k.forward /\ r.undo = k.undo
         /\ r.state.processed = k.state.processed /\ r.state.pending = k.state.pending
         /\ r.state.stack = k.state.stack /\ r.state.failed = k.state.failed \cup {c}
<1> DEFINE s == [k.state EXCEPT !.failed = @ \cup {c}]
<1>1. /\ s.processed = k.state.processed /\ s.pending = k.state.pending
      /\ s.stack = k.state.stack /\ s.failed = k.state.failed \cup {c}
  <2>1. k.state \in State
    BY DEF IsMemory
  <2> QED
    BY <2>1 DEF State
<1>2. Refused(k, c) = [k EXCEPT !.state = s]
  BY DEF Refused
<1> HIDE DEF s
<1> QED
  BY <1>1, <1>2 DEF IsMemory

\* The commands of a timeout hook, and the undos of its failed saga.
LEMMA SendUnsavedOne ==
  ASSUME TypeInv, BooksInv, CountersInv, OneTaskInv, SendUnsaved
  PROVE  OneTaskInv'
<1> DEFINE m == task[Timeouts]
           x == m.state
           c == Head(m.forward)
           e == m.undo[NextUndo(m.undo)]
<1>0. Timeouts \in Task
  BY DEF Task
<1>1. m # NoTask /\ m.at = "unsaved"
  BY DEF SendUnsaved, At, Busy
<1>2. /\ \A u \in Task : u # Timeouts => task[u] = NoTask
      /\ store = <<store[1]>> /\ SavedOK(store[1], Delivered, NoneEvicted)
      /\ IsMemory(m) /\ TaskOK(m, done) /\ m.row = 1 /\ x \in State
      /\ HeldOK(m, store[1], done, Gone, Slack, Delivered, NoneEvicted)
  BY <1>0, <1>1, HeldByTask
<1>3. /\ UNCHANGED <<store, deliveries, stops>>
      /\ \/ /\ m.forward = <<>> /\ DOMAIN m.undo = {}
            /\ Become(Timeouts, LastSave(m.row, x))
            /\ UNCHANGED <<done, undone, logged, unsure>>
         \/ /\ m.forward # <<>> /\ UNCHANGED logged
            /\ ForwardReturned(c) \/ ForwardRaised(c)
            /\ Become(Timeouts, AfterForward(m))
         \/ /\ m.forward = <<>> /\ DOMAIN m.undo # {}
            /\ \/ UndoReturned(e) /\ UNCHANGED logged
               \/ UndoRaised(e) /\ logged' = logged \cup {e}
            /\ Become(Timeouts, AfterUndo(m))
  BY SendUnsavedCases
<1>4. /\ Delivered' = Delivered /\ NoneEvicted' = NoneEvicted /\ NoneEvicted \in BOOLEAN
  BY <1>3 DEF Delivered, NoneEvicted
<1>5. done \in [Command -> Nat] /\ Slack \in Nat
  BY DEF BooksInv, CountersInv, Slack
<1>6. IsMemory(m) /\ HeldOK(m, store[1], done, Gone, Slack, Delivered, NoneEvicted)
  BY <1>2
<1>7. CASE /\ m.forward = <<>> /\ DOMAIN m.undo = {}
           /\ Become(Timeouts, LastSave(m.row, x))
           /\ UNCHANGED <<done, undone, logged, unsure>>
  <2> HIDE DEF m
  <2>1. Ahead(m) = {}
    BY <1>1, <1>7 DEF Ahead, ToSet
  <2>2. ~IsTerminal(store[1]) /\ Unwound(store[1], x, m.undo, Gone, NoneEvicted)
        /\ x.processed \subseteq Delivered
        /\ (NoneEvicted => Neat(x) /\ Balanced(x, {}, done, Slack))
    BY <1>1, <1>6, <2>1 DEF HeldOK, NothingSaved
  <2>3. Reopens(store[1], x) /\ StackKept(store[1], x, Gone)
    BY <1>7, <2>2, WalkEnds DEF Reopens
  <2>4. PICK k : k = LastSave(m.row, x)
    OBVIOUS
  <2>5. /\ k # NoTask /\ k.at # "create" /\ k.row = m.row
        /\ HeldOK(k, store[1], done, Gone, Slack, Delivered, NoneEvicted)
    BY <1>4, <2>2, <2>3, <2>4, LastSaveHeld, Z3
  <2>6. Loosens
    BY <1>3, <1>7, NothingLoosens DEF Gone
  <2> QED
    BY <1>0, <1>2, <1>3, <1>7, <2>4, <2>5, <2>6, TaskGoesOn
<1>8. CASE /\ m.forward # <<>> /\ UNCHANGED logged
           /\ ForwardReturned(c) \/ ForwardRaised(c)
           /\ Become(Timeouts, AfterForward(m))
  <2>1. PICK k : k = AfterForward(m)
    OBVIOUS
  <2>2. c \in Command
    BY <1>6, <1>8 DEF IsMemory
  <2>3. m.at \in {"compensate", "unsaved"} /\ m.forward # <<>>
    BY <1>1, <1>8
  <2> HIDE DEF m
  <2>4. /\ k # NoTask /\ k.at = m.at /\ k.row = m.row
        /\ HeldOK(k, store[1], done, Gone, Slack, Delivered, NoneEvicted)
        /\ HeldOK(k, store[1], Counted(done, c), Gone, Slack, Delivered, NoneEvicted)
    BY <1>4, <1>5, <1>6, <2>1, <2>3, AheadHeld, Z3
  <2>5. CASE ForwardReturned(c)
    <3>1. done' = Counted(done, c) /\ Gone' = Gone /\ Slack' = Slack
      BY <1>3, <1>8, <2>5 DEF ForwardReturned, Done, Counted, Gone, Slack
    <3> QED
      BY <1>0, <1>1, <1>2, <1>3, <1>4, <1>8, <2>1, <2>4, <3>1, OneTaskStep
  <2>6. CASE ForwardRaised(c)
    <3>1. Loosens
      BY <1>3, <1>8, <2>2, <2>6, RaisedLoosens
    <3> QED
      BY <1>0, <1>1, <1>2, <1>3, <1>8, <2>1, <2>4, <3>1, TaskGoesOn
  <2> QED
    BY <1>8, <2>5, <2>6
<1>9. CASE /\ m.forward = <<>> /\ DOMAIN m.undo # {}
           /\ \/ UndoReturned(e) /\ UNCHANGED logged
              \/ UndoRaised(e) /\ logged' = logged \cup {e}
           /\ Become(Timeouts, AfterUndo(m))
  <2>1. PICK k : k = AfterUndo(m)
    OBVIOUS
  <2>2. NextUndo(m.undo) \in DOMAIN m.undo
    BY <1>6, <1>9, NextUndoIsLast DEF IsMemory
  <2>3. /\ k.at = m.at /\ k.row = m.row /\ k.state = x /\ k.forward = m.forward
        /\ k.undo = Restrict(m.undo, DOMAIN m.undo \ {NextUndo(m.undo)})
    <3>1. TaskFields(m)
      BY <1>6, MemoryFields
    <3> QED
      BY <2>1, <3>1, CompensateFields
  <2>4. PICK later : later = Gone'
    OBVIOUS
  <2>5. Gone \subseteq later /\ e \in later
    BY <1>9, <2>4 DEF Gone, UndoReturned, UndoRaised
  <2>6. Walk(store[1], x, m.undo, Gone, NoneEvicted)
    BY <1>1, <1>6, <1>9 DEF HeldOK, Unwound
  <2> HIDE DEF m
  <2>7. Walk(store[1], k.state, k.undo, later, NoneEvicted)
    BY <2>2, <2>3, <2>5, <2>6, UndoWalks DEF e
  <2>8. /\ k # NoTask
        /\ HeldOK(k, store[1], done, later, Slack, Delivered, NoneEvicted)
    BY <1>1, <1>4, <1>6, <2>3, <2>7, WalkHeld, Z3
  <2>9. Loosens
    <3>1. UndoReturned(e) => UNCHANGED <<done, unsure>>
      BY DEF UndoReturned
    <3> QED
      BY <1>3, <1>9, <2>4, <2>5, <3>1, NothingLoosens, UndoRaisedLoosens
  <2>10. HeldOK(k, store[1], done', Gone', Slack', Delivered, NoneEvicted)
    <3>1. /\ done' \in [Command -> Nat] /\ Slack' \in Nat /\ later \subseteq Gone'
          /\ Looser(done, Slack, done', Slack')
      BY <2>4, <2>9 DEF Loosens
    <3> QED
      BY <1>5, <2>8, <3>1, HeldLasts
  <2> QED
    BY <1>0, <1>1, <1>2, <1>3, <1>4, <1>9, <2>1, <2>3, <2>8, <2>10, OneTaskStep
<1> QED
  BY <1>3, <1>7, <1>8, <1>9

LEMMA CompensateOne ==
  ASSUME TypeInv, BooksInv, CountersInv, OneTaskInv, NEW t \in Task, Compensate(t)
  PROVE  OneTaskInv'
<1>1. PICK m : m = task[t]
  OBVIOUS
<1> DEFINE c == Head(m.forward)
           e == m.undo[NextUndo(m.undo)]
<1>2. /\ UNCHANGED <<store, logged, deliveries, stops>>
      /\ m # NoTask /\ m.at = "compensate"
      /\ \/ /\ m.forward = <<>> /\ DOMAIN m.undo = {}
            /\ Become(t, Saving(m, Settled(m.state), m.next))
            /\ UNCHANGED <<done, undone, unsure>>
         \/ /\ m.forward # <<>>
            /\ \/ ForwardReturned(c) /\ Become(t, AfterForward(m))
               \/ ForwardRaised(c) /\ Become(t, Refused(AfterForward(m), c))
         \/ /\ m.forward = <<>> /\ DOMAIN m.undo # {}
            /\ \/ UndoReturned(e) /\ Become(t, AfterUndo(m))
               \/ UndoRaised(e) /\ Become(t, Refused(AfterUndo(m), e))
  BY <1>1, CompensateCases
<1>3. /\ \A u \in Task : u # t => task[u] = NoTask
      /\ store = <<store[1]>> /\ SavedOK(store[1], Delivered, NoneEvicted)
      /\ IsMemory(m) /\ TaskOK(m, done) /\ m.row = 1 /\ m.state \in State
      /\ HeldOK(m, store[1], done, Gone, Slack, Delivered, NoneEvicted)
  BY <1>1, <1>2, HeldByTask
<1>4. /\ Delivered' = Delivered /\ NoneEvicted' = NoneEvicted /\ NoneEvicted \in BOOLEAN
  BY <1>2 DEF Delivered, NoneEvicted
<1>5. done \in [Command -> Nat] /\ Slack \in Nat
  BY DEF BooksInv, CountersInv, Slack
<1>6. IsMemory(m) /\ m.at = "compensate" /\ m.next \in {"end", "batch"} /\ TaskFields(m)
      /\ HeldOK(m, store[1], done, Gone, Slack, Delivered, NoneEvicted)
  <2>1. m.next \in {"end", "batch"}
    BY <1>2, <1>3 DEF TaskOK
  <2> QED
    BY <1>2, <1>3, <2>1, MemoryFields
<1>7. Walk(store[1], m.state, m.undo, Gone, NoneEvicted)
  BY <1>6 DEF HeldOK
<1>8. ASSUME NEW k, Become(t, k), k # NoTask, k.at # "create", k.row = m.row, Loosens,
             HeldOK(k, store[1], done, Gone, Slack, Delivered, NoneEvicted)
      PROVE  OneTaskInv'
  BY <1>2, <1>3, <1>8, TaskGoesOn
<1>9. CASE /\ m.forward = <<>> /\ DOMAIN m.undo = {}
           /\ Become(t, Saving(m, Settled(m.state), m.next))
           /\ UNCHANGED <<done, undone, unsure>>
  <2>1. PICK k : k = Saving(m, Settled(m.state), m.next)
    OBVIOUS
  <2>2. m.forward = <<>> /\ DOMAIN m.undo = {}
    BY <1>9
  <2>3. /\ k # NoTask /\ k.at # "create" /\ k.row = m.row
        /\ HeldOK(k, store[1], done, Gone, Slack, Delivered, NoneEvicted)
    BY <1>4, <1>6, <2>1, <2>2, SettledHeld, Z3
  <2>4. Loosens
    BY <1>2, <1>9, NothingLoosens DEF Gone
  <2> QED
    BY <1>8, <1>9, <2>1, <2>3, <2>4
<1>10. CASE /\ m.forward # <<>>
            /\ \/ ForwardReturned(c) /\ Become(t, AfterForward(m))
               \/ ForwardRaised(c) /\ Become(t, Refused(AfterForward(m), c))
  <2>1. PICK k : k = AfterForward(m)
    OBVIOUS
  <2>2. m.forward # <<>> /\ m.at \in {"compensate", "unsaved"}
    BY <1>6, <1>10
  <2>3. /\ k # NoTask /\ k.at = m.at /\ k.row = m.row
        /\ HeldOK(k, store[1], done, Gone, Slack, Delivered, NoneEvicted)
        /\ HeldOK(k, store[1], Counted(done, c), Gone, Slack, Delivered, NoneEvicted)
    BY <1>4, <1>5, <1>6, <2>1, <2>2, AheadHeld, Z3
  <2>4. CASE ForwardReturned(c) /\ Become(t, k)
    <3>1. done' = Counted(done, c) /\ Gone' = Gone /\ Slack' = Slack /\ k.at # "create"
      BY <1>2, <1>6, <2>3, <2>4 DEF ForwardReturned, Done, Counted, Gone, Slack
    <3> QED
      BY <1>2, <1>3, <1>4, <2>3, <2>4, <3>1, OneTaskStep
  <2>5. CASE ForwardRaised(c) /\ Become(t, Refused(k, c))
    <3>1. PICK r : r = Refused(k, c)
      OBVIOUS
    <3>2. IsMemory(k) /\ k.state = m.state /\ k.undo = m.undo
      BY <1>6, <2>1, <2>2, RestTypes, CompensateFields
    <3>3. /\ r.at = "compensate" /\ r.row = m.row /\ r.forward = k.forward
          /\ r.undo = m.undo /\ r.state.processed = k.state.processed
          /\ r.state.pending = k.state.pending /\ r.state.stack = k.state.stack
          /\ m.state.failed \subseteq r.state.failed
      BY <1>6, <2>3, <3>1, <3>2, RefusedFields
    <3>4. PICK carried : carried = Gone
      OBVIOUS
    <3>5. Walk(store[1], r.state, r.undo, carried, NoneEvicted)
      BY <1>7, <3>3, <3>4, WalkLasts
    <3>6. k.at \in {"compensate", "unsaved"} /\ r.at = k.at
          /\ HeldOK(k, store[1], done, carried, Slack, Delivered, NoneEvicted)
      BY <1>6, <2>3, <3>3, <3>4
    <3>7. r # NoTask /\ HeldOK(r, store[1], done, carried, Slack, Delivered, NoneEvicted)
      BY <1>4, <3>3, <3>5, <3>6, WalkHeld, Z3
    <3>8. c \in Command
      BY <1>6, <2>2 DEF IsMemory
    <3>9. Loosens
      BY <1>2, <2>5, <3>8, RaisedLoosens
    <3> QED
      BY <1>8, <2>5, <3>1, <3>3, <3>4, <3>7, <3>9
  <2> QED
    BY <1>10, <2>1, <2>4, <2>5
<1>11. CASE /\ m.forward = <<>> /\ DOMAIN m.undo # {}
            /\ \/ UndoReturned(e) /\ Become(t, AfterUndo(m))
               \/ UndoRaised(e) /\ Become(t, Refused(AfterUndo(m), e))
  <2>1. PICK i : i = NextUndo(m.undo)
    OBVIOUS
  <2>2. i \in DOMAIN m.undo /\ e = m.undo[i]
    BY <1>6, <1>11, <2>1, NextUndoIsLast DEF IsMemory
  <2>3. PICK k : k = AfterUndo(m)
    OBVIOUS
  <2>4. /\ IsMemory(k) /\ k.at = "compensate" /\ k.row = m.row /\ k.forward = m.forward
        /\ k.state = m.state /\ k.undo = Restrict(m.undo, DOMAIN m.undo \ {i})
    BY <1>6, <1>11, <2>1, <2>3, RestTypes, CompensateFields
  <2> HIDE DEF e
  <2>5. ASSUME NEW r, Become(t, r), Loosens, r.at = "compensate", r.row = m.row,
               r.forward = m.forward, r.undo = k.undo,
               r.state.processed = m.state.processed, r.state.pending = m.state.pending,
               r.state.stack = m.state.stack, m.state.failed \subseteq r.state.failed,
               e \in Gone' \cup r.state.failed
        PROVE  OneTaskInv'
    <3>1. PICK later : later = Gone'
      OBVIOUS
    <3>2. Gone \subseteq later /\ m.undo[i] \in later \cup r.state.failed
      BY <2>2, <2>5, <3>1 DEF Loosens
    <3>3. Walk(store[1], r.state, Restrict(m.undo, DOMAIN m.undo \ {i}), later, NoneEvicted)
      BY <1>7, <2>2, <2>5, <3>2, UndoWalks
    <3>4. Walk(store[1], r.state, r.undo, later, NoneEvicted)
      BY <2>4, <2>5, <3>3
    <3>5. r # NoTask /\ HeldOK(r, store[1], done, later, Slack, Delivered, NoneEvicted)
      BY <1>4, <1>6, <2>5, <3>4, WalkHeld, Z3
    <3>6. HeldOK(r, store[1], done', Gone', Slack', Delivered, NoneEvicted)
      <4>1. /\ done' \in [Command -> Nat] /\ Slack' \in Nat /\ later \subseteq Gone'
            /\ Looser(done, Slack, done', Slack')
        BY <2>5, <3>1 DEF Loosens
      <4> QED
        BY <1>5, <3>5, <4>1, HeldLasts
    <3> QED
      BY <1>2, <1>3, <1>4, <2>5, <3>5, <3>6, OneTaskStep
  <2>6. CASE UndoReturned(e) /\ Become(t, k)
    <3>1. Gone \subseteq Gone' /\ e \in Gone' /\ UNCHANGED <<done, unsure>>
      BY <1>2, <2>6 DEF UndoReturned, Gone
    <3>2. Loosens
      BY <1>2, <3>1, NothingLoosens
    <3> QED
      BY <2>4, <2>5, <2>6, <3>1, <3>2
  <2>7. CASE UndoRaised(e) /\ Become(t, Refused(k, e))
    <3>1. PICK r : r = Refused(k, e)
      OBVIOUS
    <3>2. /\ r.at = "compensate" /\ r.row = m.row /\ r.forward = m.forward
          /\ r.undo = k.undo /\ r.state.processed = m.state.processed
          /\ r.state.pending = m.state.pending /\ r.state.stack = m.state.stack
          /\ m.state.failed \subseteq r.state.failed /\ e \in r.state.failed
      BY <2>4, <3>1, RefusedFields
    <3>3. Loosens
      BY <1>2, <2>7, UndoRaisedLoosens
    <3> QED
      BY <2>5, <2>7, <3>1, <3>2, <3>3
  <2> QED
    BY <1>11, <2>3, <2>6, <2>7
<1> QED
  BY <1>2, <1>9, <1>10, <1>11

\* A task begins work on the only saved state.
LEMMA BegunOne ==
  ASSUME BooksInv, NEW t \in Task, \A u \in Task : u # t => task[u] = NoTask,
         NEW s, store' = <<s>>, SavedOK(s, Delivered', NoneEvicted'),
         NoneEvicted' => Balanced(s, {}, done', Slack'),
         NEW w, IsWork(w), Begin(t, 1, w),
         SoloWork(w, s, Gone', Delivered', NoneEvicted')
  PROVE  OneTaskInv'
<1>1. PICK counts, carried, slack, known, intact :
         /\ counts = done' /\ carried = Gone' /\ slack = Slack'
         /\ known = Delivered' /\ intact = NoneEvicted'
  OBVIOUS
<1>2. /\ 1 \in Nat /\ intact \in BOOLEAN /\ SoloWork(w, s, carried, known, intact)
      /\ intact => Balanced(s, {}, counts, slack)
  BY <1>1 DEF NoneEvicted
<1>3. PICK k : /\ Become(t, k)
               /\ \/ k = NoTask
                  \/ /\ k.at # "create" /\ k.row = 1
                     /\ HeldOK(k, s, counts, carried, slack, known, intact)
  BY <1>2, BeginHeld
<1>4. k # NoTask =>
         /\ k.at # "create" /\ k.row = 1
         /\ HeldOK(k, s, done', Gone', Slack', Delivered', NoneEvicted')
  BY <1>1, <1>3
<1> QED
  BY <1>3, <1>4, OneTaskStep

LEMMA ExpireOne ==
  ASSUME TypeInv, BooksInv, CountersInv, OneTaskInv, atOnce = 1,
         NEW r \in DOMAIN store, Expire(r)
  PROVE  OneTaskInv'
<1>1. /\ MayBegin(Timeouts) /\ Timeouts \in Task /\ store # <<>>
      /\ UNCHANGED <<store, done, undone, logged, deliveries, unsure, stops>>
  BY DEF Expire, Task
<1>2. /\ \A u \in Task : task[u] = NoTask
      /\ store = <<store[1]>> /\ store[1] \in State /\ DOMAIN store = {1}
      /\ SavedOK(store[1], Delivered, NoneEvicted)
      /\ NoneEvicted => Balanced(store[1], {}, done, Slack)
  BY <1>1, HeldByNone
<1>3. r = 1
  BY <1>2
<1>4. store[1].status = "SUSPENDED" /\ \E w \in TimeOut(store[1], renamed) : Begin(Timeouts, 1, w)
  BY <1>3 DEF Expire
<1>5. PICK w \in TimeOut(store[1], renamed) : Begin(Timeouts, 1, w)
  BY <1>4
<1>6. /\ Delivered' = Delivered /\ NoneEvicted' = NoneEvicted /\ NoneEvicted \in BOOLEAN
      /\ store' = <<store[1]>> /\ Gone' = Gone /\ Slack' = Slack
  BY <1>1, <1>2 DEF Delivered, NoneEvicted, Gone, Slack
<1>7. IsWork(w)
  BY <1>2, TimedOutType
<1>8. SoloWork(w, store[1], Gone, Delivered, NoneEvicted)
  <2>1. ~IsTerminal(store[1]) /\ store[1].processed \subseteq Delivered
        /\ (NoneEvicted => Neat(store[1]))
    BY <1>2, <1>4 DEF IsTerminal, SavedOK
  <2> QED
    BY <1>2, <1>6, <2>1, TimedOutSolo
<1> QED
  BY <1>1, <1>2, <1>5, <1>6, <1>7, <1>8, BegunOne

LEMMA RecoverOne ==
  ASSUME TypeInv, BooksInv, CountersInv, OneTaskInv, atOnce = 1,
         NEW r \in DOMAIN store, Recover(r)
  PROVE  OneTaskInv'
<1>1. /\ MayBegin(Recovery) /\ Recovery \in Task /\ store # <<>>
      /\ UNCHANGED <<store, done, undone, logged, deliveries, unsure, stops>>
      /\ ~IsTerminal(store[r])
  BY DEF Recover, Task, IsStalled, counters
<1>2. /\ \A u \in Task : task[u] = NoTask
      /\ store = <<store[1]>> /\ store[1] \in State /\ DOMAIN store = {1}
      /\ SavedOK(store[1], Delivered, NoneEvicted)
      /\ NoneEvicted => Balanced(store[1], {}, done, Slack)
  BY <1>1, HeldByNone
<1>3. r = 1
  BY <1>2
<1>4. PICK s : s = store[1]
  OBVIOUS
<1>5. \/ Begin(Recovery, 1, Work(FinishRecovery(s), <<>>, <<>>, "end"))
      \/ /\ Fail(s, TRUE, renamed).status = "COMPENSATING"
         /\ Begin(Recovery, 1, Work(Fail(s, TRUE, renamed), <<>>,
                                    Undos(s, renamed), "compensate"))
      \/ /\ Fail(s, TRUE, renamed).status # "COMPENSATING"
         /\ Begin(Recovery, 1, Work(Fail(s, TRUE, renamed), <<>>, <<>>, "end"))
      \/ Become(Recovery, [LastSave(1, Attempted(s)) EXCEPT !.next = "redispatch"])
  BY <1>3, <1>4, RecoverCases
<1>6. /\ Delivered' = Delivered /\ NoneEvicted' = NoneEvicted /\ NoneEvicted \in BOOLEAN
      /\ store' = <<s>> /\ done' = done /\ Gone' = Gone /\ Slack' = Slack
  BY <1>1, <1>2, <1>4 DEF Delivered, NoneEvicted, Gone, Slack
<1>7. /\ s \in State /\ ~IsTerminal(s) /\ s.processed \subseteq Delivered
      /\ SavedOK(s, Delivered, NoneEvicted)
      /\ NoneEvicted => Neat(s) /\ Balanced(s, {}, done, Slack)
  BY <1>1, <1>2, <1>3, <1>4 DEF SavedOK
<1>8. ASSUME NEW w, IsWork(w), Begin(Recovery, 1, w),
             SoloWork(w, s, Gone, Delivered, NoneEvicted)
      PROVE  OneTaskInv'
  BY <1>1, <1>2, <1>6, <1>7, <1>8, BegunOne
<1>9. ASSUME NEW w, Begin(Recovery, 1, w),
             \/ w = Work(FinishRecovery(s), <<>>, <<>>, "end")
             \/ /\ Fail(s, TRUE, renamed).status = "COMPENSATING"
                /\ w = Work(Fail(s, TRUE, renamed), <<>>, Undos(s, renamed), "compensate")
             \/ /\ Fail(s, TRUE, renamed).status # "COMPENSATING"
                /\ w = Work(Fail(s, TRUE, renamed), <<>>, <<>>, "end")
      PROVE  OneTaskInv'
  <2>1. IsWork(w)
    <3>1. ASSUME NEW x \in State, NEW undo, IsUndos(undo), NEW p \in {"end", "compensate"},
                 w = Work(x, <<>>, undo, p)
          PROVE  IsWork(w)
      <4>1. <<>> \in Seq(Command)
        OBVIOUS
      <4> QED
        BY <3>1, <4>1 DEF IsWork, Work
    <3>2. /\ Fail(s, TRUE, renamed) \in State /\ FinishRecovery(s) \in State
          /\ IsUndos(Undos(s, renamed)) /\ IsUndos(<<>>)
      BY <1>7, LifecycleTypes, FinishRecoveryType, UndosType, NoUndos
    <3> QED
      BY <1>9, <3>1, <3>2
  <2>2. SoloWork(w, s, Gone, Delivered, NoneEvicted)
    BY <1>6, <1>7, <1>9, RecoverSolo
  <2> QED
    BY <1>8, <1>9, <2>1, <2>2
<1>10. CASE Become(Recovery, [LastSave(1, Attempted(s)) EXCEPT !.next = "redispatch"])
  <2> DEFINE x == Attempted(s)
  <2>1. PICK k : k = [LastSave(1, x) EXCEPT !.next = "redispatch"]
    OBVIOUS
  <2>2. /\ k.at = "save" /\ k.next = "redispatch" /\ k.row = 1 /\ k.state = x
        /\ k.forward = <<>>
    BY <2>1 DEF LastSave
  <2>3. /\ x.status = s.status /\ x.stack = s.stack /\ x.processed = s.processed
        /\ x.pending = s.pending /\ x.failed = s.failed
    BY <1>7 DEF Attempted, State
  <2> HIDE DEF x
  <2>4. Ahead(k) = {} /\ AheadOK(x, {}) /\ SingleBatch(k.forward) /\ k # NoTask
    BY <2>2 DEF Ahead, AheadOK, IsSaving, SingleBatch, NoTask
  <2>5. Neat(s) => Neat(x)
    BY <2>3 DEF Neat, PendingOf
  <2>6. Owing(x, {}) = Owing(s, {})
    BY <2>3 DEF Owing, UndispatchedIn, Undispatched
  <2>7. NoneEvicted => Neat(x) /\ Balanced(x, {}, done, Slack)
    BY <1>7, <2>5, <2>6, BalanceShrinks
  <2>8. HeldOK(k, s, done, Gone, Slack, Delivered, NoneEvicted)
    BY <1>7, <2>2, <2>3, <2>4, <2>7
    DEF HeldOK, Reopens, StackKept, NothingSaved, Batched, SameAsSaved, IsSaving
  <2>9. Become(Recovery, k)
    BY <1>10, <2>1 DEF x
  <2> QED
    BY <1>1, <1>2, <1>6, <1>7, <2>2, <2>4, <2>8, <2>9, OneTaskStep
<1> QED
  BY <1>5, <1>9, <1>10

\* A delivery adds its event to those delivered.
LEMMA DeliverCounts ==
  ASSUME CountersInv, NEW e \in Event, Deliver(e)
  PROVE  /\ CountersInv' /\ Delivered' = Delivered \cup {e}
         /\ NoneEvicted' = Roomy(Delivered') /\ (NoneEvicted' => NoneEvicted)
<1>1. /\ deliveries' = [deliveries EXCEPT ![e] = @ + 1] /\ stops' = stops
      /\ unsure' = unsure /\ deliveries \in [Event -> Nat] /\ IsFiniteSet(Delivered)
  BY DEF Deliver, CountersInv
<1>2. deliveries' \in [Event -> Nat]
  BY <1>1
<1>3. Delivered' = Delivered \cup {e}
  <2>1. \A d \in Event : d # e => deliveries'[d] = deliveries[d]
    BY <1>1
  <2>2. deliveries'[e] > 0
    BY <1>1
  <2> QED
    BY <2>1, <2>2 DEF Delivered
<1>4. IsFiniteSet(Delivered')
  BY <1>1, <1>3, FS_AddElement
<1>5. Cardinality(Delivered) <= Cardinality(Delivered')
      /\ Cardinality(Delivered) \in Nat /\ Cardinality(Delivered') \in Nat
  BY <1>3, <1>4, FS_Subset, FS_CardinalityType
<1>6. NoneEvicted = Roomy(Delivered) /\ NoneEvicted' = Roomy(Delivered')
  BY DEF NoneEvicted, Roomy, Delivered
<1>7. Roomy(Delivered') => Roomy(Delivered)
  <2>1. PICK a \in Nat, b \in Nat : a = Cardinality(Delivered) /\ b = Cardinality(Delivered')
    BY <1>5
  <2>2. a <= b /\ MaxProcessed \in Nat
    BY <1>5, <2>1, SagaAssumption
  <2> QED
    BY <2>1, <2>2 DEF Roomy
<1> QED
  BY <1>1, <1>2, <1>3, <1>4, <1>6, <1>7 DEF CountersInv

LEMMA DeliverOne ==
  ASSUME TypeInv, BooksInv, CountersInv, OneTaskInv, atOnce = 1, NEW e \in Event, Deliver(e)
  PROVE  OneTaskInv'
<1>1. /\ MayBegin(e) /\ e \in Task /\ UNCHANGED <<store, done>>
      /\ Gone' = Gone /\ Slack' = Slack
  BY DEF Deliver, Task, Gone, Slack
<1>2. /\ \A u \in Task : task[u] = NoTask
      /\ store = <<>> => \A d \in Event : done[d] = 0
      /\ store # <<>> =>
            /\ store = <<store[1]>> /\ store[1] \in State /\ DOMAIN store = {1}
            /\ SavedOK(store[1], Delivered, NoneEvicted)
            /\ NoneEvicted => Balanced(store[1], {}, done, Slack)
  BY <1>1, HeldByNone
<1>3. /\ Delivered' = Delivered \cup {e} /\ NoneEvicted' = Roomy(Delivered')
      /\ NoneEvicted' => NoneEvicted
      /\ IsFiniteSet(Delivered')
  BY DeliverCounts DEF CountersInv
<1>4. CASE store = <<>>
  <2>1. PICK k : k = [LastSave(0, NewState) EXCEPT !.at = "create"]
    OBVIOUS
  <2>2. Become(e, k)
    BY <1>4, <2>1 DEF Deliver
  <2>3. k.at = "create"
    BY <2>1 DEF LastSave
  <2> QED
    BY <1>1, <1>2, <1>3, <1>4, <2>2, <2>3, OneTaskStepEmpty
<1>5. CASE store # <<>>
  <2>1. PICK w \in ProcessEvent(store[1], e, renamed) : Begin(e, 1, w)
    BY <1>5 DEF Deliver
  <2>2. PICK s, known, intact : /\ s = store[1] /\ known = Delivered' /\ intact = NoneEvicted'
    OBVIOUS
  <2>3. /\ s \in State /\ s.processed \subseteq Delivered /\ (NoneEvicted => Neat(s))
        /\ NoneEvicted => Balanced(s, {}, done, Slack)
        /\ store' = <<s>>
    BY <1>1, <1>2, <1>5, <2>2 DEF SavedOK
  <2>4. /\ s.processed \cup {e} \subseteq known /\ IsFiniteSet(known)
        /\ intact \in BOOLEAN /\ (intact => Roomy(known) /\ Neat(s))
        /\ intact => Balanced(s, {}, done, Slack)
    BY <1>3, <2>2, <2>3 DEF NoneEvicted
  <2>5. SavedOK(s, known, intact)
    BY <2>4 DEF SavedOK
  <2>6. w \in ProcessEvent(s, e, renamed)
    BY <2>1, <2>2
  <2>7. SoloWork(w, s, Gone, known, intact) /\ IsWork(w)
    BY <2>3, <2>4, <2>6, ProcessedSolo, ProcessedType
  <2> QED
    BY <1>1, <1>2, <2>1, <2>2, <2>3, <2>4, <2>5, <2>7, BegunOne
<1> QED
  BY <1>4, <1>5

LEMMA CreateOne ==
  ASSUME TypeInv, BooksInv, CountersInv, OneTaskInv, NEW e \in Event, Create(e)
  PROVE  OneTaskInv'
<1>1. /\ e \in Task /\ task[e] # NoTask /\ task[e].at = "create"
      /\ UNCHANGED <<done, deliveries>> /\ Gone' = Gone /\ Slack' = Slack
  BY DEF Create, At, Busy, Task, counters, Gone, Slack
<1>2. /\ store = <<>> /\ e \in Delivered
      /\ \A u \in Task : u # e => task[u] = NoTask
      /\ \A d \in Event : done[d] = 0
  BY <1>1 DEF OneTaskInv
<1>3. PICK w \in ProcessEvent(NewState, e, renamed) : Begin(e, Len(store) + 1, w)
  BY DEF Create
<1>4. Len(store) + 1 = 1
  BY <1>2
<1>5. Begin(e, 1, w)
  BY <1>3, <1>4
<1>6. PICK s : s = NewState
  OBVIOUS
<1>7. store' = <<s>>
  BY <1>2, <1>6 DEF Create
<1>8. /\ s \in State /\ s.processed = {} /\ s.pending = <<>> /\ s.stack = <<>>
      /\ w \in ProcessEvent(s, e, renamed)
  BY <1>3, <1>6, NewStateType DEF NewState
<1>9. Neat(s)
  BY <1>8 DEF Neat, Distinct, PendingOf, ToSet
<1>10. /\ Delivered' = Delivered /\ NoneEvicted' = NoneEvicted /\ NoneEvicted \in BOOLEAN
       /\ NoneEvicted => Roomy(Delivered)
       /\ IsFiniteSet(Delivered)
  BY <1>1 DEF Delivered, NoneEvicted, Roomy, CountersInv
<1>11. SavedOK(s, Delivered, NoneEvicted)
  BY <1>8, <1>9 DEF SavedOK
<1>12. Balanced(s, {}, done, Slack)
  <2>1. Slack \in Nat
    BY DEF CountersInv, Slack
  <2>2. \A d \in Event : done[d] <= 1 + Slack /\ done[d] <= Slack
    BY <1>2, <2>1
  <2> QED
    BY <2>2 DEF Balanced
<1>13. SoloWork(w, s, Gone, Delivered, NoneEvicted)
  <2>1. s.processed \cup {e} \subseteq Delivered /\ (NoneEvicted => Roomy(Delivered) /\ Neat(s))
    BY <1>2, <1>8, <1>9, <1>10
  <2> QED
    BY <1>8, <1>10, <2>1, ProcessedSolo
<1>14. IsWork(w)
  BY <1>8, ProcessedType
<1> QED
  BY <1>1, <1>2, <1>5, <1>7, <1>10, <1>11, <1>12, <1>13, <1>14, BegunOne

-----------------------------------------------------------------------------
(* The invariant, and what follows from it.                                *)

LEMMA SoloInit ==
  ASSUME Init
  PROVE  SoloInv
<1>1. /\ store = <<>> /\ stops = 0 /\ unsure = 0 /\ \A t \in Task : task[t] = NoTask
      /\ \A e \in Event : done[e] = 0
      /\ deliveries = [e \in Event |-> 0]
  BY DEF Init, Command
<1>2. Delivered = {}
  BY <1>1 DEF Delivered
<1>3. CountersInv
  BY <1>1, <1>2, FS_EmptySet DEF CountersInv
<1>4. Len(store) <= 1
  BY <1>1
<1>5. OneTaskInv
  BY <1>1, <1>4 DEF OneTaskInv
<1> QED
  BY <1>3, <1>5 DEF SoloInv

LEMMA CountersStep ==
  ASSUME CountersInv, [Next]_vars
  PROVE  CountersInv' /\ atOnce' = atOnce
<1> DEFINE Counts ==
       /\ UNCHANGED <<atOnce, deliveries>>
       /\ stops' = stops \/ stops' = stops + 1
       /\ unsure' = unsure \/ unsure' = unsure + 1
<1>1. ASSUME Counts PROVE CountersInv'
  <2>1. Delivered' = Delivered
    BY <1>1 DEF Delivered
  <2> QED
    BY <1>1, <2>1 DEF CountersInv
<1>2. CASE \E e \in Event : Deliver(e)
  BY <1>2, DeliverCounts DEF Deliver
<1>3. CASE \E e \in Event : Create(e)
  BY <1>1, <1>3 DEF Create, counters
<1>4. \A c, forward : Returns(c, forward) \/ Raises(c, forward) =>
         unsure' = unsure \/ unsure' = unsure + 1
  BY DEF Returns, Raises
<1>5. ASSUME NEW t \in Task, Save(t) \/ Send(t) \/ MarkFails(t) \/ Compensate(t) \/ Stop(t)
      PROVE  Counts
  <2>1. CASE Save(t) \/ MarkFails(t) \/ Stop(t)
    BY <2>1 DEF Save, MarkFails, Stop, counters
  <2>2. CASE Send(t)
    BY <1>4, <2>2, Zenon DEF Send
  <2>3. CASE Compensate(t)
    BY <1>4, <2>3, Zenon DEF Compensate
  <2> QED
    BY <1>5, <2>1, <2>2, <2>3
<1>6. CASE \E r \in DOMAIN store : Recover(r) \/ Expire(r)
  BY <1>1, <1>6 DEF Recover, Expire, counters
<1>7. CASE Redispatch \/ SendUnsaved
  <2>1. Redispatch => Counts
    BY <1>4, Zenon DEF Redispatch
  <2>2. SendUnsaved => Counts
    BY <1>4, Zenon DEF SendUnsaved
  <2> QED
    BY <1>1, <1>7, <2>1, <2>2
<1>8. CASE \E unknown \in SUBSET Event : Restart(unknown)
  BY <1>1, <1>8 DEF Restart
<1>9. CASE UNCHANGED vars
  BY <1>1, <1>9 DEF vars, counters
<1> QED
  BY <1>1, <1>2, <1>3, <1>5, <1>6, <1>7, <1>8, <1>9 DEF Next

LEMMA SoloStep ==
  ASSUME TypeInv, BooksInv, SoloInv, [Next]_vars
  PROVE  SoloInv'
<1>1. CountersInv /\ CountersInv' /\ atOnce' = atOnce
  BY CountersStep DEF SoloInv
<1> SUFFICES ASSUME atOnce = 1
             PROVE  OneTaskInv'
  BY <1>1 DEF SoloInv
<1>2. OneTaskInv
  BY DEF SoloInv
<1>3. CASE \E e \in Event : Deliver(e) \/ Create(e)
  BY <1>1, <1>2, <1>3, DeliverOne, CreateOne
<1>4. ASSUME NEW t \in Task, Save(t) \/ Send(t) \/ MarkFails(t) \/ Compensate(t) \/ Stop(t)
      PROVE  OneTaskInv'
  BY <1>1, <1>2, <1>4, SaveOne, SendOne, MarkFailsOne, CompensateOne, StopOne
<1>5. CASE \E r \in DOMAIN store : Recover(r) \/ Expire(r)
  BY <1>1, <1>2, <1>5, RecoverOne, ExpireOne
<1>6. CASE Redispatch \/ SendUnsaved
  BY <1>1, <1>2, <1>6, RedispatchOne, SendUnsavedOne
<1>7. CASE \E unknown \in SUBSET Event : Restart(unknown)
  BY <1>1, <1>2, <1>7, RestartOne
<1>8. CASE UNCHANGED vars
  <2>1. UNCHANGED <<store, task, done, undone, logged, deliveries, unsure, stops>>
    BY <1>8 DEF vars, counters
  <2>2. /\ Delivered' = Delivered /\ NoneEvicted' = NoneEvicted /\ Idle' = Idle
        /\ Gone' = Gone /\ Slack' = Slack
    BY <2>1 DEF Delivered, NoneEvicted, Idle, Gone, Slack
  <2> QED
    BY <1>2, <2>1, <2>2 DEF OneTaskInv
<1> QED
  BY <1>3, <1>4, <1>5, <1>6, <1>7, <1>8 DEF Next

ManagerInv == TypeInv /\ BooksInv /\ SoloInv

LEMMA ManagerInvHolds == Spec => []ManagerInv
<1>1. Init => ManagerInv
  BY TypeInit, BooksInit, SoloInit DEF ManagerInv
<1>2. ManagerInv /\ [Next]_vars => ManagerInv'
  BY TypesStep, BooksStep, SoloStep DEF ManagerInv
<1> QED
  BY <1>1, <1>2, PTL DEF Spec

\* At rest and at work alike a command is ahead by no more than the faults that
\* hid a dispatch.
LEMMA BalancedAlways ==
  ASSUME ManagerInv, atOnce = 1, NoneEvicted, NEW e \in Event
  PROVE  done[e] <= 1 + Slack
<1>1. OneTaskInv /\ Slack \in Nat
  BY DEF ManagerInv, SoloInv, CountersInv, Slack
<1>2. CASE store = <<>>
  BY <1>1, <1>2 DEF OneTaskInv
<1>3. CASE store # <<>> /\ Idle
  BY <1>1, <1>3 DEF OneTaskInv, Balanced
<1>4. CASE store # <<>> /\ ~Idle
  <2>1. PICK t \in Task : task[t] # NoTask
    BY <1>4 DEF Idle
  <2>2. HeldOK(task[t], store[1], done, Gone, Slack, Delivered, NoneEvicted)
    BY <1>1, <1>4, <2>1 DEF OneTaskInv
  <2>3. PICK a : Balanced(task[t].state, a, done, Slack)
    BY <2>2 DEF HeldOK
  <2> QED
    BY <2>3 DEF Balanced
<1> QED
  BY <1>2, <1>3, <1>4

\* With one task at a time, a command is carried out once, and once more for
\* each task cut short, each restart and each dispatch that raised after it had
\* taken effect: no redelivery, refusal, resumption or recovery sends a command
\* again on its own, for every set of steps and every bound on the faults.
THEOREM OneDispatchPerFault == Spec => []OncePerCommandAndFault
<1>1. ManagerInv => OncePerCommandAndFault
  <2> SUFFICES ASSUME ManagerInv, atOnce = 1, NoneEvicted, NEW e \in Event
               PROVE  done[e] <= 1 + stops + unsure
    BY DEF OncePerCommandAndFault
  <2>1. done[e] <= 1 + Slack
    BY BalancedAlways
  <2>2. stops \in Nat /\ unsure \in Nat
    BY DEF ManagerInv, SoloInv, CountersInv
  <2>3. 1 + Slack = 1 + stops + unsure
    BY <2>2 DEF Slack
  <2> QED
    BY <2>1, <2>3
<1> QED
  BY <1>1, ManagerInvHolds, PTL

-----------------------------------------------------------------------------
(* What a step does to the saved state and to the undos carried out.       *)

\* With one task at work, a saved state changes only in a save, to what that
\* task holds; a new saga leaves the others as they are.
LEMMA StoreChanges ==
  ASSUME ManagerInv, atOnce = 1, [Next]_vars, NEW r \in DOMAIN store
  PROVE  \/ store'[r] = store[r]
         \/ \E t \in Task :
               LET m == task[t] IN
               /\ m.at = "save" /\ store'[r] = m.state
               /\ HeldOK(m, store[r], done, Gone, Slack, Delivered, NoneEvicted)
<1>0. TypeInv /\ BooksInv /\ OneTaskInv /\ store \in Seq(State)
  BY DEF ManagerInv, SoloInv, TypeInv
<1>1. CASE \E t \in Task : Save(t)
  <2>1. PICK t \in Task : Save(t)
    BY <1>1
  <2>2. PICK m : m = task[t]
    OBVIOUS
  <2>3. m # NoTask /\ m.at = "save" /\ store' = [store EXCEPT ![m.row] = m.state]
    BY <2>1, <2>2 DEF Save, At, Busy
  <2>4. /\ store = <<store[1]>> /\ m.row = 1
        /\ HeldOK(m, store[1], done, Gone, Slack, Delivered, NoneEvicted)
    BY <1>0, <2>2, <2>3, HeldByTask
  <2>5. r = 1
    BY <2>4
  <2>6. store'[r] = m.state
    BY <1>0, <2>3, <2>4, <2>5
  <2> QED
    BY <2>2, <2>3, <2>4, <2>5, <2>6
<1>2. CASE \E e \in Event : Create(e)
  <2>1. PICK e \in Event : Create(e)
    BY <1>2
  <2>2. task[e] # NoTask /\ task[e].at = "create" /\ e \in Task
    BY <2>1 DEF Create, At, Busy, Task
  <2>3. store = <<>>
    BY <1>0, <2>2 DEF OneTaskInv
  <2> QED
    BY <2>3
<1>3. CASE UNCHANGED store
  BY <1>3
<1>4. \/ \E t \in Task : Save(t)
      \/ \E e \in Event : Create(e)
      \/ UNCHANGED store
  BY DEF Next, vars, Deliver, Send, MarkFails, Compensate, Stop, Recover, Expire,
         Redispatch, SendUnsaved, Restart
<1> QED
  BY <1>1, <1>2, <1>3, <1>4

\* With one task at a time, an undo leaves the saved stack only carried out,
\* recorded as failed, because the saga completed, or given up with a line in
\* the log after a timeout hook that raised, whatever crashed meanwhile.
THEOREM NoUndoIsLost == Spec => CompensationAccountedFor
<1> DEFINE Step ==
       atOnce = 1 =>
          \A r \in DOMAIN store :
              \A e \in ToSet(store[r].stack) \ ToSet(store'[r].stack) :
                  \/ e \in undone \cup logged
                  \/ e \in store'[r].failed
                  \/ store'[r].status = "COMPLETED"
<1>1. ManagerInv /\ [Next]_vars => Step
  <2> SUFFICES ASSUME ManagerInv, [Next]_vars, atOnce = 1, NEW r \in DOMAIN store
               PROVE  \A e \in ToSet(store[r].stack) \ ToSet(store'[r].stack) :
                         \/ e \in undone \cup logged
                         \/ e \in store'[r].failed
                         \/ store'[r].status = "COMPLETED"
    OBVIOUS
  <2>1. CASE store'[r] = store[r]
    BY <2>1
  <2>2. ASSUME NEW m, m.at = "save", store'[r] = m.state,
               HeldOK(m, store[r], done, Gone, Slack, Delivered, NoneEvicted)
        PROVE  \A e \in ToSet(store[r].stack) \ ToSet(store'[r].stack) :
                  \/ e \in undone \cup logged
                  \/ e \in store'[r].failed
                  \/ store'[r].status = "COMPLETED"
    <3>1. StackKept(store[r], store'[r], Gone)
      BY <2>2 DEF HeldOK
    <3> QED
      BY <3>1 DEF StackKept, Gone
  <2> QED
    BY <2>1, <2>2, StoreChanges
<1>2. ManagerInv /\ [Next]_vars => [Step]_vars
  BY <1>1
<1> QED
  BY <1>2, ManagerInvHolds, PTL DEF Spec, CompensationAccountedFor

\* A saga that ended is never rewritten, but by the suspension of a step that
\* ended it and whose own commands were then refused.
THEOREM EndedStaysEnded == Spec => EndedReopensOnlyWithPending
<1> DEFINE Step ==
       atOnce = 1 =>
          \A r \in DOMAIN store :
              (IsTerminal(store[r]) /\ store'[r].status # store[r].status) =>
                  /\ store[r].status # "COMPENSATED"
                  /\ store'[r].status = "SUSPENDED"
                  /\ store'[r].pending # <<>>
<1>1. ManagerInv /\ [Next]_vars => Step
  <2> SUFFICES ASSUME ManagerInv, [Next]_vars, atOnce = 1, NEW r \in DOMAIN store,
                      IsTerminal(store[r]), store'[r].status # store[r].status
               PROVE  /\ store[r].status # "COMPENSATED"
                      /\ store'[r].status = "SUSPENDED"
                      /\ store'[r].pending # <<>>
    OBVIOUS
  <2>1. PICK t \in Task :
           /\ task[t].at = "save" /\ store'[r] = task[t].state
           /\ HeldOK(task[t], store[r], done, Gone, Slack, Delivered, NoneEvicted)
    BY StoreChanges
  <2>2. Reopens(store[r], store'[r])
    BY <2>1 DEF HeldOK
  <2> QED
    BY <2>2 DEF Reopens
<1>2. ManagerInv /\ [Next]_vars => [Step]_vars
  BY <1>1
<1> QED
  BY <1>2, ManagerInvHolds, PTL DEF Spec, EndedReopensOnlyWithPending

\* The undo that is sent next stands above every one still to be sent.
LEMMA WalksInReverse ==
  ASSUME NEW s \in State, NEW x, NEW undo, IsUndos(undo), DOMAIN undo # {}, NEW carried,
         Walk(s, x, undo, carried, TRUE), NEW d \in Above(s.stack, undo[NextUndo(undo)])
  PROVE  d \in carried \/ d \in x.failed
<1>1. PICK K \in Seq(Event) :
         /\ \A i \in DOMAIN s.stack : i \in DOMAIN K /\ K[i] = s.stack[i]
         /\ \A i \in DOMAIN undo : i \in DOMAIN K /\ K[i] = undo[i]
         /\ \A i \in DOMAIN K : i \in DOMAIN undo \/ K[i] \in carried \cup x.failed
         /\ Distinct(K)
  BY DEF Walk
<1>2. PICK n : n = NextUndo(undo)
  OBVIOUS
<1>3. n \in DOMAIN undo /\ (\A j \in DOMAIN undo : j <= n) /\ DOMAIN undo \subseteq Nat
  BY <1>2, NextUndoIsLast DEF IsUndos
<1>4. PICK k \in DOMAIN s.stack : d = s.stack[k] /\ \E j \in 1..(k - 1) : s.stack[j] = undo[n]
  BY <1>2 DEF Above
<1>5. PICK i \in 1..(k - 1) : s.stack[i] = undo[n]
  BY <1>4
<1>6. i \in DOMAIN s.stack /\ i \in Nat /\ k \in Nat /\ i < k
  <2>1. DOMAIN s.stack = 1..Len(s.stack) /\ Len(s.stack) \in Nat
    BY DEF State
  <2> QED
    BY <2>1
<1>7. i = n
  <2>1. i \in DOMAIN K /\ n \in DOMAIN K /\ K[i] = K[n]
    BY <1>1, <1>3, <1>5, <1>6
  <2> QED
    BY <1>1, <2>1 DEF Distinct
<1>8. k \notin DOMAIN undo
  BY <1>3, <1>6, <1>7
<1>9. k \in DOMAIN K /\ K[k] = d
  BY <1>1, <1>4
<1> QED
  BY <1>1, <1>8, <1>9

\* A dispatch of an undo is that of the next one of a walk.
LEMMA UndosWalk ==
  ASSUME ManagerInv, atOnce = 1, [Next]_vars, NEW t \in Task, task[t] # NoTask,
         NEW e \in undone' \ undone, NEW m, m = task[t]
  PROVE  /\ IsMemory(m) /\ m.row = 1 /\ store[1] \in State
         /\ DOMAIN m.undo # {} /\ e = m.undo[NextUndo(m.undo)]
         /\ Walk(store[1], m.state, m.undo, Gone, NoneEvicted)
<1>1. TypeInv /\ BooksInv /\ OneTaskInv
  BY DEF ManagerInv, SoloInv
<1>2. \A c : /\ ForwardReturned(c) \/ ForwardRaised(c) => UNCHANGED undone
             /\ UndoReturned(c) \/ UndoRaised(c) => undone' \subseteq undone \cup {c}
  BY DEF ForwardReturned, ForwardRaised, UndoReturned, UndoRaised
<1>3. ASSUME m.at \in {"compensate", "unsaved"}, DOMAIN m.undo # {},
             UndoReturned(m.undo[NextUndo(m.undo)]) \/ UndoRaised(m.undo[NextUndo(m.undo)])
      PROVE  /\ IsMemory(m) /\ m.row = 1 /\ store[1] \in State
             /\ DOMAIN m.undo # {} /\ e = m.undo[NextUndo(m.undo)]
             /\ Walk(store[1], m.state, m.undo, Gone, NoneEvicted)
  <2>1. /\ IsMemory(m) /\ m.row = 1 /\ store[1] \in State
        /\ HeldOK(m, store[1], done, Gone, Slack, Delivered, NoneEvicted)
    BY <1>1, <1>3, HeldByTask
  <2>2. e = m.undo[NextUndo(m.undo)]
    BY <1>2, <1>3
  <2>3. Walk(store[1], m.state, m.undo, Gone, NoneEvicted)
    BY <1>3, <2>1 DEF HeldOK, Unwound
  <2> QED
    BY <1>3, <2>1, <2>2, <2>3
<1>4. CASE \E u \in Task : Compensate(u)
  <2>1. PICK u \in Task : Compensate(u)
    BY <1>4
  <2>2. u = t
    BY <1>1, <2>1 DEF Compensate, At, Busy, OneTaskInv
  <2>3. /\ m.at = "compensate"
        /\ \/ UNCHANGED undone
           \/ /\ DOMAIN m.undo # {}
              /\ \/ UndoReturned(m.undo[NextUndo(m.undo)])
                 \/ UndoRaised(m.undo[NextUndo(m.undo)])
    BY <1>2, <2>1, <2>2, CompensateCases
  <2> QED
    BY <1>3, <2>3
<1>5. CASE SendUnsaved
  <2>1. Timeouts = t
    BY <1>1, <1>5 DEF SendUnsaved, At, Busy, OneTaskInv, Task
  <2>2. /\ m.at = "unsaved"
        /\ \/ UNCHANGED undone
           \/ /\ DOMAIN m.undo # {}
              /\ \/ UndoReturned(m.undo[NextUndo(m.undo)])
                 \/ UndoRaised(m.undo[NextUndo(m.undo)])
    BY <1>2, <1>5, <2>1, SendUnsavedCases
  <2> QED
    BY <1>3, <2>2
<1>6. CASE \E u \in Task : Send(u)
  <2>1. PICK u \in Task : Send(u)
    BY <1>6
  <2>2. \E c : ForwardReturned(c) \/ ForwardRaised(c)
    BY <2>1, DispatchOutcomes, Zenon DEF Send
  <2> QED
    BY <1>2, <2>2
<1>7. CASE Redispatch
  <2>1. task[Recovery] # NoTask /\ task[Recovery].at = "redispatch" /\ Recovery \in Task
    BY <1>7 DEF Redispatch, At, Busy, Task
  <2>2. IsState(task[Recovery].state)
    BY <1>1, <2>1, HeldByTask, StateIsState
  <2>3. UNCHANGED undone
    BY <1>7, <2>2, RedispatchCases
  <2> QED
    BY <2>3
<1>8. CASE UNCHANGED undone
  BY <1>8
<1>9. \/ \E u \in Task : Compensate(u) \/ Send(u)
      \/ SendUnsaved \/ Redispatch \/ UNCHANGED undone
  BY DEF Next, vars, Deliver, Create, Save, MarkFails, Stop, Recover, Expire, Restart
<1> QED
  BY <1>4, <1>5, <1>6, <1>7, <1>8, <1>9

\* With one task at a time, compensations are sent in the reverse of the order
\* their steps registered them in, across refused undos, crashes, the next
\* attempt and the undos a failing timeout hook leaves behind.
THEOREM UndoneInReverse == Spec => CompensatesInReverse
<1> DEFINE Step ==
       (atOnce = 1 /\ NoneEvicted) =>
          \A t \in Task : \A e \in undone' \ undone : Busy(t) =>
              \A d \in Above(store[task[t].row].stack, e) :
                  d \in undone \cup logged \/ d \in task[t].state.failed
<1>1. ManagerInv /\ [Next]_vars => Step
  <2> SUFFICES ASSUME ManagerInv, [Next]_vars, atOnce = 1, NoneEvicted,
                      NEW t \in Task, NEW e \in undone' \ undone, task[t] # NoTask,
                      NEW d \in Above(store[task[t].row].stack, e)
               PROVE  d \in undone \cup logged \/ d \in task[t].state.failed
    BY DEF Busy
  <2>1. PICK m : m = task[t]
    OBVIOUS
  <2>2. /\ IsMemory(m) /\ m.row = 1 /\ store[1] \in State
        /\ DOMAIN m.undo # {} /\ e = m.undo[NextUndo(m.undo)]
        /\ Walk(store[1], m.state, m.undo, Gone, NoneEvicted)
    BY <2>1, UndosWalk
  <2>3. Walk(store[1], m.state, m.undo, Gone, TRUE)
    BY <2>2 DEF Walk
  <2>4. d \in Above(store[1].stack, m.undo[NextUndo(m.undo)])
    BY <2>1, <2>2
  <2> QED
    BY <2>1, <2>2, <2>3, <2>4, WalksInReverse DEF IsMemory, Gone
<1>2. ManagerInv /\ [Next]_vars => [Step]_vars
  BY <1>1
<1> QED
  BY <1>2, ManagerInvHolds, PTL DEF Spec, CompensatesInReverse
=============================================================================
