------------------------- MODULE EventSourcingProofs -------------------------
(* Theorems about EventSourcing for any number of aggregates, sessions,       *)
(* events, subscriptions and runners, and for any setups and thresholds.      *)
EXTENDS EventSourcedSystem, SequenceTheorems, TLAPS

-----------------------------------------------------------------------------
(* Types.                                                                     *)

SourcingTypes == LogTypeOK /\ SourcingTypeOK

LEMMA SetupTypes ==
  ASSUME LogTypeOK
  PROVE  /\ setup.subs \in Seq(Subscription)
         /\ setup.faults \in Nat
BY LogAssumption DEF LogTypeOK

\* The runners change none of what the sessions work on.
LEMMA RunnersOnlyRead == RunnerNext => UNCHANGED <<setup, streams, log>>
BY DEF RunnerNext, Progress, Run, RequestStop, LoadCheckpoint, ReadAll, Dispatch,
       Process, ProcessRaises, SaveCheckpoint, Crash

LEMMA FaultsTyped ==
  ASSUME LogTypeOK, UNCHANGED setup, MayFail \/ UNCHANGED faults
  PROVE  faults' \in 0..setup'.faults
BY SetupTypes DEF LogTypeOK, MayFail

LEMMA IdsTyped ==
  ASSUME NEW es \in Seq(Event)
  PROVE  /\ Ids(es) \in Seq(Nat)
         /\ Len(Ids(es)) = Len(es)
         /\ \A i \in 1..Len(es) : Ids(es)[i] = es[i].id
<1>1. DOMAIN es = 1..Len(es) /\ Len(es) \in Nat
  OBVIOUS
<1>2. ASSUME NEW i \in 1..Len(es) PROVE es[i].id \in Nat
  <2>1. es[i] \in Event
    BY ElementOfSeq
  <2> QED
    BY <2>1 DEF Event
<1>3. Ids(es) = [i \in 1..Len(es) |-> es[i].id]
  BY <1>1 DEF Ids
<1> QED
  BY <1>1, <1>2, <1>3

\* read_stream() and what an aggregate gets by replaying it.
LEMMA TailFacts ==
  ASSUME LogTypeOK, NEW a \in Aggregate, NEW version \in 0..Len(streams[a])
  PROVE  /\ TailFrom(a, version) \in Seq(Event)
         /\ Len(TailFrom(a, version)) = Len(streams[a]) - version
         /\ \A i \in 1..(Len(streams[a]) - version) :
               TailFrom(a, version)[i] = streams[a][version + i]
<1>1. streams[a] \in Seq(Event) /\ Len(streams[a]) \in Nat
  BY DEF LogTypeOK
<1> DEFINE tail == SubSeq(streams[a], version + 1, Len(streams[a]))
<1>2. /\ tail \in Seq(Event)
      /\ Len(tail) = IF version + 1 <= Len(streams[a])
                     THEN Len(streams[a]) - (version + 1) + 1 ELSE 0
      /\ \A i \in 1..(Len(streams[a]) - (version + 1) + 1) :
            tail[i] = streams[a][version + 1 + i - 1]
  BY <1>1, SubSeqProperties
<1> QED
  BY <1>1, <1>2 DEF TailFrom

\* How many of its events an aggregate has stored.
Stored(m) == Len(m.seen) - m.pending

\* What save() pulls and appends.
LEMMA PulledFacts ==
  ASSUME NEW m \in Held, m.pending <= Len(m.seen)
  PROVE  /\ Pulled(m) \in Seq(Event)
         /\ Len(Pulled(m)) = m.pending
         /\ \A i \in 1..m.pending :
               /\ Pulled(m)[i].id = m.seen[Stored(m) + i]
               /\ Pulled(m)[i].on \in Seq(Nat)
               /\ Len(Pulled(m)[i].on) = Stored(m) + i - 1
               /\ \A j \in 1..(Stored(m) + i - 1) : Pulled(m)[i].on[j] = m.seen[j]
<1> DEFINE stored == Stored(m)
<1>1. /\ m.seen \in Seq(Nat) /\ Len(m.seen) \in Nat /\ m.pending \in Nat
      /\ stored \in Nat /\ m.of \in Aggregate
      /\ stored + m.pending = Len(m.seen)
  BY DEF Held, Stored
<1> DEFINE on(i) == SubSeq(m.seen, 1, stored + i - 1)
<1>2. ASSUME NEW i \in 1..m.pending
      PROVE  /\ on(i) \in Seq(Nat) /\ Len(on(i)) = stored + i - 1
             /\ \A j \in 1..(stored + i - 1) : on(i)[j] = m.seen[j]
             /\ m.seen[stored + i] \in Nat
  <2>1. stored + i - 1 \in Int /\ stored + i \in 1..Len(m.seen)
    BY <1>1
  <2>2. ASSUME NEW j \in 1..(stored + i - 1) PROVE m.seen[j] \in Nat
    <3>1. j \in 1..Len(m.seen)
      BY <1>1, <2>1
    <3> QED
      BY <1>1, <3>1, ElementOfSeq
  <2>3. /\ on(i) \in Seq(Nat)
        /\ Len(on(i)) = IF 1 <= stored + i - 1 THEN (stored + i - 1) - 1 + 1 ELSE 0
        /\ \A j \in 1..((stored + i - 1) - 1 + 1) : on(i)[j] = m.seen[1 + j - 1]
    BY <2>1, <2>2, SubSeqProperties
  <2>4. m.seen[stored + i] \in Nat
    BY <1>1, <2>1, ElementOfSeq
  <2> HIDE DEF on
  <2> QED
    BY <1>1, <2>1, <2>3, <2>4
<1>3. Pulled(m) = [i \in 1..m.pending |->
          [of |-> m.of, id |-> m.seen[stored + i], on |-> on(i)]]
  BY DEF Pulled, Stored
<1> HIDE DEF on, stored
<1>4. Pulled(m) \in [1..m.pending -> Event]
  BY <1>1, <1>2, <1>3 DEF Event
<1>5. Pulled(m) \in Seq(Event) /\ Len(Pulled(m)) = m.pending
  BY <1>1, <1>4
<1>6. ASSUME NEW i \in 1..m.pending
      PROVE  /\ Pulled(m)[i].id = m.seen[stored + i]
             /\ Pulled(m)[i].on = on(i)
  BY <1>3
<1> QED
  BY <1>1, <1>2, <1>5, <1>6 DEF stored

\* What append_to_stream() leaves of the streams.
LEMMA AppendEffect ==
  ASSUME LogTypeOK, NEW a \in Aggregate, NEW es \in Seq(Event), AppendToStream(a, es)
  PROVE  /\ streams' \in [Aggregate -> Seq(Event)] /\ log' \in Seq(Event)
         /\ \A b \in Aggregate \ {a} : streams'[b] = streams[b]
         /\ Len(streams'[a]) = Len(streams[a]) + Len(es)
         /\ \A i \in 1..Len(streams[a]) : streams'[a][i] = streams[a][i]
         /\ \A i \in 1..Len(es) : streams'[a][Len(streams[a]) + i] = es[i]
<1>1. streams[a] \in Seq(Event) /\ Len(streams[a]) \in Nat /\ Len(es) \in Nat
  BY DEF LogTypeOK
<1>2. /\ streams'[a] = streams[a] \o es
      /\ \A b \in Aggregate \ {a} : streams'[b] = streams[b]
  BY DEF AppendToStream, LogTypeOK
<1>3. /\ streams[a] \o es \in Seq(Event)
      /\ Len(streams[a] \o es) = Len(streams[a]) + Len(es)
      /\ \A i \in 1..Len(streams[a]) + Len(es) : (streams[a] \o es)[i] =
             IF i <= Len(streams[a]) THEN streams[a][i] ELSE es[i - Len(streams[a])]
  BY <1>1, ConcatProperties
<1>4. streams' \in [Aggregate -> Seq(Event)]
  BY <1>2, <1>3 DEF AppendToStream, LogTypeOK
<1>5. log' \in Seq(Event)
  BY ConcatProperties DEF AppendToStream, LogTypeOK
<1>6. ASSUME NEW i \in 1..Len(es)
      PROVE  (streams[a] \o es)[Len(streams[a]) + i] = es[i]
  <2>1. /\ Len(streams[a]) + i \in 1..Len(streams[a]) + Len(es)
        /\ ~(Len(streams[a]) + i <= Len(streams[a]))
        /\ Len(streams[a]) + i - Len(streams[a]) = i
    BY <1>1
  <2> QED
    BY <1>3, <2>1
<1>7. \A i \in 1..Len(streams[a]) : (streams[a] \o es)[i] = streams[a][i]
  BY <1>1, <1>3
<1> QED
  BY <1>2, <1>3, <1>4, <1>5, <1>6, <1>7

-----------------------------------------------------------------------------
(* The invariant.  What a session, a snapshot or a stored event takes for the *)
(* state of an aggregate has, at each position, the event the stream has      *)
(* there, or one that was withdrawn, or one an open scope would commit there. *)

\* What a session has staged to be stored after j - 1 others.
HasStaged(s, a, j, e) ==
    /\ session[s] # Nothing /\ session[s].of = a
    /\ \E k \in 1..Len(session[s].staged) :
          /\ session[s].staged[k].id = e
          /\ Len(session[s].staged[k].on) = j - 1

Known(a, j, e) ==
    \/ j \in 1..Len(streams[a]) /\ streams[a][j].id = e
    \/ Outlived /\ e \in withdrawn[a]
    \/ Outlived /\ \E s \in Session : HasStaged(s, a, j, e)

\* Event e at position i of the stream of a.
EventInv(a, i, e) ==
    /\ Len(e.on) = i - 1
    /\ \A j \in 1..(i - 1) : Known(a, j, e.on[j])

StreamInv ==
    \A a \in Aggregate : \A i \in 1..Len(streams[a]) : EventInv(a, i, streams[a][i])

SnapshotInv ==
    \A a \in Aggregate : snapshot[a] # Nothing =>
        \A j \in 1..Len(snapshot[a].seen) : Known(a, j, snapshot[a].seen[j])

HeldInv(m) ==
    /\ m.pending <= Len(m.seen)
    /\ m.at # "open" => m.pending = 0
    /\ \A j \in 1..Stored(m) : Known(m.of, j, m.seen[j])

\* What a commit would store: next to each other, once the first of them fits.
InRow(m) ==
    \A k \in 1..Len(m.staged) : Len(m.staged[k].on) = Len(m.staged[1].on) + k - 1

StagedInv(m) ==
    m.staged # <<>> =>
        /\ setup.commits
        /\ Len(m.staged[1].on) <= Len(streams[m.of])
        /\ Len(m.staged[1].on) = Len(streams[m.of]) => InRow(m)
        /\ \A k \in 1..Len(m.staged) : \A j \in 1..Len(m.staged[k].on) :
              Known(m.of, j, m.staged[k].on[j])

SessionInv ==
    \A s \in Session : session[s] # Nothing =>
        HeldInv(session[s]) /\ StagedInv(session[s])

\* No event is in two places: stored, withdrawn, or staged or pending in one
\* of the sessions.
PendingIds(m) == {m.seen[Stored(m) + i] : i \in 1..m.pending}
StagedIds(m) == {m.staged[k].id : k \in 1..Len(m.staged)}
OwnIds(m) == IF m = Nothing THEN {} ELSE PendingIds(m) \cup StagedIds(m)
StoredIds(a) == {streams[a][i].id : i \in 1..Len(streams[a])}

OnePlace ==
    /\ \A a \in Aggregate :
          /\ StoredIds(a) \cup withdrawn[a] \subseteq 1..raised[a]
          /\ StoredIds(a) \cap withdrawn[a] = {}
    /\ \A s \in Session : session[s] # Nothing =>
          LET m == session[s] IN
          /\ OwnIds(m) \subseteq 1..raised[m.of]
          /\ OwnIds(m) \cap (StoredIds(m.of) \cup withdrawn[m.of]) = {}
          /\ PendingIds(m) \cap StagedIds(m) = {}
    /\ \A s, t \in Session :
          s # t /\ session[s] # Nothing /\ session[t] # Nothing
            /\ session[s].of = session[t].of =>
                OwnIds(session[s]) \cap OwnIds(session[t]) = {}

SourcingInv == SourcingTypes /\ StreamInv /\ SnapshotInv /\ SessionInv /\ OnePlace

LEMMA SourcingStarts == Init => SourcingInv
<1> SUFFICES ASSUME Init PROVE SourcingInv
  OBVIOUS
<1> USE DEF Init, LogInit, SourcingInit
<1>1. LogTypeOK
  BY LogAssumption DEF LogTypeOK
<1>2. SourcingTypeOK
  BY SourcingAssumption DEF SourcingTypeOK
<1>3. StreamInv /\ SnapshotInv /\ SessionInv
  BY DEF StreamInv, SnapshotInv, SessionInv
<1>4. \A a \in Aggregate : StoredIds(a) = {} /\ withdrawn[a] = {}
  BY DEF StoredIds
<1>5. OnePlace
  BY <1>4 DEF OnePlace
<1> QED
  BY <1>1, <1>2, <1>3, <1>5 DEF SourcingInv, SourcingTypes

\* Nothing of a session or a snapshot changes, and the streams stay.
LEMMA SourcingUntouched ==
  ASSUME SourcingInv,
         UNCHANGED <<setup, streams, log, snapshot, session, raised, withdrawn>>,
         schema' \in 1..MaxSchema, MayFail \/ UNCHANGED faults
  PROVE  SourcingInv'
<1>1. SourcingTypes'
  BY FaultsTyped DEF SourcingInv, SourcingTypes, LogTypeOK, SourcingTypeOK
<1>2. \A a, j, e : Known(a, j, e)' <=> Known(a, j, e)
  BY DEF Known, HasStaged, Outlived
<1>3. StreamInv' /\ SnapshotInv'
  BY <1>2 DEF SourcingInv, StreamInv, SnapshotInv, EventInv
<1>4. SessionInv'
  BY <1>2 DEF SourcingInv, SessionInv, HeldInv, StagedInv, InRow, Stored
<1>5. OnePlace'
  <2>1. \A a : StoredIds(a)' = StoredIds(a)
    BY DEF StoredIds
  <2> QED
    BY <2>1 DEF SourcingInv, OnePlace
<1> QED
  BY <1>1, <1>3, <1>4, <1>5 DEF SourcingInv

LEMMA HeldTyped ==
  ASSUME SourcingInv, NEW s \in Session, Open(s)
  PROVE  /\ session[s] \in Held /\ session[s] # Nothing
         /\ HeldInv(session[s]) /\ StagedInv(session[s])
         /\ session[s].of \in Aggregate
         /\ session[s].seen \in Seq(Nat) /\ Len(session[s].seen) \in Nat
         /\ session[s].pending \in Nat
         /\ session[s].staged \in Seq(Event) /\ Len(session[s].staged) \in Nat
         /\ streams[session[s].of] \in Seq(Event) /\ Len(streams[session[s].of]) \in Nat
         /\ withdrawn[session[s].of] \in SUBSET Nat
         /\ Stored(session[s]) \in Nat
         /\ Stored(session[s]) + session[s].pending = Len(session[s].seen)
<1>1. /\ session[s] \in Held /\ session[s] # Nothing
      /\ HeldInv(session[s]) /\ StagedInv(session[s])
  BY DEF SourcingInv, SourcingTypes, SourcingTypeOK, SessionInv, Open
<1>2. /\ session[s].of \in Aggregate
      /\ session[s].seen \in Seq(Nat) /\ Len(session[s].seen) \in Nat
      /\ session[s].pending \in Nat
      /\ session[s].staged \in Seq(Event) /\ Len(session[s].staged) \in Nat
  BY <1>1 DEF Held
<1>3. /\ streams[session[s].of] \in Seq(Event) /\ Len(streams[session[s].of]) \in Nat
      /\ withdrawn[session[s].of] \in SUBSET Nat
  BY <1>2 DEF SourcingInv, SourcingTypes, LogTypeOK, SourcingTypeOK
<1>4. /\ Stored(session[s]) \in Nat
      /\ Stored(session[s]) + session[s].pending = Len(session[s].seen)
  BY <1>1, <1>2 DEF HeldInv, Stored
<1> QED
  BY <1>1, <1>2, <1>3, <1>4

-----------------------------------------------------------------------------
(* A step of one session, in general: it appends es to the stream of a and    *)
(* withdraws lost, both out of what it had, and then holds held.              *)

Appends(a, es) ==
    \/ AppendToStream(a, es)
    \/ es = <<>> /\ UNCHANGED <<streams, log>>

Withdraws(a, lost) ==
    /\ withdrawn' \in [Aggregate -> SUBSET Nat]
    /\ withdrawn'[a] = withdrawn[a] \cup lost
    /\ \A b \in Aggregate \ {a} : withdrawn'[b] = withdrawn[b]

LEMMA Grown ==
  ASSUME LogTypeOK, NEW a \in Aggregate, NEW es \in Seq(Event), Appends(a, es)
  PROVE  /\ streams' \in [Aggregate -> Seq(Event)] /\ log' \in Seq(Event)
         /\ \A b \in Aggregate \ {a} : streams'[b] = streams[b]
         /\ Len(streams'[a]) = Len(streams[a]) + Len(es)
         /\ \A i \in 1..Len(streams[a]) : streams'[a][i] = streams[a][i]
         /\ \A i \in 1..Len(es) : streams'[a][Len(streams[a]) + i] = es[i]
<1>1. CASE AppendToStream(a, es)
  BY <1>1, AppendEffect
<1>2. CASE es = <<>> /\ UNCHANGED <<streams, log>>
  BY <1>2 DEF LogTypeOK
<1> QED
  BY <1>1, <1>2 DEF Appends

\* It is staged on, stored where it belongs, or withdrawn.
StagedGoesOn(s) ==
    setup.commits =>
        \A a, e : \A j \in Nat : HasStaged(s, a, j, e) => Known(a, j, e)'

LEMMA KnownStays ==
  ASSUME SourcingInv, NEW s \in Session, NEW held, Hold(s, held), UNCHANGED setup,
         NEW a \in Aggregate, NEW es \in Seq(Event), Appends(a, es),
         NEW lost, Withdraws(a, lost), StagedGoesOn(s),
         NEW b \in Aggregate, NEW j \in Nat, NEW e, Known(b, j, e)
  PROVE  Known(b, j, e)'
<1>1. \A t \in Session : session'[t] = IF t = s THEN held ELSE session[t]
  BY DEF Hold, SourcingInv, SourcingTypes, SourcingTypeOK
<1>2. Outlived' = Outlived
  BY DEF Outlived
<1>3. CASE j \in 1..Len(streams[b]) /\ streams[b][j].id = e
  <2>1. LogTypeOK /\ Len(streams[a]) \in Nat /\ Len(es) \in Nat
    BY DEF SourcingInv, SourcingTypes, LogTypeOK
  <2>2. j \in 1..Len(streams'[b]) /\ streams'[b][j] = streams[b][j]
    <3>1. CASE b = a
      BY <1>3, <2>1, <3>1, Grown
    <3>2. CASE b # a
      BY <1>3, <2>1, <3>2, Grown
    <3> QED
      BY <3>1, <3>2
  <2> QED
    BY <1>3, <2>2 DEF Known
<1>4. CASE Outlived /\ e \in withdrawn[b]
  BY <1>2, <1>4 DEF Known, Withdraws
<1>5. CASE Outlived /\ \E t \in Session : HasStaged(t, b, j, e)
  <2>1. PICK t \in Session : HasStaged(t, b, j, e)
    BY <1>5
  <2>2. CASE t # s
    <3>1. session'[t] = session[t]
      BY <1>1, <2>2
    <3>2. HasStaged(t, b, j, e)'
      BY <2>1, <3>1 DEF HasStaged
    <3> QED
      BY <1>2, <1>5, <3>2 DEF Known
  <2>3. CASE t = s
    <3>1. session[s] # Nothing /\ session[s].staged # <<>>
      BY <2>1, <2>3 DEF HasStaged
    <3>2. setup.commits
      BY <3>1 DEF SourcingInv, SessionInv, StagedInv
    <3> QED
      BY <2>1, <2>3, <3>2 DEF StagedGoesOn
  <2> QED
    BY <2>2, <2>3
<1> QED
  BY <1>3, <1>4, <1>5 DEF Known

\* The new session is one the invariant allows.
Fine(held) == held # Nothing => HeldInv(held) /\ StagedInv(held)

\* Nothing is made but what was raised, and nothing is kept that was moved.
MovesOwn(s, a, es, lost, held) ==
    LET own == OwnIds(session[s])
        stored == {es[n].id : n \in 1..Len(es)}
    IN
    /\ stored \cup lost \subseteq own
    /\ stored \cap lost = {}
    /\ OwnIds(held) \cap (stored \cup lost) = {}
    /\ \A e \in OwnIds(held) : e \in own \/ e \in (raised[a] + 1)..raised'[a]
    /\ held # Nothing => PendingIds(held) \cap StagedIds(held) = {}

\* The new events have the versions and the past of their positions.
AppendFits(a, es) ==
    \A n \in 1..Len(es) : \A i, e :
        i = Len(streams[a]) + n /\ e = es[n] => EventInv(a, i, e)'

LEMMA StreamsStay ==
  ASSUME SourcingInv, NEW s \in Session, NEW held, Hold(s, held), UNCHANGED setup,
         NEW a \in Aggregate, NEW es \in Seq(Event), Appends(a, es),
         NEW lost, Withdraws(a, lost), StagedGoesOn(s),
         AppendFits(a, es)
  PROVE  StreamInv'
<1> SUFFICES ASSUME NEW b \in Aggregate, NEW i \in 1..Len(streams'[b]),
                    NEW e, e = streams'[b][i]
             PROVE  EventInv(b, i, e)'
  <2>1. ASSUME NEW b \in Aggregate, NEW i \in 1..Len(streams'[b])
        PROVE  EventInv(b, i, streams[b][i])'
    <3>1. PICK e : e = streams'[b][i]
      OBVIOUS
    <3>2. EventInv(b, i, e)'
      BY <3>1
    <3> QED
      BY <3>1, <3>2 DEF EventInv, Known, HasStaged, Outlived
  <2> QED
    BY <2>1 DEF StreamInv
<1>1. /\ LogTypeOK /\ Len(streams[a]) \in Nat /\ Len(es) \in Nat
      /\ Len(streams[b]) \in Nat
  BY DEF SourcingInv, SourcingTypes, LogTypeOK
<1>2. /\ streams' \in [Aggregate -> Seq(Event)]
      /\ \A c \in Aggregate \ {a} : streams'[c] = streams[c]
      /\ Len(streams'[a]) = Len(streams[a]) + Len(es)
      /\ \A n \in 1..Len(streams[a]) : streams'[a][n] = streams[a][n]
      /\ \A n \in 1..Len(es) : streams'[a][Len(streams[a]) + n] = es[n]
  BY <1>1, Grown
<1>3. i \in Nat /\ i >= 1 /\ (b = a => i <= Len(streams[a]) + Len(es))
  BY <1>1, <1>2
<1>4. ASSUME i \in 1..Len(streams[b]), streams'[b][i] = streams[b][i]
      PROVE  EventInv(b, i, e)'
  <2>1. EventInv(b, i, e)
    BY <1>4 DEF SourcingInv, StreamInv
  <2>2. ASSUME NEW j \in 1..(i - 1) PROVE Known(b, j, e.on[j])'
    <3>1. Known(b, j, e.on[j]) /\ j \in Nat
      BY <2>1 DEF EventInv
    <3> QED
      BY <3>1, KnownStays
  <2> QED
    BY <2>1, <2>2 DEF EventInv
<1>5. CASE b # a
  BY <1>2, <1>4, <1>5
<1>6. CASE b = a /\ i <= Len(streams[a])
  BY <1>1, <1>2, <1>3, <1>4, <1>6
<1>7. CASE b = a /\ ~(i <= Len(streams[a]))
  <2> DEFINE n == i - Len(streams[a])
  <2>1. n \in 1..Len(es) /\ i = Len(streams[a]) + n
    BY <1>1, <1>3, <1>7
  <2> HIDE DEF n
  <2>2. e = es[n]
    BY <1>2, <1>7, <2>1
  <2>3. EventInv(a, i, e)'
    BY <2>1, <2>2 DEF AppendFits
  <2> QED
    BY <1>7, <2>3
<1> QED
  BY <1>5, <1>6, <1>7

LEMMA SessionsStay ==
  ASSUME SourcingInv, NEW s \in Session, NEW held, Hold(s, held), UNCHANGED setup,
         NEW a \in Aggregate, NEW es \in Seq(Event), Appends(a, es),
         NEW lost, Withdraws(a, lost), StagedGoesOn(s), Fine(held)'
  PROVE  SessionInv'
<1> SUFFICES ASSUME NEW t \in Session, session'[t] # Nothing
             PROVE  HeldInv(session[t])' /\ StagedInv(session[t])'
  BY DEF SessionInv
<1>1. session'[t] = IF t = s THEN held ELSE session[t]
  BY DEF Hold, SourcingInv, SourcingTypes, SourcingTypeOK
<1>2. PICK m : m = session'[t]
  OBVIOUS
<1>3. SUFFICES HeldInv(m)' /\ StagedInv(m)'
  BY <1>2, <1>3
     DEF HeldInv, StagedInv, InRow, Stored, Known, HasStaged, Outlived
<1>4. CASE t = s
  BY <1>1, <1>2, <1>4 DEF Fine
<1>5. CASE t # s
  <2>1. m = session[t] /\ Open(t)
    BY <1>1, <1>2, <1>5 DEF Open
  <2>2. /\ HeldInv(m) /\ StagedInv(m) /\ m.of \in Aggregate /\ Stored(m) \in Nat
        /\ m.staged \in Seq(Event) /\ Len(m.staged) \in Nat
        /\ Len(streams[m.of]) \in Nat
    BY <2>1, HeldTyped
  <2>3. HeldInv(m)'
    <3>1. ASSUME NEW j \in 1..Stored(m) PROVE Known(m.of, j, m.seen[j])'
      <4>1. Known(m.of, j, m.seen[j]) /\ j \in Nat
        BY <2>2 DEF HeldInv
      <4> QED
        BY <2>2, <4>1, KnownStays
    <3> QED
      BY <2>2, <3>1 DEF HeldInv, Stored
  <2>4. ASSUME m.staged # <<>> PROVE StagedInv(m)'
    <3>1. /\ setup.commits /\ Len(m.staged[1].on) <= Len(streams[m.of])
          /\ Len(m.staged[1].on) = Len(streams[m.of]) => InRow(m)
          /\ \A k \in 1..Len(m.staged) : \A j \in 1..Len(m.staged[k].on) :
                Known(m.of, j, m.staged[k].on[j])
      BY <2>2, <2>4 DEF StagedInv
    <3>2. m.staged[1] \in Event /\ Len(m.staged[1].on) \in Nat
      <4>1. 1 \in 1..Len(m.staged)
        BY <2>2, <2>4
      <4>2. m.staged[1] \in Event
        BY <2>2, <4>1, ElementOfSeq
      <4> QED
        BY <4>2 DEF Event
    <3>3. Len(streams'[m.of]) >= Len(streams[m.of]) /\ Len(streams'[m.of]) \in Nat
      <4>1. LogTypeOK /\ Len(es) \in Nat
        BY DEF SourcingInv, SourcingTypes
      <4>2. CASE m.of = a
        BY <2>2, <4>1, <4>2, Grown
      <4>3. CASE m.of # a
        BY <2>2, <4>1, <4>3, Grown
      <4> QED
        BY <4>2, <4>3
    <3>4. /\ Len(m.staged[1].on) <= Len(streams'[m.of])
          /\ Len(m.staged[1].on) = Len(streams'[m.of]) => InRow(m)
      <4> DEFINE f == Len(m.staged[1].on)
                 old == Len(streams[m.of])
                 new == Len(streams'[m.of])
      <4>1. f \in Nat /\ old \in Nat /\ new \in Nat /\ f <= old /\ old <= new
        BY <2>2, <3>1, <3>2, <3>3
      <4>2. f = old => InRow(m)
        BY <3>1
      <4> HIDE DEF f, old, new
      <4>3. f <= new /\ (f = new => f = old)
        BY <4>1
      <4> QED
        BY <4>2, <4>3 DEF f, new
    <3>5. ASSUME NEW k \in 1..Len(m.staged), NEW j \in 1..Len(m.staged[k].on)
          PROVE  Known(m.of, j, m.staged[k].on[j])'
      <4>1. j \in Nat /\ Known(m.of, j, m.staged[k].on[j])
        BY <3>1
      <4> QED
        BY <2>2, <4>1, KnownStays
    <3> QED
      BY <3>1, <3>4, <3>5 DEF StagedInv, InRow
  <2>5. StagedInv(m)'
    BY <2>4 DEF StagedInv
  <2> QED
    BY <2>3, <2>5
<1> QED
  BY <1>4, <1>5

LEMMA IdsStay ==
  ASSUME SourcingInv, NEW s \in Session, NEW held, Hold(s, held),
         NEW a \in Aggregate, NEW es \in Seq(Event), Appends(a, es),
         NEW lost, Withdraws(a, lost), MovesOwn(s, a, es, lost, held),
         session[s] # Nothing => session[s].of = a,
         held # Nothing => held.of = a,
         raised' \in [Aggregate -> Nat], \A b \in Aggregate : raised[b] <= raised'[b]
  PROVE  OnePlace'
<1> DEFINE stored == {es[n].id : n \in 1..Len(es)}
           own == OwnIds(session[s])
<1>1. \A t \in Session : session'[t] = IF t = s THEN held ELSE session[t]
  BY DEF Hold, SourcingInv, SourcingTypes, SourcingTypeOK
<1>2. /\ LogTypeOK /\ raised \in [Aggregate -> Nat]
      /\ \A b \in Aggregate : raised[b] \in Nat /\ raised'[b] \in Nat
  BY DEF SourcingInv, SourcingTypes, SourcingTypeOK
<1>3. /\ StoredIds(a)' = StoredIds(a) \cup stored
      /\ \A b \in Aggregate \ {a} : StoredIds(b)' = StoredIds(b)
  <2>1. /\ \A c \in Aggregate \ {a} : streams'[c] = streams[c]
        /\ Len(streams'[a]) = Len(streams[a]) + Len(es)
        /\ \A n \in 1..Len(streams[a]) : streams'[a][n] = streams[a][n]
        /\ \A n \in 1..Len(es) : streams'[a][Len(streams[a]) + n] = es[n]
        /\ Len(streams[a]) \in Nat /\ Len(es) \in Nat
    BY <1>2, Grown DEF LogTypeOK
  <2>2. ASSUME NEW x \in StoredIds(a)' PROVE x \in StoredIds(a) \cup stored
    <3>1. PICK i \in 1..Len(streams'[a]) : x = streams'[a][i].id
      BY DEF StoredIds
    <3>2. CASE i <= Len(streams[a])
      <4>1. i \in 1..Len(streams[a])
        BY <2>1, <3>2
      <4> QED
        BY <2>1, <3>1, <4>1 DEF StoredIds
    <3>3. CASE ~(i <= Len(streams[a]))
      <4> DEFINE n == i - Len(streams[a])
      <4>1. n \in 1..Len(es) /\ Len(streams[a]) + n = i
        BY <2>1, <3>3
      <4> HIDE DEF n
      <4> QED
        BY <2>1, <3>1, <4>1
    <3> QED
      BY <3>2, <3>3
  <2>3. ASSUME NEW x \in StoredIds(a) PROVE x \in StoredIds(a)'
    <3>1. PICK i \in 1..Len(streams[a]) : x = streams[a][i].id
      BY DEF StoredIds
    <3>2. i \in 1..Len(streams'[a]) /\ streams'[a][i] = streams[a][i]
      BY <2>1
    <3> QED
      BY <3>1, <3>2 DEF StoredIds
  <2>4. ASSUME NEW x \in stored PROVE x \in StoredIds(a)'
    <3>1. PICK n \in 1..Len(es) : x = es[n].id
      OBVIOUS
    <3> DEFINE i == Len(streams[a]) + n
    <3>2. i \in 1..Len(streams'[a]) /\ streams'[a][i] = es[n]
      BY <2>1
    <3> HIDE DEF i
    <3> QED
      BY <3>1, <3>2 DEF StoredIds
  <2>5. \A b \in Aggregate \ {a} : StoredIds(b)' = StoredIds(b)
    BY <2>1 DEF StoredIds
  <2> HIDE DEF stored
  <2>6. StoredIds(a)' \subseteq StoredIds(a) \cup stored
    BY <2>2
  <2>7. StoredIds(a) \cup stored \subseteq StoredIds(a)'
    BY <2>3, <2>4
  <2> QED
    BY <2>5, <2>6, <2>7
<1>4. /\ withdrawn'[a] = withdrawn[a] \cup lost
      /\ \A b \in Aggregate \ {a} : withdrawn'[b] = withdrawn[b]
  BY DEF Withdraws
<1>5. /\ stored \cup lost \subseteq own /\ stored \cap lost = {}
      /\ OwnIds(held) \cap (stored \cup lost) = {}
      /\ \A e \in OwnIds(held) : e \in own \/ e \in (raised[a] + 1)..raised'[a]
      /\ held # Nothing => PendingIds(held) \cap StagedIds(held) = {}
  BY DEF MovesOwn
<1>6. /\ \A b \in Aggregate :
            /\ StoredIds(b) \cup withdrawn[b] \subseteq 1..raised[b]
            /\ StoredIds(b) \cap withdrawn[b] = {}
      /\ \A t \in Session : session[t] # Nothing =>
            /\ OwnIds(session[t]) \subseteq 1..raised[session[t].of]
            /\ OwnIds(session[t]) \cap
                  (StoredIds(session[t].of) \cup withdrawn[session[t].of]) = {}
            /\ PendingIds(session[t]) \cap StagedIds(session[t]) = {}
      /\ \A t, u \in Session :
            t # u /\ session[t] # Nothing /\ session[u] # Nothing
              /\ session[t].of = session[u].of =>
                  OwnIds(session[t]) \cap OwnIds(session[u]) = {}
  BY DEF SourcingInv, OnePlace
<1>7. /\ own \subseteq 1..raised[a]
      /\ own \cap (StoredIds(a) \cup withdrawn[a]) = {}
  <2>1. CASE session[s] = Nothing
    BY <2>1 DEF OwnIds
  <2>2. CASE session[s] # Nothing
    BY <1>6, <2>2
  <2> QED
    BY <2>1, <2>2
<1>8. \A b \in Aggregate : 1..raised[b] \subseteq 1..raised'[b]
  BY <1>2
<1>9. OwnIds(held) \subseteq 1..raised'[a]
  BY <1>2, <1>5, <1>7, <1>8
<1>10. \A t \in Session : session[t] # Nothing => session[t].of \in Aggregate
  BY DEF SourcingInv, SourcingTypes, SourcingTypeOK, Held
<1> HIDE DEF stored, own
<1>11. \A e \in (raised[a] + 1)..raised'[a] : e \notin 1..raised[a]
  BY <1>2
<1>12. ASSUME NEW b \in Aggregate
       PROVE  /\ StoredIds(b)' \cup withdrawn'[b] \subseteq 1..raised'[b]
              /\ StoredIds(b)' \cap withdrawn'[b] = {}
  <2>1. CASE b = a
    BY <1>3, <1>4, <1>5, <1>6, <1>7, <1>8, <2>1
  <2>2. CASE b # a
    BY <1>3, <1>4, <1>6, <1>8, <2>2
  <2> QED
    BY <2>1, <2>2
<1>13. ASSUME NEW t \in Session, session'[t] # Nothing, NEW m, m = session'[t]
       PROVE  /\ OwnIds(m) \subseteq 1..raised'[m.of]
              /\ OwnIds(m) \cap (StoredIds(m.of)' \cup withdrawn'[m.of]) = {}
              /\ PendingIds(m) \cap StagedIds(m) = {}
  <2>1. CASE t = s
    <3>1. m = held /\ m.of = a /\ m # Nothing
      BY <1>1, <1>13, <2>1
    <3>2. OwnIds(held) \cap (StoredIds(a) \cup withdrawn[a]) = {}
      BY <1>5, <1>6, <1>7, <1>11
    <3> QED
      BY <1>3, <1>4, <1>5, <1>9, <3>1, <3>2
  <2>2. CASE t # s
    <3>1. m = session[t] /\ session[t] # Nothing /\ m.of \in Aggregate
      BY <1>1, <1>10, <1>13, <2>2
    <3>2. /\ OwnIds(m) \subseteq 1..raised[m.of]
          /\ OwnIds(m) \cap (StoredIds(m.of) \cup withdrawn[m.of]) = {}
          /\ PendingIds(m) \cap StagedIds(m) = {}
      BY <1>6, <3>1
    <3>3. CASE m.of = a
      <4>1. OwnIds(m) \cap own = {}
        <5>1. CASE session[s] = Nothing
          BY <5>1 DEF OwnIds, own
        <5>2. CASE session[s] # Nothing
          BY <1>6, <2>2, <3>1, <3>3, <5>2 DEF own
        <5> QED
          BY <5>1, <5>2
      <4> QED
        BY <1>3, <1>4, <1>5, <1>8, <3>2, <3>3, <4>1
    <3>4. CASE m.of # a
      BY <1>3, <1>4, <1>8, <3>1, <3>2, <3>4
    <3> QED
      BY <3>3, <3>4
  <2> QED
    BY <2>1, <2>2
<1>14. ASSUME NEW t \in Session, t # s, session[t] # Nothing, session[t].of = a
       PROVE  OwnIds(session[t]) \cap OwnIds(held) = {}
  <2>1. OwnIds(session[t]) \cap own = {}
    <3>1. CASE session[s] = Nothing
      BY <3>1 DEF OwnIds, own
    <3>2. CASE session[s] # Nothing
      BY <1>6, <1>14, <3>2 DEF own
    <3> QED
      BY <3>1, <3>2
  <2>2. OwnIds(session[t]) \subseteq 1..raised[a]
    BY <1>6, <1>14
  <2> QED
    BY <1>5, <1>11, <2>1, <2>2
<1>15. ASSUME NEW t \in Session, NEW u \in Session, t # u,
              session'[t] # Nothing, session'[u] # Nothing, session'[t].of = session'[u].of
       PROVE  OwnIds(session'[t]) \cap OwnIds(session'[u]) = {}
  <2>1. CASE t = s
    BY <1>1, <1>14, <1>15, <2>1
  <2>2. CASE u = s
    BY <1>1, <1>14, <1>15, <2>2
  <2>3. CASE t # s /\ u # s
    BY <1>1, <1>6, <1>15, <2>3
  <2> QED
    BY <2>1, <2>2, <2>3
<1> QED
  BY <1>12, <1>13, <1>15 DEF OnePlace

\* All of it: what an action of a session has to show.
LEMMA SessionMoves ==
  ASSUME SourcingInv, NEW s \in Session, NEW held \in Held \cup {Nothing},
         Hold(s, held), UNCHANGED <<setup, schema>>, MayFail \/ UNCHANGED faults,
         NEW a \in Aggregate, NEW es \in Seq(Event), Appends(a, es), AppendFits(a, es),
         NEW lost, Withdraws(a, lost), StagedGoesOn(s), MovesOwn(s, a, es, lost, held),
         Fine(held)',
         session[s] # Nothing => session[s].of = a,
         held # Nothing => held.of = a,
         raised' \in [Aggregate -> Nat], \A b \in Aggregate : raised[b] <= raised'[b],
         \/ UNCHANGED snapshot
         \/ snapshot' \in [Aggregate -> Snapshot \cup {Nothing}] /\ SnapshotInv'
  PROVE  SourcingInv'
<1>1. StreamInv' /\ SessionInv' /\ OnePlace'
  BY StreamsStay, SessionsStay, IdsStay
<1>2. SnapshotInv'
  <2>1. ASSUME UNCHANGED snapshot, NEW b \in Aggregate, snapshot[b] # Nothing,
               NEW j \in 1..Len(snapshot[b].seen), NEW e, e = snapshot[b].seen[j]
        PROVE  Known(b, j, e)'
    <3>1. Known(b, j, e)
      BY <2>1 DEF SourcingInv, SnapshotInv
    <3> QED
      BY <3>1, KnownStays
  <2>2. CASE UNCHANGED snapshot
    BY <2>1, <2>2 DEF SnapshotInv
  <2> QED
    BY <2>2
<1>3. SourcingTypes'
  <2>1. /\ streams' \in [Aggregate -> Seq(Event)] /\ log' \in Seq(Event)
        /\ withdrawn' \in [Aggregate -> SUBSET Nat]
    BY Grown DEF SourcingInv, SourcingTypes, Withdraws
  <2>2. session' \in [Session -> Held \cup {Nothing}]
    BY DEF Hold, SourcingInv, SourcingTypes, SourcingTypeOK
  <2>3. faults' \in 0..setup'.faults
    BY FaultsTyped DEF SourcingInv, SourcingTypes
  <2> QED
    BY <2>1, <2>2, <2>3 DEF SourcingInv, SourcingTypes, LogTypeOK, SourcingTypeOK
<1> QED
  BY <1>1, <1>2, <1>3 DEF SourcingInv

-----------------------------------------------------------------------------
(* The actions.                                                               *)

LEMMA NothingAppended ==
  ASSUME NEW a \in Aggregate, UNCHANGED <<streams, log>>
  PROVE  /\ <<>> \in Seq(Event) /\ Appends(a, <<>>) /\ AppendFits(a, <<>>)
         /\ {<<>>[n].id : n \in 1..Len(<<>>)} = {}
BY DEF Appends, AppendFits

LEMMA NothingWithdrawn ==
  ASSUME SourcingInv, NEW a \in Aggregate, UNCHANGED withdrawn
  PROVE  Withdraws(a, {})
BY DEF Withdraws, SourcingInv, SourcingTypes, SourcingTypeOK

\* What is staged stays staged.
LEMMA StagedOn ==
  ASSUME SourcingInv, NEW s \in Session, NEW held, Hold(s, held), UNCHANGED setup,
         held # Nothing, Open(s), held.of = session[s].of,
         \A k \in 1..Len(session[s].staged) :
             k \in 1..Len(held.staged) /\ held.staged[k] = session[s].staged[k]
  PROVE  StagedGoesOn(s)
<1>1. session'[s] = held
  BY DEF Hold, SourcingInv, SourcingTypes, SourcingTypeOK
<1> SUFFICES ASSUME setup.commits, NEW a, NEW j \in Nat, NEW e, HasStaged(s, a, j, e)
             PROVE  Known(a, j, e)'
  BY DEF StagedGoesOn
<1>2. HasStaged(s, a, j, e)'
  BY <1>1 DEF HasStaged
<1> QED
  BY <1>2 DEF Known, Outlived

\* What is staged is withdrawn.
LEMMA StagedGone ==
  ASSUME NEW s \in Session, NEW a \in Aggregate, NEW lost, Withdraws(a, lost),
         UNCHANGED setup, session[s] # Nothing => session[s].of = a,
         session[s] # Nothing => StagedIds(session[s]) \subseteq lost
  PROVE  StagedGoesOn(s)
<1> SUFFICES ASSUME setup.commits, NEW b, NEW j \in Nat, NEW e, HasStaged(s, b, j, e)
             PROVE  Known(b, j, e)'
  BY DEF StagedGoesOn
<1>1. b = a /\ e \in lost
  BY DEF HasStaged, StagedIds
<1>2. e \in withdrawn'[b]
  BY <1>1 DEF Withdraws
<1> QED
  BY <1>2 DEF Known, Outlived

\* The same is staged, and nothing was appended.
LEMMA StagedInvStays ==
  ASSUME SourcingInv, NEW s \in Session, NEW held, Hold(s, held), Open(s),
         UNCHANGED <<setup, streams, log>>,
         NEW lost, Withdraws(session[s].of, lost), StagedGoesOn(s),
         held.of = session[s].of,
         held.staged = session[s].staged \/ held.staged = <<>>
  PROVE  StagedInv(held)'
<1> SUFFICES ASSUME held.staged # <<>> PROVE StagedInv(held)'
  BY DEF StagedInv
<1>1. PICK m : m = session[s]
  OBVIOUS
<1>2. /\ StagedInv(m) /\ m.of \in Aggregate /\ held.of = m.of /\ held.staged = m.staged
  BY <1>1, HeldTyped
<1>3. ASSUME NEW k \in 1..Len(m.staged), NEW j \in 1..Len(m.staged[k].on)
      PROVE  Known(m.of, j, m.staged[k].on[j])'
  <2>1. j \in Nat /\ Known(m.of, j, m.staged[k].on[j])
    BY <1>2 DEF StagedInv
  <2>2. /\ <<>> \in Seq(Event) /\ Appends(m.of, <<>>) /\ Withdraws(m.of, lost)
    BY <1>1, <1>2, NothingAppended
  <2> QED
    BY <1>2, <2>1, <2>2, KnownStays
<1> QED
  BY <1>2, <1>3 DEF StagedInv, InRow

LEMMA PendingSplit ==
  ASSUME NEW m, Stored(m) \in Nat, m.pending \in Nat, Stored(m) + m.pending = Len(m.seen),
         NEW j \in 1..Len(m.seen), j \notin 1..Stored(m)
  PROVE  m.seen[j] \in PendingIds(m)
<1> DEFINE i == j - Stored(m)
<1>1. i \in 1..m.pending /\ Stored(m) + i = j
  OBVIOUS
<1> HIDE DEF i
<1> QED
  BY <1>1 DEF PendingIds

\* A session that appends nothing goes on with what it has seen, or ends.
GoesOn(m, held, lost) ==
    /\ held.of = m.of /\ held.seen = m.seen
    /\ held.at # "open" => held.pending = 0
    /\ \/ held.pending = m.pending /\ PendingIds(m) \cap lost = {}
       \/ held.pending = 0 /\ PendingIds(m) \subseteq lost /\ setup.keeps
    /\ \/ held.staged = m.staged /\ StagedIds(m) \cap lost = {}
       \/ held.staged = <<>> /\ StagedIds(m) \subseteq lost

LEMMA SessionHolds ==
  ASSUME SourcingInv, NEW s \in Session, Open(s), NEW held \in Held \cup {Nothing},
         Hold(s, held), UNCHANGED <<setup, streams, log, raised, schema>>,
         MayFail \/ UNCHANGED faults,
         NEW lost, Withdraws(session[s].of, lost), lost \subseteq OwnIds(session[s]),
         held # Nothing => GoesOn(session[s], held, lost),
         held = Nothing => StagedIds(session[s]) \subseteq lost,
         \/ UNCHANGED snapshot
         \/ /\ snapshot' \in [Aggregate -> Snapshot \cup {Nothing}]
            /\ StagedGoesOn(s) => SnapshotInv'
  PROVE  SourcingInv'
<1>1. PICK m : m = session[s]
  OBVIOUS
<1>2. /\ m \in Held /\ m # Nothing /\ m.of \in Aggregate /\ HeldInv(m)
      /\ Stored(m) \in Nat /\ m.pending \in Nat /\ Stored(m) + m.pending = Len(m.seen)
      /\ m.staged \in Seq(Event) /\ Len(m.seen) \in Nat
  BY <1>1, HeldTyped
<1>3. Withdraws(m.of, lost) /\ lost \subseteq OwnIds(m)
  BY <1>1
<1>4. /\ <<>> \in Seq(Event) /\ Appends(m.of, <<>>) /\ AppendFits(m.of, <<>>)
      /\ {<<>>[n].id : n \in 1..Len(<<>>)} = {}
  BY <1>2, NothingAppended
<1>5. StagedGoesOn(s)
  <2>1. CASE held # Nothing /\ held.staged = m.staged
    BY <1>1, <2>1, StagedOn DEF GoesOn
  <2>2. CASE ~(held # Nothing /\ held.staged = m.staged)
    <3>1. StagedIds(m) \subseteq lost
      BY <1>1, <2>2 DEF GoesOn
    <3> QED
      BY <1>1, <1>2, <1>3, <3>1, StagedGone
  <2> QED
    BY <2>1, <2>2
<1>6. ASSUME held # Nothing PROVE HeldInv(held)' /\ StagedInv(held)'
  <2>1. /\ held.of = m.of /\ held.seen = m.seen
        /\ held.at # "open" => held.pending = 0
        /\ \/ held.pending = m.pending
           \/ held.pending = 0 /\ PendingIds(m) \subseteq lost /\ setup.keeps
        /\ held.staged = m.staged \/ held.staged = <<>>
    BY <1>1, <1>6 DEF GoesOn
  <2>2. StagedInv(held)'
    BY <1>1, <1>5, <2>1, StagedInvStays
  <2>3. held.pending <= Len(held.seen)
    BY <1>2, <2>1 DEF HeldInv
  <2>4. ASSUME NEW j \in 1..Stored(held) PROVE Known(m.of, j, m.seen[j])'
    <3>1. CASE j \in 1..Stored(m)
      <4>1. Known(m.of, j, m.seen[j]) /\ j \in Nat
        BY <1>2, <3>1 DEF HeldInv
      <4> QED
        BY <1>2, <1>3, <1>4, <1>5, <4>1, KnownStays
    <3>2. CASE j \notin 1..Stored(m)
      <4>1. held.pending = 0 /\ PendingIds(m) \subseteq lost /\ setup.keeps
        BY <2>1, <3>2 DEF Stored
      <4>2. j \in 1..Len(m.seen)
        BY <1>2, <2>1, <4>1 DEF Stored
      <4>3. m.seen[j] \in lost
        BY <1>2, <3>2, <4>1, <4>2, PendingSplit
      <4>4. m.seen[j] \in withdrawn'[m.of]
        BY <1>3, <4>3 DEF Withdraws
      <4> QED
        BY <4>1, <4>4 DEF Known, Outlived
    <3> QED
      BY <3>1, <3>2
  <2>5. HeldInv(held)'
    BY <2>1, <2>3, <2>4 DEF HeldInv, Stored
  <2> QED
    BY <2>2, <2>5
<1>7. Fine(held)'
  BY <1>6 DEF Fine
<1>8. PendingIds(m) \cap StagedIds(m) = {}
  BY <1>1, <1>2 DEF SourcingInv, OnePlace
<1>9. MovesOwn(s, m.of, <<>>, lost, held)
  <2>1. ASSUME held # Nothing
        PROVE  /\ PendingIds(held) \subseteq PendingIds(m) /\ PendingIds(held) \cap lost = {}
               /\ StagedIds(held) \subseteq StagedIds(m) /\ StagedIds(held) \cap lost = {}
    <3>1. /\ held.seen = m.seen
          /\ \/ held.pending = m.pending /\ PendingIds(m) \cap lost = {}
             \/ held.pending = 0
          /\ \/ held.staged = m.staged /\ StagedIds(m) \cap lost = {}
             \/ held.staged = <<>>
      BY <1>1, <2>1 DEF GoesOn
    <3>2. \/ PendingIds(held) = PendingIds(m) /\ PendingIds(m) \cap lost = {}
          \/ PendingIds(held) = {}
      BY <3>1 DEF PendingIds, Stored
    <3>3. \/ StagedIds(held) = StagedIds(m) /\ StagedIds(m) \cap lost = {}
          \/ StagedIds(held) = {}
      BY <3>1 DEF StagedIds
    <3> QED
      BY <3>2, <3>3
  <2>2. OwnIds(held) \subseteq OwnIds(m) /\ OwnIds(held) \cap lost = {}
    BY <1>2, <2>1 DEF OwnIds
  <2> QED
    BY <1>1, <1>3, <1>4, <1>8, <2>1, <2>2 DEF MovesOwn
<1>10. raised' \in [Aggregate -> Nat] /\ \A b \in Aggregate : raised[b] <= raised'[b]
  BY DEF SourcingInv, SourcingTypes, SourcingTypeOK
<1>11. held # Nothing => held.of = m.of
  BY <1>1 DEF GoesOn
<1>12. \/ UNCHANGED snapshot
       \/ snapshot' \in [Aggregate -> Snapshot \cup {Nothing}] /\ SnapshotInv'
  BY <1>5
<1> QED
  BY <1>1, <1>2, <1>3, <1>4, <1>5, <1>7, <1>9, <1>10, <1>11, <1>12, SessionMoves

LEMMA FindSnapshotKeeps ==
  ASSUME SourcingInv, NEW s \in Session, NEW a \in Aggregate, FindSnapshot(s, a)
  PROVE  SourcingInv'
<1>1. PICK held \in Held :
        /\ Hold(s, held) /\ held.of = a /\ held.pending = 0 /\ held.staged = <<>>
        /\ \/ held.seen = <<>>
           \/ /\ snapshot[a] # Nothing /\ held.seen = snapshot[a].seen
              /\ snapshot[a] \in Snapshot
  <2> DEFINE tail == [of |-> a, at |-> "tail", seen |-> snapshot[a].seen,
                      pending |-> 0, staged |-> <<>>]
             replay == [of |-> a, at |-> "replay", seen |-> <<>>,
                        pending |-> 0, staged |-> <<>>]
  <2>1. CASE Usable(snapshot[a])
    <3>1. snapshot[a] \in Snapshot /\ snapshot[a] # Nothing
      BY <2>1 DEF Usable, SourcingInv, SourcingTypes, SourcingTypeOK
    <3>2. tail \in Held /\ Hold(s, tail)
      BY <2>1, <3>1 DEF FindSnapshot, Usable, Restored, Held, Snapshot
    <3> QED
      BY <3>1, <3>2
  <2>2. CASE ~Usable(snapshot[a])
    <3>1. replay \in Held /\ Hold(s, replay)
      BY <2>2 DEF FindSnapshot, Held
    <3> QED
      BY <3>1
  <2> QED
    BY <2>1, <2>2
<1>2. UNCHANGED <<setup, streams, log, snapshot, raised, withdrawn, schema, faults>>
  BY DEF FindSnapshot
<1>3. /\ session[s] = Nothing
      /\ <<>> \in Seq(Event) /\ Appends(a, <<>>) /\ AppendFits(a, <<>>)
      /\ {<<>>[n].id : n \in 1..Len(<<>>)} = {} /\ Withdraws(a, {})
  BY <1>2, NothingAppended, NothingWithdrawn DEF FindSnapshot, Open
<1>4. StagedGoesOn(s)
  BY <1>3 DEF StagedGoesOn, HasStaged
<1>5. held.seen \in Seq(Nat) /\ Len(held.seen) \in Nat
  BY DEF Held
<1>6. Stored(held) = Len(held.seen)
  BY <1>1, <1>5 DEF Stored
<1>7. ASSUME NEW j \in 1..Len(held.seen) PROVE Known(a, j, held.seen[j])'
  <2>1. snapshot[a] # Nothing /\ held.seen = snapshot[a].seen
    BY <1>1, <1>7
  <2>2. Known(a, j, held.seen[j]) /\ j \in Nat
    BY <2>1 DEF SourcingInv, SnapshotInv
  <2> QED
    BY <1>1, <1>2, <1>3, <1>4, <2>2, KnownStays
<1>8. Fine(held)'
  BY <1>1, <1>5, <1>6, <1>7 DEF Fine, HeldInv, StagedInv, Stored
<1>9. OwnIds(held) = {} /\ PendingIds(held) = {}
  BY <1>1 DEF OwnIds, PendingIds, StagedIds
<1>10. MovesOwn(s, a, <<>>, {}, held)
  BY <1>3, <1>9 DEF MovesOwn
<1>11. raised' \in [Aggregate -> Nat] /\ \A b \in Aggregate : raised[b] <= raised'[b]
  BY <1>2 DEF SourcingInv, SourcingTypes, SourcingTypeOK
<1> QED
  BY <1>1, <1>2, <1>3, <1>4, <1>8, <1>10, <1>11, SessionMoves

LEMMA ReadStreamKeeps ==
  ASSUME SourcingInv, NEW s \in Session, ReadStream(s)
  PROVE  SourcingInv'
<1>1. PICK m : m = session[s]
  OBVIOUS
<1> DEFINE a == m.of
           tail == TailFrom(a, Len(m.seen))
           next == [m EXCEPT !.at = "open", !.seen = @ \o Ids(tail)]
<1>2. /\ m \in Held /\ a \in Aggregate /\ HeldInv(m) /\ m # Nothing /\ Open(s)
      /\ m.seen \in Seq(Nat) /\ Len(m.seen) \in Nat /\ m.pending = 0
      /\ streams[a] \in Seq(Event) /\ Len(streams[a]) \in Nat
      /\ Stored(m) = Len(m.seen)
  <2>1. Open(s) /\ m.at # "open"
    BY <1>1 DEF ReadStream, At
  <2> QED
    BY <1>1, <2>1, HeldTyped DEF HeldInv
<1>3. LogTypeOK
  BY DEF SourcingInv, SourcingTypes
<1>4. /\ tail \in Seq(Event)
      /\ \A i \in 1..Len(tail) : /\ Len(m.seen) + i \in 1..Len(streams[a])
                                 /\ tail[i] = streams[a][Len(m.seen) + i]
  <2>1. CASE Len(m.seen) \in 0..Len(streams[a])
    <3>1. /\ tail \in Seq(Event) /\ Len(tail) = Len(streams[a]) - Len(m.seen)
          /\ \A i \in 1..(Len(streams[a]) - Len(m.seen)) :
                tail[i] = streams[a][Len(m.seen) + i]
      BY <1>2, <1>3, <2>1, TailFacts
    <3> DEFINE old == Len(streams[a])
               n == Len(m.seen)
    <3>2. old \in Nat /\ n \in Nat /\ n <= old
      BY <1>2, <2>1
    <3>3. ASSUME NEW i \in 1..Len(tail)
          PROVE  n + i \in 1..old /\ tail[i] = streams[a][n + i]
      <4>1. i \in 1..(old - n)
        BY <3>1
      <4>2. tail[i] = streams[a][n + i]
        BY <3>1, <4>1
      <4> HIDE DEF old, n, tail
      <4> QED
        BY <3>2, <4>1, <4>2
    <3> QED
      BY <3>1, <3>3
  <2>2. CASE Len(m.seen) \notin 0..Len(streams[a])
    <3>1. Len(m.seen) + 1 > Len(streams[a])
      BY <1>2, <2>2
    <3>2. tail \in Seq(Event) /\ Len(tail) = 0
      BY <1>2, <3>1, SubSeqProperties DEF TailFrom
    <3> QED
      BY <3>2
  <2> QED
    BY <2>1, <2>2
<1>5. Hold(s, next) /\ next \in Held /\ next.of = a /\ next.at = "open"
      /\ next.pending = 0 /\ next.staged = m.staged /\ next.seen = m.seen \o Ids(tail)
  <2>1. Ids(tail) \in Seq(Nat)
    BY <1>4, IdsTyped
  <2>2. m.seen \o Ids(tail) \in Seq(Nat)
    BY <1>2, <2>1, ConcatProperties
  <2>3. Hold(s, next)
    BY <1>1 DEF ReadStream
  <2> HIDE DEF tail
  <2> QED
    BY <1>2, <2>2, <2>3 DEF Held
<1>6. PICK held \in Held :
        /\ Hold(s, held) /\ held.of = a /\ held.at = "open" /\ held.pending = 0
        /\ held.staged = m.staged /\ held.seen = m.seen \o Ids(tail)
  BY <1>5
<1> HIDE DEF next
<1>7. UNCHANGED <<setup, streams, log, snapshot, raised, withdrawn, schema, faults>>
  BY DEF ReadStream
<1>8. /\ <<>> \in Seq(Event) /\ Appends(a, <<>>) /\ AppendFits(a, <<>>)
      /\ {<<>>[n].id : n \in 1..Len(<<>>)} = {} /\ Withdraws(a, {})
  BY <1>2, <1>7, NothingAppended, NothingWithdrawn
<1>9. /\ Ids(tail) \in Seq(Nat) /\ Len(Ids(tail)) = Len(tail) /\ Len(tail) \in Nat
      /\ \A i \in 1..Len(tail) : Ids(tail)[i] = tail[i].id
  BY <1>4, IdsTyped
<1> DEFINE more == Ids(tail)
<1> HIDE DEF tail, more
<1>10. /\ held.seen \in Seq(Nat) /\ Len(held.seen) = Len(m.seen) + Len(tail)
       /\ \A i \in 1..Len(m.seen) + Len(tail) : held.seen[i] =
             IF i <= Len(m.seen) THEN m.seen[i] ELSE more[i - Len(m.seen)]
  <2>1. held.seen = m.seen \o more /\ more \in Seq(Nat) /\ Len(more) = Len(tail)
    BY <1>6, <1>9 DEF more
  <2>2. /\ m.seen \o more \in Seq(Nat) /\ Len(m.seen \o more) = Len(m.seen) + Len(more)
        /\ \A i \in 1..Len(m.seen) + Len(more) : (m.seen \o more)[i] =
              IF i <= Len(m.seen) THEN m.seen[i] ELSE more[i - Len(m.seen)]
    <3>1. m.seen \in Seq(Nat) /\ more \in Seq(Nat)
      BY <1>2, <2>1
    <3> QED
      BY <3>1, ConcatProperties
  <2> QED
    BY <2>1, <2>2
<1>11. StagedGoesOn(s)
  <2>1. held # Nothing
    BY NothingAssumption
  <2> QED
    BY <1>1, <1>2, <1>6, <1>7, <2>1, StagedOn
<1>12. Stored(held) = Len(held.seen) /\ Len(held.seen) \in Nat
  BY <1>2, <1>6, <1>9, <1>10 DEF Stored
<1>13. ASSUME NEW j \in 1..Len(held.seen) PROVE Known(a, j, held.seen[j])'
  <2>1. CASE j <= Len(m.seen)
    <3>1. j \in 1..Stored(m) /\ held.seen[j] = m.seen[j] /\ j \in Nat
      BY <1>2, <1>9, <1>10, <2>1
    <3>2. Known(a, j, held.seen[j])
      BY <1>2, <3>1 DEF HeldInv
    <3> QED
      BY <1>2, <1>6, <1>7, <1>8, <1>11, <3>1, <3>2, KnownStays
  <2>2. CASE ~(j <= Len(m.seen))
    <3> DEFINE i == j - Len(m.seen)
    <3>1. i \in 1..Len(tail) /\ Len(m.seen) + i = j
      BY <1>2, <1>9, <1>10, <2>2
    <3>2. held.seen[j] = more[i]
      BY <1>2, <1>9, <1>10, <2>2
    <3> HIDE DEF i
    <3>3. more[i] = tail[i].id
      BY <1>9, <3>1 DEF more
    <3>4. j \in 1..Len(streams[a]) /\ tail[i] = streams[a][j]
      BY <1>4, <3>1
    <3> QED
      BY <1>7, <3>2, <3>3, <3>4 DEF Known
  <2> QED
    BY <2>1, <2>2
<1>14. HeldInv(held)'
  BY <1>2, <1>6, <1>12, <1>13 DEF HeldInv, Stored
<1>15. StagedInv(held)'
  BY <1>1, <1>2, <1>6, <1>7, <1>8, <1>11, StagedInvStays
<1>16. Fine(held)' /\ (held # Nothing => held.of = a) /\ (session[s] # Nothing => session[s].of = a)
  BY <1>1, <1>6, <1>14, <1>15 DEF Fine
<1>17. PendingIds(held) = {} /\ PendingIds(m) = {} /\ StagedIds(held) = StagedIds(m)
  BY <1>2, <1>6 DEF PendingIds, StagedIds
<1>18. MovesOwn(s, a, <<>>, {}, held)
  <2>1. OwnIds(held) \subseteq OwnIds(m)
    BY <1>2, <1>17 DEF OwnIds
  <2> QED
    BY <1>1, <1>8, <1>17, <2>1 DEF MovesOwn
<1>19. raised' \in [Aggregate -> Nat] /\ \A b \in Aggregate : raised[b] <= raised'[b]
  BY <1>7 DEF SourcingInv, SourcingTypes, SourcingTypeOK
<1> QED
  BY <1>2, <1>6, <1>7, <1>8, <1>11, <1>16, <1>18, <1>19, SessionMoves

LEMMA RaiseKeeps ==
  ASSUME SourcingInv, NEW s \in Session, Raise(s)
  PROVE  SourcingInv'
<1>1. PICK m : m = session[s]
  OBVIOUS
<1> DEFINE a == m.of
           x == raised'[a]
<1>2. /\ m \in Held /\ a \in Aggregate /\ HeldInv(m) /\ StagedInv(m) /\ Open(s)
      /\ m.seen \in Seq(Nat) /\ Len(m.seen) \in Nat /\ m.pending \in Nat
      /\ Stored(m) \in Nat /\ Stored(m) + m.pending = Len(m.seen)
      /\ m.at = "open" /\ m # Nothing
  <2>1. Open(s) /\ m.at = "open"
    BY <1>1 DEF Raise, At
  <2> QED
    BY <1>1, <2>1, HeldTyped
<1>3. /\ raised' \in [Aggregate -> Nat] /\ x \in Nat /\ x = raised[a] + 1
      /\ \A b \in Aggregate : raised[b] <= raised'[b]
      /\ raised[a] \in Nat
  BY <1>1, <1>2 DEF Raise, SourcingInv, SourcingTypes, SourcingTypeOK
<1> DEFINE seen == Append(m.seen, x)
<1>4. /\ seen \in Seq(Nat) /\ Len(seen) = Len(m.seen) + 1
      /\ \A i \in 1..Len(m.seen) : seen[i] = m.seen[i]
      /\ seen[Len(m.seen) + 1] = x
  <2>1. m.seen \in Seq(Nat) /\ x \in Nat
    BY <1>2, <1>3
  <2> HIDE DEF x
  <2> QED
    BY <2>1, AppendProperties
<1>5. Hold(s, [m EXCEPT !.seen = seen, !.pending = @ + 1])
  BY <1>1 DEF Raise
<1> HIDE DEF seen
<1>6. PICK held \in Held :
        /\ Hold(s, held) /\ held.of = a /\ held.at = "open" /\ held.staged = m.staged
        /\ held.seen = seen /\ held.pending = m.pending + 1
  <2> DEFINE next == [m EXCEPT !.seen = seen, !.pending = @ + 1]
  <2>1. m \in Held /\ seen \in Seq(Nat) /\ m.pending + 1 \in Nat
    BY <1>2, <1>4
  <2>2. next \in Held /\ next.seen = seen /\ next.pending = m.pending + 1
    BY <2>1 DEF Held
  <2>3. next.at = m.at /\ next.of = m.of /\ next.staged = m.staged
    BY <2>1 DEF Held
  <2> QED
    BY <1>2, <1>5, <2>2, <2>3
<1>7. UNCHANGED <<setup, streams, log, snapshot, withdrawn, schema, faults>>
  BY DEF Raise
<1>8. /\ <<>> \in Seq(Event) /\ Appends(a, <<>>) /\ AppendFits(a, <<>>)
      /\ {<<>>[n].id : n \in 1..Len(<<>>)} = {} /\ Withdraws(a, {})
  BY <1>2, <1>7, NothingAppended, NothingWithdrawn
<1>9. StagedGoesOn(s)
  <2>1. held # Nothing
    BY NothingAssumption
  <2> QED
    BY <1>1, <1>2, <1>6, <1>7, <2>1, StagedOn
<1>10. Stored(held) = Stored(m) /\ held.pending <= Len(held.seen)
  <2>1. Len(held.seen) = Len(m.seen) + 1 /\ held.pending = m.pending + 1
    BY <1>4, <1>6
  <2>2. Stored(held) = (Len(m.seen) + 1) - (m.pending + 1)
    BY <2>1, Zenon DEF Stored
  <2>3. \A l, p \in Nat : (l + 1) - (p + 1) = l - p
    OBVIOUS
  <2>4. Stored(held) = Stored(m)
    BY <1>2, <2>2, <2>3, Zenon DEF Stored
  <2> QED
    BY <1>2, <2>1, <2>4
<1>11. ASSUME NEW j \in 1..Stored(m) PROVE Known(a, j, held.seen[j])'
  <2>1. j \in 1..Len(m.seen) /\ j \in Nat
    BY <1>2
  <2>2. held.seen[j] = m.seen[j] /\ Known(a, j, m.seen[j])
    BY <1>2, <1>4, <1>6, <2>1 DEF HeldInv
  <2> QED
    BY <1>2, <1>6, <1>7, <1>8, <1>9, <2>1, <2>2, KnownStays
<1>12. HeldInv(held)'
  <2> SUFFICES ASSUME NEW j \in 1..Stored(held) PROVE Known(held.of, j, held.seen[j])'
    BY <1>6, <1>10 DEF HeldInv, Stored
  <2> QED
    BY <1>6, <1>10, <1>11
<1>13. StagedInv(held)'
  BY <1>1, <1>2, <1>6, <1>7, <1>8, <1>9, StagedInvStays
<1>14. Fine(held)' /\ (held # Nothing => held.of = a) /\ (session[s] # Nothing => session[s].of = a)
  BY <1>1, <1>6, <1>12, <1>13 DEF Fine
<1>15. PendingIds(held) \subseteq PendingIds(m) \cup {x}
  <2> SUFFICES ASSUME NEW i \in 1..(m.pending + 1)
               PROVE  held.seen[Stored(m) + i] \in PendingIds(m) \cup {x}
    BY <1>6, <1>10 DEF PendingIds
  <2>1. CASE i <= m.pending
    <3>1. Stored(m) + i \in 1..Len(m.seen) /\ i \in 1..m.pending
      BY <1>2, <2>1
    <3>2. held.seen[Stored(m) + i] = m.seen[Stored(m) + i]
      BY <1>4, <1>6, <3>1
    <3> QED
      BY <3>1, <3>2 DEF PendingIds
  <2>2. CASE ~(i <= m.pending)
    <3>1. Stored(m) + i = Len(m.seen) + 1
      <4>1. i = m.pending + 1
        BY <1>2, <2>2
      <4>2. Stored(m) + (m.pending + 1) = (Stored(m) + m.pending) + 1
        BY <1>2
      <4> QED
        BY <1>2, <4>1, <4>2
    <3> QED
      BY <1>4, <1>6, <3>1
  <2> QED
    BY <2>1, <2>2
<1>16. StagedIds(held) = StagedIds(m)
  BY <1>6 DEF StagedIds
<1>17. /\ OwnIds(m) = PendingIds(m) \cup StagedIds(m) /\ OwnIds(m) \subseteq 1..raised[a]
       /\ PendingIds(m) \cap StagedIds(m) = {}
  BY <1>1, <1>2 DEF SourcingInv, OnePlace, OwnIds
<1>18. x \in (raised[a] + 1)..raised'[a] /\ x \notin 1..raised[a]
  BY <1>3
<1> HIDE DEF x
<1>19. MovesOwn(s, a, <<>>, {}, held)
  <2>1. OwnIds(held) \subseteq OwnIds(m) \cup {x}
    BY <1>15, <1>16, <1>17 DEF OwnIds
  <2>2. PendingIds(held) \cap StagedIds(held) = {}
    BY <1>15, <1>16, <1>17, <1>18
  <2> QED
    BY <1>1, <1>8, <1>18, <2>1, <2>2 DEF MovesOwn
<1> QED
  BY <1>2, <1>3, <1>6, <1>7, <1>8, <1>9, <1>14, <1>19, SessionMoves

\* The ids save() pulls are the pending ones.
LEMMA PulledIds ==
  ASSUME NEW m \in Held, m.pending <= Len(m.seen)
  PROVE  IdsIn(Pulled(m)) = PendingIds(m)
<1>1. /\ Pulled(m) \in Seq(Event) /\ Len(Pulled(m)) = m.pending /\ m.pending \in Nat
      /\ \A i \in 1..m.pending : Pulled(m)[i].id = m.seen[Stored(m) + i]
  BY PulledFacts DEF Held
<1>2. DOMAIN Pulled(m) = 1..m.pending
  BY <1>1
<1> QED
  BY <1>1, <1>2 DEF IdsIn, PendingIds

LEMMA IdsInStaged ==
  ASSUME NEW m \in Held
  PROVE  IdsIn(m.staged) = StagedIds(m)
<1>1. m.staged \in Seq(Event)
  BY DEF Held
<1>2. DOMAIN m.staged = 1..Len(m.staged)
  BY <1>1
<1> QED
  BY <1>2 DEF IdsIn, StagedIds

LEMMA WithdrawnThen ==
  ASSUME SourcingInv, NEW a \in Aggregate, NEW lost \in SUBSET Nat,
         withdrawn' = [withdrawn EXCEPT ![a] = @ \cup lost]
  PROVE  Withdraws(a, lost)
<1>1. withdrawn \in [Aggregate -> SUBSET Nat]
  BY DEF SourcingInv, SourcingTypes, SourcingTypeOK
<1>2. withdrawn[a] \cup lost \in SUBSET Nat
  BY <1>1
<1> QED
  BY <1>1, <1>2 DEF Withdraws

LEMMA OwnNat ==
  ASSUME SourcingInv, NEW s \in Session, Open(s)
  PROVE  OwnIds(session[s]) \in SUBSET Nat
<1>1. session[s] # Nothing /\ session[s].of \in Aggregate
  BY HeldTyped
<1>2. raised[session[s].of] \in Nat
  BY <1>1 DEF SourcingInv, SourcingTypes, SourcingTypeOK
<1>3. OwnIds(session[s]) \subseteq 1..raised[session[s].of]
  BY <1>1 DEF SourcingInv, OnePlace
<1> QED
  BY <1>2, <1>3

\* save() raises and nothing is stored or staged.
LEMMA SaveRejectedKeeps ==
  ASSUME SourcingInv, NEW s \in Session, SaveRejected(s)
  PROVE  SourcingInv'
<1>1. PICK m : m = session[s]
  OBVIOUS
<1> DEFINE next == [Drained(m) EXCEPT !.at = "open"]
<1>2. /\ m \in Held /\ m # Nothing /\ m.of \in Aggregate /\ HeldInv(m) /\ Open(s)
      /\ m.pending <= Len(m.seen) /\ OwnIds(m) \in SUBSET Nat
      /\ OwnIds(m) = PendingIds(m) \cup StagedIds(m)
      /\ PendingIds(m) \cap StagedIds(m) = {}
  <2>1. Open(s)
    BY DEF SaveRejected, At
  <2> QED
    BY <1>1, <2>1, HeldTyped, OwnNat DEF HeldInv, OwnIds, SourcingInv, OnePlace
<1>3. /\ IdsIn(Pulled(m)) = PendingIds(m) /\ IdsIn(Drained(m).staged) = StagedIds(m)
      /\ Drained(m).of = m.of
  <2>1. Drained(m).staged = m.staged /\ Drained(m).of = m.of
    BY <1>2 DEF Drained, Held
  <2> QED
    BY <1>2, <2>1, PulledIds, IdsInStaged
<1>4. /\ next \in Held /\ next.of = m.of /\ next.seen = m.seen /\ next.pending = 0
      /\ next.staged = m.staged /\ next.at = "open"
  BY <1>2 DEF Held, Drained
<1>5. UNCHANGED <<setup, streams, log, raised, schema, snapshot>> /\ (MayFail \/ UNCHANGED faults)
  BY DEF SaveRejected
<1>6. \/ /\ setup.keeps /\ Hold(s, next)
         /\ withdrawn' = [withdrawn EXCEPT ![m.of] = @ \cup PendingIds(m)]
      \/ /\ Hold(s, Nothing)
         /\ withdrawn' = [withdrawn EXCEPT ![m.of] = @ \cup PendingIds(m) \cup StagedIds(m)]
  BY <1>1, <1>3 DEF SaveRejected, KeepsOrDrops
<1> HIDE DEF next
<1>7. CASE /\ setup.keeps /\ Hold(s, next)
           /\ withdrawn' = [withdrawn EXCEPT ![m.of] = @ \cup PendingIds(m)]
  <2>1. Withdraws(m.of, PendingIds(m)) /\ PendingIds(m) \subseteq OwnIds(m)
    BY <1>2, <1>7, WithdrawnThen
  <2>2. GoesOn(m, next, PendingIds(m)) /\ next # Nothing
    BY <1>2, <1>4, <1>7, NothingAssumption DEF GoesOn
  <2> QED
    BY <1>1, <1>2, <1>4, <1>5, <1>7, <2>1, <2>2, SessionHolds
<1>8. CASE /\ Hold(s, Nothing)
           /\ withdrawn' = [withdrawn EXCEPT ![m.of] = @ \cup PendingIds(m) \cup StagedIds(m)]
  <2>1. withdrawn' = [withdrawn EXCEPT ![m.of] = @ \cup (PendingIds(m) \cup StagedIds(m))]
    <3>1. withdrawn[m.of] \cup PendingIds(m) \cup StagedIds(m)
            = withdrawn[m.of] \cup (PendingIds(m) \cup StagedIds(m))
      OBVIOUS
    <3> QED
      BY <1>8, <3>1
  <2>2. Withdraws(m.of, OwnIds(m))
    BY <1>2, <2>1, WithdrawnThen
  <2> QED
    BY <1>1, <1>2, <1>5, <1>8, <2>2, SessionHolds
<1> QED
  BY <1>6, <1>7, <1>8

LEMMA TakeSnapshotKeeps ==
  ASSUME SourcingInv, NEW s \in Session, TakeSnapshot(s)
  PROVE  SourcingInv'
<1>1. PICK m : m = session[s]
  OBVIOUS
<1> DEFINE next == [m EXCEPT !.at = "open"]
           snap == [seen |-> m.seen, schema |-> schema]
<1>2. /\ m \in Held /\ m # Nothing /\ m.of \in Aggregate /\ HeldInv(m) /\ Open(s)
      /\ m.seen \in Seq(Nat) /\ m.pending = 0 /\ Stored(m) = Len(m.seen)
      /\ Len(m.seen) \in Nat
  <2>1. Open(s) /\ m.at = "snapshot"
    BY <1>1 DEF TakeSnapshot, At
  <2> QED
    BY <1>1, <2>1, HeldTyped DEF HeldInv
<1>3. /\ next \in Held /\ next.of = m.of /\ next.seen = m.seen /\ next.pending = 0
      /\ next.staged = m.staged /\ next.at = "open" /\ Hold(s, next)
  BY <1>1, <1>2 DEF Held, TakeSnapshot
<1>4. UNCHANGED <<setup, streams, log, raised, withdrawn, schema, faults>>
  BY DEF TakeSnapshot
<1>5. snap \in Snapshot
  BY <1>2 DEF Snapshot, SourcingInv, SourcingTypes, SourcingTypeOK
<1>6. /\ snapshot' = [snapshot EXCEPT ![m.of] = snap]
      /\ snapshot \in [Aggregate -> Snapshot \cup {Nothing}]
  BY <1>1 DEF TakeSnapshot, SourcingInv, SourcingTypes, SourcingTypeOK
<1>7. /\ <<>> \in Seq(Event) /\ Appends(m.of, <<>>) /\ Withdraws(m.of, {})
      /\ PendingIds(m) = {}
  BY <1>2, <1>4, NothingAppended, NothingWithdrawn DEF PendingIds
<1> HIDE DEF next
<1>8. ASSUME StagedGoesOn(s), NEW b \in Aggregate, NEW old, old = snapshot'[b],
             old # Nothing, NEW j \in 1..Len(old.seen)
      PROVE  Known(b, j, old.seen[j])'
  <2>1. Known(b, j, old.seen[j])
    <3>1. CASE b = m.of
      <4>1. old.seen = m.seen
        BY <1>6, <1>8, <3>1
      <4> QED
        BY <1>2, <1>8, <3>1, <4>1 DEF HeldInv
    <3>2. CASE b # m.of
      BY <1>6, <1>8, <3>2 DEF SourcingInv, SnapshotInv
    <3> QED
      BY <3>1, <3>2
  <2>2. j \in Nat
    OBVIOUS
  <2> QED
    BY <1>2, <1>3, <1>4, <1>7, <1>8, <2>1, <2>2, KnownStays
<1>9. StagedGoesOn(s) => SnapshotInv'
  <2> SUFFICES ASSUME StagedGoesOn(s), NEW b \in Aggregate, snapshot'[b] # Nothing,
                      NEW j \in 1..Len(snapshot'[b].seen)
               PROVE  Known(b, j, snapshot[b].seen[j])'
    BY DEF SnapshotInv
  <2>1. PICK old : old = snapshot'[b]
    OBVIOUS
  <2>2. Known(b, j, old.seen[j])'
    BY <1>8, <2>1
  <2> QED
    BY <2>1, <2>2 DEF Known, HasStaged, Outlived
<1>10. snapshot' \in [Aggregate -> Snapshot \cup {Nothing}]
  BY <1>5, <1>6
<1>11. GoesOn(m, next, {}) /\ next # Nothing
  BY <1>2, <1>3, <1>7, NothingAssumption DEF GoesOn
<1> QED
  BY <1>1, <1>2, <1>3, <1>4, <1>7, <1>9, <1>10, <1>11, SessionHolds

LEMMA SnapshotRaisesKeeps ==
  ASSUME SourcingInv, NEW s \in Session, SnapshotRaises(s)
  PROVE  SourcingInv'
<1>1. PICK m : m = session[s]
  OBVIOUS
<1> DEFINE next == [m EXCEPT !.at = "open"]
<1>2. m \in Held /\ m # Nothing /\ m.of \in Aggregate /\ Open(s)
  <2>1. Open(s)
    BY DEF SnapshotRaises, At
  <2> QED
    BY <1>1, <2>1, HeldTyped
<1>3. /\ next \in Held /\ next.of = m.of /\ next.seen = m.seen /\ next.pending = m.pending
      /\ next.staged = m.staged /\ next.at = "open" /\ Hold(s, next)
  BY <1>1, <1>2 DEF Held, SnapshotRaises
<1>4. Withdraws(m.of, {})
  BY <1>2, NothingWithdrawn DEF SnapshotRaises
<1> HIDE DEF next
<1>5. GoesOn(m, next, {}) /\ next # Nothing
  BY <1>2, <1>3, NothingAssumption DEF GoesOn
<1> QED
  BY <1>1, <1>2, <1>3, <1>4, <1>5, SessionHolds DEF SnapshotRaises

LEMMA RollbackKeeps ==
  ASSUME SourcingInv, NEW s \in Session, Rollback(s)
  PROVE  SourcingInv'
<1>1. PICK m : m = session[s]
  OBVIOUS
<1> DEFINE bare == [m EXCEPT !.staged = <<>>]
           next == [bare EXCEPT !.at = "open"]
<1>2. /\ m \in Held /\ m # Nothing /\ m.of \in Aggregate /\ Open(s)
      /\ OwnIds(m) \in SUBSET Nat /\ OwnIds(m) = PendingIds(m) \cup StagedIds(m)
      /\ PendingIds(m) \cap StagedIds(m) = {}
      /\ IdsIn(m.staged) = StagedIds(m)
  <2>1. Open(s)
    BY DEF Rollback
  <2> QED
    BY <1>1, <2>1, HeldTyped, OwnNat, IdsInStaged DEF OwnIds, SourcingInv, OnePlace
<1>3. /\ next \in Held /\ next.of = m.of /\ next.seen = m.seen /\ next.pending = m.pending
      /\ next.staged = <<>> /\ next.at = "open" /\ bare.of = m.of /\ bare.staged = <<>>
  <2>1. <<>> \in Seq(Event)
    OBVIOUS
  <2> QED
    BY <1>2, <2>1 DEF Held
<1>4. UNCHANGED <<setup, streams, log, raised, schema, snapshot, faults>>
  BY DEF Rollback
<1>5. Hold(s, next) \/ Hold(s, Nothing)
  BY <1>1 DEF Rollback, KeepsOrDrops
<1>6. Withdraws(m.of, StagedIds(m))
  <2>1. IdsIn(bare.staged) = {}
    BY <1>3 DEF IdsIn
  <2>2. withdrawn' = [withdrawn EXCEPT ![m.of] = @ \cup StagedIds(m)]
    BY <1>1, <1>2, <1>3, <2>1 DEF Rollback, KeepsOrDrops
  <2>3. StagedIds(m) \in SUBSET Nat
    BY <1>2
  <2> QED
    BY <1>2, <2>2, <2>3, WithdrawnThen
<1> HIDE DEF next, bare
<1>7. GoesOn(m, next, StagedIds(m)) /\ next # Nothing
  BY <1>2, <1>3, NothingAssumption DEF GoesOn
<1>8. StagedIds(m) \subseteq OwnIds(m)
  BY <1>2
<1>9. CASE Hold(s, next)
  BY <1>1, <1>2, <1>3, <1>4, <1>6, <1>7, <1>8, <1>9, SessionHolds
<1>10. CASE Hold(s, Nothing)
  BY <1>1, <1>2, <1>4, <1>6, <1>8, <1>10, SessionHolds
<1> QED
  BY <1>5, <1>9, <1>10

LEMMA CloseKeeps ==
  ASSUME SourcingInv, NEW s \in Session, Close(s)
  PROVE  SourcingInv'
<1>1. Open(s) /\ session[s].of \in Aggregate /\ StagedIds(session[s]) = {}
  BY HeldTyped DEF Close, StagedIds
<1>2. Withdraws(session[s].of, {})
  BY <1>1, NothingWithdrawn DEF Close
<1> QED
  BY <1>1, <1>2, SessionHolds DEF Close

LEMMA DeployKeeps ==
  ASSUME SourcingInv, Deploy
  PROVE  SourcingInv'
<1>1. schema' \in 1..MaxSchema
  BY SourcingAssumption DEF Deploy, SourcingInv, SourcingTypes, SourcingTypeOK
<1> QED
  BY <1>1, SourcingUntouched DEF Deploy

\* The commit stores what was staged.
LEMMA CommitKeeps ==
  ASSUME SourcingInv, NEW s \in Session, Commit(s)
  PROVE  SourcingInv'
<1>1. PICK m : m = session[s]
  OBVIOUS
<1> DEFINE a == m.of
           es == m.staged
           old == Len(streams[a])
           next == [m EXCEPT !.staged = <<>>]
<1>2. /\ m \in Held /\ m # Nothing /\ a \in Aggregate /\ HeldInv(m) /\ StagedInv(m)
      /\ Open(s) /\ m.at = "open" /\ es \in Seq(Event) /\ Len(es) \in Nat
      /\ old \in Nat /\ m.seen \in Seq(Nat)
      /\ OwnIds(m) = PendingIds(m) \cup StagedIds(m)
      /\ PendingIds(m) \cap StagedIds(m) = {}
  <2>1. Open(s) /\ m.at = "open"
    BY <1>1 DEF Commit, At
  <2> QED
    BY <1>1, <2>1, HeldTyped DEF OwnIds, SourcingInv, OnePlace
<1>3. /\ es # <<>> /\ Len(es[1].on) = old /\ AppendToStream(a, es) /\ Hold(s, next)
      /\ UNCHANGED <<setup, snapshot, raised, withdrawn, schema, faults>>
  BY <1>1 DEF Commit, Accepts
<1>4. /\ setup.commits
      /\ \A k \in 1..Len(es) : Len(es[k].on) = old + k - 1
      /\ \A k \in 1..Len(es) : \A j \in 1..Len(es[k].on) : Known(a, j, es[k].on[j])
  BY <1>2, <1>3 DEF StagedInv, InRow
<1>5. /\ next \in Held /\ next.of = a /\ next.seen = m.seen /\ next.pending = m.pending
      /\ next.staged = <<>> /\ next.at = "open" /\ next # Nothing
  <2>1. <<>> \in Seq(Event)
    OBVIOUS
  <2> QED
    BY <1>2, <2>1, NothingAssumption DEF Held
<1>6. Appends(a, es) /\ Withdraws(a, {})
  BY <1>2, <1>3, NothingWithdrawn DEF Appends
<1>7. /\ Len(streams'[a]) = old + Len(es)
      /\ \A i \in 1..Len(es) : streams'[a][old + i] = es[i]
  BY <1>2, <1>6, Grown DEF SourcingInv, SourcingTypes
<1> HIDE DEF a, es, old, next
<1>8. StagedGoesOn(s)
  <2> SUFFICES ASSUME setup.commits, NEW b, NEW j \in Nat, NEW e, HasStaged(s, b, j, e)
               PROVE  Known(b, j, e)'
    BY DEF StagedGoesOn
  <2>1. PICK k \in 1..Len(es) : es[k].id = e /\ Len(es[k].on) = j - 1 /\ b = a
    BY <1>1 DEF HasStaged, es, a
  <2>2. CASE j = old + k
    <3>1. j \in 1..Len(streams'[a]) /\ streams'[a][j] = es[k]
      <4>1. old \in Nat /\ Len(es) \in Nat /\ k \in 1..Len(es)
        BY <1>2, <2>1
      <4>2. old + k \in 1..(old + Len(es))
        BY <4>1
      <4>3. Len(streams'[a]) = old + Len(es) /\ streams'[a][old + k] = es[k]
        BY <1>7, <4>1
      <4> QED
        BY <2>2, <4>2, <4>3, Zenon
    <3> QED
      BY <2>1, <3>1 DEF Known
  <2>3. CASE j # old + k
    BY <1>2, <1>4, <2>1, <2>3
  <2> QED
    BY <2>2, <2>3
<1>9. AppendFits(a, es)
  <2> SUFFICES ASSUME NEW n \in 1..Len(es), NEW i, NEW e, i = old + n, e = es[n]
               PROVE  EventInv(a, i, e)'
    BY DEF AppendFits, old
  <2>1. Len(e.on) = i - 1
    BY <1>2, <1>4
  <2>2. ASSUME NEW j \in 1..(i - 1) PROVE Known(a, j, e.on[j])'
    <3>1. Known(a, j, e.on[j]) /\ j \in Nat
      BY <1>4, <2>1
    <3> QED
      BY <1>2, <1>3, <1>6, <1>8, <3>1, KnownStays
  <2> QED
    BY <2>1, <2>2 DEF EventInv
<1>10. Fine(next)'
  <2>1. Stored(next) = Stored(m)
    BY <1>5 DEF Stored
  <2>2. ASSUME NEW j \in 1..Stored(next) PROVE Known(a, j, next.seen[j])'
    <3>1. Known(a, j, next.seen[j]) /\ j \in Nat
      BY <1>2, <1>5, <2>1 DEF HeldInv, a
    <3> QED
      BY <1>2, <1>3, <1>6, <1>8, <3>1, KnownStays
  <2>3. next.pending <= Len(next.seen)
    BY <1>2, <1>5 DEF HeldInv
  <2>4. HeldInv(next)'
    BY <1>5, <2>2, <2>3 DEF HeldInv, Stored
  <2>5. StagedInv(next)'
    BY <1>5 DEF StagedInv
  <2> QED
    BY <2>4, <2>5 DEF Fine
<1>11. MovesOwn(s, a, es, {}, next)
  <2>1. {es[n].id : n \in 1..Len(es)} = StagedIds(m)
    BY DEF StagedIds, es
  <2>2. PendingIds(next) = PendingIds(m) /\ StagedIds(next) = {}
    BY <1>5 DEF PendingIds, StagedIds, Stored
  <2>3. OwnIds(next) = PendingIds(m)
    BY <1>5, <2>2 DEF OwnIds
  <2> QED
    BY <1>1, <1>2, <2>1, <2>2, <2>3 DEF MovesOwn
<1>12. raised' \in [Aggregate -> Nat] /\ \A b \in Aggregate : raised[b] <= raised'[b]
  BY <1>3 DEF SourcingInv, SourcingTypes, SourcingTypeOK
<1>13. session[s] # Nothing => session[s].of = a
  BY <1>1 DEF a
<1> QED
  BY <1>2, <1>3, <1>5, <1>6, <1>8, <1>9, <1>10, <1>11, <1>12, <1>13, SessionMoves

\* What save() leaves: the session goes on with all it has seen, or is dropped
\* with what it has staged.
LEMMA SaveEffect ==
  ASSUME SourcingInv, NEW s \in Session, Save(s), NEW m, m = session[s]
  PROVE  /\ m \in Held /\ m # Nothing /\ Open(s) /\ m.of \in Aggregate
         /\ HeldInv(m) /\ StagedInv(m)
         /\ m.pending > 0 /\ m.pending \in Nat /\ m.pending <= Len(m.seen)
         /\ m.staged \in Seq(Event) /\ m.seen \in Seq(Nat)
         /\ Stored(m) \in Nat /\ Stored(m) + m.pending = Len(m.seen)
         /\ Len(streams[m.of]) = Stored(m) - Len(m.staged)
         /\ UNCHANGED <<setup, snapshot, raised, schema>> /\ (MayFail \/ UNCHANGED faults)
         /\ setup.commits => UNCHANGED <<streams, log>>
         /\ ~setup.commits => AppendToStream(m.of, Pulled(m))
         /\ LET kept == IF setup.commits THEN m.staged \o Pulled(m) ELSE m.staged IN
            \/ /\ \/ withdrawn' = withdrawn
                  \/ withdrawn' = [withdrawn EXCEPT ![m.of] = @ \cup {}]
               /\ \E held \in Held : 
                     /\ Hold(s, held) /\ held.of = m.of /\ held.seen = m.seen
                     /\ held.pending = 0 /\ held.staged = kept
            \/ /\ Hold(s, Nothing)
               /\ withdrawn' = [withdrawn EXCEPT ![m.of] = @ \cup {} \cup IdsIn(kept)]
<1>1. Open(s) /\ m.at = "open" /\ m.pending > 0 /\ Fits(m)
  BY DEF Save, At
<1>2. /\ m \in Held /\ m # Nothing /\ m.of \in Aggregate /\ HeldInv(m) /\ StagedInv(m)
      /\ m.staged \in Seq(Event) /\ m.pending <= Len(m.seen) /\ m.seen \in Seq(Nat)
      /\ m.pending \in Nat /\ Stored(m) \in Nat /\ Stored(m) + m.pending = Len(m.seen)
  BY <1>1, HeldTyped DEF HeldInv
<1>3. Len(streams[m.of]) = Stored(m) - Len(m.staged)
  BY <1>1 DEF Fits, Accepts, Expected, Stored
<1> DEFINE kept == IF setup.commits THEN m.staged \o Pulled(m) ELSE m.staged
           saved == IF setup.commits THEN [Drained(m) EXCEPT !.staged = @ \o Pulled(m)]
                                     ELSE Drained(m)
<1>4. kept \in Seq(Event)
  <2>1. Pulled(m) \in Seq(Event)
    BY <1>2, PulledFacts
  <2> QED
    BY <1>2, <2>1
<1>5. saved = [m EXCEPT !.pending = 0, !.staged = kept]
  BY <1>2 DEF Drained, Held
<1>6. /\ saved \in Held /\ saved.of = m.of /\ saved.seen = m.seen /\ saved.pending = 0
      /\ saved.staged = kept
  <2> HIDE DEF kept, saved
  <2> QED
    BY <1>2, <1>4, <1>5 DEF Held
<1> HIDE DEF kept
<1>7. /\ \/ /\ Hold(s, IF ShouldSnapshot(Len(m.seen))
                       THEN [saved EXCEPT !.at = "snapshot"] ELSE saved)
            /\ UNCHANGED <<withdrawn, faults>>
         \/ KeepsOrDrops(s, saved, {}) /\ MayFail
      /\ UNCHANGED <<setup, snapshot, raised, schema>>
      /\ IF setup.commits THEN UNCHANGED <<streams, log>> ELSE AppendToStream(m.of, Pulled(m))
  BY DEF Save
<1> HIDE DEF saved
<1>8. ASSUME NEW place \in {"snapshot", "open"}
      PROVE  LET held == [saved EXCEPT !.at = place] IN
             /\ held \in Held /\ held.of = m.of /\ held.seen = m.seen
             /\ held.pending = 0 /\ held.staged = kept
  BY <1>6 DEF Held
<1>9. \/ /\ \/ withdrawn' = withdrawn
            \/ withdrawn' = [withdrawn EXCEPT ![m.of] = @ \cup {}]
         /\ \E held \in Held : 
               /\ Hold(s, held) /\ held.of = m.of /\ held.seen = m.seen
               /\ held.pending = 0 /\ held.staged = kept
      \/ /\ Hold(s, Nothing)
         /\ withdrawn' = [withdrawn EXCEPT ![m.of] = @ \cup {} \cup IdsIn(kept)]
  <2>1. CASE KeepsOrDrops(s, saved, {})
    BY <1>6, <1>8, <2>1 DEF KeepsOrDrops
  <2>2. CASE ShouldSnapshot(Len(m.seen)) /\ Hold(s, [saved EXCEPT !.at = "snapshot"])
               /\ UNCHANGED withdrawn
    BY <1>8, <2>2
  <2>3. CASE Hold(s, saved) /\ UNCHANGED withdrawn
    BY <1>6, <2>3
  <2> QED
    BY <1>7, <2>1, <2>2, <2>3
<1>10. MayFail \/ UNCHANGED faults
  BY <1>7
<1> QED
  BY <1>1, <1>2, <1>3, <1>7, <1>9, <1>10 DEF kept

\* The positions of a session's state: stored before, or pulled now.
LEMMA SeenSplit ==
  ASSUME NEW st \in Nat, NEW p \in Nat, NEW j \in 1..(st + p), j \notin 1..st
  PROVE  \E i \in 1..p : j = st + i
<1> DEFINE i == j - st
<1>1. i \in 1..p /\ j = st + i
  OBVIOUS
<1> HIDE DEF i
<1> QED
  BY <1>1

\* What is staged after a save(): what was, and behind it what was pulled.
StagedShape(m, n, st, p, both) ==
    /\ both \in Seq(Event) /\ Len(both) = n + p
    /\ \A k \in 1..n : k \in 1..(n + p) /\ both[k] = m.staged[k]
    /\ \A i \in 1..p :
          /\ n + i \in 1..(n + p)
          /\ both[n + i].id = m.seen[st + i]
          /\ Len(both[n + i].on) = st + i - 1
          /\ \A j \in 1..(st + i - 1) : both[n + i].on[j] = m.seen[j]

LEMMA StagedThen ==
  ASSUME NEW m \in Held, m.pending <= Len(m.seen), NEW n \in Nat, n = Len(m.staged),
         NEW st \in Nat, st = Stored(m), NEW p \in Nat, p = m.pending,
         NEW both, both = m.staged \o Pulled(m)
  PROVE  StagedShape(m, n, st, p, both)
<1>1. PICK es : es = Pulled(m)
  OBVIOUS
<1>2. /\ es \in Seq(Event) /\ Len(es) = p
      /\ \A i \in 1..p :
            /\ es[i].id = m.seen[st + i]
            /\ Len(es[i].on) = st + i - 1
            /\ \A j \in 1..(st + i - 1) : es[i].on[j] = m.seen[j]
  BY <1>1, PulledFacts
<1>3. m.staged \in Seq(Event)
  BY DEF Held
<1>4. PICK was : was = m.staged
  OBVIOUS
<1>5. /\ both \in Seq(Event) /\ Len(both) = Len(was) + Len(es)
      /\ \A k \in 1..Len(was) + Len(es) :
            both[k] = IF k <= Len(was) THEN was[k] ELSE es[k - Len(was)]
  <2>1. was \in Seq(Event) /\ es \in Seq(Event) /\ both = was \o es
    BY <1>1, <1>2, <1>3, <1>4
  <2>2. /\ was \o es \in Seq(Event) /\ Len(was \o es) = Len(was) + Len(es)
        /\ \A k \in 1..Len(was) + Len(es) :
              (was \o es)[k] = IF k <= Len(was) THEN was[k] ELSE es[k - Len(was)]
    BY <2>1, ConcatProperties
  <2> QED
    BY <2>1, <2>2
<1>6. Len(both) = n + p /\ Len(was) = n /\ Len(es) = p
  BY <1>2, <1>4, <1>5
<1>7. ASSUME NEW k \in 1..n PROVE k \in 1..(n + p) /\ both[k] = m.staged[k]
  <2>1. k \in 1..(n + p) /\ k <= n
    OBVIOUS
  <2> QED
    BY <1>4, <1>5, <1>6, <2>1
<1>8. ASSUME NEW i \in 1..p PROVE n + i \in 1..(n + p) /\ both[n + i] = es[i]
  <2>1. n + i \in 1..(n + p) /\ ~(n + i <= n) /\ (n + i) - n = i
    OBVIOUS
  <2> QED
    BY <1>5, <1>6, <2>1
<1> QED
  BY <1>2, <1>5, <1>6, <1>7, <1>8 DEF StagedShape

\* Appended at once: what the session has seen is now the stream.
LEMMA SaveAtOnceKeeps ==
  ASSUME SourcingInv, NEW s \in Session, Save(s), ~setup.commits
  PROVE  SourcingInv'
<1>1. PICK m : m = session[s]
  OBVIOUS
<1> DEFINE a == m.of
           es == Pulled(m)
           old == Len(streams[a])
<1>2. /\ m \in Held /\ m # Nothing /\ Open(s) /\ a \in Aggregate
      /\ HeldInv(m) /\ StagedInv(m)
      /\ m.pending \in Nat /\ m.pending <= Len(m.seen) /\ m.seen \in Seq(Nat)
      /\ Stored(m) \in Nat /\ Stored(m) + m.pending = Len(m.seen)
      /\ old = Stored(m) - Len(m.staged)
      /\ UNCHANGED <<setup, snapshot, raised, schema>> /\ (MayFail \/ UNCHANGED faults)
      /\ AppendToStream(a, es)
  BY <1>1, SaveEffect
<1>3. m.staged = <<>> /\ old = Stored(m)
  <2>1. m.staged = <<>>
    BY <1>2 DEF StagedInv
  <2> QED
    BY <1>2, <2>1
<1>4. PICK held \in Held \cup {Nothing} :
        /\ Hold(s, held)
        /\ held # Nothing => /\ held.of = a /\ held.seen = m.seen /\ held.pending = 0
                             /\ held.staged = <<>>
  BY <1>1, <1>2, <1>3, SaveEffect
<1>5. Withdraws(a, {})
  <2>1. \/ withdrawn' = withdrawn
        \/ withdrawn' = [withdrawn EXCEPT ![a] = @ \cup {}]
        \/ withdrawn' = [withdrawn EXCEPT ![a] = @ \cup {} \cup IdsIn(<<>>)]
    BY <1>1, <1>2, <1>3, SaveEffect
  <2>2. IdsIn(<<>>) = {}
    BY DEF IdsIn
  <2>3. withdrawn \in [Aggregate -> SUBSET Nat]
    BY DEF SourcingInv, SourcingTypes, SourcingTypeOK
  <2>4. withdrawn[a] \cup {} = withdrawn[a] /\ withdrawn[a] \cup {} \cup IdsIn(<<>>) = withdrawn[a]
    BY <2>2
  <2>5. withdrawn = [withdrawn EXCEPT ![a] = withdrawn[a]]
    BY <2>3
  <2>6. withdrawn' = withdrawn
    BY <2>1, <2>4, <2>5, Zenon
  <2> QED
    BY <1>2, <2>6, NothingWithdrawn
<1>6. /\ es \in Seq(Event) /\ Len(es) = m.pending
      /\ \A i \in 1..m.pending :
            /\ es[i].id = m.seen[Stored(m) + i]
            /\ Len(es[i].on) = Stored(m) + i - 1
            /\ \A j \in 1..(Stored(m) + i - 1) : es[i].on[j] = m.seen[j]
  BY <1>2, PulledFacts
<1>7. Appends(a, es)
  BY <1>2 DEF Appends
<1>8. /\ Len(streams'[a]) = old + Len(es)
      /\ \A i \in 1..Len(es) : streams'[a][old + i] = es[i]
  BY <1>2, <1>6, <1>7, Grown DEF SourcingInv, SourcingTypes
<1>9. StagedGoesOn(s)
  BY DEF StagedGoesOn
<1>10. session[s] # Nothing => session[s].of = a
  BY <1>1
<1> HIDE DEF a, es, old
<1>11. ASSUME NEW j \in 1..Len(m.seen) PROVE Known(a, j, m.seen[j])'
  <2>1. CASE j \in 1..Stored(m)
    <3>1. Known(a, j, m.seen[j]) /\ j \in Nat
      BY <1>2, <2>1 DEF HeldInv, a
    <3> QED
      BY <1>2, <1>4, <1>5, <1>6, <1>7, <1>9, <3>1, KnownStays
  <2>2. CASE j \notin 1..Stored(m)
    <3> DEFINE i == j - Stored(m)
    <3>1. i \in 1..m.pending /\ Stored(m) + i = j
      BY <1>2, <2>2
    <3> HIDE DEF i
    <3>2. streams'[a][j] = es[i] /\ es[i].id = m.seen[j]
      BY <1>3, <1>6, <1>8, <3>1
    <3>3. j \in 1..Len(streams'[a])
      BY <1>2, <1>3, <1>6, <1>8
    <3> QED
      BY <3>2, <3>3 DEF Known
  <2> QED
    BY <2>1, <2>2
<1>12. AppendFits(a, es)
  <2> SUFFICES ASSUME NEW n \in 1..Len(es), NEW i, NEW e, i = old + n, e = es[n]
               PROVE  EventInv(a, i, e)'
    BY DEF AppendFits, old
  <2>1. PICK st \in Nat : st = Stored(m) /\ i = st + n /\ n \in 1..m.pending
    BY <1>2, <1>3, <1>6
  <2>2. /\ Len(e.on) = st + n - 1
        /\ \A j \in 1..(st + n - 1) : e.on[j] = m.seen[j]
    BY <1>6, <2>1
  <2>3. i - 1 = st + n - 1
    BY <2>1
  <2>4. ASSUME NEW j \in 1..(i - 1) PROVE Known(a, j, e.on[j])'
    <3>1. e.on[j] = m.seen[j]
      BY <2>2, <2>3
    <3>2. j \in 1..Len(m.seen)
      <4>1. PICK p \in Nat : p = m.pending /\ st + p = Len(m.seen)
        BY <1>2, <2>1
      <4>2. j \in 1..(st + p)
        BY <2>1, <4>1
      <4> QED
        BY <4>1, <4>2
    <3>3. Known(a, j, m.seen[j])'
      BY <1>11, <3>2
    <3> QED
      BY <3>1, <3>3
  <2> QED
    BY <2>2, <2>3, <2>4 DEF EventInv
<1>13. Fine(held)'
  <2> SUFFICES ASSUME held # Nothing PROVE HeldInv(held)' /\ StagedInv(held)'
    BY DEF Fine
  <2>1. /\ held.of = a /\ held.seen = m.seen /\ held.pending = 0 /\ held.staged = <<>>
        /\ Stored(held) = Len(m.seen)
    BY <1>2, <1>4 DEF Stored
  <2>2. HeldInv(held)'
    BY <1>2, <1>11, <2>1 DEF HeldInv, Stored
  <2>3. StagedInv(held)'
    BY <2>1 DEF StagedInv
  <2> QED
    BY <2>2, <2>3
<1>14. MovesOwn(s, a, es, {}, held)
  <2>1. {es[n].id : n \in 1..Len(es)} = PendingIds(m)
    <3>1. \A i \in 1..m.pending : es[i].id = m.seen[Stored(m) + i]
      BY <1>6
    <3>2. Len(es) = m.pending
      BY <1>6
    <3> QED
      BY <3>1, <3>2 DEF PendingIds
  <2>2. /\ OwnIds(held) = {}
        /\ held # Nothing => PendingIds(held) = {}
    BY <1>4 DEF OwnIds, PendingIds, StagedIds
  <2>3. PendingIds(m) \subseteq OwnIds(m)
    BY <1>2 DEF OwnIds
  <2> QED
    BY <1>1, <2>1, <2>2, <2>3 DEF MovesOwn
<1>15. raised' \in [Aggregate -> Nat] /\ \A b \in Aggregate : raised[b] <= raised'[b]
  BY <1>2 DEF SourcingInv, SourcingTypes, SourcingTypeOK
<1> QED
  BY <1>2, <1>4, <1>5, <1>6, <1>7, <1>9, <1>10, <1>12, <1>13, <1>14, <1>15, SessionMoves

\* Staged, and the session goes on: its new events are known as staged ones.
LEMMA SaveStagedKeeps ==
  ASSUME SourcingInv, NEW s \in Session, Save(s), setup.commits, UNCHANGED withdrawn,
         NEW held \in Held, Hold(s, held), held.of = session[s].of,
         held.seen = session[s].seen, held.pending = 0,
         held.staged = session[s].staged \o Pulled(session[s])
  PROVE  SourcingInv'
<1>1. PICK m : m = session[s]
  OBVIOUS
<1>2. /\ m \in Held /\ m # Nothing /\ Open(s) /\ m.of \in Aggregate
      /\ HeldInv(m) /\ StagedInv(m) /\ m.staged \in Seq(Event)
      /\ m.pending > 0 /\ m.pending \in Nat /\ m.pending <= Len(m.seen) /\ m.seen \in Seq(Nat)
      /\ Stored(m) \in Nat /\ Stored(m) + m.pending = Len(m.seen)
      /\ Len(streams[m.of]) = Stored(m) - Len(m.staged)
      /\ UNCHANGED <<setup, snapshot, raised, schema>> /\ (MayFail \/ UNCHANGED faults)
      /\ UNCHANGED <<streams, log>>
  BY <1>1, SaveEffect
<1>3. PICK a \in Aggregate : a = m.of
  BY <1>2
<1>4. PICK n \in Nat : n = Len(m.staged)
  BY <1>2
<1>5. PICK st \in Nat : st = Stored(m)
  BY <1>2
<1>6. PICK p \in Nat : p = m.pending
  BY <1>2
<1>7. PICK both : both = m.staged \o Pulled(m)
  OBVIOUS
<1>8. PICK old \in Nat : old = Len(streams[a]) /\ st = old + n
  <2>1. Len(streams[a]) \in Nat
    BY DEF SourcingInv, SourcingTypes, LogTypeOK
  <2> QED
    BY <1>2, <1>3, <1>4, <1>5, <2>1
<1>9. /\ held.of = a /\ held.seen = m.seen /\ held.pending = 0
      /\ held.staged = both /\ held # Nothing
  BY <1>1, <1>3, <1>7, NothingAssumption
<1>10. /\ Len(both) = n + p
       /\ \A k \in 1..n : k \in 1..(n + p) /\ both[k] = m.staged[k]
       /\ \A i \in 1..p :
             /\ n + i \in 1..(n + p)
             /\ both[n + i].id = m.seen[st + i]
             /\ Len(both[n + i].on) = st + i - 1
             /\ \A j \in 1..(st + i - 1) : both[n + i].on[j] = m.seen[j]
  <2>1. /\ m \in Held /\ m.pending <= Len(m.seen) /\ n = Len(m.staged) /\ st = Stored(m)
        /\ p = m.pending /\ both = m.staged \o Pulled(m)
    BY <1>2, <1>4, <1>5, <1>6, <1>7
  <2>2. StagedShape(m, n, st, p, both)
    BY <2>1, StagedThen
  <2> QED
    BY <2>2 DEF StagedShape
<1>11. Len(m.seen) = st + p /\ p > 0
  BY <1>2, <1>5, <1>6
<1>12. /\ <<>> \in Seq(Event) /\ Appends(a, <<>>) /\ AppendFits(a, <<>>)
       /\ {<<>>[i].id : i \in 1..Len(<<>>)} = {} /\ Withdraws(a, {})
  BY <1>2, NothingAppended, NothingWithdrawn
<1>13. StagedGoesOn(s)
  <2>1. \A k \in 1..Len(session[s].staged) :
           k \in 1..Len(held.staged) /\ held.staged[k] = session[s].staged[k]
    BY <1>1, <1>4, <1>9, <1>10
  <2> QED
    BY <1>1, <1>2, <1>3, <1>9, <2>1, StagedOn
<1>14. session'[s] = held
  BY DEF Hold, SourcingInv, SourcingTypes, SourcingTypeOK
<1>15. ASSUME NEW j \in 1..(st + p) PROVE Known(a, j, m.seen[j])'
  <2>1. CASE j \in 1..st
    <3>1. Known(a, j, m.seen[j]) /\ j \in Nat
      BY <1>2, <1>3, <1>5, <2>1 DEF HeldInv
    <3> QED
      BY <1>2, <1>12, <1>13, <3>1, KnownStays
  <2>2. CASE j \notin 1..st
    <3>1. PICK i \in 1..p : j = st + i
      BY <2>2, SeenSplit
    <3>2. n + i \in 1..Len(held.staged) /\ held.staged[n + i].id = m.seen[j]
      BY <1>9, <1>10, <3>1
    <3>3. Len(held.staged[n + i].on) = j - 1
      BY <1>9, <1>10, <3>1
    <3>4. HasStaged(s, a, j, m.seen[j])'
      BY <1>9, <1>14, <3>2, <3>3 DEF HasStaged
    <3> QED
      BY <1>2, <3>4 DEF Known, Outlived
  <2> QED
    BY <2>1, <2>2
<1>16. HeldInv(held)'
  <2>1. Stored(held) = st + p
    BY <1>9, <1>11 DEF Stored
  <2>2. held.pending <= Len(held.seen)
    BY <1>9, <1>11
  <2>3. ASSUME NEW j \in 1..Stored(held) PROVE Known(held.of, j, held.seen[j])'
    BY <1>9, <1>15, <2>1
  <2> QED
    BY <1>9, <2>2, <2>3 DEF HeldInv, Stored
<1>17. ASSUME NEW k \in 1..(n + p), NEW x, x = both[k], NEW j \in 1..Len(x.on)
       PROVE  Known(a, j, x.on[j])'
  <2>1. CASE k \in 1..n
    <3>1. x = m.staged[k] /\ k \in 1..Len(m.staged) /\ m.staged # <<>>
      BY <1>4, <1>10, <1>17, <2>1
    <3>2. Known(a, j, x.on[j]) /\ j \in Nat
      BY <1>2, <1>3, <3>1 DEF StagedInv
    <3> QED
      BY <1>2, <1>12, <1>13, <3>2, KnownStays
  <2>2. CASE k \notin 1..n
    <3>1. PICK i \in 1..p : k = n + i
      BY <2>2, SeenSplit
    <3>2. /\ Len(x.on) = st + i - 1
          /\ \A l \in 1..(st + i - 1) : x.on[l] = m.seen[l]
      BY <1>10, <1>17, <3>1
    <3>3. x.on[j] = m.seen[j] /\ j \in 1..(st + i - 1)
      BY <3>2
    <3>4. j \in 1..(st + p)
      BY <3>3
    <3>5. Known(a, j, m.seen[j])'
      BY <1>15, <3>4
    <3> QED
      BY <3>3, <3>5
  <2> QED
    BY <2>1, <2>2
<1>18. ASSUME n = 0
       PROVE  /\ Len(both[1].on) = old
              /\ \A k \in 1..(n + p) : Len(both[k].on) = old + k - 1
  <2>1. ASSUME NEW k \in 1..(n + p) PROVE Len(both[k].on) = old + k - 1
    <3>1. k \in 1..p /\ n + k = k /\ st = old
      BY <1>8, <1>18
    <3> QED
      BY <1>10, <3>1
  <2>2. 1 \in 1..(n + p) /\ old + 1 - 1 = old
    BY <1>11, <1>18
  <2> QED
    BY <2>1, <2>2
<1>19. ASSUME n # 0
       PROVE  /\ Len(both[1].on) <= old
              /\ Len(both[1].on) = old =>
                    \A k \in 1..(n + p) : Len(both[k].on) = old + k - 1
  <2>1. 1 \in 1..n
    BY <1>19
  <2>2. both[1] = m.staged[1] /\ m.staged # <<>>
    BY <1>4, <1>10, <2>1
  <2>3. /\ Len(m.staged[1].on) <= old
        /\ Len(m.staged[1].on) = old =>
              \A k \in 1..n : Len(m.staged[k].on) = old + k - 1
    BY <1>2, <1>3, <1>4, <1>8, <2>2 DEF StagedInv, InRow
  <2>4. ASSUME Len(m.staged[1].on) = old, NEW k \in 1..(n + p)
        PROVE  Len(both[k].on) = old + k - 1
    <3>1. CASE k \in 1..n
      BY <1>10, <2>3, <2>4, <3>1
    <3>2. CASE k \notin 1..n
      <4>1. PICK i \in 1..p : k = n + i
        BY <3>2, SeenSplit
      <4>2. Len(both[k].on) = st + i - 1
        BY <1>10, <4>1
      <4>3. \A x, y, z \in Nat : (x + y) + z = x + (y + z)
        OBVIOUS
      <4>4. i \in Nat /\ st = old + n /\ k = n + i
        BY <1>8, <4>1
      <4>5. st + i - 1 = old + k - 1
        BY <4>3, <4>4
      <4> QED
        BY <4>2, <4>5
    <3> QED
      BY <3>1, <3>2
  <2> QED
    BY <2>2, <2>3, <2>4
<1>20. StagedInv(held)'
  <2>1. /\ Len(held.staged[1].on) <= Len(streams'[held.of])
        /\ Len(held.staged[1].on) = Len(streams'[held.of]) => InRow(held)
    <3>1. Len(streams'[held.of]) = old
      BY <1>2, <1>8, <1>9
    <3>2. \/ Len(both[1].on) = old /\ \A k \in 1..(n + p) : Len(both[k].on) = old + k - 1
          \/ /\ Len(both[1].on) <= old
             /\ Len(both[1].on) = old =>
                   \A k \in 1..(n + p) : Len(both[k].on) = old + k - 1
      BY <1>18, <1>19
    <3>3. Len(both[1].on) <= old
      BY <3>2
    <3>4. ASSUME Len(both[1].on) = old PROVE InRow(held)
      BY <1>9, <1>10, <3>2, <3>4 DEF InRow
    <3> QED
      BY <1>9, <3>1, <3>3, <3>4
  <2>2. ASSUME NEW k \in 1..Len(held.staged), NEW j \in 1..Len(held.staged[k].on)
        PROVE  Known(held.of, j, held.staged[k].on[j])'
    BY <1>9, <1>10, <1>17
  <2> QED
    BY <1>2, <2>1, <2>2 DEF StagedInv, InRow
<1>21. Fine(held)'
  BY <1>16, <1>20 DEF Fine
<1>22. MovesOwn(s, a, <<>>, {}, held)
  <2>1. ASSUME NEW x \in StagedIds(held) PROVE x \in OwnIds(m)
    <3>1. PICK k \in 1..(n + p) : x = both[k].id
      BY <1>9, <1>10 DEF StagedIds
    <3>2. CASE k \in 1..n
      <4>1. k \in 1..Len(m.staged) /\ both[k] = m.staged[k]
        BY <1>4, <1>10, <3>2
      <4> QED
        BY <1>2, <3>1, <4>1 DEF OwnIds, StagedIds
    <3>3. CASE k \notin 1..n
      <4>1. PICK i \in 1..p : k = n + i
        BY <3>3, SeenSplit
      <4>2. x = m.seen[Stored(m) + i] /\ i \in 1..m.pending
        BY <1>5, <1>6, <1>10, <3>1, <4>1
      <4> QED
        BY <1>2, <4>2 DEF OwnIds, PendingIds
    <3> QED
      BY <3>2, <3>3
  <2>2. PendingIds(held) = {}
    BY <1>9 DEF PendingIds
  <2>3. OwnIds(held) \subseteq OwnIds(m)
    BY <2>1, <2>2 DEF OwnIds
  <2> QED
    BY <1>1, <1>12, <2>2, <2>3 DEF MovesOwn
<1>23. raised' \in [Aggregate -> Nat] /\ \A b \in Aggregate : raised[b] <= raised'[b]
  BY <1>2 DEF SourcingInv, SourcingTypes, SourcingTypeOK
<1>24. /\ session[s] # Nothing => session[s].of = a
       /\ held # Nothing => held.of = a
  BY <1>1, <1>3, <1>9
<1> QED
  BY <1>2, <1>12, <1>13, <1>21, <1>22, <1>23, <1>24, SessionMoves

LEMMA SaveKeeps ==
  ASSUME SourcingInv, NEW s \in Session, Save(s)
  PROVE  SourcingInv'
<1>1. PICK m : m = session[s]
  OBVIOUS
<1>2. /\ m \in Held /\ m # Nothing /\ Open(s) /\ m.of \in Aggregate
      /\ m.pending <= Len(m.seen) /\ m.staged \in Seq(Event)
      /\ UNCHANGED <<setup, snapshot, raised, schema>> /\ (MayFail \/ UNCHANGED faults)
      /\ setup.commits => UNCHANGED <<streams, log>>
  BY <1>1, SaveEffect
<1>3. CASE ~setup.commits
  BY <1>3, SaveAtOnceKeeps
<1>4. CASE setup.commits
  <2> DEFINE kept == m.staged \o Pulled(m)
  <2>1. CASE /\ \/ withdrawn' = withdrawn
                \/ withdrawn' = [withdrawn EXCEPT ![m.of] = @ \cup {}]
             /\ \E held \in Held : /\ Hold(s, held) /\ held.of = m.of
                                   /\ held.seen = m.seen /\ held.pending = 0
                                   /\ held.staged = kept
    <3>1. UNCHANGED withdrawn
      <4>1. withdrawn \in [Aggregate -> SUBSET Nat] /\ withdrawn[m.of] \cup {} = withdrawn[m.of]
        BY DEF SourcingInv, SourcingTypes, SourcingTypeOK
      <4>2. withdrawn = [withdrawn EXCEPT ![m.of] = withdrawn[m.of]]
        BY <4>1
      <4> QED
        BY <2>1, <4>1, <4>2, Zenon
    <3> QED
      BY <1>1, <1>4, <2>1, <3>1, SaveStagedKeeps
  <2>2. CASE /\ Hold(s, Nothing)
             /\ withdrawn' = [withdrawn EXCEPT ![m.of] = @ \cup {} \cup IdsIn(kept)]
    <3>1. PICK n \in Nat, st \in Nat, p \in Nat, both \in {kept} :
             /\ n = Len(m.staged) /\ st = Stored(m) /\ p = m.pending /\ both = kept
      <4>1. Len(m.staged) \in Nat /\ Stored(m) \in Nat /\ m.pending \in Nat
        BY <1>1, <1>2, HeldTyped
      <4> QED
        BY <4>1
    <3>2. StagedShape(m, n, st, p, both)
      BY <1>2, <3>1, StagedThen
    <3>3. IdsIn(both) = {both[k].id : k \in 1..(n + p)}
      <4>1. DOMAIN both = 1..(n + p)
        BY <3>2 DEF StagedShape
      <4> QED
        BY <4>1 DEF IdsIn
    <3>4. IdsIn(both) \subseteq OwnIds(m)
      <4> SUFFICES ASSUME NEW k \in 1..(n + p) PROVE both[k].id \in OwnIds(m)
        BY <3>3
      <4>1. CASE k \in 1..n
        <5>1. both[k] = m.staged[k] /\ k \in 1..Len(m.staged)
          BY <3>1, <3>2, <4>1 DEF StagedShape
        <5> QED
          BY <1>2, <5>1 DEF OwnIds, StagedIds
      <4>2. CASE k \notin 1..n
        <5>1. PICK i \in 1..p : k = n + i
          BY <4>2, SeenSplit
        <5>2. both[k].id = m.seen[Stored(m) + i] /\ i \in 1..m.pending
          BY <3>1, <3>2, <5>1 DEF StagedShape
        <5> QED
          BY <1>2, <5>2 DEF OwnIds, PendingIds
      <4> QED
        BY <4>1, <4>2
    <3>5. StagedIds(m) \subseteq IdsIn(both)
      <4> SUFFICES ASSUME NEW k \in 1..n PROVE m.staged[k].id \in IdsIn(both)
        BY <3>1 DEF StagedIds
      <4>1. k \in 1..(n + p) /\ both[k] = m.staged[k]
        BY <3>2 DEF StagedShape
      <4> QED
        BY <3>3, <4>1
    <3>6. Withdraws(m.of, IdsIn(both))
      <4>1. IdsIn(both) \in SUBSET Nat
        BY <1>1, <1>2, <3>4, OwnNat
      <4>2. withdrawn' = [withdrawn EXCEPT ![m.of] = @ \cup IdsIn(both)]
        <5>1. withdrawn[m.of] \cup {} \cup IdsIn(both) = withdrawn[m.of] \cup IdsIn(both)
          OBVIOUS
        <5> QED
          BY <2>2, <3>1, <5>1
      <4> QED
        BY <1>2, <4>1, <4>2, WithdrawnThen
    <3> QED
      BY <1>1, <1>2, <1>4, <2>2, <3>4, <3>5, <3>6, SessionHolds
  <2> QED
    BY <1>1, <1>4, <2>1, <2>2, SaveEffect
<1> QED
  BY <1>3, <1>4

LEMMA SourcingStep == SourcingInv /\ [Next]_vars => SourcingInv'
<1> SUFFICES ASSUME SourcingInv, [Next]_vars PROVE SourcingInv'
  OBVIOUS
<1>1. CASE SourcingNext
  <2>1. CASE Deploy
    BY <2>1, DeployKeeps
  <2>2. ASSUME NEW s \in Session, SessionStep(s) PROVE SourcingInv'
    BY <2>2, FindSnapshotKeeps, ReadStreamKeeps, RaiseKeeps, SaveKeeps, SaveRejectedKeeps,
       TakeSnapshotKeeps, SnapshotRaisesKeeps, CommitKeeps, RollbackKeeps, CloseKeeps
       DEF SessionStep
  <2> QED
    BY <1>1, <2>1, <2>2 DEF SourcingNext
<1>2. schema \in 1..MaxSchema
  BY DEF SourcingInv, SourcingTypes, SourcingTypeOK
<1>3. CASE RunnerNext /\ UNCHANGED sourcingVars
  <2>1. MayFail \/ UNCHANGED faults
    BY <1>3 DEF RunnerNext, Progress, Run, RequestStop, LoadCheckpoint, ReadAll,
       Dispatch, Process, ProcessRaises, SaveCheckpoint, Crash
  <2> QED
    BY <1>2, <1>3, <2>1, RunnersOnlyRead, SourcingUntouched DEF sourcingVars
<1>4. CASE UNCHANGED vars
  BY <1>2, <1>4, SourcingUntouched DEF vars, logVars, sourcingVars
<1> QED
  BY <1>1, <1>3, <1>4 DEF Next

-----------------------------------------------------------------------------
(* The theorems.                                                              *)

\* Sessions and snapshots have the values SourcingTypes names, for every
\* number of aggregates, sessions and runners.
THEOREM SourcingTypeCorrect == Spec => []SourcingTypes
<1>1. SourcingInv => SourcingTypes
  BY DEF SourcingInv
<1> QED
  BY <1>1, SourcingStarts, SourcingStep, PTL DEF Spec

\* What is known of an aggregate but not stored is a phantom.
LEMMA KnownOrPhantom ==
  ASSUME SourcingInv, NEW a \in Aggregate, NEW j \in Nat, NEW e, Known(a, j, e)
  PROVE  \/ j \in 1..Len(streams[a]) /\ streams[a][j].id = e
         \/ Outlived /\ Phantom(a, e)
<1>1. CASE Outlived /\ \E s \in Session : HasStaged(s, a, j, e)
  <2>1. PICK s \in Session : HasStaged(s, a, j, e)
    BY <1>1
  <2>2. Open(s) /\ session[s].of = a /\ e \in StagedIds(session[s])
    BY <2>1 DEF HasStaged, Open, StagedIds
  <2>3. e \in IdsIn(session[s].staged)
    BY <2>2, HeldTyped, IdsInStaged
  <2> QED
    BY <1>1, <2>2, <2>3 DEF Phantom
<1> QED
  BY <1>1 DEF Known, Phantom

\* Every stored event has the version it was decided for and was decided on
\* the events before it, or on phantoms where objects or snapshots outlive an
\* append, and no phantom is stored: for every number of sessions, thresholds,
\* schemas and faults, and whether appends take effect at once or with a commit.
THEOREM EventsDecidedOnStoredState == Spec => []DecidedOnStoredState
<1>1. SourcingInv => DecidedOnStoredState
  <2> SUFFICES ASSUME SourcingInv, NEW a \in Aggregate, NEW i \in DOMAIN streams[a]
               PROVE  /\ Len(streams[a][i].on) = i - 1
                      /\ \A j \in 1..(i - 1) :
                            \/ streams[a][i].on[j] = streams[a][j].id
                            \/ Outlived /\ Phantom(a, streams[a][i].on[j])
                      /\ ~Phantom(a, streams[a][i].id)
    BY DEF DecidedOnStoredState
  <2>1. i \in 1..Len(streams[a]) /\ Len(streams[a]) \in Nat
    BY DEF SourcingInv, SourcingTypes, LogTypeOK
  <2>2. EventInv(a, i, streams[a][i])
    BY <2>1 DEF SourcingInv, StreamInv
  <2>3. ASSUME NEW j \in 1..(i - 1)
        PROVE  \/ streams[a][i].on[j] = streams[a][j].id
               \/ Outlived /\ Phantom(a, streams[a][i].on[j])
    <3>1. Known(a, j, streams[a][i].on[j]) /\ j \in Nat
      BY <2>2 DEF EventInv
    <3> QED
      BY <3>1, KnownOrPhantom
  <2>4. ~Phantom(a, streams[a][i].id)
    <3>1. streams[a][i].id \in StoredIds(a)
      BY <2>1 DEF StoredIds
    <3>2. streams[a][i].id \notin withdrawn[a]
      BY <3>1 DEF SourcingInv, OnePlace
    <3>3. ASSUME NEW s \in Session, Open(s), session[s].of = a
          PROVE  streams[a][i].id \notin IdsIn(session[s].staged)
      <4>1. session[s] # Nothing /\ IdsIn(session[s].staged) = StagedIds(session[s])
        BY <3>3, HeldTyped, IdsInStaged
      <4>2. StagedIds(session[s]) \subseteq OwnIds(session[s])
        BY <4>1 DEF OwnIds
      <4>3. OwnIds(session[s]) \cap StoredIds(a) = {}
        BY <3>3, <4>1 DEF SourcingInv, OnePlace
      <4> QED
        BY <3>1, <4>1, <4>2, <4>3
    <3> QED
      BY <3>2, <3>3 DEF Phantom
  <2> QED
    BY <2>2, <2>3, <2>4 DEF EventInv
<1> QED
  BY <1>1, SourcingStarts, SourcingStep, PTL DEF Spec

\* The last snapshot of an aggregate agrees with its stream at every position
\* but for phantoms, and without commits and kept objects at every position,
\* whoever wrote it: for every number of sessions and faults.
THEOREM SnapshotsMatchStream == Spec => []SnapshotMatchesStream
<1>1. SourcingInv => SnapshotMatchesStream
  <2> SUFFICES ASSUME SourcingInv, NEW a \in Aggregate, snapshot[a] # Nothing,
                      NEW j \in DOMAIN snapshot[a].seen
               PROVE  \/ j \in DOMAIN streams[a] /\ snapshot[a].seen[j] = streams[a][j].id
                      \/ Outlived /\ Phantom(a, snapshot[a].seen[j])
    BY DEF SnapshotMatchesStream
  <2>1. j \in 1..Len(snapshot[a].seen) /\ DOMAIN streams[a] = 1..Len(streams[a])
    BY DEF SourcingInv, SourcingTypes, LogTypeOK, SourcingTypeOK, Snapshot
  <2>2. Known(a, j, snapshot[a].seen[j]) /\ j \in Nat
    BY <2>1 DEF SourcingInv, SnapshotInv
  <2> QED
    BY <2>1, <2>2, KnownOrPhantom
<1> QED
  BY <1>1, SourcingStarts, SourcingStep, PTL DEF Spec
=============================================================================
