------------------------- MODULE SubscriptionProofs -------------------------
(* Theorems about SubscriptionRunner for any number of subscriptions and      *)
(* runners: checkpoints cover what was fed, and the runners are a             *)
(* ProjectionFeed in every step.                                              *)
EXTENDS EventSourcingProofs

\* The positions of a log behind one and up to another that are fed.
Positions(l, sub, from, to) == {i \in (from + 1)..to : l[i].of \in Types[sub]}

\* A projection was fed all that is before a position of the log.
Covers(l, f, sub, n) ==
    /\ n \in 0..Len(l)
    /\ Positions(l, sub, 0, n) \subseteq f[sub]

\* What a loop holds: checkpoints that were covered when it read them still
\* are, and a subscription is saved only when its batch was fed.
LoopInv(m, subs, l, f) ==
    /\ subs # <<>>
    /\ m.at = "load" => Len(m.loaded) < Len(subs)
    /\ m.at # "load" => Len(m.loaded) = Len(subs)
    /\ \A i \in 1..Len(m.loaded) : Covers(l, f, subs[i], m.loaded[i])
    /\ m.end \in 0..Len(l)
    /\ m.turn >= 1
    /\ m.at \in {"process", "save"} =>
          m.turn <= Len(subs) /\ m.loaded[m.turn] <= m.end
    /\ m.at = "save" => Covers(l, f, subs[m.turn], m.end)

CheckpointInv == \A sub \in Subscription : Covers(log, fed, sub, checkpoint[sub])

FedInv ==
    \A sub \in Subscription :
        \E n \in 0..Len(log) : fed[sub] = Positions(log, sub, 0, n)

LoopsInv ==
    \A r \in Runner : runner[r] # Stopped => LoopInv(runner[r], setup.subs, log, fed)

RunnerInv == RunnerTypeOK /\ CheckpointInv /\ FedInv /\ LoopsInv

-----------------------------------------------------------------------------
(* A growing log.                                                             *)

Extends(l, longer) ==
    /\ Len(l) \in Nat /\ Len(longer) \in Nat
    /\ Len(l) <= Len(longer)
    /\ \A i \in 1..Len(l) : longer[i] = l[i]

LEMMA PositionsStay ==
  ASSUME NEW l, NEW longer, Extends(l, longer), NEW sub,
         NEW from \in Nat, NEW to \in 0..Len(l)
  PROVE  Positions(longer, sub, from, to) = Positions(l, sub, from, to)
<1>1. \A i \in (from + 1)..to : i \in 1..Len(l)
  BY DEF Extends
<1>2. \A i \in (from + 1)..to : longer[i] = l[i]
  BY <1>1 DEF Extends
<1> QED
  BY <1>2 DEF Positions

LEMMA CoversStays ==
  ASSUME NEW l, NEW longer, Extends(l, longer), NEW sub, NEW n,
         NEW f, NEW more, f[sub] \subseteq more[sub], Covers(l, f, sub, n)
  PROVE  Covers(longer, more, sub, n)
<1>1. n \in 0..Len(l) /\ n \in 0..Len(longer)
  BY DEF Covers, Extends
<1>2. Positions(longer, sub, 0, n) = Positions(l, sub, 0, n)
  BY <1>1, PositionsStay
<1> QED
  BY <1>1, <1>2 DEF Covers

LEMMA LoopStays ==
  ASSUME NEW l, NEW longer, Extends(l, longer),
         NEW f, NEW more, \A sub \in Subscription : f[sub] \subseteq more[sub],
         NEW subs \in Seq(Subscription), NEW m \in Loop, LoopInv(m, subs, l, f)
  PROVE  LoopInv(m, subs, longer, more)
<1>1. Len(m.loaded) \in Nat /\ Len(subs) \in Nat /\ m.turn \in Nat
  BY DEF Loop
<1>2. \A i \in 1..Len(subs) : subs[i] \in Subscription
  BY ElementOfSeq
<1>3. ASSUME NEW i \in 1..Len(m.loaded)
      PROVE  Covers(longer, more, subs[i], m.loaded[i])
  <2>1. subs[i] \in Subscription /\ Covers(l, f, subs[i], m.loaded[i])
    BY <1>1, <1>2 DEF LoopInv
  <2> QED
    BY <2>1, CoversStays
<1>4. ASSUME m.at = "save" PROVE Covers(longer, more, subs[m.turn], m.end)
  <2>1. m.turn \in 1..Len(subs) /\ Covers(l, f, subs[m.turn], m.end)
    BY <1>1, <1>4 DEF LoopInv
  <2> QED
    BY <1>2, <2>1, CoversStays
<1>5. m.end \in 0..Len(longer)
  BY DEF LoopInv, Extends
<1> QED
  BY <1>3, <1>4, <1>5 DEF LoopInv

\* What an append does to the log.
LEMMA LogGrows ==
  ASSUME SourcingInv, NEW s \in Session, Save(s) \/ Commit(s), log' # log
  PROVE  /\ Extends(log, log')
         /\ Len(log') > Len(log)
         /\ SubSeq(log', 1, Len(log)) = log
<1>1. log \in Seq(Event)
  BY DEF SourcingInv, SourcingTypes, LogTypeOK
<1>2. PICK es \in Seq(Event) : Len(es) > 0 /\ log' = log \o es
  <2>1. CASE Save(s)
    <3>1. /\ session[s] \in Held /\ session[s].pending > 0
          /\ session[s].pending <= Len(session[s].seen)
          /\ ~setup.commits => AppendToStream(session[s].of, Pulled(session[s]))
          /\ setup.commits => UNCHANGED log
      BY <2>1, SaveEffect
    <3>2. /\ Pulled(session[s]) \in Seq(Event)
          /\ Len(Pulled(session[s])) = session[s].pending
      BY <3>1, PulledFacts
    <3> QED
      BY <3>1, <3>2 DEF AppendToStream
  <2>2. CASE Commit(s)
    <3>1. session[s].staged \in Seq(Event)
      BY <2>2, HeldTyped DEF Commit, At
    <3>2. session[s].staged # <<>> /\ log' = log \o session[s].staged
      BY <2>2 DEF Commit, AppendToStream
    <3>3. Len(session[s].staged) > 0
      BY <3>1, <3>2
    <3> QED
      BY <3>1, <3>2, <3>3
  <2> QED
    BY <2>1, <2>2
<1>4. /\ log' \in Seq(Event) /\ Len(log') = Len(log) + Len(es)
      /\ \A i \in 1..Len(log) + Len(es) :
            log'[i] = IF i <= Len(log) THEN log[i] ELSE es[i - Len(log)]
  BY <1>1, <1>2, ConcatProperties
<1>5. Len(log) \in Nat /\ Len(es) \in Nat /\ Len(es) > 0
  BY <1>1, <1>2
<1>6. Extends(log, log') /\ Len(log') > Len(log)
  BY <1>4, <1>5 DEF Extends
<1> DEFINE n == Len(log)
           front == SubSeq(log', 1, n)
<1> HIDE DEF n
<1>7. \A i \in 1..n : log'[i] \in Event /\ log'[i] = log[i]
  BY <1>4, <1>5, <1>6, ElementOfSeq DEF Extends, n
<1>8. /\ front \in Seq(Event)
      /\ Len(front) = IF 1 <= n THEN n - 1 + 1 ELSE 0
      /\ \A i \in 1..(n - 1 + 1) : front[i] = log'[1 + i - 1]
  BY <1>4, <1>5, <1>7, SubSeqProperties DEF n
<1> HIDE DEF front
<1>9. Len(front) = n /\ \A i \in 1..n : front[i] = log[i]
  BY <1>5, <1>7, <1>8 DEF n
<1>10. front = log
  BY <1>1, <1>8, <1>9, SeqEqual DEF n
<1> QED
  BY <1>6, <1>10 DEF front, n

-----------------------------------------------------------------------------
(* Feeding.                                                                   *)

\* Feeding what is behind a covered position extends the front that was fed,
\* or adds nothing.
LEMMA FrontExtends ==
  ASSUME NEW l, Len(l) \in Nat, NEW sub, NEW k \in 0..Len(l),
         NEW from \in Nat, NEW to \in 0..Len(l), from <= to,
         Positions(l, sub, 0, from) \subseteq Positions(l, sub, 0, k)
  PROVE  \/ Positions(l, sub, 0, k) \cup Positions(l, sub, from, to)
               = Positions(l, sub, 0, k)
         \/ Positions(l, sub, 0, k) \cup Positions(l, sub, from, to)
               = Positions(l, sub, 0, to)
<1>1. CASE to <= k
  BY <1>1 DEF Positions
<1>2. CASE ~(to <= k)
  <2>1. Positions(l, sub, 0, k) \cup Positions(l, sub, from, to)
           \subseteq Positions(l, sub, 0, to)
    BY <1>2 DEF Positions
  <2>2. ASSUME NEW i \in Positions(l, sub, 0, to)
        PROVE  i \in Positions(l, sub, 0, k) \cup Positions(l, sub, from, to)
    <3>1. CASE i <= from
      BY <3>1 DEF Positions
    <3>2. CASE ~(i <= from)
      BY <3>2 DEF Positions
    <3> QED
      BY <3>1, <3>2
  <2> QED
    BY <2>1, <2>2
<1> QED
  BY <1>1, <1>2

LEMMA CoveredThenFed ==
  ASSUME NEW l, NEW f, NEW sub, NEW from \in Nat, NEW to \in 0..Len(l), Len(l) \in Nat,
         Covers(l, f, sub, from), Positions(l, sub, from, to) \subseteq f[sub]
  PROVE  Covers(l, f, sub, to)
<1>1. ASSUME NEW i \in Positions(l, sub, 0, to) PROVE i \in f[sub]
  <2>1. CASE i <= from
    BY <2>1 DEF Covers, Positions
  <2>2. CASE ~(i <= from)
    BY <2>2 DEF Positions
  <2> QED
    BY <2>1, <2>2
<1> QED
  BY <1>1 DEF Covers

LEMMA Feeding ==
  ASSUME LogTypeOK, RunnerInv, UNCHANGED <<setup, log>>,
         NEW sub \in {Subs[i] : i \in DOMAIN Subs}, sub \in Subscription,
         NEW from \in Nat, NEW to \in 0..Len(log), from <= to,
         Covers(log, fed, sub, from),
         fed' = [fed EXCEPT ![sub] = @ \cup Positions(log, sub, from, to)]
  PROVE  /\ fed' = fed \/ Feed!FFeed(sub)
         /\ FedInv'
         /\ fed' \in [Subscription -> SUBSET Nat]
         /\ \A q \in Subscription : fed[q] \subseteq fed'[q]
         /\ Covers(log, fed', sub, to)
<1>1. Len(log) \in Nat /\ fed \in [Subscription -> SUBSET Nat]
  BY DEF LogTypeOK, RunnerInv, RunnerTypeOK
<1>2. PICK k \in 0..Len(log) : fed[sub] = Positions(log, sub, 0, k)
  BY DEF RunnerInv, FedInv
<1>3. /\ fed'[sub] = fed[sub] \cup Positions(log, sub, from, to)
      /\ \A q \in Subscription \ {sub} : fed'[q] = fed[q]
  BY <1>1
<1>4. Positions(log, sub, 0, from) \subseteq Positions(log, sub, 0, k)
  BY <1>2 DEF Covers
<1>5. fed'[sub] = fed[sub] \/ fed'[sub] = Positions(log, sub, 0, to)
  BY <1>1, <1>2, <1>3, <1>4, FrontExtends
<1>6. fed' = fed \/ Feed!FFeed(sub)
  <2>1. CASE fed'[sub] = fed[sub]
    BY <1>1, <2>1
  <2>2. CASE fed'[sub] # fed[sub]
    <3>1. fed'[sub] = Positions(log, sub, 0, to) /\ Positions(log, sub, 0, to) # fed[sub]
      BY <1>5, <2>2
    <3>2. fed' = [fed EXCEPT ![sub] = Positions(log, sub, 0, to)]
      BY <1>1, <3>1
    <3>3. ~(Positions(log, sub, 0, to) \subseteq fed[sub])
      BY <1>3, <3>1
    <3>4. to \in DOMAIN log
      <4>1. to # 0
        BY <3>3 DEF Positions
      <4> QED
        BY <1>1, <4>1 DEF LogTypeOK
    <3>5. Feed!Matching(sub, to) = Positions(log, sub, 0, to)
      BY DEF Feed!Matching, Positions
    <3>6. UNCHANGED <<{Subs[i] : i \in DOMAIN Subs}, log>>
      BY DEF Subs
    <3>7. \E n \in DOMAIN log :
             /\ ~(Feed!Matching(sub, n) \subseteq fed[sub])
             /\ fed' = [fed EXCEPT ![sub] = Feed!Matching(sub, n)]
      BY <3>2, <3>3, <3>4, <3>5
    <3> QED
      BY <3>6, <3>7 DEF Feed!FFeed
  <2> QED
    BY <2>1, <2>2
<1>7. FedInv'
  <2> SUFFICES ASSUME NEW q \in Subscription
               PROVE  \E n \in 0..Len(log) : fed'[q] = Positions(log, q, 0, n)
    BY DEF FedInv, Positions
  <2>1. CASE q = sub
    BY <1>2, <1>5, <2>1
  <2>2. CASE q # sub
    BY <1>3, <2>2 DEF RunnerInv, FedInv
  <2> QED
    BY <2>1, <2>2
<1>8. fed' \in [Subscription -> SUBSET Nat]
  <2>1. Positions(log, sub, from, to) \in SUBSET Nat
    BY DEF Positions
  <2> QED
    BY <1>1, <2>1
<1>9. \A q \in Subscription : fed[q] \subseteq fed'[q]
  BY <1>3
<1>10. Covers(log, fed', sub, to)
  <2>1. Covers(log, fed', sub, from)
    BY <1>3 DEF Covers
  <2> QED
    BY <1>1, <1>3, <2>1, CoveredThenFed
<1> QED
  BY <1>6, <1>7, <1>8, <1>9, <1>10

-----------------------------------------------------------------------------
(* The invariant.                                                             *)

LEMMA RunnerStarts == Init => RunnerInv
<1> SUFFICES ASSUME Init PROVE RunnerInv
  OBVIOUS
<1> USE DEF Init, LogInit, RunnerInit
<1>1. RunnerTypeOK
  BY DEF RunnerTypeOK
<1>2. \A sub : Positions(log, sub, 0, 0) = {}
  BY DEF Positions
<1>3. CheckpointInv
  BY <1>2 DEF CheckpointInv, Covers
<1>4. FedInv
  BY <1>2 DEF FedInv
<1>5. LoopsInv
  BY DEF LoopsInv
<1> QED
  BY <1>1, <1>3, <1>4, <1>5 DEF RunnerInv

\* The sessions leave the runners alone, and the log only grows.
LEMMA SourcingKeepsRunners ==
  ASSUME SourcingInv, RunnerInv, UNCHANGED <<setup, runnerVars>>,
         UNCHANGED log \/ \E s \in Session : Save(s) \/ Commit(s)
  PROVE  RunnerInv'
<1>1. Extends(log, log')
  <2>1. Extends(log, log)
    BY DEF Extends, SourcingInv, SourcingTypes, LogTypeOK
  <2>2. CASE UNCHANGED log
    BY <2>1, <2>2
  <2>3. CASE ~(UNCHANGED log)
    BY <2>3, LogGrows
  <2> QED
    BY <2>2, <2>3
<1>2. /\ setup.subs \in Seq(Subscription)
      /\ runner \in [Runner -> Loop \cup {Stopped}]
      /\ fed' = fed /\ checkpoint' = checkpoint /\ runner' = runner
      /\ setup'.subs = setup.subs
  BY SetupTypes DEF SourcingInv, SourcingTypes, RunnerInv, RunnerTypeOK, runnerVars
<1>3. RunnerTypeOK'
  BY DEF RunnerInv, RunnerTypeOK, runnerVars
<1>4. ASSUME NEW sub \in Subscription PROVE Covers(log', fed, sub, checkpoint[sub])
  <2>1. Covers(log, fed, sub, checkpoint[sub])
    BY DEF RunnerInv, CheckpointInv
  <2> QED
    BY <1>1, <2>1, CoversStays
<1>5. CheckpointInv'
  BY <1>2, <1>4 DEF CheckpointInv
<1>6. FedInv'
  <2> SUFFICES ASSUME NEW sub \in Subscription
               PROVE  \E n \in 0..Len(log') : fed[sub] = Positions(log', sub, 0, n)
    BY <1>2 DEF FedInv, Positions
  <2>1. PICK n \in 0..Len(log) : fed[sub] = Positions(log, sub, 0, n)
    BY DEF RunnerInv, FedInv
  <2>2. Positions(log', sub, 0, n) = Positions(log, sub, 0, n)
    BY <1>1, PositionsStay
  <2>3. n \in 0..Len(log')
    BY <1>1 DEF Extends
  <2> QED
    BY <2>1, <2>2, <2>3
<1>7. ASSUME NEW r \in Runner, runner[r] # Stopped
      PROVE  LoopInv(runner[r], setup.subs, log', fed)
  <2>1. runner[r] \in Loop /\ LoopInv(runner[r], setup.subs, log, fed)
    BY <1>2, <1>7 DEF RunnerInv, LoopsInv
  <2> QED
    BY <1>1, <1>2, <2>1, LoopStays
<1>8. LoopsInv'
  BY <1>2, <1>7 DEF LoopsInv
<1> QED
  BY <1>3, <1>5, <1>6, <1>8 DEF RunnerInv

\* One loop goes on, and more may have been fed.
LEMMA LoopChanges ==
  ASSUME LogTypeOK, RunnerInv, UNCHANGED <<setup, log>>,
         NEW r \in Runner, NEW loop \in Loop \cup {Stopped}, Goes(r, loop),
         loop # Stopped => LoopInv(loop, setup.subs, log, fed'),
         FedInv', fed' \in [Subscription -> SUBSET Nat],
         \A sub \in Subscription : fed[sub] \subseteq fed'[sub],
         stopRequested' \in [Runner -> BOOLEAN],
         checkpoint' \in [Subscription -> Nat],
         \A sub \in Subscription : checkpoint'[sub] = checkpoint[sub]
                                      \/ Covers(log, fed', sub, checkpoint'[sub])
  PROVE  RunnerInv'
<1>1. Extends(log, log)
  BY DEF Extends, LogTypeOK
<1>2. /\ setup.subs \in Seq(Subscription) /\ setup'.subs = setup.subs
      /\ runner \in [Runner -> Loop \cup {Stopped}]
  BY SetupTypes DEF RunnerInv, RunnerTypeOK
<1>3. \A q \in Runner : runner'[q] = IF q = r THEN loop ELSE runner[q]
  BY <1>2 DEF Goes
<1>4. RunnerTypeOK'
  <2>1. runner' \in [Runner -> Loop \cup {Stopped}]
    BY <1>2 DEF Goes
  <2> QED
    BY <2>1 DEF RunnerTypeOK
<1>5. ASSUME NEW sub \in Subscription PROVE Covers(log, fed', sub, checkpoint'[sub])
  <2>1. Covers(log, fed, sub, checkpoint[sub])
    BY DEF RunnerInv, CheckpointInv
  <2>2. Covers(log, fed', sub, checkpoint[sub])
    BY <1>1, <2>1, CoversStays
  <2> QED
    BY <2>2
<1>6. CheckpointInv'
  BY <1>5 DEF CheckpointInv
<1>7. ASSUME NEW q \in Runner, runner'[q] # Stopped
      PROVE  LoopInv(runner'[q], setup.subs, log, fed')
  <2>1. CASE q = r
    BY <1>3, <1>7, <2>1
  <2>2. CASE q # r
    <3>1. runner'[q] = runner[q] /\ runner[q] \in Loop /\ runner[q] # Stopped
      BY <1>2, <1>3, <1>7, <2>2
    <3>2. LoopInv(runner[q], setup.subs, log, fed)
      BY <3>1 DEF RunnerInv, LoopsInv
    <3>3. LoopInv(runner[q], setup.subs, log, fed')
      BY <1>1, <1>2, <3>1, <3>2, LoopStays
    <3> QED
      BY <3>1, <3>3
  <2> QED
    BY <2>1, <2>2
<1>8. LoopsInv'
  BY <1>2, <1>7 DEF LoopsInv
<1> QED
  BY <1>4, <1>6, <1>8 DEF RunnerInv

LEMMA LoopTyped ==
  ASSUME LogTypeOK, RunnerInv, NEW r \in Runner, runner[r] # Stopped
  PROVE  /\ runner[r] \in Loop
         /\ LoopInv(runner[r], setup.subs, log, fed)
         /\ runner[r].loaded \in Seq(Nat) /\ Len(runner[r].loaded) \in Nat
         /\ runner[r].turn \in Nat /\ runner[r].end \in Nat
         /\ setup.subs \in Seq(Subscription) /\ Len(setup.subs) \in Nat
         /\ Len(log) \in Nat
<1>1. runner[r] \in Loop /\ LoopInv(runner[r], setup.subs, log, fed)
  BY DEF RunnerInv, RunnerTypeOK, LoopsInv
<1>2. setup.subs \in Seq(Subscription) /\ Len(log) \in Nat
  BY SetupTypes DEF LogTypeOK
<1> QED
  BY <1>1, <1>2 DEF Loop

\* A step of a loop that feeds nothing and saves nothing.
LEMMA LoopGoes ==
  ASSUME LogTypeOK, RunnerInv, UNCHANGED <<setup, log, checkpoint, fed>>,
         NEW r \in Runner, NEW loop \in Loop \cup {Stopped}, Goes(r, loop),
         loop # Stopped => LoopInv(loop, setup.subs, log, fed),
         stopRequested' \in [Runner -> BOOLEAN]
  PROVE  RunnerInv'
<1>1. FedInv' /\ fed' \in [Subscription -> SUBSET Nat]
      /\ checkpoint' \in [Subscription -> Nat]
  BY DEF FedInv, Positions, RunnerInv, RunnerTypeOK
<1> QED
  BY <1>1, LoopChanges

LEMMA StopsTyped ==
  ASSUME RunnerInv PROVE stopRequested \in [Runner -> BOOLEAN]
BY DEF RunnerInv, RunnerTypeOK

LEMMA NewCycleHolds ==
  ASSUME LogTypeOK, setup.subs # <<>>
  PROVE  NewCycle \in Loop /\ LoopInv(NewCycle, setup.subs, log, fed)
<1>1. setup.subs \in Seq(Subscription) /\ Len(log) \in Nat
  BY SetupTypes DEF LogTypeOK
<1>2. Len(setup.subs) \in Nat /\ Len(setup.subs) > 0
  BY <1>1
<1>3. /\ NewCycle.at = "load" /\ NewCycle.loaded = <<>> /\ NewCycle.end = 0
      /\ NewCycle.turn = 1 /\ Len(NewCycle.loaded) = 0
  BY DEF NewCycle
<1>4. LoopInv(NewCycle, setup.subs, log, fed)
  BY <1>1, <1>2, <1>3 DEF LoopInv
<1> QED
  BY <1>4 DEF NewCycle, Loop

LEMMA RunKeeps ==
  ASSUME LogTypeOK, RunnerInv, NEW r \in Runner, Run(r)
  PROVE  RunnerInv'
<1>1. NewCycle \in Loop /\ LoopInv(NewCycle, setup.subs, log, fed)
  BY NewCycleHolds DEF Run, Subs
<1>2. stopRequested' \in [Runner -> BOOLEAN]
  BY StopsTyped DEF Run
<1> QED
  BY <1>1, <1>2, LoopGoes DEF Run

LEMMA CycledHolds ==
  ASSUME LogTypeOK, RunnerInv, NEW r \in Runner, runner[r] # Stopped
  PROVE  /\ Cycled(r) \in Loop \cup {Stopped}
         /\ Cycled(r) # Stopped => LoopInv(Cycled(r), setup.subs, log, fed)
<1>1. setup.subs # <<>>
  BY LoopTyped DEF LoopInv
<1> QED
  BY <1>1, NewCycleHolds DEF Cycled

LEMMA LoadCheckpointKeeps ==
  ASSUME LogTypeOK, RunnerInv, NEW r \in Runner, LoadCheckpoint(r)
  PROVE  RunnerInv'
<1> DEFINE m == runner[r]
           subs == setup.subs
           next == checkpoint[subs[Len(m.loaded) + 1]]
           loaded == Append(m.loaded, next)
<1>1. /\ m \in Loop /\ LoopInv(m, subs, log, fed)
      /\ m.loaded \in Seq(Nat) /\ Len(m.loaded) \in Nat
      /\ subs \in Seq(Subscription) /\ Len(subs) \in Nat /\ m.at = "load"
  BY LoopTyped DEF LoadCheckpoint, Runs
<1>2. Goes(r, [m EXCEPT !.loaded = loaded,
                        !.at = IF Len(loaded) = Len(subs) THEN "read" ELSE @])
  BY DEF LoadCheckpoint, Subs
<1> HIDE DEF m, subs
<1>3. Len(m.loaded) + 1 \in 1..Len(subs)
  BY <1>1 DEF LoopInv
<1>4. subs[Len(m.loaded) + 1] \in Subscription
  BY <1>1, <1>3, ElementOfSeq
<1>5. next \in Nat /\ Covers(log, fed, subs[Len(m.loaded) + 1], next)
  BY <1>4 DEF RunnerInv, RunnerTypeOK, CheckpointInv
<1> HIDE DEF next
<1>6. /\ loaded \in Seq(Nat) /\ Len(loaded) = Len(m.loaded) + 1
      /\ \A i \in 1..Len(m.loaded) : loaded[i] = m.loaded[i]
      /\ loaded[Len(m.loaded) + 1] = next
  BY <1>1, <1>5, AppendProperties
<1> HIDE DEF loaded
<1>7. PICK loop \in Loop :
         /\ Goes(r, loop)
         /\ loop.loaded = loaded /\ loop.end = m.end /\ loop.turn = m.turn
         /\ loop.at = IF Len(loaded) = Len(subs) THEN "read" ELSE "load"
  <2> DEFINE l == [m EXCEPT !.loaded = loaded,
                            !.at = IF Len(loaded) = Len(subs) THEN "read" ELSE @]
  <2>1. l \in Loop /\ l.loaded = loaded /\ l.end = m.end /\ l.turn = m.turn
    BY <1>1, <1>6 DEF Loop
  <2>2. l.at = IF Len(loaded) = Len(subs) THEN "read" ELSE "load"
    BY <1>1 DEF Loop
  <2> HIDE DEF l
  <2>3. Goes(r, l)
    BY <1>2 DEF l
  <2> QED
    BY <2>1, <2>2, <2>3
<1>8. ASSUME NEW i \in 1..Len(loaded) PROVE Covers(log, fed, subs[i], loaded[i])
  <2>1. CASE i = Len(m.loaded) + 1
    BY <1>5, <1>6, <2>1
  <2>2. CASE i # Len(m.loaded) + 1
    <3>1. i \in 1..Len(m.loaded)
      BY <1>1, <1>6, <2>2
    <3> QED
      BY <1>1, <1>6, <3>1 DEF LoopInv
  <2> QED
    BY <2>1, <2>2
<1>9. loop.at = "load" => Len(loaded) < Len(subs)
  BY <1>1, <1>3, <1>6, <1>7
<1>10. LoopInv(loop, subs, log, fed)
  BY <1>1, <1>7, <1>8, <1>9 DEF LoopInv
<1>11. stopRequested' \in [Runner -> BOOLEAN]
  BY StopsTyped DEF LoadCheckpoint
<1> QED
  BY <1>7, <1>10, <1>11, LoopGoes DEF LoadCheckpoint, subs

LEMMA ReadAllKeeps ==
  ASSUME LogTypeOK, RunnerInv, NEW r \in Runner, ReadAll(r)
  PROVE  RunnerInv'
<1> DEFINE m == runner[r]
           loop == [m EXCEPT !.at = "dispatch", !.end = Len(log)]
<1>1. /\ m \in Loop /\ LoopInv(m, setup.subs, log, fed) /\ m # Stopped
      /\ Len(log) \in Nat /\ m.at = "read"
  BY LoopTyped DEF ReadAll, Runs
<1>2. /\ loop \in Loop /\ loop.loaded = m.loaded /\ loop.turn = m.turn
      /\ loop.end = Len(log) /\ loop.at = "dispatch"
  BY <1>1 DEF Loop
<1>3. Goes(r, Cycled(r)) \/ Goes(r, loop)
  BY DEF ReadAll
<1> HIDE DEF loop
<1>4. LoopInv(loop, setup.subs, log, fed)
  BY <1>1, <1>2 DEF LoopInv
<1>5. stopRequested' \in [Runner -> BOOLEAN]
  BY StopsTyped DEF ReadAll
<1>6. UNCHANGED <<setup, log, checkpoint, fed>>
  BY DEF ReadAll
<1>7. /\ Cycled(r) \in Loop \cup {Stopped}
      /\ Cycled(r) # Stopped => LoopInv(Cycled(r), setup.subs, log, fed)
  BY <1>1, CycledHolds
<1> QED
  BY <1>2, <1>3, <1>4, <1>5, <1>6, <1>7, LoopGoes

\* The turn of the next subscription.
LEMMA NextTurnHolds ==
  ASSUME LogTypeOK, RunnerInv, NEW r \in Runner, runner[r] # Stopped,
         runner[r].at # "load", NEW f,
         \A sub \in Subscription : fed[sub] \subseteq f[sub]
  PROVE  /\ NextTurn(r) \in Loop
         /\ LoopInv(NextTurn(r), setup.subs, log, f)
<1> DEFINE m == runner[r]
           loop == [m EXCEPT !.at = "dispatch", !.turn = @ + 1]
<1>1. /\ m \in Loop /\ LoopInv(m, setup.subs, log, fed)
      /\ m.turn \in Nat /\ setup.subs \in Seq(Subscription) /\ Len(log) \in Nat
  BY LoopTyped
<1>2. LoopInv(m, setup.subs, log, f)
  <2>1. Extends(log, log)
    BY <1>1 DEF Extends
  <2> QED
    BY <1>1, <2>1, LoopStays
<1>3. loop \in Loop /\ loop.loaded = m.loaded /\ loop.end = m.end
  <2>1. m \in Loop /\ m.turn + 1 \in Nat
    BY <1>1
  <2> HIDE DEF m
  <2>2. loop \in Loop
    BY <2>1 DEF Loop
  <2>3. loop.loaded = m.loaded /\ loop.end = m.end
    BY <2>1 DEF Loop
  <2> QED
    BY <2>2, <2>3
<1>4. loop.turn = m.turn + 1 /\ loop.at = "dispatch"
  BY <1>1 DEF Loop
<1>5. NextTurn(r) = loop
  BY DEF NextTurn
<1> HIDE DEF loop
<1>6. loop.turn >= 1
  BY <1>1, <1>4
<1>7. LoopInv(loop, setup.subs, log, f)
  BY <1>2, <1>3, <1>4, <1>6 DEF LoopInv
<1> QED
  BY <1>3, <1>5, <1>7

\* Only the place in the loop changes.
LEMMA PlaceChanges ==
  ASSUME NEW m \in Loop, NEW place \in {"process", "save"}
  PROVE  \E loop \in Loop :
            /\ loop = [m EXCEPT !.at = place]
            /\ loop.at = place /\ loop.loaded = m.loaded
            /\ loop.end = m.end /\ loop.turn = m.turn
<1> DEFINE loop == [m EXCEPT !.at = place]
<1>1. loop \in Loop
  BY DEF Loop
<1>2. loop.at = place /\ loop.loaded = m.loaded /\ loop.end = m.end /\ loop.turn = m.turn
  BY DEF Loop
<1> QED
  BY <1>1, <1>2

LEMMA TurnFacts ==
  ASSUME LogTypeOK, RunnerInv, NEW r \in Runner, runner[r] # Stopped,
         runner[r].at # "load", runner[r].turn <= Len(Subs)
  PROVE  /\ Turn(r) \in {Subs[i] : i \in DOMAIN Subs} /\ Turn(r) \in Subscription
         /\ Turn(r) = setup.subs[runner[r].turn]
         /\ runner[r].loaded[runner[r].turn] \in Nat
         /\ Covers(log, fed, Turn(r), runner[r].loaded[runner[r].turn])
         /\ runner[r].end \in 0..Len(log)
         /\ Batch(r) = Positions(log, Turn(r), runner[r].loaded[runner[r].turn],
                                 runner[r].end)
<1> DEFINE m == runner[r]
<1>1. /\ LoopInv(m, setup.subs, log, fed)
      /\ m.loaded \in Seq(Nat) /\ Len(m.loaded) \in Nat /\ m.turn \in Nat
      /\ setup.subs \in Seq(Subscription) /\ Len(setup.subs) \in Nat
  BY LoopTyped
<1>2. m.turn \in 1..Len(setup.subs) /\ m.turn \in 1..Len(m.loaded)
  BY <1>1 DEF LoopInv, Subs
<1>3. setup.subs[m.turn] \in Subscription /\ m.loaded[m.turn] \in Nat
  BY <1>1, <1>2, ElementOfSeq
<1>4. m.turn \in DOMAIN Subs
  BY <1>1, <1>2 DEF Subs
<1>5. Covers(log, fed, setup.subs[m.turn], m.loaded[m.turn]) /\ m.end \in 0..Len(log)
  BY <1>1, <1>2 DEF LoopInv
<1>6. Batch(r) = Positions(log, Turn(r), m.loaded[m.turn], m.end)
  BY DEF Batch, Matching, Positions
<1> QED
  BY <1>3, <1>4, <1>5, <1>6 DEF Turn, Subs

LEMMA DispatchKeeps ==
  ASSUME LogTypeOK, RunnerInv, NEW r \in Runner, Dispatch(r)
  PROVE  RunnerInv'
<1> DEFINE m == runner[r]
<1>1. /\ m \in Loop /\ LoopInv(m, setup.subs, log, fed) /\ m # Stopped
      /\ m.at = "dispatch" /\ m.turn \in Nat /\ m.end \in Nat
      /\ Len(setup.subs) \in Nat /\ Len(log) \in Nat
  BY LoopTyped DEF Dispatch, Runs
<1>2. /\ UNCHANGED <<setup, log, checkpoint, fed>>
      /\ stopRequested' \in [Runner -> BOOLEAN]
  BY StopsTyped DEF Dispatch
<1>3. CASE Goes(r, Cycled(r))
  <2>1. /\ Cycled(r) \in Loop \cup {Stopped}
        /\ Cycled(r) # Stopped => LoopInv(Cycled(r), setup.subs, log, fed)
    BY <1>1, CycledHolds
  <2> QED
    BY <1>2, <1>3, <2>1, LoopGoes
<1>4. CASE Goes(r, NextTurn(r))
  <2>1. NextTurn(r) \in Loop /\ LoopInv(NextTurn(r), setup.subs, log, fed)
    BY <1>1, NextTurnHolds
  <2> QED
    BY <1>2, <1>4, <2>1, LoopGoes
<1>5. ASSUME NEW place \in {"process", "save"}, Goes(r, [m EXCEPT !.at = place]),
             m.turn <= Len(Subs), ~(m.loaded[m.turn] >= m.end),
             place = "save" => Batch(r) = {}
      PROVE  RunnerInv'
  <2>1. /\ Turn(r) = setup.subs[m.turn] /\ m.loaded[m.turn] \in Nat
        /\ Covers(log, fed, Turn(r), m.loaded[m.turn]) /\ m.end \in 0..Len(log)
        /\ Batch(r) = Positions(log, Turn(r), m.loaded[m.turn], m.end)
    BY <1>1, <1>5, TurnFacts
  <2>2. PICK loop \in Loop :
           /\ loop = [m EXCEPT !.at = place]
           /\ loop.at = place /\ loop.loaded = m.loaded
           /\ loop.end = m.end /\ loop.turn = m.turn
    BY <1>1, PlaceChanges
  <2>3. ASSUME place = "save" PROVE Covers(log, fed, setup.subs[m.turn], m.end)
    <3>1. Positions(log, Turn(r), m.loaded[m.turn], m.end) \subseteq fed[Turn(r)]
      BY <1>5, <2>1, <2>3
    <3> QED
      BY <1>1, <2>1, <3>1, CoveredThenFed
  <2> HIDE DEF m
  <2>4. m.turn <= Len(setup.subs) /\ m.loaded[m.turn] <= m.end
    BY <1>1, <1>5, <2>1 DEF Subs
  <2>5. LoopInv(loop, setup.subs, log, fed)
    BY <1>1, <2>2, <2>3, <2>4 DEF LoopInv
  <2>6. Goes(r, loop)
    BY <1>5, <2>2
  <2> QED
    BY <1>2, <2>5, <2>6, LoopGoes
<1>6. \/ Goes(r, Cycled(r)) \/ Goes(r, NextTurn(r))
      \/ /\ m.turn <= Len(Subs) /\ ~(m.loaded[m.turn] >= m.end)
         /\ \E place \in {"process", "save"} :
               Goes(r, [m EXCEPT !.at = place]) /\ (place = "save" => Batch(r) = {})
  <2>1. ~(m.turn > Len(Subs)) => m.turn <= Len(Subs)
    BY <1>1 DEF Subs
  <2> QED
    BY <2>1, Zenon DEF Dispatch
<1> QED
  BY <1>3, <1>4, <1>5, <1>6

\* Process and ProcessRaises: the batch up to some position is fed.
LEMMA FeedingKeeps ==
  ASSUME LogTypeOK, RunnerInv, NEW r \in Runner, Process(r) \/ ProcessRaises(r)
  PROVE  RunnerInv' /\ (fed' = fed \/ \E sub \in Subscription : Feed!FFeed(sub))
<1> DEFINE m == runner[r]
           sub == Turn(r)
           from == m.loaded[m.turn]
<1>1. /\ m \in Loop /\ LoopInv(m, setup.subs, log, fed) /\ m # Stopped
      /\ m.at = "process" /\ m.turn \in Nat /\ m.end \in Nat
      /\ setup.subs \in Seq(Subscription) /\ Len(setup.subs) \in Nat
      /\ Len(log) \in Nat
  BY LoopTyped DEF Process, ProcessRaises, Runs
<1>2. m.turn <= Len(Subs) /\ from <= m.end
  BY <1>1 DEF LoopInv, Subs
<1>3. /\ sub \in {Subs[i] : i \in DOMAIN Subs} /\ sub \in Subscription
      /\ sub = setup.subs[m.turn] /\ from \in Nat
      /\ Covers(log, fed, sub, from) /\ m.end \in 0..Len(log)
      /\ Batch(r) = Positions(log, sub, from, m.end)
  BY <1>1, <1>2, TurnFacts
<1>4. /\ UNCHANGED <<setup, log, checkpoint>>
      /\ stopRequested' \in [Runner -> BOOLEAN]
      /\ checkpoint' \in [Subscription -> Nat]
  BY StopsTyped DEF Process, ProcessRaises, RunnerInv, RunnerTypeOK
<1>5. CASE Process(r)
  <2>1. fed' = [fed EXCEPT ![sub] = @ \cup Positions(log, sub, from, m.end)]
    BY <1>3, <1>5 DEF Process
  <2>2. Goes(r, [m EXCEPT !.at = "save"])
    BY <1>5 DEF Process
  <2> HIDE DEF m, sub, from
  <2>3. /\ fed' = fed \/ Feed!FFeed(sub)
        /\ FedInv' /\ fed' \in [Subscription -> SUBSET Nat]
        /\ \A q \in Subscription : fed[q] \subseteq fed'[q]
        /\ Covers(log, fed', sub, m.end)
    BY <1>2, <1>3, <1>4, <2>1, Feeding
  <2>4. LoopInv(m, setup.subs, log, fed')
    <3>1. Extends(log, log)
      BY <1>1 DEF Extends
    <3> QED
      BY <1>1, <2>3, <3>1, LoopStays
  <2>5. PICK loop \in Loop :
           /\ loop = [m EXCEPT !.at = "save"]
           /\ loop.at = "save" /\ loop.loaded = m.loaded
           /\ loop.end = m.end /\ loop.turn = m.turn
    BY <1>1, PlaceChanges
  <2>6. m.turn <= Len(setup.subs) /\ m.loaded[m.turn] <= m.end
    BY <1>2 DEF Subs, from
  <2>7. LoopInv(loop, setup.subs, log, fed')
    <3>1. Covers(log, fed', setup.subs[m.turn], m.end) /\ m.at = "process"
      BY <1>1, <1>3, <2>3
    <3> QED
      BY <2>4, <2>5, <2>6, <3>1 DEF LoopInv
  <2>8. Goes(r, loop)
    BY <2>2, <2>5
  <2>9. RunnerInv'
    BY <1>4, <2>3, <2>7, <2>8, LoopChanges
  <2> QED
    BY <1>3, <2>3, <2>9
<1>6. CASE ProcessRaises(r)
  <2>1. PICK n \in {0} \cup Batch(r) :
           fed' = [fed EXCEPT ![sub] = @ \cup {i \in Batch(r) : i <= n}]
    BY <1>6 DEF ProcessRaises
  <2>2. /\ FedInv' /\ fed' \in [Subscription -> SUBSET Nat]
        /\ \A q \in Subscription : fed[q] \subseteq fed'[q]
        /\ fed' = fed \/ Feed!FFeed(sub)
    <3>1. CASE n \in Batch(r)
      <4>1. n \in 0..Len(log) /\ from <= n /\ n <= m.end
        BY <1>1, <1>3, <3>1 DEF Positions
      <4>2. {i \in Batch(r) : i <= n} = Positions(log, sub, from, n)
        BY <1>1, <1>3, <4>1 DEF Positions
      <4>3. fed' = [fed EXCEPT ![sub] = @ \cup Positions(log, sub, from, n)]
        BY <2>1, <4>2
      <4> QED
        BY <1>3, <1>4, <4>1, <4>3, Feeding
    <3>2. CASE n = 0
      <4>1. {i \in Batch(r) : i <= n} = {}
        BY <1>1, <1>3, <3>2 DEF Positions
      <4>2. fed' = fed
        BY <2>1, <4>1 DEF RunnerInv, RunnerTypeOK
      <4> QED
        BY <1>4, <4>2 DEF FedInv, Positions, RunnerInv, RunnerTypeOK
    <3> QED
      BY <3>1, <3>2
  <2>3. NextTurn(r) \in Loop /\ LoopInv(NextTurn(r), setup.subs, log, fed')
    BY <1>1, <2>2, NextTurnHolds
  <2>4. Goes(r, NextTurn(r))
    BY <1>6 DEF ProcessRaises, AfterFailure
  <2>5. RunnerInv'
    BY <1>4, <2>2, <2>3, <2>4, LoopChanges
  <2> QED
    BY <1>3, <2>2, <2>5
<1> QED
  BY <1>5, <1>6

LEMMA SaveCheckpointKeeps ==
  ASSUME LogTypeOK, RunnerInv, NEW r \in Runner, SaveCheckpoint(r)
  PROVE  RunnerInv'
<1> DEFINE m == runner[r]
           sub == Turn(r)
<1>1. /\ LoopInv(m, setup.subs, log, fed) /\ m # Stopped
      /\ m.at = "save" /\ m.turn \in Nat /\ m.end \in Nat
  BY LoopTyped DEF SaveCheckpoint, Runs
<1>2. m.turn <= Len(Subs)
  BY <1>1 DEF LoopInv, Subs
<1>3. sub \in Subscription /\ sub = setup.subs[m.turn]
  BY <1>1, <1>2, TurnFacts
<1>4. Covers(log, fed, sub, m.end)
  BY <1>1, <1>3 DEF LoopInv
<1>5. checkpoint' = [checkpoint EXCEPT ![sub] = m.end]
  BY DEF SaveCheckpoint
<1>6. /\ UNCHANGED <<setup, log, fed>>
      /\ stopRequested' \in [Runner -> BOOLEAN]
      /\ Goes(r, NextTurn(r))
  BY StopsTyped DEF SaveCheckpoint
<1>7. /\ NextTurn(r) \in Loop
      /\ LoopInv(NextTurn(r), setup.subs, log, fed')
  BY <1>1, <1>6, NextTurnHolds
<1> HIDE DEF m, sub
<1>8. /\ checkpoint' \in [Subscription -> Nat]
      /\ \A q \in Subscription : checkpoint'[q] = checkpoint[q]
                                    \/ Covers(log, fed', q, checkpoint'[q])
  BY <1>1, <1>3, <1>4, <1>5, <1>6 DEF RunnerInv, RunnerTypeOK
<1>9. FedInv' /\ fed' \in [Subscription -> SUBSET Nat]
  BY <1>6 DEF FedInv, Positions, RunnerInv, RunnerTypeOK
<1> QED
  BY <1>6, <1>7, <1>8, <1>9, LoopChanges

LEMMA StopsKeep ==
  ASSUME LogTypeOK, RunnerInv, NEW r \in Runner, RequestStop(r) \/ Crash(r)
  PROVE  RunnerInv'
<1>1. CASE Crash(r)
  BY <1>1, StopsTyped, LoopGoes DEF Crash
<1>2. CASE RequestStop(r)
  BY <1>2 DEF RequestStop, RunnerInv, RunnerTypeOK, CheckpointInv, FedInv, LoopsInv
<1> QED
  BY <1>1, <1>2

LEMMA RunnerStep ==
  ASSUME SourcingInv, RunnerInv, [Next]_vars
  PROVE  RunnerInv'
<1>1. LogTypeOK
  BY DEF SourcingInv, SourcingTypes
<1>2. CASE SourcingNext /\ UNCHANGED runnerVars
  <2>1. UNCHANGED setup /\ (UNCHANGED log \/ \E s \in Session : Save(s) \/ Commit(s))
    BY <1>2 DEF SourcingNext, SessionStep, Deploy, FindSnapshot, ReadStream, Raise, Save,
       SaveRejected, TakeSnapshot, SnapshotRaises, Commit, Rollback, Close
  <2> QED
    BY <1>2, <2>1, SourcingKeepsRunners
<1>3. CASE RunnerNext
  <2>1. PICK r \in Runner : Progress(r) \/ RequestStop(r) \/ ProcessRaises(r) \/ Crash(r)
    BY <1>3 DEF RunnerNext
  <2> QED
    BY <1>1, <2>1, RunKeeps, LoadCheckpointKeeps, ReadAllKeeps, DispatchKeeps,
       FeedingKeeps, SaveCheckpointKeeps, StopsKeep DEF Progress
<1>4. CASE UNCHANGED vars
  BY <1>4, SourcingKeepsRunners DEF vars, logVars, runnerVars
<1> QED
  BY <1>2, <1>3, <1>4 DEF Next

-----------------------------------------------------------------------------
(* The theorems.                                                              *)

\* The checkpoint store, the loops and what was fed have the values
\* RunnerTypeOK names, for every number of subscriptions and runners.
THEOREM RunnerTypeCorrect == Spec => []RunnerTypeOK
<1>1. Init => SourcingInv /\ RunnerInv
  BY SourcingStarts, RunnerStarts
<1>2. SourcingInv /\ RunnerInv /\ [Next]_vars => (SourcingInv /\ RunnerInv)'
  BY SourcingStep, RunnerStep
<1>3. RunnerInv => RunnerTypeOK
  BY DEF RunnerInv
<1> QED
  BY <1>1, <1>2, <1>3, PTL DEF Spec

\* No checkpoint is past an event its subscription was not fed, however many
\* runners share it and whatever fails.
THEOREM CheckpointsCoverFed == Spec => []CheckpointCoversFed
<1>1. Init => SourcingInv /\ RunnerInv
  BY SourcingStarts, RunnerStarts
<1>2. SourcingInv /\ RunnerInv /\ [Next]_vars => (SourcingInv /\ RunnerInv)'
  BY SourcingStep, RunnerStep
<1>3. SourcingInv /\ RunnerInv => CheckpointCoversFed
  <2> SUFFICES ASSUME SourcingInv, RunnerInv, NEW sub \in Subscription
               PROVE  /\ checkpoint[sub] <= Len(log)
                      /\ Matching(sub, 0, checkpoint[sub]) \subseteq fed[sub]
    BY DEF CheckpointCoversFed
  <2>1. Covers(log, fed, sub, checkpoint[sub]) /\ Len(log) \in Nat
    BY DEF RunnerInv, CheckpointInv, SourcingInv, SourcingTypes, LogTypeOK
  <2> QED
    BY <2>1 DEF Covers, Positions, Matching
<1> QED
  BY <1>1, <1>2, <1>3, PTL DEF Spec

\* The safety of ImplementsFeed: every step of sessions and runners appends to
\* the log, extends the front one projection was fed, or is none of a feed.
THEOREM RunnersFeed == Spec => Feed!FInit /\ [][Feed!FNext]_Feed!fvars
<1>1. Init => SourcingInv /\ RunnerInv
  BY SourcingStarts, RunnerStarts
<1>2. SourcingInv /\ RunnerInv /\ [Next]_vars => (SourcingInv /\ RunnerInv)'
  BY SourcingStep, RunnerStep
<1>3. Init => Feed!FInit
  <2> SUFFICES ASSUME Init PROVE Feed!FInit
    OBVIOUS
  <2>1. setup.subs \in Seq(Subscription)
    BY LogAssumption DEF Init, LogInit
  <2>2. {Subs[i] : i \in DOMAIN Subs} \subseteq Subscription
    BY <2>1, ElementOfSeq DEF Subs
  <2> QED
    BY <2>2 DEF Feed!FInit, Init, LogInit, RunnerInit
<1>4. ASSUME SourcingInv, RunnerInv, [Next]_vars
      PROVE  [Feed!FNext]_Feed!fvars
  <2>1. LogTypeOK /\ UNCHANGED setup
    BY <1>4 DEF SourcingInv, SourcingTypes, Next, vars, logVars, SourcingNext, SessionStep,
       Deploy, FindSnapshot, ReadStream, Raise, Save, SaveRejected, TakeSnapshot,
       SnapshotRaises, Commit, Rollback, Close, RunnerNext, Progress, Run, RequestStop,
       LoadCheckpoint, ReadAll, Dispatch, Process, ProcessRaises, SaveCheckpoint, Crash
  <2>2. UNCHANGED {Subs[i] : i \in DOMAIN Subs}
    BY <2>1 DEF Subs
  <2>3. ASSUME UNCHANGED <<log, fed>> PROVE [Feed!FNext]_Feed!fvars
    BY <2>2, <2>3 DEF Feed!fvars
  <2>4. CASE SourcingNext /\ UNCHANGED runnerVars
    <3>1. ASSUME NEW s \in Session, Save(s) \/ Commit(s), ~(UNCHANGED log)
          PROVE  Feed!FAppend
      BY <1>4, <2>2, <2>4, <3>1, LogGrows DEF Feed!FAppend, runnerVars
    <3>2. UNCHANGED log \/ \E s \in Session : Save(s) \/ Commit(s)
      BY <2>4 DEF SourcingNext, SessionStep, Deploy, FindSnapshot, ReadStream, Raise, Save,
         SaveRejected, TakeSnapshot, SnapshotRaises, Commit, Rollback, Close
    <3> QED
      BY <2>3, <2>4, <3>1, <3>2 DEF Feed!FNext, runnerVars
  <2>5. CASE RunnerNext
    <3>1. UNCHANGED log
      BY <2>5, RunnersOnlyRead
    <3>2. PICK r \in Runner :
             Progress(r) \/ RequestStop(r) \/ ProcessRaises(r) \/ Crash(r)
      BY <2>5 DEF RunnerNext
    <3>3. CASE Process(r) \/ ProcessRaises(r)
      <4>1. fed' = fed \/ \E sub \in Subscription : Feed!FFeed(sub)
        BY <1>4, <2>1, <3>3, FeedingKeeps
      <4> QED
        BY <2>3, <3>1, <4>1 DEF Feed!FNext
    <3>4. CASE ~(Process(r) \/ ProcessRaises(r))
      <4>1. UNCHANGED fed
        BY <3>2, <3>4 DEF Progress, Run, RequestStop, LoadCheckpoint, ReadAll, Dispatch,
           SaveCheckpoint, Crash
      <4> QED
        BY <2>3, <3>1, <4>1
    <3> QED
      BY <3>3, <3>4
  <2>6. CASE UNCHANGED vars
    BY <2>3, <2>6 DEF vars, logVars, runnerVars
  <2> QED
    BY <1>4, <2>4, <2>5, <2>6 DEF Next
<1> QED
  BY <1>1, <1>2, <1>3, <1>4, PTL DEF Spec
=============================================================================
