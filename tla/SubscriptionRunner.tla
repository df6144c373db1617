-------------------------- MODULE SubscriptionRunner --------------------------
(***************************************************************************)
(* SubscriptionRunner: polling loops that load every checkpoint, read the  *)
(* log once from the lowest, and hand each subscription the events of its  *)
(* types behind its own.  Several runners may share one checkpoint store.  *)
(***************************************************************************)
EXTENDS EventLog

CONSTANTS
    Runner,             \* processes that run the loop
    Types,              \* the aggregates whose events each filters on
    Stopped             \* a runner that does not run

ASSUME RunnerAssumption ==
    Types \in [Subscription -> SUBSET Aggregate]

\* The subscriptions in the order they were added.
Subs == setup.subs

VARIABLES
    checkpoint,         \* the checkpoint store
    runner,             \* what each runner holds
    stopRequested,      \* _stop_requested of each runner
    fed                 \* the positions of the log each projection was fed

runnerVars == <<checkpoint, runner, stopRequested, fed>>

\* loaded: the checkpoints read so far; end: the version of the stream read;
\* turn: the subscription that is served.
Loop == [at : {"load", "read", "dispatch", "process", "save"},
         loaded : Seq(Nat), end : Nat, turn : Nat]

RunnerTypeOK ==
    /\ checkpoint \in [Subscription -> Nat]
    /\ runner \in [Runner -> Loop \cup {Stopped}]
    /\ stopRequested \in [Runner -> BOOLEAN]
    /\ fed \in [Subscription -> SUBSET Nat]

RunnerInit ==
    /\ checkpoint = [sub \in Subscription |-> 0]
    /\ runner = [r \in Runner |-> Stopped]
    /\ stopRequested = [r \in Runner |-> FALSE]
    /\ fed = [sub \in Subscription |-> {}]

Runs(r, place) == runner[r] # Stopped /\ runner[r].at = place
Goes(r, loop) == runner' = [runner EXCEPT ![r] = loop]

NewCycle == [at |-> "load", loaded |-> <<>>, end |-> 0, turn |-> 1]

\* The loop goes round, or ends when stop() was called; a sleep is a cycle
\* that has not started yet, and a stop() in it costs the reads of that cycle.
Cycled(r) == IF stopRequested[r] THEN Stopped ELSE NewCycle

Matching(sub, from, to) == {i \in (from + 1)..to : log[i].of \in Types[sub]}

Turn(r) == Subs[runner[r].turn]

\* The events behind the checkpoint that was loaded for the subscription.
Batch(r) == Matching(Turn(r), runner[r].loaded[runner[r].turn], runner[r].end)

-----------------------------------------------------------------------------
\* run(): an earlier stop() is forgotten.  The loop of a runner without
\* subscriptions only sleeps.
Run(r) ==
    /\ runner[r] = Stopped
    /\ Subs # <<>>
    /\ Cardinality({q \in Runner : runner[q] # Stopped}) < setup.loops
    /\ stopRequested' = [stopRequested EXCEPT ![r] = FALSE]
    /\ Goes(r, NewCycle)
    /\ UNCHANGED <<setup, streams, log, checkpoint, fed, faults>>

RequestStop(r) ==
    /\ MayFail
    /\ stopRequested' = [stopRequested EXCEPT ![r] = TRUE]
    /\ UNCHANGED <<setup, streams, log, checkpoint, runner, fed>>

LoadCheckpoint(r) ==
    LET loaded == Append(runner[r].loaded, checkpoint[Subs[Len(runner[r].loaded) + 1]])
    IN
    /\ Runs(r, "load")
    /\ Goes(r, [runner[r] EXCEPT !.loaded = loaded,
                                 !.at = IF Len(loaded) = Len(Subs) THEN "read" ELSE @])
    /\ UNCHANGED <<setup, streams, log, checkpoint, stopRequested, fed, faults>>

\* read_all() from the lowest checkpoint.
ReadAll(r) ==
    /\ Runs(r, "read")
    /\ Goes(r, IF \A i \in DOMAIN Subs : runner[r].loaded[i] >= Len(log)
               THEN Cycled(r)
               ELSE [runner[r] EXCEPT !.at = "dispatch", !.end = Len(log)])
    /\ UNCHANGED <<setup, streams, log, checkpoint, stopRequested, fed, faults>>

NextTurn(r) == [runner[r] EXCEPT !.at = "dispatch", !.turn = @ + 1]

\* The start of _dispatch_to_subscription(), up to its first call.
Dispatch(r) ==
    LET m == runner[r] IN
    /\ Runs(r, "dispatch")
    /\ Goes(r, IF stopRequested[r] \/ m.turn > Len(Subs) THEN Cycled(r)
               ELSE IF m.loaded[m.turn] >= m.end THEN NextTurn(r)
               ELSE [m EXCEPT !.at = IF Batch(r) = {} THEN "save" ELSE "process"])
    /\ UNCHANGED <<setup, streams, log, checkpoint, stopRequested, fed, faults>>

Process(r) ==
    /\ Runs(r, "process")
    /\ fed' = [fed EXCEPT ![Turn(r)] = @ \cup Batch(r)]
    /\ Goes(r, [runner[r] EXCEPT !.at = "save"])
    /\ UNCHANGED <<setup, streams, log, checkpoint, stopRequested, faults>>

\* Mutant: the loop goes on to the checkpoint.
AfterFailureSaving(r) == [runner[r] EXCEPT !.at = "save"]

\* No checkpoint is saved; the next subscription has its turn.
AfterFailure(r) == NextTurn(r)

\* process_batch() raises, perhaps after it applied the first events.
ProcessRaises(r) ==
    /\ Runs(r, "process")
    /\ MayFail
    /\ \E n \in {0} \cup Batch(r) :
          fed' = [fed EXCEPT ![Turn(r)] = @ \cup {i \in Batch(r) : i <= n}]
    /\ Goes(r, AfterFailure(r))
    /\ UNCHANGED <<setup, streams, log, checkpoint, stopRequested>>

SaveCheckpoint(r) ==
    /\ Runs(r, "save")
    /\ checkpoint' = [checkpoint EXCEPT ![Turn(r)] = runner[r].end]
    /\ Goes(r, NextTurn(r))
    /\ UNCHANGED <<setup, streams, log, stopRequested, fed, faults>>

\* The loop ends at a call: a store raised, a cancellation, a crash.
Crash(r) ==
    /\ runner[r] # Stopped
    /\ MayFail
    /\ Goes(r, Stopped)
    /\ UNCHANGED <<setup, streams, log, checkpoint, stopRequested, fed>>

Progress(r) ==
    \/ Run(r) \/ LoadCheckpoint(r) \/ ReadAll(r) \/ Dispatch(r)
    \/ Process(r) \/ SaveCheckpoint(r)

RunnerNext ==
    \E r \in Runner : Progress(r) \/ RequestStop(r) \/ ProcessRaises(r) \/ Crash(r)

\* A loop that runs goes on, and one that ended is started again.
RunnerFairness == \A r \in Runner : WF_<<logVars, runnerVars>>(Progress(r))

-----------------------------------------------------------------------------
(* Properties.                                                             *)

\* A checkpoint is never past an event its subscription was not fed, and
\* a batch under way leaves no gap: also when the checkpoints of two runners
\* overwrite each other (_dispatch_to_subscription, at-least-once guarantee).
CheckpointCoversFed ==
    \A sub \in Subscription :
        /\ checkpoint[sub] <= Len(log)
        /\ Matching(sub, 0, checkpoint[sub]) \subseteq fed[sub]

Feed == INSTANCE ProjectionFeed WITH registered <- {Subs[i] : i \in DOMAIN Subs}

\* The runners implement what a catch-up subscription promises: every
\* projection is fed the matching events in order and without a gap, and in
\* the end all of them, whatever batches fail, loops crash or are stopped.
ImplementsFeed == Feed!FSpec
===============================================================================
