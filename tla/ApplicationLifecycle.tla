------------------------ MODULE ApplicationLifecycle ------------------------
(***************************************************************************)
(* bootstrap() and Application.shutdown(): the parts are started in order; *)
(* a start that raises or is cancelled hands what had started to a clean-  *)
(* up task, which a cancelled bootstrap() stops waiting for; and several   *)
(* tasks shut the application down, perhaps from inside the relay itself.  *)
(* Left out: a start() that raises what is neither an Exception nor a      *)
(* cancellation, and KeyboardInterrupt and SystemExit, which skip every    *)
(* clean-up; and the notes that shutdown() adds to the error it raises.    *)
(***************************************************************************)
EXTENDS RelayLifecycle

CONSTANTS
    Part,               \* what is started and stopped
    Gateways,           \* the inbound gateways, in their order
    Broker, Relay,      \* the message broker and the outbound gateway
    Closer,             \* tasks that call shutdown(), once each
    SelfCloser,         \* those that a publish() or a store call may be
    StartError,         \* the error that a start() raised
    NoPart, NoCleanUp,
    MaxFaults           \* bound: raising starts and stops, cancellations

ASSUME LifecycleAssumption ==
    /\ Gateways \in Seq(Part) /\ {Broker, Relay} \subseteq Part
    /\ \A i, j \in DOMAIN Gateways : Gateways[i] = Gateways[j] => i = j
    /\ Broker # Relay /\ \A i \in DOMAIN Gateways : Gateways[i] \notin {Broker, Relay}
    /\ SelfCloser \subseteq Closer
    /\ StartError \notin Part /\ NoPart \notin Part
    /\ MaxFaults \in Nat

StartOrder == Gateways \o <<Broker, Relay>>
StopOrder == Gateways \o <<Relay, Broker>>

\* The exception instances: p stands for the one that stop() of p makes.
Error == Part \cup {StartError}

VARIABLES
    boot,               \* the call of bootstrap()
    up,                 \* parts that have started and whose stop() has not run
    cleanUp,            \* the clean-up task
    notes,              \* how often an error is noted on the one that is raised
    logged,             \* how often the failed stop of a part was logged
    closer,             \* the calls of shutdown()
    faults

reported == <<notes, logged>>
vars == <<relayVars, boot, up, cleanUp, reported, closer, faults>>

\* finishing: waits for the clean-up after a start error;
\* waiting:   waits for it as a cancelled call (_wait_or_abandon).
Boot == [at : {"idle", "starting", "finishing", "waiting", "returned", "raised"},
         next : Nat, failed : BOOLEAN,
         raises : {"nothing", "start error", "cancellation", "fatal"}]

\* done: the task has finished; called: its done callback has run as well.
\* failures: which stop raised which Exception.  A stop that is cancelled, or
\* that raises what is no Exception (fatal), breaks the sequence of stops.
CleanUp == [at : {"running", "done", "called"}, left : SUBSET Part,
            failures : SUBSET (Part \X Error), abandoned : BOOLEAN,
            outcome : {"stops", "fatal", "cancelled"}, broken : Part \cup {NoPart}]

\* own: the run of the relay that the call is made from; seen, for the
\* properties only: the runs that existed when its stop() of the relay began.
Call == [at : {"idle", "stopping", "awaiting", "ended", "cancelled"}, next : Nat,
         own : Run \cup {NoRun}, awaits : SUBSET Run, seen : SUBSET Run]

TypeOK ==
    /\ RelayTypeOK
    /\ boot \in Boot
    /\ up \subseteq Part
    /\ cleanUp \in CleanUp \cup {NoCleanUp}
    /\ notes \in [Error -> Nat]
    /\ logged \in [Part -> Nat]
    /\ closer \in [Closer -> Call]
    /\ faults \in 0..MaxFaults

Init ==
    /\ RelayInit
    /\ boot = [at |-> "idle", next |-> 1, failed |-> FALSE, raises |-> "nothing"]
    /\ up = {}
    /\ cleanUp = NoCleanUp
    /\ notes = [e \in Error |-> 0]
    /\ logged = [p \in Part |-> 0]
    /\ closer = [c \in Closer |->
                   [at |-> "idle", next |-> 1, own |-> NoRun, awaits |-> {}, seen |-> {}]]
    /\ faults = 0

MayFail == faults < MaxFaults /\ faults' = faults + 1

-----------------------------------------------------------------------------
(* bootstrap().                                                            *)

BootAt(place) == boot.at = place

Begin ==
    /\ BootAt("idle")
    /\ boot' = [boot EXCEPT !.at = "starting"]
    /\ UNCHANGED <<relayVars, up, cleanUp, reported, closer, faults>>

Starting == StartOrder[boot.next]

StartPart ==
    /\ BootAt("starting")
    /\ up' = up \cup {Starting}
    /\ IF Starting = Relay THEN StartRelay ELSE UNCHANGED relayVars
    /\ boot' = [boot EXCEPT
                  !.at = IF boot.next = Len(StartOrder) THEN "returned" ELSE "starting",
                  !.next = @ + 1]
    /\ UNCHANGED <<cleanUp, reported, closer, faults>>

\* _start_clean_up(): what had started.
StartCleanUp ==
    cleanUp' = [at |-> "running", left |-> up, failures |-> {}, abandoned |-> FALSE,
                outcome |-> "stops", broken |-> NoPart]

\* A start() raises or is cancelled; the one of the relay has no await.  The
\* part itself is left as it is.
StartFails ==
    /\ BootAt("starting") /\ Starting # Relay
    /\ MayFail
    /\ \/ boot' = [boot EXCEPT !.at = "finishing", !.failed = TRUE, !.raises = "start error"]
       \/ boot' = [boot EXCEPT !.at = "waiting", !.raises = "cancellation"]
    /\ StartCleanUp
    /\ UNCHANGED <<relayVars, up, reported, closer>>

Finished == cleanUp.at \in {"done", "called"}
Failed == {f[1] : f \in cleanUp.failures}
Instances == {f[2] : f \in cleanUp.failures}

\* _note(): each instance once, the error that is noted on never.
Note ==
    notes' = [e \in Error |->
                notes[e] + IF e \in Instances \ {StartError} /\ notes[e] = 0 THEN 1 ELSE 0]

\* _log_abandoned(): each failure; or what broke the stops, when it is fatal.
ToLog ==
    CASE cleanUp.outcome = "stops" -> Failed
      [] cleanUp.outcome = "fatal" -> {cleanUp.broken}
      [] cleanUp.outcome = "cancelled" -> {}
Log == logged' = [p \in Part |-> logged[p] + IF p \in ToLog THEN 1 ELSE 0]

\* Mutant: the callback logs the failures, whether it has run or not.
AbandonToCallback ==
    /\ cleanUp' = [cleanUp EXCEPT !.abandoned = TRUE]
    /\ UNCHANGED logged

\* _abandon(): the callback logs the failures; if it has run, now.
Abandon ==
    IF cleanUp.at = "called"
    THEN Log /\ UNCHANGED cleanUp
    ELSE cleanUp' = [cleanUp EXCEPT !.abandoned = TRUE] /\ UNCHANGED logged

Raises(error) == boot' = [boot EXCEPT !.at = "raised", !.raises = error]

\* The wait for a clean-up that has finished ends, in a call that is to raise
\* the error: with the failures to note, with what broke the stops, or, when
\* the clean-up itself was cancelled, as if the waiter were.
WaitEnds(error) ==
    /\ Finished
    /\ \/ /\ cleanUp.outcome = "stops"
          /\ Raises(error) /\ Note
          /\ UNCHANGED <<cleanUp, logged>>
       \/ /\ cleanUp.outcome = "fatal"
          /\ Raises("fatal")
          /\ UNCHANGED <<cleanUp, notes, logged>>
       \/ /\ cleanUp.outcome = "cancelled"
          /\ Raises("cancellation") /\ Abandon
          /\ UNCHANGED notes

Wake ==
    /\ BootAt("finishing") \/ BootAt("waiting")
    /\ WaitEnds(boot.raises)
    /\ UNCHANGED <<relayVars, up, closer, faults>>

\* A cancellation during the clean-up after a start error: it is waited for
\* once more, unless it has finished already.
CancelledFinishing ==
    /\ BootAt("finishing")
    /\ MayFail
    /\ \/ WaitEnds("cancellation")
       \/ /\ ~Finished
          /\ boot' = [boot EXCEPT !.at = "waiting", !.raises = "cancellation"]
          /\ UNCHANGED <<cleanUp, reported>>
    /\ UNCHANGED <<relayVars, up, closer>>

CancelledWaiting ==
    /\ BootAt("waiting")
    /\ MayFail
    /\ Raises("cancellation")
    /\ Abandon
    /\ UNCHANGED <<relayVars, up, notes, closer>>

-----------------------------------------------------------------------------
(* The clean-up task.                                                      *)

CleansUp(place) == cleanUp # NoCleanUp /\ cleanUp.at = place

Position(p) == CHOOSE i \in DOMAIN StopOrder : StopOrder[i] = p

\* The stop() of _stop_each() that has its turn, in shutdown order, ends.
CleanUpStop(p) ==
    /\ CleansUp("running")
    /\ p \in cleanUp.left /\ \A q \in cleanUp.left : Position(p) <= Position(q)
    /\ up' = up \ {p}
    /\ UNCHANGED <<relayVars, boot, reported, closer>>

CleanUpStops ==
    /\ \E p \in Part :
          /\ CleanUpStop(p)
          /\ cleanUp' = [cleanUp EXCEPT !.left = @ \ {p}]
    /\ UNCHANGED faults

\* It raises an Exception: one of its own, or an instance that was raised
\* before.  The next stop has its turn.
CleanUpStopRaises ==
    /\ \E p \in Part :
          /\ CleanUpStop(p)
          /\ \E e \in {p} \cup Instances \cup IF boot.failed THEN {StartError} ELSE {} :
                cleanUp' = [cleanUp EXCEPT !.left = @ \ {p},
                                           !.failures = @ \cup {<<p, e>>}]
    /\ MayFail

\* It is cancelled, or raises what is no Exception: the remaining stops are
\* skipped, and the failures so far are dropped with the result of _clean_up().
CleanUpStopBreaks ==
    /\ \E p \in Part, outcome \in {"fatal", "cancelled"} :
          /\ CleanUpStop(p)
          /\ cleanUp' = [cleanUp EXCEPT !.at = "done", !.left = @ \ {p},
                                        !.outcome = outcome, !.broken = p]
    /\ MayFail

CleanUpEnds ==
    /\ CleansUp("running") /\ cleanUp.left = {}
    /\ cleanUp' = [cleanUp EXCEPT !.at = "done"]
    /\ UNCHANGED <<relayVars, boot, up, reported, closer, faults>>

\* _clean_up_done().
CleanUpDone ==
    /\ CleansUp("done")
    /\ cleanUp' = [cleanUp EXCEPT !.at = "called"]
    /\ IF cleanUp.abandoned THEN Log ELSE UNCHANGED logged
    /\ UNCHANGED <<relayVars, boot, up, notes, closer, faults>>

-----------------------------------------------------------------------------
(* shutdown().                                                             *)

Active(c) == closer[c].at \in {"stopping", "awaiting"}
InsidePass(r) == \E c \in Closer : Active(c) /\ closer[c].own = r
Stopping(c) == StopOrder[closer[c].next]
Stops(c) == closer[c].at = "stopping" /\ closer[c].next <= Len(StopOrder)

CallShutdown(c, own) ==
    /\ BootAt("returned") /\ closer[c].at = "idle"
    /\ own = NoRun \/ (c \in SelfCloser /\ RunAt(own, "pass") /\ ~InsidePass(own))
    /\ closer' = [closer EXCEPT ![c].at = "stopping", ![c].own = own]
    /\ UNCHANGED <<relayVars, boot, up, cleanUp, reported, faults>>

\* The stop() of a part other than the relay ends: it returns or raises an
\* Exception, and the next part has its turn either way.
StopPart(c) ==
    /\ Stops(c) /\ Stopping(c) # Relay
    /\ up' = up \ {Stopping(c)}
    /\ closer' = [closer EXCEPT ![c].next = @ + 1]
    /\ UNCHANGED <<relayVars, boot, cleanUp, reported, faults>>

StopRelay(c) ==
    /\ Stops(c) /\ Stopping(c) = Relay
    /\ Detach
    /\ up' = up \ {Relay}
    /\ closer' = [closer EXCEPT ![c].at = "awaiting",
                                ![c].awaits = ToAwait(closer[c].own),
                                ![c].seen = DOMAIN runs]
    /\ UNCHANGED <<boot, cleanUp, reported, faults>>

Drained(c) ==
    /\ closer[c].at = "awaiting"
    /\ \A r \in closer[c].awaits : Exited(r)
    /\ closer' = [closer EXCEPT ![c].at = "stopping", ![c].next = @ + 1]
    /\ UNCHANGED <<relayVars, boot, up, cleanUp, reported, faults>>

Close(c) ==
    /\ closer[c].at = "stopping" /\ closer[c].next > Len(StopOrder)
    /\ closer' = [closer EXCEPT ![c].at = "ended"]
    /\ UNCHANGED <<relayVars, boot, up, cleanUp, reported, faults>>

\* A cancellation, or a stop that raises what is no Exception, skips the
\* remaining stops.
CloseCancelled(c) ==
    /\ Active(c) /\ closer[c].own = NoRun
    /\ MayFail
    /\ closer' = [closer EXCEPT ![c].at = "cancelled"]
    /\ UNCHANGED <<relayVars, boot, up, cleanUp, reported>>

-----------------------------------------------------------------------------
(* The relay's runs, and a supervisor that starts the relay again.         *)

Restart ==
    /\ BootAt("returned")
    /\ StartRelay
    /\ up' = up \cup {Relay}
    /\ UNCHANGED <<boot, cleanUp, reported, closer, faults>>

\* A pass ends when the shutdown() that it calls has.
RunStep(r) ==
    /\ BeginPass(r) \/ (EndPass(r) /\ ~InsidePass(r)) \/ Exit(r)
    /\ UNCHANGED <<boot, up, cleanUp, reported, closer, faults>>

\* A cancelled run takes the shutdown() it calls with it.
RunDies(r) ==
    /\ Die(r)
    /\ MayFail
    /\ closer' = [c \in Closer |->
                    IF Active(c) /\ closer[c].own = r
                    THEN [closer[c] EXCEPT !.at = "cancelled"] ELSE closer[c]]
    /\ UNCHANGED <<boot, up, cleanUp, reported>>

-----------------------------------------------------------------------------
CleanUpStep == CleanUpStops \/ CleanUpEnds \/ CleanUpDone
CloserStep(c) == StopPart(c) \/ StopRelay(c) \/ Drained(c) \/ Close(c)

Next ==
    \/ Begin \/ StartPart \/ StartFails \/ Wake \/ CancelledFinishing \/ CancelledWaiting
    \/ CleanUpStep \/ CleanUpStopRaises \/ CleanUpStopBreaks
    \/ \E c \in Closer : CloserStep(c) \/ CloseCancelled(c)
                         \/ \E own \in Run \cup {NoRun} : CallShutdown(c, own)
    \/ Restart
    \/ \E r \in Run : RunStep(r) \/ RunDies(r)

Spec == Init /\ [][Next]_vars

\* The calls that are awaited return, and the event loop resumes who waits.
FairSpec ==
    /\ Spec
    /\ WF_vars(CleanUpStep) /\ WF_vars(Wake)
    /\ \A c \in Closer : WF_vars(CloserStep(c))
    /\ \A r \in Run : WF_vars(RunStep(r))

-----------------------------------------------------------------------------
(* Properties.                                                             *)

\* When a shutdown() comes to stop the broker, every run of the relay that was
\* there when its stop() began has exited, except the one that calls, also
\* when several stop at once, and when a supervisor starts the relay again
\* (OutboundEventGateway.stop, ADR-074).  The calling run and a run that is
\* started meanwhile may still publish to the stopped broker.
DrainedBeforeBroker ==
    \A c \in Closer :
        closer[c].at \in {"stopping", "ended"} /\ closer[c].next > Len(Gateways) + 1 =>
            \A r \in closer[c].seen \ {closer[c].own} : Exited(r)

\* c waits for a run whose pass is in the call d.
WaitsFor(c, d) ==
    /\ c # d /\ Active(d)
    /\ closer[c].at = "awaiting" /\ closer[d].own \in closer[c].awaits

\* c, or one it waits for, is in a circle of passes that wait for each other.
InCircle(c) ==
    \E calls \in SUBSET Closer :
        c \in calls /\ \A d \in calls : \E e \in calls : WaitsFor(d, e)

\* A bootstrap() that fails or is cancelled leaves nothing running that it had
\* started, also when it stopped waiting for the clean-up, except the parts
\* behind a stop that was cancelled or raised what is no Exception (ADR-073);
\* and a shutdown() never waits for ever, also when the relay itself calls it,
\* except when two passes have called it and wait for each other.
StartedIsStopped ==
    /\ BootAt("finishing") \/ BootAt("waiting") ~>
          /\ BootAt("raised")
          /\ \A p \in up : /\ cleanUp.outcome \in {"fatal", "cancelled"}
                           /\ Position(cleanUp.broken) < Position(p)
    /\ \A c \in Closer : Active(c) ~> ~Active(c) \/ InCircle(c)

NotedOnce(errors) == \A e \in Error : notes[e] = IF e \in errors THEN 1 ELSE 0
LoggedOnce(parts) == \A p \in Part : logged[p] = IF p \in parts THEN 1 ELSE 0

\* However the cancellations of bootstrap() and the end of the clean-up meet
\* (_wait_or_abandon, _abandon and _clean_up_done): when every stop ran, each
\* failure is noted once, by instance and never on itself, or else each is
\* logged once; what broke the stops is raised, or else logged once; and a
\* clean-up that was cancelled reports nothing, neither twice nor in part.
FailuresReportedOnce ==
    /\ \A e \in Error : notes[e] <= 1
    /\ BootAt("raised") /\ CleansUp("called") =>
          CASE cleanUp.outcome = "stops" ->
                 \/ NotedOnce(Instances \ {StartError}) /\ LoggedOnce({})
                 \/ NotedOnce({}) /\ LoggedOnce(Failed)
            [] cleanUp.outcome = "fatal" ->
                 /\ NotedOnce({})
                 /\ LoggedOnce(IF boot.raises = "fatal" THEN {} ELSE {cleanUp.broken})
            [] cleanUp.outcome = "cancelled" -> NotedOnce({}) /\ LoggedOnce({})
=============================================================================
