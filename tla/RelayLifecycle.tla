--------------------------- MODULE RelayLifecycle ---------------------------
(***************************************************************************)
(* start() and stop() of OutboundEventGateway and the loop of its runs     *)
(* (ADR-074).  Each start() makes a run with a stop request of its own;    *)
(* stop() detaches the current run before it waits, so that runs overlap.  *)
(* run() tasks that the application creates itself are not modelled: the   *)
(* documentation asks for start() or run(), never both.                    *)
(***************************************************************************)
EXTENDS Naturals, Sequences, FiniteSets

CONSTANTS
    MaxRuns             \* bound: runs that start() makes

ASSUME RelayAssumption == MaxRuns \in Nat

Run == 1..MaxRuns
NoRun == 0

VARIABLES
    runs,               \* the runs made so far, in their order
    current,            \* _run_state
    task,               \* the run that _task executes
    stopping            \* _stopping: detached runs that have not exited

relayVars == <<runs, current, task, stopping>>

RelayTypeOK ==
    /\ runs \in Seq([at : {"polling", "pass", "exited"}, stop : BOOLEAN])
    /\ {current, task} \subseteq Run \cup {NoRun}
    /\ stopping \subseteq Run

RelayInit == runs = <<>> /\ current = NoRun /\ task = NoRun /\ stopping = {}

RunAt(r, place) == r \in DOMAIN runs /\ runs[r].at = place
Exited(r) == RunAt(r, "exited")

\* start(): nothing while there is a task, even one that died.
StartRelay ==
    IF task # NoRun
    THEN UNCHANGED relayVars
    ELSE /\ Len(runs) < MaxRuns
         /\ runs' = Append(runs, [at |-> "polling", stop |-> FALSE])
         /\ current' = Len(runs')
         /\ task' = Len(runs')
         /\ UNCHANGED stopping

\* stop(), up to its first wait.
Detach ==
    /\ task' = NoRun
    /\ current' = NoRun
    /\ IF current = NoRun
       THEN UNCHANGED <<runs, stopping>>
       ELSE /\ runs' = [runs EXCEPT ![current].stop = TRUE]
            /\ stopping' = stopping \cup {current}

\* Mutant: only the run that this stop() detaches.
DetachedOnly(own) == {current} \ {NoRun, own}

\* Mutant: the run that the caller is part of as well.
DetachedAndOwn(own) == (stopping \cup {current}) \ {NoRun}

\* The runs a stop() waits for: all that are stopping, except its own.
ToAwait(own) == (stopping \cup {current}) \ {NoRun, own}

-----------------------------------------------------------------------------
(* _run_loop(); a sleep is part of polling.                                *)

BeginPass(r) ==
    /\ RunAt(r, "polling")
    /\ ~runs[r].stop
    /\ runs' = [runs EXCEPT ![r].at = "pass"]
    /\ UNCHANGED <<current, task, stopping>>

\* The pass returns, or raises an Exception that the loop logs.
EndPass(r) ==
    /\ RunAt(r, "pass")
    /\ runs' = [runs EXCEPT ![r].at = "polling"]
    /\ UNCHANGED <<current, task, stopping>>

\* The finally clause.
Leave(r) ==
    /\ runs' = [runs EXCEPT ![r].at = "exited"]
    /\ current' = IF current = r THEN NoRun ELSE current
    /\ stopping' = stopping \ {r}
    /\ UNCHANGED task

Exit(r) == RunAt(r, "polling") /\ runs[r].stop /\ Leave(r)

\* The task is cancelled, or a call raises what is no Exception.
Die(r) == (RunAt(r, "polling") \/ RunAt(r, "pass")) /\ Leave(r)
=============================================================================
