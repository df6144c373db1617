--------------------- MODULE ApplicationLifecycleProofs ---------------------
(* Theorems about ApplicationLifecycle for any number of gateways, runs of    *)
(* the relay, calls of shutdown() and faults.                                 *)
EXTENDS ApplicationLifecycle, SequenceTheorems, TLAPS

-----------------------------------------------------------------------------
(* Runs of the relay.                                                         *)

RunRecord == [at : {"polling", "pass", "exited"}, stop : BOOLEAN]

\* Whatever runs is the current run or one that a stop() has detached, and
\* the current run is the one of the task.
RunsInv ==
    /\ RelayTypeOK
    /\ DOMAIN runs \subseteq Run
    /\ current \in {NoRun, task}
    /\ {current} \cup stopping \subseteq DOMAIN runs \cup {NoRun}
    /\ \A r \in DOMAIN runs : Exited(r) \/ r = current \/ r \in stopping

\* Runs are only added, and one that has exited stays so.
RunsGrow ==
    /\ DOMAIN runs \subseteq DOMAIN runs'
    /\ \A r \in DOMAIN runs : Exited(r) => Exited(r)'

LEMMA RunsTyped ==
  ASSUME RunsInv
  PROVE  /\ runs \in Seq(RunRecord) /\ Len(runs) \in Nat
         /\ DOMAIN runs = 1..Len(runs)
         /\ current \in Run \cup {NoRun} /\ task \in Run \cup {NoRun}
         /\ stopping \subseteq Run
BY DEF RunsInv, RelayTypeOK, RunRecord

\* Only the record of one run changes.
LEMMA RunChanges ==
  ASSUME RunsInv, NEW r \in DOMAIN runs, NEW record \in RunRecord,
         runs' = [runs EXCEPT ![r] = record]
  PROVE  /\ runs' \in Seq(RunRecord)
         /\ DOMAIN runs' = DOMAIN runs
         /\ runs'[r] = record
         /\ \A q \in DOMAIN runs \ {r} : runs'[q] = runs[q]
BY RunsTyped, ExceptSeq

LEMMA StartRelayKeeps ==
  ASSUME RunsInv, StartRelay
  PROVE  RunsInv' /\ RunsGrow
<1> USE RelayAssumption
<1>1. CASE task # NoRun
  BY <1>1 DEF StartRelay, RunsInv, RelayTypeOK, RunsGrow, relayVars, Exited, RunAt
<1>2. CASE task = NoRun
  <2> DEFINE new == [at |-> "polling", stop |-> FALSE]
  <2>1. /\ Len(runs) < MaxRuns /\ runs' = Append(runs, new)
        /\ current' = Len(runs') /\ task' = Len(runs') /\ stopping' = stopping
    BY <1>2 DEF StartRelay
  <2>2. runs \in Seq(RunRecord) /\ Len(runs) \in Nat /\ new \in RunRecord
    BY RunsTyped DEF RunRecord
  <2> HIDE DEF new
  <2>3. /\ runs' \in Seq(RunRecord) /\ Len(runs') = Len(runs) + 1
        /\ \A r \in 1..Len(runs) : runs'[r] = runs[r]
    BY <2>1, <2>2, AppendProperties
  <2>4. DOMAIN runs = 1..Len(runs) /\ DOMAIN runs' = 1..(Len(runs) + 1)
    BY <2>2, <2>3
  <2>5. current = NoRun
    BY <1>2 DEF RunsInv
  <2>6. RunsGrow
    BY <2>2, <2>3, <2>4 DEF RunsGrow, Exited, RunAt
  <2>7. RelayTypeOK'
    <3>1. current' \in Run /\ task' \in Run
      BY <2>1, <2>2, <2>3 DEF Run
    <3> QED
      BY <2>1, <2>3, <3>1 DEF RunsInv, RelayTypeOK, RunRecord
  <2>10. DOMAIN runs' \subseteq Run
    BY <2>1, <2>2, <2>4 DEF Run
  <2>8. {current'} \cup stopping' \subseteq DOMAIN runs' \cup {NoRun}
    BY <2>1, <2>2, <2>3, <2>4 DEF RunsInv
  <2>9. ASSUME NEW r \in DOMAIN runs'
        PROVE  Exited(r)' \/ r = current' \/ r \in stopping'
    <3>1. r \in DOMAIN runs \/ r = current'
      BY <2>1, <2>2, <2>3, <2>4
    <3>2. ASSUME r \in DOMAIN runs PROVE Exited(r)' \/ r \in stopping'
      <4>1. r # NoRun
        BY <2>4, <3>2 DEF NoRun
      <4>2. Exited(r) \/ r \in stopping
        BY <2>5, <3>2, <4>1 DEF RunsInv
      <4> QED
        BY <2>1, <2>6, <3>2, <4>2 DEF RunsGrow
    <3> QED
      BY <3>1, <3>2
  <2> QED
    BY <2>1, <2>6, <2>7, <2>8, <2>9, <2>10 DEF RunsInv
<1> QED
  BY <1>1, <1>2

LEMMA DetachKeeps ==
  ASSUME RunsInv, Detach
  PROVE  /\ RunsInv' /\ RunsGrow
         /\ DOMAIN runs' = DOMAIN runs
<1>1. task' = NoRun /\ current' = NoRun
  BY DEF Detach
<1>2. CASE current = NoRun
  BY <1>1, <1>2 DEF Detach, RunsInv, RelayTypeOK, RunsGrow, Exited, RunAt
<1>3. CASE current # NoRun
  <2> DEFINE record == [runs[current] EXCEPT !.stop = TRUE]
  <2>1. current \in DOMAIN runs
    BY <1>3 DEF RunsInv
  <2>2. runs[current] \in RunRecord /\ current \in Run
    BY <1>3, <2>1, RunsTyped, ElementOfSeq
  <2>3. record \in RunRecord /\ record.at = runs[current].at
    BY <2>2 DEF RunRecord
  <2>4. runs' = [runs EXCEPT ![current] = record] /\ stopping' = stopping \cup {current}
    BY <1>3 DEF Detach
  <2> HIDE DEF record
  <2>5. /\ runs' \in Seq(RunRecord) /\ DOMAIN runs' = DOMAIN runs
        /\ runs'[current] = record
        /\ \A q \in DOMAIN runs \ {current} : runs'[q] = runs[q]
    BY <2>1, <2>3, <2>4, RunChanges
  <2>6. \A r : Exited(r)' <=> Exited(r)
    BY <2>3, <2>5 DEF Exited, RunAt
  <2>7. RelayTypeOK'
    BY <1>1, <2>2, <2>4, <2>5 DEF RunsInv, RelayTypeOK, RunRecord
  <2> QED
    BY <1>1, <2>1, <2>4, <2>5, <2>6, <2>7 DEF RunsInv, RunsGrow
<1> QED
  BY <1>2, <1>3

\* Steps of a run.
LEMMA RunPlaceChanges ==
  ASSUME RunsInv, NEW r \in DOMAIN runs, NEW place \in {"polling", "pass", "exited"},
         ~Exited(r), runs' = [runs EXCEPT ![r].at = place]
  PROVE  /\ runs' \in Seq(RunRecord) /\ DOMAIN runs' = DOMAIN runs
         /\ RunsGrow
         /\ Exited(r)' <=> place = "exited"
         /\ \A q \in DOMAIN runs \ {r} : Exited(q)' <=> Exited(q)
<1> DEFINE record == [runs[r] EXCEPT !.at = place]
<1>1. runs[r] \in RunRecord
  BY RunsTyped, ElementOfSeq
<1>2. record \in RunRecord /\ record.at = place
  BY <1>1 DEF RunRecord
<1>3. runs' = [runs EXCEPT ![r] = record]
  OBVIOUS
<1> HIDE DEF record
<1>4. /\ runs' \in Seq(RunRecord) /\ DOMAIN runs' = DOMAIN runs
      /\ runs'[r] = record
      /\ \A q \in DOMAIN runs \ {r} : runs'[q] = runs[q]
  BY <1>2, <1>3, RunChanges
<1>5. /\ Exited(r)' <=> place = "exited"
      /\ \A q \in DOMAIN runs \ {r} : Exited(q)' <=> Exited(q)
  BY <1>2, <1>4 DEF Exited, RunAt
<1> QED
  BY <1>4, <1>5 DEF RunsGrow

LEMMA RunStepKeeps ==
  ASSUME RunsInv, NEW r \in Run, BeginPass(r) \/ EndPass(r) \/ Exit(r) \/ Die(r)
  PROVE  RunsInv' /\ RunsGrow
<1>1. r \in DOMAIN runs /\ ~Exited(r)
  BY DEF BeginPass, EndPass, Exit, Die, RunAt, Exited
<1>2. CASE BeginPass(r) \/ EndPass(r)
  <2>1. PICK place \in {"polling", "pass"} : runs' = [runs EXCEPT ![r].at = place]
    BY <1>2 DEF BeginPass, EndPass
  <2>2. /\ runs' \in Seq(RunRecord) /\ DOMAIN runs' = DOMAIN runs /\ RunsGrow
        /\ \A q \in DOMAIN runs : Exited(q)' <=> Exited(q)
    BY <1>1, <2>1, RunPlaceChanges
  <2>3. UNCHANGED <<current, task, stopping>>
    BY <1>2 DEF BeginPass, EndPass
  <2> QED
    BY <2>2, <2>3 DEF RunsInv, RelayTypeOK, RunRecord
<1>3. CASE Leave(r)
  <2>1. runs' = [runs EXCEPT ![r].at = "exited"]
    BY <1>3 DEF Leave
  <2>2. /\ runs' \in Seq(RunRecord) /\ DOMAIN runs' = DOMAIN runs /\ RunsGrow
        /\ Exited(r)'
        /\ \A q \in DOMAIN runs \ {r} : Exited(q)' <=> Exited(q)
    BY <1>1, <2>1, RunPlaceChanges
  <2>3. /\ current' = IF current = r THEN NoRun ELSE current
        /\ stopping' = stopping \ {r} /\ task' = task
    BY <1>3 DEF Leave
  <2> QED
    BY <2>2, <2>3 DEF RunsInv, RelayTypeOK, RunRecord
<1> QED
  BY <1>2, <1>3 DEF Exit, Die

-----------------------------------------------------------------------------
(* Calls of shutdown().                                                       *)

\* The runs a call saw have exited, but for its own.
Quiet(call, rs) == \A r \in call.seen \ {call.own} : rs[r].at = "exited"

\* Of the runs a call saw, those it does not wait for have exited; once it is
\* past the relay all have.
CallInv(call, rs) ==
    /\ call.seen \subseteq DOMAIN rs
    /\ call.at = "idle" => call.next = 1
    /\ call.at = "awaiting" =>
          \A r \in call.seen \ {call.own} : r \in call.awaits \/ rs[r].at = "exited"
    /\ call.at \in {"stopping", "ended"} /\ call.next > Len(Gateways) + 1 =>
          Quiet(call, rs)

CallsInv ==
    /\ closer \in [Closer -> Call]
    /\ \A c \in Closer : CallInv(closer[c], runs)

DrainInv == RunsInv /\ CallsInv

LEMMA StopOrderFacts ==
  /\ StopOrder \in Seq(Part)
  /\ Len(Gateways) \in Nat
  /\ Len(StopOrder) = Len(Gateways) + 2
  /\ StopOrder[Len(Gateways) + 1] = Relay
<1> DEFINE last == <<Relay, Broker>>
<1>1. Gateways \in Seq(Part) /\ Len(Gateways) \in Nat
  BY LifecycleAssumption
<1>2. last \in Seq(Part) /\ Len(last) = 2 /\ last[1] = Relay
  BY LifecycleAssumption
<1> HIDE DEF last
<1>3. /\ Gateways \o last \in Seq(Part)
      /\ Len(Gateways \o last) = Len(Gateways) + Len(last)
      /\ \A i \in 1..Len(Gateways) + Len(last) : (Gateways \o last)[i] =
            IF i <= Len(Gateways) THEN Gateways[i] ELSE last[i - Len(Gateways)]
  BY <1>1, <1>2, ConcatProperties
<1>4. /\ Len(Gateways) + 1 \in 1..Len(Gateways) + Len(last)
      /\ ~(Len(Gateways) + 1 <= Len(Gateways))
      /\ Len(Gateways) + 1 - Len(Gateways) = 1
  BY <1>1, <1>2
<1>5. StopOrder = Gateways \o last
  BY DEF StopOrder, last
<1> QED
  BY <1>1, <1>2, <1>3, <1>4, <1>5

LEMMA DrainStarts == Init => DrainInv
<1> SUFFICES ASSUME Init PROVE DrainInv
  OBVIOUS
<1>1. RunsInv
  BY DEF Init, RelayInit, RunsInv, RelayTypeOK
<1>2. closer \in [Closer -> Call]
  BY DEF Init, Call
<1>3. ASSUME NEW c \in Closer PROVE CallInv(closer[c], runs)
  <2>1. /\ closer[c].at = "idle" /\ closer[c].next = 1 /\ closer[c].seen = {}
    BY DEF Init
  <2> QED
    BY <2>1 DEF CallInv
<1> QED
  BY <1>1, <1>2, <1>3 DEF DrainInv, CallsInv

\* What a call knows of the runs stays true.
LEMMA CallStays ==
  ASSUME RunsGrow, NEW call, CallInv(call, runs)
  PROVE  CallInv(call, runs')
<1>1. \A r \in DOMAIN runs : runs[r].at = "exited" => runs'[r].at = "exited"
  BY DEF RunsGrow, Exited, RunAt
<1> QED
  BY <1>1 DEF RunsGrow, CallInv, Quiet

\* One call changes.
LEMMA CallChanges ==
  ASSUME CallsInv, RunsGrow, NEW c \in Closer, NEW call \in Call,
         closer' = [closer EXCEPT ![c] = call], CallInv(call, runs')
  PROVE  CallsInv'
<1>1. closer' \in [Closer -> Call]
  BY DEF CallsInv
<1>2. ASSUME NEW d \in Closer PROVE CallInv(closer'[d], runs')
  <2>1. CASE d = c
    BY <2>1 DEF CallsInv
  <2>2. CASE d # c
    <3>1. closer'[d] = closer[d] /\ CallInv(closer[d], runs)
      BY <2>2 DEF CallsInv
    <3> QED
      BY <3>1, CallStays
  <2> QED
    BY <2>1, <2>2
<1> QED
  BY <1>1, <1>2 DEF CallsInv

LEMMA CallsStay ==
  ASSUME CallsInv, RunsGrow, closer' = closer
  PROVE  CallsInv'
BY CallStays DEF CallsInv

LEMMA RunsStay ==
  ASSUME RunsInv, UNCHANGED relayVars
  PROVE  RunsInv' /\ RunsGrow
BY DEF RunsInv, RelayTypeOK, RunsGrow, relayVars, Exited, RunAt

LEMMA CallShutdownKeeps ==
  ASSUME DrainInv, NEW c \in Closer, NEW own \in Run \cup {NoRun}, CallShutdown(c, own)
  PROVE  DrainInv'
<1> DEFINE m == closer[c]
           call == [[m EXCEPT !.at = "stopping"] EXCEPT !.own = own]
<1>1. RunsInv' /\ RunsGrow /\ runs' = runs
  BY RunsStay DEF CallShutdown, DrainInv, relayVars
<1>2. m \in Call /\ CallInv(m, runs) /\ m.at = "idle" /\ m.next = 1
  BY DEF DrainInv, CallsInv, CallInv, CallShutdown
<1>3. closer' = [closer EXCEPT ![c] = call]
  BY DEF CallShutdown, DrainInv, CallsInv
<1> HIDE DEF m
<1>4. call \in Call /\ call.at = "stopping" /\ call.next = 1 /\ call.seen = m.seen
  BY <1>2 DEF Call
<1> HIDE DEF call
<1>5. CallInv(call, runs')
  BY <1>1, <1>2, <1>4, StopOrderFacts DEF CallInv
<1> QED
  BY <1>1, <1>3, <1>4, <1>5, CallChanges DEF DrainInv

LEMMA StopPartKeeps ==
  ASSUME DrainInv, NEW c \in Closer, StopPart(c)
  PROVE  DrainInv'
<1> DEFINE m == closer[c]
           call == [m EXCEPT !.next = @ + 1]
<1>1. RunsInv' /\ RunsGrow /\ runs' = runs
  BY RunsStay DEF StopPart, DrainInv, relayVars
<1>2. m \in Call /\ CallInv(m, runs) /\ m.at = "stopping" /\ m.next \in Nat
  BY DEF DrainInv, CallsInv, StopPart, Stops, Call
<1>3. m.next # Len(Gateways) + 1
  BY StopOrderFacts DEF StopPart, Stopping
<1>4. closer' = [closer EXCEPT ![c] = call]
  BY DEF StopPart, DrainInv, CallsInv
<1> HIDE DEF m
<1>5. /\ call \in Call /\ call.at = "stopping" /\ call.next = m.next + 1
      /\ call.seen = m.seen /\ call.own = m.own
  <2>1. m \in Call /\ m.next + 1 \in Nat
    BY <1>2
  <2>2. call \in Call /\ call.next = m.next + 1
    BY <2>1 DEF Call
  <2>3. call.at = m.at /\ call.seen = m.seen /\ call.own = m.own
    BY <2>1 DEF Call
  <2> QED
    BY <1>2, <2>2, <2>3
<1> HIDE DEF call
<1>6. call.next > Len(Gateways) + 1 => m.next > Len(Gateways) + 1
  BY <1>2, <1>3, <1>5, StopOrderFacts
<1>7. CallInv(call, runs')
  BY <1>1, <1>2, <1>5, <1>6 DEF CallInv, Quiet
<1> QED
  BY <1>1, <1>4, <1>5, <1>7, CallChanges DEF DrainInv

\* stop() of the relay waits for every run that is not its own.
LEMMA StopRelayKeeps ==
  ASSUME DrainInv, NEW c \in Closer, StopRelay(c)
  PROVE  DrainInv'
<1> DEFINE m == closer[c]
           awaits == ToAwait(m.own)
           call == [[[m EXCEPT !.at = "awaiting"] EXCEPT !.awaits = awaits]
                       EXCEPT !.seen = DOMAIN runs]
<1>1. RunsInv' /\ RunsGrow /\ DOMAIN runs' = DOMAIN runs
  BY DetachKeeps DEF StopRelay, DrainInv
<1>2. m \in Call
  BY DEF DrainInv, CallsInv
<1>3. awaits \in SUBSET Run /\ DOMAIN runs \in SUBSET Run
  BY RunsTyped DEF ToAwait, DrainInv, RunsInv
<1>4. closer' = [closer EXCEPT ![c] = call]
  BY DEF StopRelay, DrainInv, CallsInv
<1>5. \A r \in DOMAIN runs : r = m.own \/ r \in awaits \/ runs[r].at = "exited"
  <2>1. \A r \in DOMAIN runs : r # NoRun
    BY RunsTyped DEF DrainInv, NoRun
  <2> QED
    BY <2>1 DEF DrainInv, RunsInv, ToAwait, Exited, RunAt
<1>6. \A r \in DOMAIN runs : runs[r].at = "exited" => runs'[r].at = "exited"
  BY <1>1 DEF RunsGrow, Exited, RunAt
<1> HIDE DEF m, awaits
<1>7. /\ call \in Call /\ call.at = "awaiting" /\ call.awaits = awaits
      /\ call.seen = DOMAIN runs /\ call.own = m.own
  BY <1>2, <1>3 DEF Call
<1> HIDE DEF call
<1>8. CallInv(call, runs')
  BY <1>1, <1>5, <1>6, <1>7 DEF CallInv
<1> QED
  BY <1>1, <1>4, <1>7, <1>8, CallChanges DEF DrainInv

LEMMA DrainedKeeps ==
  ASSUME DrainInv, NEW c \in Closer, Drained(c)
  PROVE  DrainInv'
<1> DEFINE m == closer[c]
           call == [[m EXCEPT !.at = "stopping"] EXCEPT !.next = m.next + 1]
<1>1. RunsInv' /\ RunsGrow /\ runs' = runs
  BY RunsStay DEF Drained, DrainInv, relayVars
<1>2. m \in Call /\ CallInv(m, runs) /\ m.at = "awaiting"
  BY DEF DrainInv, CallsInv, Drained
<1>3. \A r \in m.awaits : runs[r].at = "exited"
  BY DEF Drained, Exited, RunAt
<1>4. closer' = [closer EXCEPT ![c] = call]
  BY DEF Drained, DrainInv, CallsInv
<1> HIDE DEF m
<1>5. /\ call \in Call /\ call.at = "stopping"
      /\ call.seen = m.seen /\ call.own = m.own
  <2>1. m \in Call /\ m.next + 1 \in Nat
    BY <1>2 DEF Call
  <2>2. call \in Call /\ call.at = "stopping"
    BY <2>1 DEF Call
  <2>3. call.seen = m.seen /\ call.own = m.own
    BY <2>1 DEF Call
  <2> QED
    BY <2>2, <2>3
<1> HIDE DEF call
<1>6. Quiet(call, runs')
  BY <1>1, <1>2, <1>3, <1>5 DEF CallInv, Quiet
<1>7. CallInv(call, runs')
  BY <1>1, <1>2, <1>5, <1>6 DEF CallInv
<1> QED
  BY <1>1, <1>4, <1>5, <1>7, CallChanges DEF DrainInv

\* The call ends, or is cancelled.
LEMMA CloseKeeps ==
  ASSUME DrainInv, NEW c \in Closer, Close(c) \/ CloseCancelled(c)
  PROVE  DrainInv'
<1> DEFINE m == closer[c]
<1>1. RunsInv' /\ RunsGrow /\ runs' = runs
  BY RunsStay DEF Close, CloseCancelled, DrainInv, relayVars
<1>2. m \in Call /\ CallInv(m, runs)
  BY DEF DrainInv, CallsInv
<1>3. PICK place \in {"ended", "cancelled"} :
         /\ closer' = [closer EXCEPT ![c] = [m EXCEPT !.at = place]]
         /\ place = "ended" => m.at = "stopping"
  BY DEF Close, CloseCancelled, DrainInv, CallsInv
<1> DEFINE call == [m EXCEPT !.at = place]
<1> HIDE DEF m
<1>4. call \in Call /\ call.at = place
  BY <1>2 DEF Call
<1>5. call.seen = m.seen /\ call.own = m.own /\ call.next = m.next
  BY <1>2 DEF Call
<1>6. closer' = [closer EXCEPT ![c] = call]
  BY <1>3
<1> HIDE DEF call
<1>7. CallInv(call, runs')
  BY <1>1, <1>2, <1>3, <1>4, <1>5 DEF CallInv, Quiet
<1> QED
  BY <1>1, <1>4, <1>6, <1>7, CallChanges DEF DrainInv

LEMMA RunDiesKeeps ==
  ASSUME DrainInv, NEW r \in Run, RunDies(r)
  PROVE  DrainInv'
<1>1. RunsInv' /\ RunsGrow
  BY RunStepKeeps DEF RunDies, DrainInv
<1>2. closer \in [Closer -> Call]
  BY DEF DrainInv, CallsInv
<1>3. ASSUME NEW c \in Closer
      PROVE  closer'[c] \in Call /\ CallInv(closer'[c], runs')
  <2> DEFINE m == closer[c]
             call == [m EXCEPT !.at = "cancelled"]
  <2>1. m \in Call /\ CallInv(m, runs')
    BY <1>1, CallStays DEF DrainInv, CallsInv
  <2>2. closer'[c] = call \/ closer'[c] = m
    BY DEF RunDies
  <2> HIDE DEF m
  <2>3. /\ call \in Call /\ call.at = "cancelled" /\ call.seen = m.seen
    BY <2>1 DEF Call
  <2> HIDE DEF call
  <2>4. CallInv(call, runs')
    BY <2>1, <2>3 DEF CallInv
  <2> QED
    BY <2>1, <2>2, <2>3, <2>4
<1>4. closer' \in [Closer -> Call]
  <2>1. closer' = [c \in Closer |-> closer'[c]]
    BY DEF RunDies
  <2> QED
    BY <1>3, <2>1
<1> QED
  BY <1>1, <1>3, <1>4 DEF DrainInv, CallsInv

LEMMA DrainStep == DrainInv /\ [Next]_vars => DrainInv'
<1> SUFFICES ASSUME DrainInv, [Next]_vars PROVE DrainInv'
  OBVIOUS
<1>1. ASSUME UNCHANGED <<relayVars, closer>> PROVE DrainInv'
  BY <1>1, RunsStay, CallsStay DEF DrainInv
<1>2. ASSUME StartRelay, UNCHANGED closer PROVE DrainInv'
  BY <1>2, StartRelayKeeps, CallsStay DEF DrainInv
<1>3. CASE StartPart
  BY <1>1, <1>2, <1>3 DEF StartPart
<1>4. CASE Restart
  BY <1>2, <1>4 DEF Restart
<1>5. CASE \/ Begin \/ StartFails \/ Wake \/ CancelledFinishing \/ CancelledWaiting
           \/ CleanUpStep \/ CleanUpStopRaises \/ CleanUpStopBreaks
  BY <1>1, <1>5 DEF Begin, StartFails, Wake, CancelledFinishing, CancelledWaiting,
     CleanUpStep, CleanUpStops, CleanUpEnds, CleanUpDone, CleanUpStopRaises,
     CleanUpStopBreaks, CleanUpStop
<1>6. ASSUME NEW c \in Closer,
             CloserStep(c) \/ CloseCancelled(c)
                \/ \E own \in Run \cup {NoRun} : CallShutdown(c, own)
      PROVE  DrainInv'
  BY <1>6, CallShutdownKeeps, StopPartKeeps, StopRelayKeeps, DrainedKeeps, CloseKeeps
     DEF CloserStep
<1>7. ASSUME NEW r \in Run, RunStep(r) \/ RunDies(r) PROVE DrainInv'
  <2>1. CASE RunStep(r)
    BY <2>1, RunStepKeeps, CallsStay DEF RunStep, DrainInv
  <2>2. CASE RunDies(r)
    BY <2>2, RunDiesKeeps
  <2> QED
    BY <1>7, <2>1, <2>2
<1>8. CASE UNCHANGED vars
  BY <1>1, <1>8 DEF vars, relayVars
<1> QED
  BY <1>3, <1>4, <1>5, <1>6, <1>7, <1>8 DEF Next

-----------------------------------------------------------------------------
(* Clean-up.                                                                  *)

NothingTold == NotedOnce({}) /\ LoggedOnce({})

\* What the clean-up has to tell was logged, noted or raised.
Told ==
    \/ boot.raises # "fatal" /\ NotedOnce({}) /\ LoggedOnce(ToLog)
    \/ /\ cleanUp.outcome = "stops"
       /\ NotedOnce(Instances \ {StartError}) /\ LoggedOnce({})
    \/ cleanUp.outcome = "fatal" /\ boot.raises = "fatal" /\ NothingTold

\* While bootstrap() waits nothing was told; once it raised, it told all about
\* a clean-up that ended, or left that to the callback.
ReportInv ==
    /\ notes \in [Error -> Nat] /\ logged \in [Part -> Nat]
    /\ boot.at \in {"idle", "starting", "returned"} =>
          NothingTold /\ cleanUp = NoCleanUp
    /\ boot.at \in {"finishing", "waiting"} =>
          /\ NothingTold /\ boot.raises # "fatal"
          /\ cleanUp \in CleanUp /\ ~cleanUp.abandoned
    /\ boot.at = "raised" =>
          /\ cleanUp \in CleanUp
          /\ ~cleanUp.abandoned => Told /\ Finished
          /\ cleanUp.abandoned =>
                /\ boot.raises # "fatal"
                /\ IF cleanUp.at = "called" THEN Told ELSE NothingTold
    /\ \A e \in Error : notes[e] <= 1

BootInv ==
    /\ boot \in Boot /\ up \subseteq Part
    /\ boot.next >= 1
    /\ boot.at \in {"idle", "starting"} => boot.next <= Len(StartOrder) /\ boot.raises # "fatal"
    /\ ReportInv

LEMMA StartOrderFacts ==
  StartOrder \in Seq(Part) /\ Len(StartOrder) \in Nat /\ Len(StartOrder) >= 2
<1> DEFINE last == <<Broker, Relay>>
<1>1. Gateways \in Seq(Part) /\ Len(Gateways) \in Nat
  BY LifecycleAssumption
<1>2. last \in Seq(Part) /\ Len(last) = 2
  BY LifecycleAssumption
<1> HIDE DEF last
<1>3. Gateways \o last \in Seq(Part) /\ Len(Gateways \o last) = Len(Gateways) + Len(last)
  BY <1>1, <1>2, ConcatProperties
<1>4. StartOrder = Gateways \o last
  BY DEF StartOrder, last
<1> QED
  BY <1>1, <1>2, <1>3, <1>4

LEMMA NothingStays ==
  ASSUME NothingTold, UNCHANGED <<notes, logged>>
  PROVE  NothingTold' /\ \A e \in Error : notes'[e] <= 1
<1>1. /\ \A e \in Error : notes[e] = 0
      /\ \A p \in Part : logged[p] = 0
  BY DEF NothingTold, NotedOnce, LoggedOnce
<1>2. NothingTold'
  BY <1>1 DEF NothingTold, NotedOnce, LoggedOnce
<1> QED
  BY <1>1, <1>2

\* Noting, and logging, when nothing was told.
LEMMA NoteTells ==
  ASSUME notes \in [Error -> Nat], NotedOnce({}), Note
  PROVE  /\ notes' \in [Error -> Nat]
         /\ \A e \in Error : notes'[e] = IF e \in Instances \ {StartError} THEN 1 ELSE 0
         /\ \A e \in Error : notes'[e] <= 1
<1> DEFINE told == Instances \ {StartError}
<1>1. /\ notes' \in [Error -> Nat]
      /\ \A e \in Error : notes'[e] = IF e \in told THEN 1 ELSE 0
  BY DEF NotedOnce, Note
<1> HIDE DEF told
<1>2. \A e \in Error : notes'[e] <= 1
  BY <1>1
<1> QED
  BY <1>1, <1>2 DEF told

LEMMA LogTells ==
  ASSUME logged \in [Part -> Nat], LoggedOnce({}), Log
  PROVE  /\ logged' \in [Part -> Nat]
         /\ \A p \in Part : logged'[p] = IF p \in ToLog THEN 1 ELSE 0
<1> DEFINE told == ToLog
<1>1. logged' = [p \in Part |-> logged[p] + IF p \in told THEN 1 ELSE 0]
  BY DEF Log
<1> HIDE DEF told
<1>2. /\ logged' \in [Part -> Nat]
      /\ \A p \in Part : logged'[p] = IF p \in told THEN 1 ELSE 0
  BY <1>1 DEF LoggedOnce
<1> QED
  BY <1>2 DEF told

LEMMA BootStarts == Init => BootInv
BY StartOrderFacts DEF Init, BootInv, Boot, ReportInv, NothingTold, NotedOnce, LoggedOnce

LEMMA ReportStays ==
  ASSUME BootInv, UNCHANGED <<boot, cleanUp, reported>>, up' \subseteq Part
  PROVE  BootInv'
<1>1. /\ NothingTold' <=> NothingTold
      /\ Told' <=> Told
      /\ Finished' <=> Finished
  BY DEF reported, NothingTold, Told, ToLog, Failed, Instances, NotedOnce, LoggedOnce,
     Finished
<1> QED
  BY <1>1 DEF BootInv, ReportInv, reported

\* bootstrap() starts, and fails to start, one part after the other.
LEMMA StartingKeeps ==
  ASSUME BootInv, Begin \/ StartPart \/ StartFails
  PROVE  BootInv'
<1>1. NothingTold /\ UNCHANGED <<notes, logged>>
  BY DEF Begin, StartPart, StartFails, BootAt, BootInv, ReportInv, reported
<1>2. NothingTold'
  BY <1>1 DEF NothingTold, NotedOnce, LoggedOnce
<1>3. CASE Begin
  BY <1>1, <1>2, <1>3 DEF Begin, BootAt, Boot, BootInv, ReportInv
<1>4. CASE StartPart
  <2>1. boot \in Boot /\ boot.at = "starting" /\ boot.next \in 1..Len(StartOrder)
    <3>1. boot.at = "starting"
      BY <1>4 DEF StartPart, BootAt
    <3>2. boot \in Boot /\ boot.next >= 1 /\ boot.next <= Len(StartOrder)
      BY <3>1 DEF BootInv
    <3>3. boot.next \in Nat
      BY <3>2 DEF Boot
    <3> QED
      BY <3>1, <3>2, <3>3, StartOrderFacts
  <2>2. Starting \in Part
    BY <2>1, StartOrderFacts, ElementOfSeq DEF Starting
  <2>3. up' \subseteq Part
    BY <1>4, <2>2 DEF StartPart, BootInv
  <2>4. /\ boot'.next = boot.next + 1 /\ boot' \in Boot
        /\ boot'.at \in {"starting", "returned"} /\ boot'.raises = boot.raises
        /\ boot'.at = "starting" => boot.next # Len(StartOrder)
    <3> DEFINE place == IF boot.next = Len(StartOrder) THEN "returned" ELSE "starting"
               next == boot.next + 1
    <3>1. boot' = [boot EXCEPT !.at = place, !.next = next]
      BY <1>4 DEF StartPart
    <3>2. place \in {"starting", "returned"} /\ next \in Nat
          /\ (place = "starting" => boot.next # Len(StartOrder))
      BY <2>1, StartOrderFacts
    <3> HIDE DEF place, next
    <3>3. /\ boot' \in Boot /\ boot'.at = place /\ boot'.next = next
          /\ boot'.raises = boot.raises
      BY <2>1, <3>1, <3>2 DEF Boot
    <3> QED
      BY <3>2, <3>3 DEF next
  <2>5. boot'.at = "starting" => boot'.next <= Len(StartOrder)
    BY <2>1, <2>4, StartOrderFacts
  <2>6. boot'.next >= 1
    BY <2>1, <2>4, StartOrderFacts
  <2>7. ReportInv'
    BY <1>1, <1>2, <1>4, <2>1, <2>4 DEF StartPart, BootInv, ReportInv
  <2> QED
    BY <2>1, <2>3, <2>4, <2>5, <2>6, <2>7 DEF BootInv
<1>5. CASE StartFails
  <2>1. /\ boot.at = "starting" /\ boot'.at \in {"finishing", "waiting"}
        /\ boot' \in Boot /\ boot'.next = boot.next /\ boot'.raises # "fatal"
    BY <1>5 DEF StartFails, BootAt, Boot, BootInv
  <2>2. cleanUp' \in CleanUp /\ ~cleanUp'.abandoned /\ up' = up
    BY <1>5 DEF StartFails, StartCleanUp, CleanUp, BootInv
  <2> QED
    BY <1>1, <1>2, <2>1, <2>2 DEF BootInv, ReportInv
<1> QED
  BY <1>3, <1>4, <1>5

\* _abandon() tells what there is, or leaves it to the callback.
LEMMA AbandonKeeps ==
  ASSUME NothingTold, notes \in [Error -> Nat], logged \in [Part -> Nat],
         cleanUp \in CleanUp, ~cleanUp.abandoned,
         Abandon, notes' = notes, boot'.at = "raised", boot'.raises # "fatal"
  PROVE  ReportInv'
<1>1. CASE cleanUp.at = "called"
  <2>1. Log /\ cleanUp' = cleanUp
    BY <1>1 DEF Abandon
  <2>2. /\ logged' \in [Part -> Nat]
        /\ \A p \in Part : logged'[p] = IF p \in ToLog THEN 1 ELSE 0
    BY <2>1, LogTells DEF NothingTold
  <2>3. ToLog' = ToLog
    BY <2>1 DEF ToLog, Failed
  <2>4. NotedOnce({})' /\ LoggedOnce(ToLog)'
    BY <2>2, <2>3 DEF NothingTold, NotedOnce, LoggedOnce
  <2>5. Told'
    BY <2>4 DEF Told
  <2>6. \A e \in Error : notes'[e] <= 1
    BY <2>4 DEF NotedOnce
  <2> QED
    BY <1>1, <2>1, <2>2, <2>5, <2>6 DEF ReportInv, Finished
<1>2. CASE cleanUp.at # "called"
  <2>1. cleanUp' = [cleanUp EXCEPT !.abandoned = TRUE] /\ logged' = logged
    BY <1>2 DEF Abandon
  <2>2. cleanUp' \in CleanUp /\ cleanUp'.abandoned /\ cleanUp'.at = cleanUp.at
    BY <2>1 DEF CleanUp
  <2>3. NothingTold'
    BY <2>1 DEF NothingTold, NotedOnce, LoggedOnce
  <2>4. \A e \in Error : notes'[e] <= 1
    BY <2>3 DEF NothingTold, NotedOnce
  <2> QED
    BY <1>2, <2>1, <2>2, <2>3, <2>4 DEF ReportInv
<1> QED
  BY <1>1, <1>2

\* The wait ends with the clean-up.
LEMMA WaitEndsKeeps ==
  ASSUME NothingTold, notes \in [Error -> Nat], logged \in [Part -> Nat],
         cleanUp \in CleanUp, ~cleanUp.abandoned, boot \in Boot,
         NEW error \in {"start error", "cancellation", "nothing"}, WaitEnds(error)
  PROVE  ReportInv' /\ boot' \in Boot /\ boot'.at = "raised" /\ boot'.next = boot.next
<1>1. PICK raised \in {error, "fatal", "cancellation"} : Raises(raised)
  BY DEF WaitEnds
<1>2. /\ boot' \in Boot /\ boot'.at = "raised" /\ boot'.next = boot.next
      /\ boot'.raises = raised
  BY <1>1 DEF Raises, Boot
<1>3. CASE cleanUp.outcome = "stops"
  <2>1. Note /\ UNCHANGED <<cleanUp, logged>> /\ Finished
    BY <1>3 DEF WaitEnds
  <2>2. /\ notes' \in [Error -> Nat]
        /\ \A e \in Error : notes'[e] = IF e \in Instances \ {StartError} THEN 1 ELSE 0
    BY <2>1, NoteTells DEF NothingTold
  <2>3. Instances' = Instances /\ Finished'
    BY <2>1 DEF Instances, Finished
  <2>4. NotedOnce(Instances \ {StartError})' /\ LoggedOnce({})'
    BY <2>1, <2>2, <2>3 DEF NothingTold, NotedOnce, LoggedOnce
  <2>5. Told'
    BY <1>3, <2>1, <2>4 DEF Told
  <2>6. \A e \in Error : notes'[e] <= 1
    BY <2>1, NoteTells DEF NothingTold
  <2>7. logged' \in [Part -> Nat] /\ cleanUp' \in CleanUp /\ ~cleanUp'.abandoned
    BY <2>1
  <2> QED
    BY <1>2, <2>2, <2>3, <2>5, <2>6, <2>7 DEF ReportInv
<1>4. CASE cleanUp.outcome = "fatal"
  <2>1. Raises("fatal") /\ UNCHANGED <<cleanUp, notes, logged>> /\ Finished
    BY <1>4 DEF WaitEnds
  <2>2. NothingTold' /\ Finished' /\ \A e \in Error : notes'[e] <= 1
    BY <2>1, NothingStays DEF Finished
  <2>3. boot'.raises = "fatal"
    BY <2>1 DEF Raises, Boot
  <2> QED
    BY <1>2, <1>4, <2>1, <2>2, <2>3 DEF ReportInv, Told
<1>5. CASE cleanUp.outcome = "cancelled"
  <2>1. Raises("cancellation") /\ Abandon /\ notes' = notes
    BY <1>5 DEF WaitEnds
  <2>2. boot'.raises = "cancellation"
    BY <2>1 DEF Raises, Boot
  <2> QED
    BY <1>2, <2>1, <2>2, AbandonKeeps
<1> QED
  BY <1>2, <1>3, <1>4, <1>5 DEF CleanUp

\* The wait for the clean-up ends, or is cancelled.
LEMMA WaitKeeps ==
  ASSUME BootInv, Wake \/ CancelledFinishing \/ CancelledWaiting
  PROVE  BootInv'
<1>1. /\ boot.at \in {"finishing", "waiting"} /\ up' = up /\ boot \in Boot
      /\ boot.next >= 1 /\ up \subseteq Part
      /\ boot.raises \in {"start error", "cancellation", "nothing"}
      /\ NothingTold /\ cleanUp \in CleanUp /\ ~cleanUp.abandoned
      /\ notes \in [Error -> Nat] /\ logged \in [Part -> Nat]
  BY DEF Wake, CancelledFinishing, CancelledWaiting, BootAt, Boot, BootInv, ReportInv
<1>2. ASSUME ReportInv', boot' \in Boot, boot'.next = boot.next,
             boot'.at \in {"waiting", "raised"}
      PROVE  BootInv'
  BY <1>1, <1>2 DEF BootInv
<1>3. ASSUME NEW error \in {"start error", "cancellation", "nothing"}, WaitEnds(error)
      PROVE  BootInv'
  BY <1>1, <1>2, <1>3, WaitEndsKeeps
<1>4. CASE UNCHANGED <<cleanUp, reported>> /\
           boot' = [boot EXCEPT !.at = "waiting", !.raises = "cancellation"]
  <2>1. boot' \in Boot /\ boot'.next = boot.next /\ boot'.at = "waiting"
        /\ boot'.raises = "cancellation"
    BY <1>1, <1>4 DEF Boot
  <2>2. NothingTold' /\ \A e \in Error : notes'[e] <= 1
    BY <1>1, <1>4, NothingStays DEF reported
  <2> QED
    BY <1>1, <1>2, <1>4, <2>1, <2>2 DEF ReportInv, reported
<1>5. CASE Raises("cancellation") /\ Abandon /\ notes' = notes
  <2>1. boot' \in Boot /\ boot'.next = boot.next /\ boot'.at = "raised"
        /\ boot'.raises = "cancellation"
    BY <1>1, <1>5 DEF Raises, Boot
  <2> QED
    BY <1>1, <1>2, <1>5, <2>1, AbandonKeeps
<1> QED
  BY <1>1, <1>3, <1>4, <1>5 DEF Wake, CancelledFinishing, CancelledWaiting

LEMMA CleanUpKeeps ==
  ASSUME BootInv, CleanUpStep \/ CleanUpStopRaises \/ CleanUpStopBreaks
  PROVE  BootInv'
<1>1. /\ cleanUp # NoCleanUp /\ boot' = boot /\ up' \subseteq Part
      /\ boot.at \in {"finishing", "waiting", "raised"}
      /\ cleanUp \in CleanUp /\ notes \in [Error -> Nat] /\ logged \in [Part -> Nat]
      /\ notes' = notes /\ \A e \in Error : notes[e] <= 1
  BY DEF CleanUpStep, CleanUpStops, CleanUpEnds, CleanUpDone, CleanUpStopRaises,
     CleanUpStopBreaks, CleanUpStop, CleansUp, BootInv, Boot, ReportInv, reported
<1>2. ASSUME ReportInv' PROVE BootInv'
  BY <1>1, <1>2 DEF BootInv
<1>3. ASSUME cleanUp.at = "running", logged' = logged, cleanUp' \in CleanUp,
             cleanUp'.at # "called", cleanUp'.abandoned = cleanUp.abandoned
      PROVE  BootInv'
  <2>1. boot.at = "raised" => cleanUp.abandoned
    BY <1>3 DEF BootInv, ReportInv, Finished
  <2>2. NothingTold' <=> NothingTold
    BY <1>1, <1>3 DEF NothingTold, NotedOnce, LoggedOnce
  <2> QED
    BY <1>1, <1>2, <1>3, <2>1, <2>2 DEF BootInv, ReportInv
<1>4. CASE CleanUpStops \/ CleanUpStopRaises \/ CleanUpStopBreaks
  <2>1. cleanUp.at = "running" /\ logged' = logged
    BY <1>4 DEF CleanUpStops, CleanUpStopRaises, CleanUpStopBreaks, CleanUpStop, CleansUp,
       reported
  <2>2. cleanUp.left \subseteq Part /\ cleanUp.failures \subseteq Part \X Error
    BY <1>1 DEF CleanUp
  <2>3. ASSUME NEW p \in Part, cleanUp' = [cleanUp EXCEPT !.left = @ \ {p}]
        PROVE  BootInv'
    <3>1. cleanUp' \in CleanUp /\ cleanUp'.at = "running"
          /\ cleanUp'.abandoned = cleanUp.abandoned
      BY <1>1, <2>1, <2>3 DEF CleanUp
    <3> QED
      BY <1>3, <2>1, <3>1
  <2>4. ASSUME NEW p \in Part, NEW e \in Error,
               cleanUp' = [cleanUp EXCEPT !.left = @ \ {p},
                                          !.failures = @ \cup {<<p, e>>}]
        PROVE  BootInv'
    <3>1. cleanUp.failures \cup {<<p, e>>} \in SUBSET (Part \X Error)
      BY <2>2
    <3>2. cleanUp' \in CleanUp /\ cleanUp'.at = "running"
          /\ cleanUp'.abandoned = cleanUp.abandoned
      BY <1>1, <2>1, <2>4, <3>1 DEF CleanUp
    <3> QED
      BY <1>3, <2>1, <3>2
  <2>5. ASSUME NEW p \in Part, NEW outcome \in {"fatal", "cancelled"},
               cleanUp' = [cleanUp EXCEPT !.at = "done", !.left = @ \ {p},
                                          !.outcome = outcome, !.broken = p]
        PROVE  BootInv'
    <3>1. cleanUp' \in CleanUp /\ cleanUp'.at = "done"
          /\ cleanUp'.abandoned = cleanUp.abandoned
      BY <1>1, <2>5 DEF CleanUp
    <3> QED
      BY <1>3, <2>1, <3>1
  <2>6. \A p \in Part :
           {p} \cup Instances \cup (IF boot.failed THEN {StartError} ELSE {}) \subseteq Error
    BY <2>2 DEF Instances, Error
  <2> QED
    BY <1>4, <2>3, <2>4, <2>5, <2>6 DEF CleanUpStops, CleanUpStopRaises, CleanUpStopBreaks
<1>5. CASE CleanUpEnds
  <2>1. /\ cleanUp.at = "running" /\ logged' = logged
        /\ cleanUp' \in CleanUp /\ cleanUp'.at = "done"
        /\ cleanUp'.abandoned = cleanUp.abandoned
    BY <1>1, <1>5 DEF CleanUpEnds, CleansUp, CleanUp, reported
  <2> QED
    BY <1>3, <2>1
<1>6. CASE CleanUpDone
  <2>1. /\ cleanUp.at = "done" /\ cleanUp' \in CleanUp /\ cleanUp'.at = "called"
        /\ cleanUp'.abandoned = cleanUp.abandoned
        /\ cleanUp'.failures = cleanUp.failures /\ cleanUp'.outcome = cleanUp.outcome
        /\ cleanUp'.broken = cleanUp.broken
    BY <1>1, <1>6 DEF CleanUpDone, CleansUp, CleanUp
  <2>2. ToLog' = ToLog /\ Instances' = Instances /\ Finished'
    BY <2>1 DEF ToLog, Failed, Instances, Finished
  <2>3. CASE cleanUp.abandoned
    <3>1. Log /\ NothingTold /\ boot.at = "raised" /\ boot.raises # "fatal"
      BY <1>1, <1>6, <2>1, <2>3 DEF CleanUpDone, BootInv, ReportInv
    <3>2. /\ logged' \in [Part -> Nat]
          /\ \A p \in Part : logged'[p] = IF p \in ToLog THEN 1 ELSE 0
      BY <1>1, <3>1, LogTells DEF NothingTold
    <3>3. NotedOnce({})' /\ LoggedOnce(ToLog)'
      BY <1>1, <2>2, <3>1, <3>2 DEF NothingTold, NotedOnce, LoggedOnce
    <3>4. Told'
      BY <1>1, <3>1, <3>3 DEF Told
    <3> QED
      BY <1>1, <1>2, <2>1, <2>3, <3>1, <3>2, <3>4 DEF ReportInv
  <2>4. CASE ~cleanUp.abandoned
    <3>1. logged' = logged
      BY <1>6, <2>4 DEF CleanUpDone
    <3>2. (NothingTold' <=> NothingTold) /\ (Told' <=> Told)
      BY <1>1, <2>1, <2>2, <3>1 DEF NothingTold, Told, NotedOnce, LoggedOnce
    <3> QED
      BY <1>1, <1>2, <2>1, <2>2, <2>4, <3>1, <3>2 DEF BootInv, ReportInv
  <2> QED
    BY <2>3, <2>4
<1> QED
  BY <1>4, <1>5, <1>6 DEF CleanUpStep

LEMMA BootStep == BootInv /\ [Next]_vars => BootInv'
<1> SUFFICES ASSUME BootInv, [Next]_vars PROVE BootInv'
  OBVIOUS
<1>1. CASE Begin \/ StartPart \/ StartFails
  BY <1>1, StartingKeeps
<1>2. CASE Wake \/ CancelledFinishing \/ CancelledWaiting
  BY <1>2, WaitKeeps
<1>3. CASE CleanUpStep \/ CleanUpStopRaises \/ CleanUpStopBreaks
  BY <1>3, CleanUpKeeps
<1>4. CASE Restart
  BY <1>4, ReportStays, LifecycleAssumption DEF Restart, BootInv
<1>5. CASE \/ \E c \in Closer : CloserStep(c) \/ CloseCancelled(c)
                 \/ \E own \in Run \cup {NoRun} : CallShutdown(c, own)
           \/ \E r \in Run : RunStep(r) \/ RunDies(r)
  <2>1. UNCHANGED <<boot, cleanUp, reported>> /\ up' \subseteq up
    BY <1>5 DEF CloserStep, StopPart, StopRelay, Drained, Close, CloseCancelled,
       CallShutdown, RunStep, RunDies
  <2> QED
    BY <2>1, ReportStays DEF BootInv
<1>6. CASE UNCHANGED vars
  BY <1>6, ReportStays DEF vars, BootInv
<1> QED
  BY <1>1, <1>2, <1>3, <1>4, <1>5, <1>6 DEF Next

-----------------------------------------------------------------------------
(* The theorems.                                                              *)

\* When a shutdown() comes to stop the broker, the runs of the relay it found
\* have exited, for every number of runs, overlapping stops and restarts.
THEOREM RelayDrainedFirst == Spec => []DrainedBeforeBroker
<1>1. DrainInv => DrainedBeforeBroker
  BY DEF DrainInv, CallsInv, CallInv, Quiet, DrainedBeforeBroker, Exited, RunAt
<1> QED
  BY <1>1, DrainStarts, DrainStep, PTL DEF Spec

\* What a clean-up has to tell is told once, for every number of parts,
\* cancellations, failures and shared error instances.
THEOREM CleanUpReportedOnce == Spec => []FailuresReportedOnce
<1>1. BootInv => FailuresReportedOnce
  <2> SUFFICES ASSUME BootInv PROVE FailuresReportedOnce
    OBVIOUS
  <2>1. \A e \in Error : notes[e] <= 1
    BY DEF BootInv, ReportInv
  <2>2. BootAt("raised") /\ CleansUp("called") =>
          Told /\ cleanUp.outcome \in {"stops", "fatal", "cancelled"}
    BY DEF BootInv, ReportInv, BootAt, CleansUp, CleanUp
  <2> QED
    BY <2>1, <2>2 DEF FailuresReportedOnce, Told, ToLog, NothingTold
<1> QED
  BY <1>1, BootStarts, BootStep, PTL DEF Spec

FaultsInv == faults \in 0..MaxFaults

\* Every variable keeps the values TypeOK names.
THEOREM LifecycleTypeCorrect == Spec => []TypeOK
<1>1. Init => FaultsInv
  BY LifecycleAssumption DEF Init, FaultsInv
<1>2. FaultsInv /\ [Next]_vars => FaultsInv'
  <2>1. [Next]_vars => faults' = faults \/ MayFail
    BY DEF Next, vars, Begin, StartPart, StartFails, Wake, CancelledFinishing,
       CancelledWaiting, CleanUpStep, CleanUpStops, CleanUpEnds, CleanUpDone,
       CleanUpStopRaises, CleanUpStopBreaks, CloserStep, StopPart, StopRelay, Drained, Close,
       CloseCancelled, CallShutdown, Restart, RunStep, RunDies
  <2> QED
    BY <2>1, LifecycleAssumption DEF MayFail, FaultsInv
<1>3. DrainInv /\ BootInv /\ FaultsInv => TypeOK
  BY DEF DrainInv, RunsInv, CallsInv, BootInv, ReportInv, Boot, TypeOK, FaultsInv
<1> QED
  BY <1>1, <1>2, <1>3, DrainStarts, DrainStep, BootStarts, BootStep, PTL DEF Spec
=============================================================================
