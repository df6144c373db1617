-------------------------- MODULE OutboxRelayProofs --------------------------
(***************************************************************************)
(* Proofs about OutboxRelay for any number of entries and relays, any      *)
(* batch size, retry budget and number of faults.                          *)
(***************************************************************************)
EXTENDS OutboxRelay, FiniteSetTheorems, TLAPS

\* A settlement needs the delivery before it, and a copy in a relay's hands
\* is at worst out of date: its attempts never exceed the stored count.
SettlementInv ==
    /\ TypeOK
    /\ published \cup dead \subseteq 1..appended
    /\ \A r \in Relay : batch[r] \subseteq 1..appended
    /\ \A r \in Relay : \A e \in Entry :
          pc[r] = "accepted" /\ IsCurrent(r, e) => accepted[e] > 0
    /\ \A r \in Relay : \A e \in batch[r] : fetchedAttempts[r][e] <= attempts[e]
    /\ PublishedWasAccepted
    /\ NeverBothSettlements
    /\ NotGivenUpEarly

LEMMA SettlementInit == Init => SettlementInv
  BY MaxEntriesAssumption, RelayAssumption
     DEF Init, StoreInit, SettlementInv, TypeOK, StoreTypeOK, RelayState, NoCopies,
         Entry, PublishedWasAccepted, NeverBothSettlements, NotGivenUpEarly, IsCurrent

\* Two entries cannot both be the current one of a pass.
LEMMA CurrentIsUnique ==
  ASSUME TypeOK, NEW r \in Relay, NEW e \in Entry, NEW f \in Entry,
         IsCurrent(r, e), IsCurrent(r, f)
  PROVE  e = f
  BY MaxEntriesAssumption DEF TypeOK, IsCurrent, IsOldest, Entry

LEMMA TypeStep == TypeOK /\ [Next]_vars => TypeOK'
<1> SUFFICES ASSUME TypeOK, [Next]_vars PROVE TypeOK'
  OBVIOUS
<1> USE DEF TypeOK, StoreTypeOK, RelayState
<1>1. CASE Append
  BY <1>1, MaxEntriesAssumption DEF Append, StoreAppend, relayVars
<1>2. ASSUME NEW r \in Relay, Fetch(r) PROVE TypeOK'
  <2>1. PICK S \in SUBSET Fetchable :
           /\ StoreClaim(S)
           /\ batch' = [batch EXCEPT ![r] = S]
           /\ fetchedAttempts' = [fetchedAttempts EXCEPT ![r] =
                 [e \in Entry |-> IF e \in S THEN attempts[e] ELSE 0]]
           /\ pc' = [pc EXCEPT ![r] = IF S = {} THEN "idle" ELSE "passing"]
    BY <1>2 DEF Fetch
  <2>2. S \subseteq Entry
    BY MaxEntriesAssumption DEF Fetchable, Entry
  <2>3. [e \in Entry |-> IF e \in S THEN attempts[e] ELSE 0] \in [Entry -> Nat]
    OBVIOUS
  <2> QED
    BY <1>2, <2>1, <2>2, <2>3 DEF Fetch, StoreClaim
<1>3. ASSUME NEW r \in Relay, FetchAnswerLost(r) PROVE TypeOK'
  <2>1. PICK S \in SUBSET Fetchable : StoreClaim(S)
    BY <1>3 DEF FetchAnswerLost
  <2>2. S \subseteq Entry
    BY MaxEntriesAssumption DEF Fetchable, Entry
  <2>3. faults' \in 0..MaxFaults
    BY <1>3, RelayAssumption DEF FetchAnswerLost, Fault
  <2> QED
    BY <1>3, <2>1, <2>2, <2>3 DEF FetchAnswerLost, StoreClaim, relayVars
<1>4. ASSUME NEW r \in Relay, BrokerAccepts(r) PROVE TypeOK'
  <2>1. PICK e \in Entry : Broker(e)
    BY <1>4 DEF BrokerAccepts
  <2> QED
    BY <1>4, <2>1 DEF BrokerAccepts, Broker, storeVars
<1>5. ASSUME NEW r \in Relay, Refused(r) PROVE TypeOK'
  BY <1>5 DEF Refused, storeVars
<1>6. ASSUME NEW r \in Relay, BrokerAnswerLost(r) PROVE TypeOK'
  <2>1. PICK e \in Entry : Broker(e)
    BY <1>6 DEF BrokerAnswerLost
  <2> QED
    BY <1>6, <2>1, RelayAssumption DEF BrokerAnswerLost, Broker, Fault, storeVars
<1>7. ASSUME NEW r \in Relay, NEW e \in Entry, DoneWith(r, e)
      PROVE  /\ accepted' \in [Entry -> Nat]
             /\ pc' \in [Relay -> RelayState]
             /\ batch' \in [Relay -> SUBSET Entry]
             /\ fetchedAttempts' \in [Relay -> [Entry -> Nat]]
             /\ faults' \in 0..MaxFaults
  <2>1. [fetchedAttempts[r] EXCEPT ![e] = 0] \in [Entry -> Nat]
    OBVIOUS
  <2> QED
    BY <1>7, <2>1 DEF DoneWith
<1>8. ASSUME NEW r \in Relay, MarkPublished(r) PROVE TypeOK'
  BY <1>7, <1>8 DEF MarkPublished, StorePublished
<1>9. ASSUME NEW r \in Relay, MarkFailed(r) \/ MarkDeadLettered(r) PROVE TypeOK'
  <2>1. PICK e \in Entry : DoneWith(r, e) /\ (StoreFailed(e) \/ StoreDeadLettered(e))
    BY <1>9 DEF MarkFailed, MarkDeadLettered
  <2>2. StoreTypeOK'
    <3>1. CASE e \in published
      BY <2>1, <3>1 DEF StoreFailed, StoreDeadLettered, storeVars
    <3>2. CASE e \notin published
      <4>1. attempts' = [attempts EXCEPT ![e] = attempts[e] + 1]
        BY <2>1, <3>2 DEF StoreFailed, StoreDeadLettered
      <4>2. attempts' \in [Entry -> Nat]
        BY <4>1
      <4> QED
        BY <2>1, <3>2, <4>2 DEF StoreFailed, StoreDeadLettered
    <3> QED
      BY <3>1, <3>2
  <2>3. DoneWith(r, e)
    BY <2>1
  <2> QED
    BY <1>7, <2>2, <2>3
<1>10. ASSUME NEW r \in Relay, MarkFails(r) \/ Crash(r) PROVE TypeOK'
  <2>1. NoCopies \in [Entry -> Nat]
    BY DEF NoCopies
  <2>2. PICK next \in RelayState : Abandon(r, next)
    BY <1>10 DEF MarkFails, Crash
  <2>3. faults' \in 0..MaxFaults
    BY <1>10, RelayAssumption DEF MarkFails, Crash, Fault
  <2> QED
    BY <2>1, <2>2, <2>3 DEF Abandon, storeVars
<1>11. ASSUME NEW r \in Relay, Restart(r) PROVE TypeOK'
  BY <1>11 DEF Restart, storeVars
<1>12. ASSUME NEW e \in Entry, RetryDue(e) \/ ClaimStale(e) PROVE TypeOK'
  BY <1>12 DEF RetryDue, RetryFallsDue, ClaimStale, ClaimGoesStale, relayVars
<1>13. CASE UNCHANGED vars
  BY <1>13 DEF vars, storeVars, relayVars
<1> QED
  BY <1>1, <1>2, <1>3, <1>4, <1>5, <1>6, <1>7, <1>8, <1>9, <1>10, <1>11, <1>12, <1>13
     DEF Next, Pass, Failure

\* Type correctness of the relays and the store.
THEOREM TypeCorrect == Spec => []TypeOK
<1>1. Init => TypeOK
  BY SettlementInit DEF SettlementInv
<1> QED
  BY <1>1, TypeStep, PTL DEF Spec

-----------------------------------------------------------------------------
\* What marking an entry done leaves of the pass: less of the batch, the same
\* copies of the rest, and no delivery waiting to be recorded by this relay.
LEMMA DoneWithEffect ==
  ASSUME TypeOK, NEW r \in Relay, NEW e \in Entry, DoneWith(r, e)
  PROVE  /\ \A s \in Relay : batch'[s] \subseteq batch[s]
         /\ \A s \in Relay : \A f \in batch'[s] :
               fetchedAttempts'[s][f] = fetchedAttempts[s][f]
         /\ \A s \in Relay : pc'[s] = "accepted" =>
               pc[s] = "accepted" /\ batch'[s] = batch[s]
         /\ batch'[r] = batch[r] \ {e}
         /\ \A s \in Relay \ {r} : batch'[s] = batch[s]
<1> USE DEF TypeOK, RelayState
<1>1. /\ \A s \in Relay : batch'[s] \subseteq batch[s]
      /\ batch'[r] = batch[r] \ {e}
      /\ \A s \in Relay \ {r} : batch'[s] = batch[s]
  BY DEF DoneWith
<1>2. \A s \in Relay : pc'[s] = "accepted" => pc[s] = "accepted" /\ batch'[s] = batch[s]
  BY DEF DoneWith
<1>3. ASSUME NEW s \in Relay, NEW f \in batch'[s]
      PROVE  fetchedAttempts'[s][f] = fetchedAttempts[s][f]
  <2>1. f \in Entry /\ (s = r => f # e)
    BY <1>1, <1>3
  <2> QED
    BY <2>1 DEF DoneWith
<1> QED
  BY <1>1, <1>2, <1>3

\* The copies and the pending records stay truthful when a pass marks an
\* entry and the store's counts do not go down.
LEMMA DoneWithKeepsCopies ==
  ASSUME SettlementInv, NEW r \in Relay, NEW e \in Entry, DoneWith(r, e),
         \A f \in Entry : attempts[f] <= attempts'[f],
         TypeOK', appended' = appended
  PROVE  /\ \A s \in Relay : batch'[s] \subseteq 1..appended'
         /\ \A s \in Relay : \A f \in Entry :
               pc'[s] = "accepted" /\ IsCurrent(s, f)' => accepted'[f] > 0
         /\ \A s \in Relay : \A f \in batch'[s] :
               fetchedAttempts'[s][f] <= attempts'[f]
<1>1. TypeOK
  BY DEF SettlementInv
<1>2. accepted' = accepted
  BY DEF DoneWith
<1>3. ASSUME NEW s \in Relay, NEW f \in batch'[s]
      PROVE  fetchedAttempts'[s][f] <= attempts'[f]
  <2>1. f \in batch[s] /\ f \in Entry
    BY <1>1, <1>3, DoneWithEffect DEF TypeOK
  <2>2. fetchedAttempts[s][f] <= attempts[f] /\ attempts[f] <= attempts'[f]
    BY <2>1 DEF SettlementInv
  <2>3. /\ fetchedAttempts[s][f] \in Nat /\ attempts[f] \in Nat /\ attempts'[f] \in Nat
        /\ fetchedAttempts'[s][f] = fetchedAttempts[s][f]
    BY <1>1, <2>1, <1>3, DoneWithEffect DEF TypeOK, StoreTypeOK
  <2> QED
    BY <2>2, <2>3
<1> QED
  BY <1>1, <1>2, <1>3, DoneWithEffect DEF SettlementInv, IsCurrent

LEMMA SettlementStep == SettlementInv /\ [Next]_vars => SettlementInv'
<1> SUFFICES ASSUME SettlementInv, [Next]_vars PROVE SettlementInv'
  OBVIOUS
<1> USE DEF PublishedWasAccepted, NeverBothSettlements, NotGivenUpEarly
<1>1. TypeOK /\ TypeOK'
  BY TypeStep DEF SettlementInv
<1>2. CASE Append
  <2>1. appended <= appended' /\ 1..appended \subseteq 1..appended'
    BY <1>1, <1>2, MaxEntriesAssumption DEF Append, StoreAppend, TypeOK, StoreTypeOK
  <2> QED
    BY <1>1, <1>2, <2>1 DEF SettlementInv, Append, StoreAppend, relayVars, IsCurrent
<1>3. ASSUME NEW r \in Relay, Fetch(r) PROVE SettlementInv'
  <2>1. PICK S \in SUBSET Fetchable :
           /\ StoreClaim(S)
           /\ batch' = [batch EXCEPT ![r] = S]
           /\ fetchedAttempts' = [fetchedAttempts EXCEPT ![r] =
                 [e \in Entry |-> IF e \in S THEN attempts[e] ELSE 0]]
           /\ pc' = [pc EXCEPT ![r] = IF S = {} THEN "idle" ELSE "passing"]
    BY <1>3 DEF Fetch
  <2>2. S \subseteq 1..appended
    BY <2>1 DEF Fetchable
  <2>3. /\ accepted' = accepted
        /\ UNCHANGED <<appended, published, dead, attempts>>
    BY <1>3, <2>1 DEF Fetch, StoreClaim
  <2>4. ASSUME NEW s \in Relay, NEW e \in batch'[s]
        PROVE  fetchedAttempts'[s][e] <= attempts'[e]
    <3>1. e \in Entry /\ attempts[e] \in Nat
      BY <1>1 DEF TypeOK, StoreTypeOK
    <3>2. CASE s = r
      <4>1. e \in S /\ fetchedAttempts'[s][e] = attempts[e]
        BY <1>1, <2>1, <2>4, <3>1, <3>2 DEF TypeOK
      <4> QED
        BY <2>3, <3>1, <4>1
    <3>3. CASE s # r
      BY <1>1, <2>1, <2>3, <2>4, <3>3 DEF TypeOK, SettlementInv
    <3> QED
      BY <3>2, <3>3
  <2>5. \A s \in Relay : \A e \in Entry :
           pc'[s] = "accepted" /\ IsCurrent(s, e)' => accepted'[e] > 0
    BY <1>1, <2>1, <2>3 DEF TypeOK, SettlementInv, IsCurrent
  <2> QED
    BY <1>1, <2>1, <2>2, <2>3, <2>4, <2>5 DEF SettlementInv, TypeOK
<1>4. ASSUME NEW r \in Relay, FetchAnswerLost(r) PROVE SettlementInv'
  BY <1>1, <1>4 DEF FetchAnswerLost, StoreClaim, relayVars, SettlementInv, IsCurrent
<1>5. ASSUME NEW r \in Relay, BrokerAccepts(r) \/ BrokerAnswerLost(r) PROVE SettlementInv'
  <2>1. PICK e \in Entry : IsCurrent(r, e) /\ Broker(e)
    BY <1>5 DEF BrokerAccepts, BrokerAnswerLost
  <2>2. \A f \in Entry : accepted[f] <= accepted'[f] /\ (f = e => accepted'[f] > 0)
    BY <1>1, <2>1 DEF Broker, TypeOK
  <2>3. UNCHANGED <<appended, published, dead, attempts, batch, fetchedAttempts>>
    BY <1>5 DEF BrokerAccepts, BrokerAnswerLost, storeVars
  <2>4. PublishedWasAccepted'
    BY <1>1, <2>2, <2>3 DEF SettlementInv, TypeOK, StoreTypeOK
  <2>5. ASSUME NEW s \in Relay, NEW f \in Entry, pc'[s] = "accepted", IsCurrent(s, f)'
        PROVE  accepted'[f] > 0
    <3>1. IsCurrent(s, f)
      BY <2>3, <2>5 DEF IsCurrent
    <3>2. CASE s = r
      BY <1>1, <2>1, <2>2, <3>1, <3>2, CurrentIsUnique
    <3>3. CASE s # r
      <4>1. pc[s] = "accepted"
        BY <1>1, <1>5, <2>5, <3>3 DEF BrokerAccepts, BrokerAnswerLost, TypeOK
      <4>2. accepted[f] > 0
        BY <3>1, <4>1 DEF SettlementInv
      <4> QED
        BY <1>1, <2>2, <4>2 DEF TypeOK
    <3> QED
      BY <3>2, <3>3
  <2> QED
    BY <1>1, <2>3, <2>4, <2>5 DEF SettlementInv
<1>6. ASSUME NEW r \in Relay, Refused(r) PROVE SettlementInv'
  BY <1>1, <1>6 DEF Refused, storeVars, SettlementInv, IsCurrent, TypeOK
<1>7. ASSUME NEW r \in Relay, MarkPublished(r) PROVE SettlementInv'
  <2>1. PICK e \in Entry : IsCurrent(r, e) /\ StorePublished(e) /\ DoneWith(r, e)
    BY <1>7 DEF MarkPublished
  <2>2. accepted[e] > 0 /\ e \in 1..appended
    BY <1>7, <2>1 DEF MarkPublished, SettlementInv, IsCurrent
  <2>3. /\ \A f \in Entry : attempts[f] <= attempts'[f]
        /\ appended' = appended
    BY <1>1, <2>1 DEF StorePublished, TypeOK, StoreTypeOK
  <2>4. accepted' = accepted
    BY <2>1 DEF DoneWith
  <2> QED
    BY <1>1, <2>1, <2>2, <2>3, <2>4, DoneWithKeepsCopies DEF StorePublished, SettlementInv
<1>8. ASSUME NEW r \in Relay, MarkFailed(r) \/ MarkDeadLettered(r) PROVE SettlementInv'
  <2>1. PICK e \in Entry :
           /\ IsCurrent(r, e)
           /\ DoneWith(r, e)
           /\ StoreFailed(e) \/ (Exhausted(r, e) /\ StoreDeadLettered(e))
    BY <1>8 DEF MarkFailed, MarkDeadLettered
  <2>2. /\ e \in 1..appended
        /\ fetchedAttempts[r][e] <= attempts[e]
        /\ fetchedAttempts[r][e] \in Nat
    BY <1>1, <2>1 DEF SettlementInv, IsCurrent, TypeOK
  <2>3. \A f \in Entry : attempts[f] \in Nat /\ attempts'[f] \in Nat /\ attempts[f] <= attempts'[f]
    <3>1. attempts' = attempts \/ attempts' = [attempts EXCEPT ![e] = attempts[e] + 1]
      BY <2>1 DEF StoreFailed, StoreDeadLettered, storeVars
    <3>2. attempts \in [Entry -> Nat]
      BY <1>1 DEF TypeOK, StoreTypeOK
    <3> QED
      BY <3>1, <3>2
  <2>4. accepted' = accepted /\ appended' = appended /\ published' = published
    BY <2>1 DEF DoneWith, StoreFailed, StoreDeadLettered, storeVars
  <2>5. ASSUME NEW f \in dead'
        PROVE  /\ f \in 1..appended /\ f \notin published
               /\ MaxAttempts # Unlimited /\ attempts'[f] >= MaxAttempts
    <3>1. CASE f \in dead
      BY <1>1, <2>3, <3>1, RelayAssumption DEF SettlementInv, TypeOK, StoreTypeOK
    <3>2. CASE f \notin dead
      <4>1. f = e /\ Exhausted(r, e) /\ StoreDeadLettered(e) /\ e \notin published
        BY <2>1, <2>5, <3>2 DEF StoreFailed, StoreDeadLettered, storeVars
      <4>2. attempts'[e] = attempts[e] + 1
        BY <1>1, <4>1 DEF StoreDeadLettered, TypeOK, StoreTypeOK
      <4>3. MaxAttempts # Unlimited /\ fetchedAttempts[r][e] + 1 >= MaxAttempts
        BY <4>1 DEF Exhausted
      <4> QED
        BY <2>2, <2>3, <4>1, <4>2, <4>3, RelayAssumption
    <3> QED
      BY <3>1, <3>2
  <2> QED
    BY <1>1, <2>1, <2>3, <2>4, <2>5, DoneWithKeepsCopies DEF SettlementInv
<1>9. ASSUME NEW r \in Relay, MarkFails(r) \/ Crash(r) PROVE SettlementInv'
  <2>1. PICK next \in {"idle", "down"} : Abandon(r, next)
    BY <1>9 DEF MarkFails, Crash
  <2>2. UNCHANGED <<appended, published, dead, attempts, accepted>>
    BY <2>1 DEF Abandon, storeVars
  <2>3. \A s \in Relay : s # r =>
           /\ batch'[s] = batch[s]
           /\ fetchedAttempts'[s] = fetchedAttempts[s]
           /\ pc'[s] = pc[s]
    BY <1>1, <2>1 DEF Abandon, TypeOK
  <2>4. batch'[r] = {} /\ pc'[r] # "accepted"
    BY <1>1, <2>1 DEF Abandon, TypeOK
  <2> QED
    BY <1>1, <2>2, <2>3, <2>4 DEF SettlementInv, IsCurrent
<1>10. ASSUME NEW r \in Relay, Restart(r) PROVE SettlementInv'
  BY <1>1, <1>10 DEF Restart, storeVars, SettlementInv, IsCurrent, TypeOK
<1>11. ASSUME NEW e \in Entry, RetryDue(e) \/ ClaimStale(e) PROVE SettlementInv'
  BY <1>1, <1>11 DEF RetryDue, RetryFallsDue, ClaimStale, ClaimGoesStale, relayVars,
                     SettlementInv, IsCurrent
<1>12. CASE UNCHANGED vars
  BY <1>1, <1>12 DEF vars, storeVars, relayVars, SettlementInv, IsCurrent
<1> QED
  BY <1>2, <1>3, <1>4, <1>5, <1>6, <1>7, <1>8, <1>9, <1>10, <1>11, <1>12
     DEF Next, Pass, Failure

LEMMA SettlementHolds == Spec => []SettlementInv
  BY SettlementInit, SettlementStep, PTL DEF Spec

\* No message is recorded as published that the broker never took.
THEOREM PublishedImpliesAccepted == Spec => []PublishedWasAccepted
<1>1. SettlementInv => PublishedWasAccepted
  BY DEF SettlementInv
<1> QED
  BY <1>1, SettlementHolds, PTL

\* Relays that settle the same entry differently leave one settlement.
THEOREM OneSettlement == Spec => []NeverBothSettlements
<1>1. SettlementInv => NeverBothSettlements
  BY DEF SettlementInv
<1> QED
  BY <1>1, SettlementHolds, PTL

\* The retry budget is spent in full before an entry is given up.
THEOREM BudgetIsSpentFirst == Spec => []NotGivenUpEarly
<1>1. SettlementInv => NotGivenUpEarly
  BY DEF SettlementInv
<1> QED
  BY <1>1, SettlementHolds, PTL

-----------------------------------------------------------------------------
\* Every step leaves the settlement of a published entry and its count alone.
LEMMA PublishedUntouched ==
  ASSUME SettlementInv, [Next]_vars, NEW e \in published
  PROVE  e \in published' /\ e \notin dead' /\ attempts'[e] = attempts[e]
<1>1. TypeOK /\ e \in Entry /\ e \notin dead
  BY DEF SettlementInv, TypeOK, StoreTypeOK, NeverBothSettlements
<1>2. CASE UNCHANGED <<published, dead, attempts>>
  BY <1>1, <1>2
<1>3. ASSUME NEW f \in Entry, StorePublished(f) \/ StoreFailed(f) \/ StoreDeadLettered(f)
      PROVE  e \in published' /\ e \notin dead' /\ attempts'[e] = attempts[e]
  <2>1. CASE StorePublished(f)
    BY <1>1, <2>1 DEF StorePublished
  <2>2. CASE StoreFailed(f)
    BY <1>1, <2>2 DEF StoreFailed, storeVars, TypeOK, StoreTypeOK
  <2>3. CASE StoreDeadLettered(f)
    BY <1>1, <2>3 DEF StoreDeadLettered, storeVars, TypeOK, StoreTypeOK
  <2> QED
    BY <1>3, <2>1, <2>2, <2>3
<1>4. ASSUME NEW r \in Relay, MarkPublished(r) \/ MarkFailed(r) \/ MarkDeadLettered(r)
      PROVE  \E f \in Entry : StorePublished(f) \/ StoreFailed(f) \/ StoreDeadLettered(f)
  BY <1>4 DEF MarkPublished, MarkFailed, MarkDeadLettered
<1>5. \/ UNCHANGED <<published, dead, attempts>>
      \/ \E r \in Relay : MarkPublished(r) \/ MarkFailed(r) \/ MarkDeadLettered(r)
  BY DEF Next, vars, storeVars, Pass, Failure, Append, StoreAppend, Fetch, StoreClaim,
         FetchAnswerLost, BrokerAccepts, Refused, BrokerAnswerLost, MarkFails, Crash,
         Abandon, Restart, RetryDue, RetryFallsDue, ClaimStale, ClaimGoesStale
<1> QED
  BY <1>2, <1>3, <1>4, <1>5

\* A publication survives every later failure of a relay with a stale claim.
THEOREM PublicationIsFinal == Spec => LateFailureLeavesNoTrace
<1>1. SettlementInv /\ [Next]_vars =>
        [\A e \in published :
            e \in published' /\ e \notin dead' /\ attempts'[e] = attempts[e]]_vars
  BY PublishedUntouched
<1> QED
  BY <1>1, SettlementHolds, PTL DEF Spec, LateFailureLeavesNoTrace

-----------------------------------------------------------------------------
(* When the claim timeout is longer than any pass.                         *)

\* A held entry is claimed, unsettled and in one pass only, so the copy the
\* relay judges the retry budget by is never out of date.
ExclusiveInv ==
    /\ OneRelayPerEntry
    /\ \A r \in Relay : batch[r] \subseteq claimed /\ batch[r] \cap Settled = {}
    /\ \A r \in Relay : \A e \in batch[r] : fetchedAttempts[r][e] = attempts[e]
    /\ MaxAttempts # Unlimited =>
          \A e \in Entry \ Settled : attempts[e] < MaxAttempts
    /\ DeadLetterReportsBudget

LEMMA ExclusiveInit == Init => ExclusiveInv
  BY RelayAssumption
     DEF Init, StoreInit, ExclusiveInv, OneRelayPerEntry, DeadLetterReportsBudget,
         NoCopies, Settled

LEMMA ExclusiveStep ==
  ASSUME ClaimsOutlastPasses
  PROVE  SettlementInv /\ ExclusiveInv /\ [Next]_vars => ExclusiveInv'
<1> SUFFICES ASSUME SettlementInv, ExclusiveInv, [Next]_vars PROVE ExclusiveInv'
  OBVIOUS
<1> USE DEF OneRelayPerEntry, DeadLetterReportsBudget
<1>1. TypeOK /\ TypeOK'
  BY TypeStep DEF SettlementInv
<1>2. CASE UNCHANGED <<published, dead, attempts, claimed, batch, fetchedAttempts>>
  BY <1>2 DEF ExclusiveInv, Settled
<1>3. ASSUME NEW r \in Relay, Fetch(r) PROVE ExclusiveInv'
  <2>1. PICK S \in SUBSET Fetchable :
           /\ StoreClaim(S)
           /\ batch' = [batch EXCEPT ![r] = S]
           /\ fetchedAttempts' = [fetchedAttempts EXCEPT ![r] =
                 [e \in Entry |-> IF e \in S THEN attempts[e] ELSE 0]]
    BY <1>3 DEF Fetch
  <2>2. S \cap Settled = {} /\ S \cap claimed = {}
    BY <2>1 DEF Fetchable
  <2>3. claimed' = claimed \cup S /\ UNCHANGED <<published, dead, attempts>>
    BY <2>1 DEF StoreClaim
  <2>4. batch'[r] = S /\ \A s \in Relay \ {r} : batch'[s] = batch[s]
    BY <1>1, <2>1 DEF TypeOK
  <2>5. \A s \in Relay : \A e \in batch'[s] : fetchedAttempts'[s][e] = attempts'[e]
    BY <1>1, <2>1, <2>3, <2>4 DEF TypeOK, ExclusiveInv
  <2>6. \A s, t \in Relay : s # t => batch'[s] \cap batch'[t] = {}
    BY <2>2, <2>4 DEF ExclusiveInv
  <2>7. \A s \in Relay : batch'[s] \subseteq claimed' /\ batch'[s] \cap Settled' = {}
    BY <2>2, <2>3, <2>4 DEF ExclusiveInv, Settled
  <2> QED
    BY <2>3, <2>5, <2>6, <2>7 DEF ExclusiveInv, Settled
<1>4. ASSUME NEW r \in Relay, FetchAnswerLost(r) PROVE ExclusiveInv'
  BY <1>4 DEF FetchAnswerLost, StoreClaim, relayVars, ExclusiveInv, Settled
<1>5. ASSUME NEW r \in Relay, NEW e \in Entry, IsCurrent(r, e), DoneWith(r, e),
             claimed' = claimed \ {e}, Settled \subseteq Settled', Settled' \subseteq Settled \cup {e},
             \A f \in Entry \ {e} : attempts'[f] = attempts[f],
             MaxAttempts # Unlimited =>
                \A f \in Entry \ Settled' : attempts'[f] < MaxAttempts,
             DeadLetterReportsBudget'
      PROVE  ExclusiveInv'
  <2>1. \A s \in Relay : batch'[s] \subseteq batch[s] \ {e}
    BY <1>1, <1>5, DoneWithEffect DEF ExclusiveInv, IsCurrent
  <2>2. \A s \in Relay : \A f \in batch'[s] : fetchedAttempts'[s][f] = attempts'[f]
    BY <1>1, <1>5, <2>1, DoneWithEffect DEF ExclusiveInv, TypeOK
  <2> QED
    BY <1>5, <2>1, <2>2 DEF ExclusiveInv
<1>6. ASSUME NEW r \in Relay, NEW e \in Entry, IsCurrent(r, e)
      PROVE  e \in batch[r] /\ e \notin Settled /\ fetchedAttempts[r][e] = attempts[e]
  BY <1>6 DEF ExclusiveInv, IsCurrent
<1>7. ASSUME NEW r \in Relay, MarkPublished(r) PROVE ExclusiveInv'
  <2>1. PICK e \in Entry : IsCurrent(r, e) /\ StorePublished(e) /\ DoneWith(r, e)
    BY <1>7 DEF MarkPublished
  <2>2. e \notin dead
    BY <1>6, <2>1 DEF Settled
  <2>3. /\ claimed' = claimed \ {e} /\ attempts' = attempts /\ dead' = dead
        /\ published' = published \cup {e}
    BY <2>1, <2>2 DEF StorePublished
  <2> QED
    BY <1>5, <2>1, <2>3 DEF Settled, ExclusiveInv
<1>8. ASSUME NEW r \in Relay, MarkFailed(r) PROVE ExclusiveInv'
  <2>1. PICK e \in Entry :
           IsCurrent(r, e) /\ ~Exhausted(r, e) /\ StoreFailed(e) /\ DoneWith(r, e)
    BY <1>8 DEF MarkFailed
  <2>2. e \notin published /\ e \notin dead /\ fetchedAttempts[r][e] = attempts[e]
    BY <1>6, <2>1 DEF Settled
  <2>3. /\ claimed' = claimed \ {e}
        /\ attempts' = [attempts EXCEPT ![e] = attempts[e] + 1]
        /\ UNCHANGED <<published, dead>>
    BY <2>1, <2>2 DEF StoreFailed
  <2>4. /\ attempts'[e] = attempts[e] + 1 /\ attempts[e] \in Nat
        /\ \A f \in Entry \ {e} : attempts'[f] = attempts[f]
    BY <1>1, <2>3 DEF TypeOK, StoreTypeOK
  <2>5. MaxAttempts # Unlimited => attempts'[e] < MaxAttempts
    BY <2>1, <2>2, <2>4, RelayAssumption DEF Exhausted
  <2>6. DeadLetterReportsBudget'
    BY <1>1, <2>2, <2>3, <2>4 DEF ExclusiveInv, TypeOK, StoreTypeOK
  <2> QED
    BY <1>5, <2>1, <2>3, <2>4, <2>5, <2>6 DEF Settled, ExclusiveInv
<1>9. ASSUME NEW r \in Relay, MarkDeadLettered(r) PROVE ExclusiveInv'
  <2>1. PICK e \in Entry :
           IsCurrent(r, e) /\ Exhausted(r, e) /\ StoreDeadLettered(e) /\ DoneWith(r, e)
    BY <1>9 DEF MarkDeadLettered
  <2>2. /\ e \notin published /\ e \notin dead /\ e \notin Settled
        /\ fetchedAttempts[r][e] = attempts[e]
    BY <1>6, <2>1 DEF Settled
  <2>3. /\ claimed' = claimed \ {e}
        /\ attempts' = [attempts EXCEPT ![e] = attempts[e] + 1]
        /\ dead' = dead \cup {e}
        /\ published' = published
    BY <2>1, <2>2 DEF StoreDeadLettered
  <2>4. /\ attempts'[e] = attempts[e] + 1 /\ attempts[e] \in Nat
        /\ \A f \in Entry \ {e} : attempts'[f] = attempts[f]
    BY <1>1, <2>3 DEF TypeOK, StoreTypeOK
  <2>5. attempts[e] < MaxAttempts /\ attempts[e] + 1 >= MaxAttempts /\ MaxAttempts \in Nat
    BY <2>1, <2>2, RelayAssumption DEF Exhausted, ExclusiveInv
  <2>6. DeadLetterReportsBudget'
    BY <1>1, <2>3, <2>4, <2>5 DEF ExclusiveInv, TypeOK, StoreTypeOK
  <2>7. Settled' = Settled \cup {e}
    BY <2>3 DEF Settled
  <2>8. MaxAttempts # Unlimited => \A f \in Entry \ Settled' : attempts'[f] < MaxAttempts
    BY <2>4, <2>7 DEF ExclusiveInv
  <2> QED
    BY <1>5, <2>1, <2>3, <2>4, <2>6, <2>7, <2>8
<1>10. ASSUME NEW r \in Relay, MarkFails(r) \/ Crash(r) PROVE ExclusiveInv'
  <2>1. PICK next \in {"idle", "down"} : Abandon(r, next)
    BY <1>10 DEF MarkFails, Crash
  <2>2. /\ UNCHANGED <<published, dead, attempts, claimed>>
        /\ batch'[r] = {}
        /\ \A s \in Relay \ {r} :
              batch'[s] = batch[s] /\ fetchedAttempts'[s] = fetchedAttempts[s]
    BY <1>1, <2>1 DEF Abandon, storeVars, TypeOK
  <2> QED
    BY <2>2 DEF ExclusiveInv, Settled
<1>11. ASSUME NEW e \in Entry, ClaimStale(e) PROVE ExclusiveInv'
  <2>1. \A r \in Relay : e \notin batch[r]
    BY <1>11 DEF ClaimStale, Holds
  <2> QED
    BY <1>11, <2>1 DEF ClaimStale, ClaimGoesStale, relayVars, ExclusiveInv, Settled
<1>12. ASSUME NEW e \in Entry, RetryDue(e) PROVE ExclusiveInv'
  BY <1>2, <1>12 DEF RetryDue, RetryFallsDue, relayVars
<1>13. ASSUME NEW r \in Relay,
              BrokerAccepts(r) \/ Refused(r) \/ BrokerAnswerLost(r) \/ Restart(r)
       PROVE  ExclusiveInv'
  BY <1>2, <1>13 DEF BrokerAccepts, Refused, BrokerAnswerLost, Restart, storeVars
<1>14. CASE Append \/ UNCHANGED vars
  BY <1>2, <1>14 DEF Append, StoreAppend, relayVars, vars, storeVars
<1> QED
  BY <1>3, <1>4, <1>7, <1>8, <1>9, <1>10, <1>11, <1>12, <1>13, <1>14
     DEF Next, Pass, Failure

\* The broker takes an entry at most once more than there were faults, and a
\* message taken but not recorded yet is the one extra.
DuplicatesInv == \A e \in Entry :
    /\ accepted[e] <= 1 + faults
    /\ \/ e \in published
       \/ \E r \in Relay : pc[r] = "accepted" /\ IsCurrent(r, e)
       \/ accepted[e] <= faults

LEMMA DuplicatesStep ==
  SettlementInv /\ ExclusiveInv /\ DuplicatesInv /\ [Next]_vars => DuplicatesInv'
<1> SUFFICES ASSUME SettlementInv, ExclusiveInv, DuplicatesInv, [Next]_vars,
                    NEW e \in Entry
             PROVE  /\ accepted'[e] <= 1 + faults'
                    /\ \/ e \in published'
                       \/ \E r \in Relay : pc'[r] = "accepted" /\ IsCurrent(r, e)'
                       \/ accepted'[e] <= faults'
  BY DEF DuplicatesInv
<1> DEFINE Recorded == e \in published \/ accepted[e] <= faults
           Pending(r) == pc[r] = "accepted" /\ IsCurrent(r, e)
<1>1. /\ TypeOK /\ TypeOK' /\ accepted[e] \in Nat /\ accepted'[e] \in Nat
      /\ faults \in Nat /\ faults' \in Nat
  <2>1. TypeOK /\ TypeOK'
    BY TypeStep DEF SettlementInv
  <2> QED
    BY <2>1, RelayAssumption DEF TypeOK
<1>2. accepted[e] <= 1 + faults /\ (Recorded \/ \E r \in Relay : Pending(r))
  BY DEF DuplicatesInv
<1>3. CASE /\ published \subseteq published' /\ accepted'[e] = accepted[e] /\ faults' = faults
           /\ \A r \in Relay : Pending(r) => Pending(r)' \/ e \in published'
  BY <1>1, <1>2, <1>3
<1>4. ASSUME NEW r \in Relay, MarkPublished(r)
      PROVE  /\ published \subseteq published' /\ accepted'[e] = accepted[e] /\ faults' = faults
             /\ \A s \in Relay : Pending(s) => Pending(s)' \/ e \in published'
  <2>1. PICK f \in Entry : IsCurrent(r, f) /\ StorePublished(f) /\ DoneWith(r, f)
    BY <1>4 DEF MarkPublished
  <2>2. published' = published \cup {f} /\ accepted' = accepted /\ faults' = faults
    BY <2>1 DEF StorePublished, DoneWith
  <2>3. \A s \in Relay \ {r} : pc'[s] = pc[s] /\ batch'[s] = batch[s]
    BY <1>1, <2>1 DEF DoneWith, TypeOK
  <2>4. Pending(r) => e = f
    BY <1>1, <2>1, CurrentIsUnique
  <2> QED
    BY <2>2, <2>3, <2>4 DEF IsCurrent
<1>5. ASSUME NEW r \in Relay, MarkFailed(r) \/ MarkDeadLettered(r)
      PROVE  /\ published \subseteq published' /\ accepted'[e] = accepted[e] /\ faults' = faults
             /\ \A s \in Relay : Pending(s) => Pending(s)' \/ e \in published'
  <2>1. PICK f \in Entry : (StoreFailed(f) \/ StoreDeadLettered(f)) /\ DoneWith(r, f)
    BY <1>5 DEF MarkFailed, MarkDeadLettered
  <2>2. published' = published /\ accepted' = accepted /\ faults' = faults
    BY <2>1 DEF StoreFailed, StoreDeadLettered, storeVars, DoneWith
  <2>3. \A s \in Relay \ {r} : pc'[s] = pc[s] /\ batch'[s] = batch[s]
    BY <1>1, <2>1 DEF DoneWith, TypeOK
  <2>4. pc[r] # "accepted"
    BY <1>5 DEF MarkFailed, MarkDeadLettered
  <2> QED
    BY <2>2, <2>3, <2>4 DEF IsCurrent
<1>6. ASSUME NEW r \in Relay, BrokerAccepts(r)
      PROVE  /\ accepted'[e] <= 1 + faults'
             /\ e \in published' \/ accepted'[e] <= faults' \/ \E s \in Relay : Pending(s)'
  <2>1. PICK f \in Entry : IsCurrent(r, f) /\ Broker(f)
    BY <1>6 DEF BrokerAccepts
  <2>2. /\ pc[r] = "passing" /\ pc'[r] = "accepted"
        /\ \A s \in Relay \ {r} : pc'[s] = pc[s]
        /\ UNCHANGED <<batch, published, faults>>
    BY <1>1, <1>6 DEF BrokerAccepts, storeVars, TypeOK
  <2>3. CASE e = f
    <3>1. e \notin published /\ \A s \in Relay : s # r => ~Pending(s)
      BY <2>1, <2>3 DEF ExclusiveInv, OneRelayPerEntry, Settled, IsCurrent
    <3>2. accepted[e] <= faults
      BY <1>2, <2>2, <3>1
    <3>3. accepted'[e] = accepted[e] + 1
      BY <1>1, <2>1, <2>3 DEF Broker, TypeOK
    <3>4. Pending(r)'
      BY <2>1, <2>2, <2>3 DEF IsCurrent
    <3> QED
      BY <1>1, <2>2, <3>2, <3>3, <3>4
  <2>4. CASE e # f
    <3>1. accepted'[e] = accepted[e]
      BY <1>1, <2>1, <2>4 DEF Broker, TypeOK
    <3>2. \A s \in Relay : Pending(s) => Pending(s)'
      BY <2>2 DEF IsCurrent
    <3> QED
      BY <1>1, <1>2, <2>2, <3>1, <3>2
  <2> QED
    BY <2>3, <2>4
<1>7. ASSUME NEW r \in Relay, BrokerAnswerLost(r)
      PROVE  accepted'[e] <= 1 + faults' /\
             (e \in published' \/ accepted'[e] <= faults' \/ \E s \in Relay : Pending(s)')
  <2>1. PICK f \in Entry : IsCurrent(r, f) /\ Broker(f)
    BY <1>7 DEF BrokerAnswerLost
  <2>2. /\ faults' = faults + 1 /\ UNCHANGED <<batch, published>>
        /\ \A s \in Relay : pc[s] = "accepted" => pc'[s] = pc[s]
    BY <1>1, <1>7 DEF BrokerAnswerLost, Fault, storeVars, TypeOK
  <2>3. accepted'[e] = IF e = f THEN accepted[e] + 1 ELSE accepted[e]
    BY <1>1, <2>1 DEF Broker, TypeOK
  <2>4. e = f => \A s \in Relay : ~Pending(s)
    <3>1. pc[r] = "passing"
      BY <1>7 DEF BrokerAnswerLost
    <3> QED
      BY <2>1, <3>1 DEF ExclusiveInv, OneRelayPerEntry, IsCurrent
  <2>5. \A s \in Relay : Pending(s) => Pending(s)'
    BY <2>2 DEF IsCurrent
  <2> QED
    BY <1>1, <1>2, <2>2, <2>3, <2>4, <2>5
<1>8. ASSUME faults' = faults + 1, accepted' = accepted, published' = published
      PROVE  accepted'[e] <= 1 + faults' /\ accepted'[e] <= faults'
  BY <1>1, <1>2, <1>8
<1>9. ASSUME NEW r \in Relay, FetchAnswerLost(r) \/ MarkFails(r) \/ Crash(r)
      PROVE  faults' = faults + 1 /\ accepted' = accepted /\ published' = published
  BY <1>9 DEF FetchAnswerLost, MarkFails, Crash, Abandon, Fault, storeVars, StoreClaim
<1>10. ASSUME NEW r \in Relay, Fetch(r)
       PROVE  /\ published \subseteq published' /\ accepted'[e] = accepted[e] /\ faults' = faults
              /\ \A s \in Relay : Pending(s) => Pending(s)' \/ e \in published'
  <2>1. published' = published /\ accepted' = accepted /\ faults' = faults /\ pc[r] = "idle"
    BY <1>10 DEF Fetch, StoreClaim
  <2>2. \A s \in Relay \ {r} : pc'[s] = pc[s] /\ batch'[s] = batch[s]
    BY <1>1, <1>10 DEF Fetch, TypeOK
  <2> QED
    BY <2>1, <2>2 DEF IsCurrent
<1>11. ASSUME NEW r \in Relay, Refused(r) \/ Restart(r)
       PROVE  /\ published \subseteq published' /\ accepted'[e] = accepted[e] /\ faults' = faults
              /\ \A s \in Relay : Pending(s) => Pending(s)' \/ e \in published'
  BY <1>1, <1>11 DEF Refused, Restart, storeVars, IsCurrent, TypeOK
<1>12. ASSUME NEW f \in Entry, RetryDue(f) \/ ClaimStale(f)
       PROVE  UNCHANGED <<published, accepted, faults, pc, batch>>
  BY <1>12 DEF RetryDue, RetryFallsDue, ClaimStale, ClaimGoesStale, relayVars
<1>13. CASE UNCHANGED <<published, accepted, faults, pc, batch>>
  BY <1>1, <1>2, <1>13 DEF IsCurrent
<1>14. CASE Append \/ UNCHANGED vars
  BY <1>13, <1>14 DEF Append, StoreAppend, relayVars, vars, storeVars
<1> QED
  BY <1>3, <1>4, <1>5, <1>6, <1>7, <1>8, <1>9, <1>10, <1>11, <1>12, <1>13, <1>14
     DEF Next, Pass, Failure

LEMMA PatientClaims ==
  ASSUME ClaimsOutlastPasses
  PROVE  Spec => [](SettlementInv /\ ExclusiveInv /\ DuplicatesInv)
<1>1. Init => SettlementInv /\ ExclusiveInv /\ DuplicatesInv
  <2>1. Init => DuplicatesInv
    BY DEF Init, DuplicatesInv
  <2> QED
    BY <2>1, SettlementInit, ExclusiveInit
<1>2. SettlementInv /\ ExclusiveInv /\ DuplicatesInv /\ [Next]_vars =>
         (SettlementInv /\ ExclusiveInv /\ DuplicatesInv)'
  BY SettlementStep, ExclusiveStep, DuplicatesStep
<1> QED
  BY <1>1, <1>2, PTL DEF Spec

\* With a claim timeout longer than any pass, no entry is in two passes.
THEOREM ClaimsExclude == ASSUME ClaimsOutlastPasses PROVE Spec => []OneRelayPerEntry
<1>1. ExclusiveInv => OneRelayPerEntry
  BY DEF ExclusiveInv
<1> QED
  BY <1>1, PatientClaims, PTL

\* ... each fault costs at most one duplicate delivery of an entry ...
THEOREM FaultsBoundDuplicates ==
  ASSUME ClaimsOutlastPasses PROVE Spec => []DuplicatesNeedFaults
<1>1. DuplicatesInv => DuplicatesNeedFaults
  BY DEF DuplicatesInv, DuplicatesNeedFaults
<1> QED
  BY <1>1, PatientClaims, PTL

\* ... and a dead letter reports exactly max_attempts attempts.
THEOREM DeadLetterReport ==
  ASSUME ClaimsOutlastPasses PROVE Spec => []DeadLetterReportsBudget
<1>1. ExclusiveInv => DeadLetterReportsBudget
  BY DEF ExclusiveInv
<1> QED
  BY <1>1, PatientClaims, PTL

-----------------------------------------------------------------------------
(* Refinement.                                                             *)

Taken == {e \in Entry : accepted[e] > 0}

LEMMA DeliveryStep ==
  SettlementInv /\ [Next]_vars => [Delivery!DNext]_(Delivery!dvars)
<1> SUFFICES ASSUME SettlementInv, [Next]_vars
             PROVE  Delivery!DNext \/ UNCHANGED <<appended, Taken, published, dead>>
  BY DEF Delivery!dvars, Taken
<1>1. TypeOK
  BY DEF SettlementInv
<1> DEFINE Step == Delivery!DNext \/ UNCHANGED <<appended, Taken, published, dead>>
<1>2. CASE UNCHANGED <<appended, accepted, published, dead>>
  BY <1>2 DEF Taken
<1>3. CASE Append
  BY <1>3 DEF Append, StoreAppend, relayVars, Taken, Delivery!DNext, Delivery!DAppend
<1>4. ASSUME NEW r \in Relay, BrokerAccepts(r) \/ BrokerAnswerLost(r) PROVE Step
  <2>1. PICK e \in Entry : IsCurrent(r, e) /\ Broker(e)
    BY <1>4 DEF BrokerAccepts, BrokerAnswerLost
  <2>2. UNCHANGED <<appended, published, dead>>
    BY <1>4 DEF BrokerAccepts, BrokerAnswerLost, storeVars
  <2>3. Taken' = Taken \cup {e}
    BY <1>1, <2>1 DEF Taken, Broker, TypeOK
  <2>4. e \in 1..appended
    BY <2>1 DEF SettlementInv, IsCurrent
  <2>5. Delivery!DTake(e)
    BY <2>2, <2>3, <2>4 DEF Delivery!DTake, Delivery!Existing, Taken
  <2> QED
    BY <2>1, <2>5 DEF Delivery!DNext, Entry
<1>5. ASSUME NEW r \in Relay, MarkPublished(r) PROVE Step
  <2>1. PICK e \in Entry : IsCurrent(r, e) /\ StorePublished(e) /\ DoneWith(r, e)
    BY <1>5 DEF MarkPublished
  <2>2. e \in 1..appended /\ e \in Taken
    BY <1>5, <2>1 DEF MarkPublished, SettlementInv, IsCurrent, Taken
  <2>3. Taken' = Taken
    BY <2>1 DEF DoneWith, Taken
  <2>4. Delivery!DPublish(e)
    BY <2>1, <2>2, <2>3 DEF StorePublished, Delivery!DPublish, Delivery!Existing, Taken
  <2> QED
    BY <2>1, <2>4 DEF Delivery!DNext, Entry
<1>6. ASSUME NEW r \in Relay, MarkDeadLettered(r) PROVE Step
  <2>1. PICK e \in Entry : IsCurrent(r, e) /\ StoreDeadLettered(e) /\ DoneWith(r, e)
    BY <1>6 DEF MarkDeadLettered
  <2>2. e \in 1..appended
    BY <2>1 DEF SettlementInv, IsCurrent
  <2>3. Taken' = Taken
    BY <2>1 DEF DoneWith, Taken
  <2>4. CASE e \in published
    BY <2>1, <2>3, <2>4 DEF StoreDeadLettered, storeVars
  <2>5. CASE e \notin published
    <3>1. Delivery!DGiveUp(e)
      BY <2>1, <2>2, <2>3, <2>5
         DEF StoreDeadLettered, Delivery!DGiveUp, Delivery!Existing, Taken
    <3> QED
      BY <2>1, <3>1 DEF Delivery!DNext, Entry
  <2> QED
    BY <2>4, <2>5
<1>7. ASSUME NEW r \in Relay, MarkFailed(r)
      PROVE  UNCHANGED <<appended, accepted, published, dead>>
  BY <1>7 DEF MarkFailed, StoreFailed, DoneWith, storeVars
<1>8. ASSUME NEW r \in Relay,
             Fetch(r) \/ FetchAnswerLost(r) \/ Refused(r) \/ MarkFails(r) \/ Crash(r) \/ Restart(r)
      PROVE  UNCHANGED <<appended, accepted, published, dead>>
  BY <1>8 DEF Fetch, FetchAnswerLost, StoreClaim, Refused, MarkFails, Crash, Abandon,
              Restart, storeVars
<1>9. ASSUME NEW e \in Entry, RetryDue(e) \/ ClaimStale(e)
      PROVE  UNCHANGED <<appended, accepted, published, dead>>
  BY <1>9 DEF RetryDue, RetryFallsDue, ClaimStale, ClaimGoesStale
<1>10. CASE UNCHANGED vars
  BY <1>2, <1>10 DEF vars, storeVars
<1> QED
  BY <1>2, <1>3, <1>4, <1>5, <1>6, <1>7, <1>8, <1>9, <1>10 DEF Next, Pass, Failure

\* The relays implement the safety part of what the outbox promises.
THEOREM RelaysImplementDelivery == Spec => ImplementsDelivery
<1>1. Init => Delivery!DInit
  BY DEF Init, StoreInit, Delivery!DInit
<1> QED
  BY <1>1, DeliveryStep, SettlementHolds, PTL DEF Spec, ImplementsDelivery, Delivery!DSafety

-----------------------------------------------------------------------------
(* How far stale claims can take the count of failures.                    *)

\* Relays that will count one more failure of e, and those that will give it
\* up, by the copies they fetched.
Retrying(e) == {r \in Relay : e \in batch[r] /\ ~Exhausted(r, e)}
GivingUp(e) == {r \in Relay : e \in batch[r] /\ Exhausted(r, e)}

Relays == Cardinality(Relay)

\* From the budget on, only copies fetched before can retry; once an entry is
\* dead no pass fetches it, and every copy that is left counts once.
OvershootOf(e) ==
    /\ e \notin Settled /\ attempts[e] + 1 >= MaxAttempts =>
           attempts[e] + Cardinality(Retrying(e)) + 2 <= MaxAttempts + Relays
    /\ e \in dead =>
           attempts[e] + Cardinality(Retrying(e)) + Cardinality(GivingUp(e))
               <= MaxAttempts + 2 * (Relays - 1)
    /\ e \in published => attempts[e] <= MaxAttempts + 2 * (Relays - 1)

OvershootInv == \A e \in Entry : OvershootOf(e)

LEMMA RelaySetsAreFinite ==
  ASSUME IsFiniteSet(Relay), Relay # {}, NEW e \in Entry
  PROVE  /\ Relays \in Nat /\ Relays >= 1
         /\ IsFiniteSet(Retrying(e)) /\ IsFiniteSet(GivingUp(e))
         /\ Cardinality(Retrying(e)) \in Nat /\ Cardinality(GivingUp(e)) \in Nat
         /\ Cardinality(Retrying(e)) + Cardinality(GivingUp(e)) <= Relays
<1>1. /\ Retrying(e) \in SUBSET Relay
      /\ GivingUp(e) \in SUBSET Relay
      /\ Retrying(e) \cup GivingUp(e) \in SUBSET Relay
      /\ Retrying(e) \cap GivingUp(e) = {}
  BY DEF Retrying, GivingUp
<1>2. /\ IsFiniteSet(Retrying(e)) /\ IsFiniteSet(GivingUp(e))
      /\ Cardinality(Retrying(e) \cup GivingUp(e)) <= Relays
  BY <1>1, FS_Subset DEF Relays
<1>3. /\ Relays \in Nat /\ Relays >= 1
      /\ Cardinality(Retrying(e)) \in Nat /\ Cardinality(GivingUp(e)) \in Nat
  <2>1. /\ Cardinality(Relay) \in Nat /\ Cardinality(Relay) # 0
        /\ Cardinality(Retrying(e)) \in Nat /\ Cardinality(GivingUp(e)) \in Nat
    BY <1>2, FS_CardinalityType, FS_EmptySet
  <2> QED
    BY <2>1 DEF Relays
<1>4. Cardinality(Retrying(e) \cup GivingUp(e))
        = Cardinality(Retrying(e)) + Cardinality(GivingUp(e))
  <2>1. Cardinality(Retrying(e) \cup GivingUp(e))
          = Cardinality(Retrying(e)) + Cardinality(GivingUp(e)) - Cardinality({})
    BY <1>1, <1>2, FS_Union
  <2> QED
    BY <1>3, <2>1, FS_EmptySet
<1> QED
  BY <1>2, <1>3, <1>4

\* A subset that misses one element is smaller by one.
LEMMA SmallerWithout ==
  ASSUME NEW S, IsFiniteSet(S), NEW T \in SUBSET S
  PROVE  /\ Cardinality(T) <= Cardinality(S)
         /\ \A x \in S : x \notin T => Cardinality(T) + 1 <= Cardinality(S)
<1>1. Cardinality(T) <= Cardinality(S)
  BY FS_Subset
<1>2. ASSUME NEW x \in S, x \notin T PROVE Cardinality(T) + 1 <= Cardinality(S)
  <2>1. IsFiniteSet(T) /\ x \notin T /\ T \cup {x} \in SUBSET S
    BY <1>2, FS_Subset
  <2>2. Cardinality(T \cup {x}) = Cardinality(T) + 1
    BY <2>1, FS_AddElement
  <2>3. Cardinality(T \cup {x}) <= Cardinality(S)
    BY <2>1, FS_Subset
  <2> QED
    BY <2>2, <2>3
<1> QED
  BY <1>1, <1>2

\* What a mark of e by r, or any other step of a pass that lets copies go,
\* leaves of the two sets.
CopiesGo(e) ==
    /\ Retrying(e)' \in SUBSET Retrying(e)
    /\ GivingUp(e)' \in SUBSET GivingUp(e)

LEMMA DoneWithLetsCopiesGo ==
  ASSUME TypeOK, NEW r \in Relay, NEW f \in Entry, DoneWith(r, f), NEW e \in Entry
  PROVE  /\ CopiesGo(e)
         /\ e = f => r \notin Retrying(e)' /\ r \notin GivingUp(e)'
<1>1. \A s \in Relay : batch'[s] \subseteq batch[s]
  BY DoneWithEffect
<1>2. \A s \in Relay : e \in batch'[s] => fetchedAttempts'[s][e] = fetchedAttempts[s][e]
  BY DoneWithEffect
<1>3. e = f => e \notin batch'[r]
  BY DoneWithEffect
<1> QED
  BY <1>1, <1>2, <1>3 DEF CopiesGo, Retrying, GivingUp, Exhausted

\* Copies that go, with the count as it was: the bound stays.
LEMMA BoundKept ==
  ASSUME SettlementInv, TypeOK', IsFiniteSet(Relay), Relay # {}, MaxAttempts \in Nat,
         NEW e \in Entry, OvershootOf(e),
         attempts'[e] = attempts[e], CopiesGo(e),
         e \in Settled => e \in Settled', e \in dead' => e \in dead,
         e \in Settled' => e \in Settled \/ e \in published'
  PROVE  OvershootOf(e)'
<1> DEFINE L == Cardinality(Retrying(e))
           G == Cardinality(GivingUp(e))
<1>1. /\ attempts[e] \in Nat /\ Relays \in Nat /\ Relays >= 1 /\ L \in Nat /\ G \in Nat
      /\ L + G <= Relays
  BY RelaySetsAreFinite DEF SettlementInv, TypeOK, StoreTypeOK
<1>2. /\ IsFiniteSet(Retrying(e)) /\ IsFiniteSet(GivingUp(e))
      /\ Retrying(e)' \in SUBSET Retrying(e) /\ GivingUp(e)' \in SUBSET GivingUp(e)
  BY RelaySetsAreFinite DEF CopiesGo
<1>3. /\ Cardinality(Retrying(e)') <= L /\ Cardinality(GivingUp(e)') <= G
      /\ Cardinality(Retrying(e)') \in Nat /\ Cardinality(GivingUp(e)') \in Nat
  BY <1>2, FS_Subset, FS_CardinalityType
<1> HIDE DEF L, G
<1>4. ASSUME e \notin Settled', attempts'[e] + 1 >= MaxAttempts
      PROVE  attempts'[e] + Cardinality(Retrying(e)') + 2 <= MaxAttempts + Relays
  BY <1>1, <1>3, <1>4 DEF OvershootOf, L
<1>5. ASSUME e \in dead'
      PROVE  attempts'[e] + Cardinality(Retrying(e)') + Cardinality(GivingUp(e)')
                <= MaxAttempts + 2 * (Relays - 1)
  BY <1>1, <1>3, <1>5 DEF OvershootOf, L, G
<1>6. attempts[e] <= MaxAttempts + 2 * (Relays - 1)
  BY <1>1 DEF OvershootOf, L, G, Settled
<1> QED
  BY <1>4, <1>5, <1>6 DEF OvershootOf, Relays

\* A failure of e that r counts and that uses up the copy of r.
LEMMA BoundWhenCounted ==
  ASSUME SettlementInv, TypeOK', IsFiniteSet(Relay), Relay # {}, MaxAttempts \in Nat,
         NEW e \in Entry, OvershootOf(e), CopiesGo(e), e \notin published,
         published' = published, attempts'[e] = attempts[e] + 1,
         NEW r \in Relay, e \in batch[r], r \notin Retrying(e)', r \notin GivingUp(e)',
         dead' = IF Exhausted(r, e) THEN dead \cup {e} ELSE dead
  PROVE  OvershootOf(e)'
<1> DEFINE L == Cardinality(Retrying(e))
           G == Cardinality(GivingUp(e))
           L2 == Cardinality(Retrying(e)')
           G2 == Cardinality(GivingUp(e)')
<1>1. /\ attempts[e] \in Nat /\ Relays \in Nat /\ Relays >= 1 /\ L \in Nat /\ G \in Nat
      /\ L + G <= Relays
  BY RelaySetsAreFinite DEF SettlementInv, TypeOK, StoreTypeOK
<1>2. /\ IsFiniteSet(Retrying(e)) /\ IsFiniteSet(GivingUp(e))
      /\ Retrying(e)' \in SUBSET Retrying(e) /\ GivingUp(e)' \in SUBSET GivingUp(e)
  BY RelaySetsAreFinite DEF CopiesGo
<1>3. /\ L2 <= L /\ G2 <= G /\ L2 \in Nat /\ G2 \in Nat
  BY <1>2, FS_Subset, FS_CardinalityType
<1>4. IF Exhausted(r, e) THEN G2 + 1 <= G ELSE L2 + 1 <= L
  <2>1. IF Exhausted(r, e) THEN r \in GivingUp(e) ELSE r \in Retrying(e)
    BY DEF GivingUp, Retrying
  <2> QED
    BY <1>2, <2>1, SmallerWithout
<1>5. Exhausted(r, e) => attempts[e] + 1 >= MaxAttempts
  <2>1. fetchedAttempts[r][e] \in Nat /\ fetchedAttempts[r][e] <= attempts[e]
    BY DEF SettlementInv, TypeOK
  <2> QED
    BY <1>1, <2>1 DEF Exhausted
<1> HIDE DEF L, G, L2, G2
<1>6. ASSUME e \notin Settled', attempts'[e] + 1 >= MaxAttempts
      PROVE  attempts'[e] + L2 + 2 <= MaxAttempts + Relays
  <2>1. ~Exhausted(r, e) /\ e \notin Settled
    BY <1>6 DEF Settled
  <2>2. attempts[e] + 1 >= MaxAttempts => attempts[e] + L + 2 <= MaxAttempts + Relays
    BY <2>1 DEF OvershootOf, L
  <2> QED
    BY <1>1, <1>3, <1>4, <1>6, <2>1, <2>2
<1>7. ASSUME e \in dead'
      PROVE  attempts'[e] + L2 + G2 <= MaxAttempts + 2 * (Relays - 1)
  <2>1. CASE e \in dead
    <3>1. attempts[e] + L + G <= MaxAttempts + 2 * (Relays - 1)
      BY <2>1 DEF OvershootOf, L, G
    <3> QED
      BY <1>1, <1>3, <1>4, <3>1
  <2>2. CASE e \notin dead
    <3>1. Exhausted(r, e) /\ e \notin Settled
      BY <1>7, <2>2 DEF Settled
    <3>2. attempts[e] + L + 2 <= MaxAttempts + Relays
      BY <1>5, <3>1 DEF OvershootOf, L
    <3> QED
      BY <1>1, <1>3, <1>4, <3>1, <3>2
  <2> QED
    BY <2>1, <2>2
<1> QED
  BY <1>6, <1>7 DEF OvershootOf, Relays, L2, G2

LEMMA OvershootStep ==
  ASSUME IsFiniteSet(Relay), Relay # {}, MaxAttempts \in Nat,
         SettlementInv, TypeOK', OvershootInv, [Next]_vars
  PROVE  OvershootInv'
<1> SUFFICES ASSUME NEW e \in Entry PROVE OvershootOf(e)'
  BY DEF OvershootInv
<1> USE DEF Settled
<1>1. TypeOK /\ OvershootOf(e) /\ MaxAttempts # Unlimited
  BY RelayAssumption DEF SettlementInv, OvershootInv
<1>2. ASSUME UNCHANGED <<published, dead, attempts>>, CopiesGo(e)
      PROVE  OvershootOf(e)'
  BY <1>1, <1>2, BoundKept
<1>3. ASSUME UNCHANGED <<batch, fetchedAttempts>> PROVE CopiesGo(e)
  BY <1>3 DEF CopiesGo, Retrying, GivingUp, Exhausted
<1>4. CASE Append
  BY <1>2, <1>3, <1>4 DEF Append, StoreAppend, relayVars
<1>5. ASSUME NEW r \in Relay, Fetch(r) PROVE OvershootOf(e)'
  <2>1. PICK S \in SUBSET Fetchable :
           /\ StoreClaim(S)
           /\ batch' = [batch EXCEPT ![r] = S]
           /\ fetchedAttempts' = [fetchedAttempts EXCEPT ![r] =
                 [f \in Entry |-> IF f \in S THEN attempts[f] ELSE 0]]
    BY <1>5 DEF Fetch
  <2>2. UNCHANGED <<published, dead, attempts>>
    BY <2>1 DEF StoreClaim
  <2>3. \A s \in Relay \ {r} : batch'[s] = batch[s] /\ fetchedAttempts'[s] = fetchedAttempts[s]
    BY <1>1, <2>1 DEF TypeOK
  <2>4. batch'[r] = S /\ (e \in S => fetchedAttempts'[r][e] = attempts[e])
    BY <1>1, <2>1 DEF TypeOK
  <2>5. CASE e \notin S
    <3>1. CopiesGo(e)
      BY <2>3, <2>4, <2>5 DEF CopiesGo, Retrying, GivingUp, Exhausted
    <3> QED
      BY <1>2, <2>2, <3>1
  <2>6. CASE e \in S
    <3>1. e \notin Settled
      BY <2>6 DEF Fetchable
    <3>2. attempts[e] + 1 >= MaxAttempts => Retrying(e)' \in SUBSET Retrying(e)
      BY <1>1, <2>3, <2>4, <2>6 DEF Retrying, Exhausted
    <3>3. attempts[e] + 1 >= MaxAttempts =>
             /\ Cardinality(Retrying(e)') <= Cardinality(Retrying(e))
             /\ Cardinality(Retrying(e)') \in Nat
      BY <3>2, RelaySetsAreFinite, FS_Subset, FS_CardinalityType
    <3>4. Cardinality(Retrying(e)) \in Nat /\ Relays \in Nat /\ attempts[e] \in Nat
      BY <1>1, RelaySetsAreFinite DEF TypeOK, StoreTypeOK
    <3> QED
      BY <1>1, <2>2, <3>1, <3>3, <3>4 DEF OvershootOf, Relays
  <2> QED
    BY <2>5, <2>6
<1>6. ASSUME NEW r \in Relay,
             \/ FetchAnswerLost(r) \/ BrokerAccepts(r) \/ BrokerAnswerLost(r)
             \/ Refused(r) \/ Restart(r)
      PROVE  OvershootOf(e)'
  BY <1>2, <1>3, <1>6
     DEF FetchAnswerLost, StoreClaim, BrokerAccepts, BrokerAnswerLost, Refused, Restart,
         relayVars, storeVars
<1>7. ASSUME NEW r \in Relay, MarkPublished(r) PROVE OvershootOf(e)'
  <2>1. PICK f \in Entry : StorePublished(f) /\ DoneWith(r, f)
    BY <1>7 DEF MarkPublished
  <2>2. CopiesGo(e)
    BY <1>1, <2>1, DoneWithLetsCopiesGo
  <2> QED
    BY <1>1, <2>1, <2>2, BoundKept DEF StorePublished
<1>8. ASSUME NEW r \in Relay, MarkFailed(r) \/ MarkDeadLettered(r) PROVE OvershootOf(e)'
  <2>1. PICK f \in Entry :
           /\ f \in batch[r] /\ DoneWith(r, f)
           /\ IF Exhausted(r, f) THEN StoreDeadLettered(f) ELSE StoreFailed(f)
    BY <1>8 DEF MarkFailed, MarkDeadLettered, IsCurrent
  <2>2. CopiesGo(e) /\ (e = f => r \notin Retrying(e)' /\ r \notin GivingUp(e)')
    BY <1>1, <2>1, DoneWithLetsCopiesGo
  <2>3. CASE f \in published
    BY <1>2, <2>1, <2>2, <2>3 DEF StoreDeadLettered, StoreFailed, storeVars
  <2>4. CASE f \notin published
    <3>1. /\ published' = published
          /\ attempts' = [attempts EXCEPT ![f] = attempts[f] + 1]
          /\ dead' = IF Exhausted(r, f) THEN dead \cup {f} ELSE dead
      BY <2>1, <2>4 DEF StoreDeadLettered, StoreFailed
    <3>2. CASE e = f
      <4>1. attempts'[e] = attempts[e] + 1
        BY <1>1, <3>1, <3>2 DEF TypeOK, StoreTypeOK
      <4> QED
        BY <1>1, <2>1, <2>2, <2>4, <3>1, <3>2, <4>1, BoundWhenCounted
    <3>3. CASE e # f
      <4>1. attempts'[e] = attempts[e] /\ (e \in dead' <=> e \in dead)
        BY <1>1, <3>1, <3>3 DEF TypeOK, StoreTypeOK
      <4> QED
        BY <1>1, <2>2, <3>1, <4>1, BoundKept
    <3> QED
      BY <3>2, <3>3
  <2> QED
    BY <2>3, <2>4
<1>9. ASSUME NEW r \in Relay, MarkFails(r) \/ Crash(r) PROVE OvershootOf(e)'
  <2>1. /\ UNCHANGED <<published, dead, attempts>>
        /\ batch' = [batch EXCEPT ![r] = {}]
        /\ fetchedAttempts' = [fetchedAttempts EXCEPT ![r] = NoCopies]
    BY <1>9 DEF MarkFails, Crash, Abandon, storeVars
  <2>2. /\ batch'[r] = {}
        /\ \A s \in Relay \ {r} :
              batch'[s] = batch[s] /\ fetchedAttempts'[s] = fetchedAttempts[s]
    BY <1>1, <2>1 DEF TypeOK
  <2>3. CopiesGo(e)
    BY <2>2 DEF CopiesGo, Retrying, GivingUp, Exhausted
  <2> QED
    BY <1>2, <2>1, <2>3
<1>10. ASSUME NEW f \in Entry, RetryDue(f) \/ ClaimStale(f) PROVE OvershootOf(e)'
  BY <1>2, <1>3, <1>10
     DEF RetryDue, RetryFallsDue, ClaimStale, ClaimGoesStale, relayVars
<1>11. CASE UNCHANGED vars
  BY <1>2, <1>3, <1>11 DEF vars, storeVars, relayVars
<1> QED
  BY <1>4, <1>5, <1>6, <1>7, <1>8, <1>9, <1>10, <1>11 DEF Next, Pass, Failure

\* Stale claims take the count of failures at most two per other relay above
\* the budget, for any finite number of relays.
THEOREM OvershootIsBounded ==
  ASSUME IsFiniteSet(Relay), Relay # {}
  PROVE  Spec => []OvershootBounded
<1>1. CASE MaxAttempts = Unlimited
  <2>1. OvershootBounded
    BY <1>1 DEF OvershootBounded
  <2> QED
    BY <2>1, PTL
<1>2. CASE MaxAttempts # Unlimited
  <2>1. MaxAttempts \in Nat \ {0}
    BY <1>2, RelayAssumption
  <2>2. Init => OvershootInv
    <3> SUFFICES ASSUME Init, NEW e \in Entry PROVE OvershootOf(e)
      BY DEF OvershootInv
    <3>1. e \notin Settled /\ attempts[e] = 0 /\ Retrying(e) = {}
      BY DEF Init, StoreInit, Settled, Retrying
    <3> QED
      BY <2>1, <3>1, RelaySetsAreFinite, FS_EmptySet DEF OvershootOf, Settled
  <2>3. SettlementInv /\ SettlementInv' /\ OvershootInv /\ [Next]_vars => OvershootInv'
    BY <2>1, OvershootStep DEF SettlementInv
  <2>4. SettlementInv /\ OvershootInv => OvershootBounded
    <3> SUFFICES ASSUME SettlementInv, OvershootInv, NEW e \in Entry
                 PROVE  attempts[e] <= MaxAttempts + 2 * (Cardinality(Relay) - 1)
      BY DEF OvershootBounded
    <3>1. /\ attempts[e] \in Nat /\ Relays \in Nat /\ Relays >= 1
          /\ Cardinality(Retrying(e)) \in Nat /\ Cardinality(GivingUp(e)) \in Nat
      BY RelaySetsAreFinite DEF SettlementInv, TypeOK, StoreTypeOK
    <3> QED
      BY <2>1, <3>1 DEF OvershootInv, OvershootOf, Settled, Relays
  <2> QED
    BY <2>2, <2>3, <2>4, SettlementHolds, PTL DEF Spec
<1> QED
  BY <1>1, <1>2
=============================================================================
