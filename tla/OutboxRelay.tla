----------------------------- MODULE OutboxRelay -----------------------------
(***************************************************************************)
(* Several relays (OutboundEventGateway.run_once driven by run) drain one  *)
(* outbox store into a message broker. Steps interleave at the awaits of   *)
(* run_once: after the fetch, after each publish, after each mark. A relay *)
(* can crash or be cancelled at any of them, the store can fail, the       *)
(* broker can refuse a message or take it and still raise, and the claim   *)
(* of a slow relay can go stale while it works.                            *)
(***************************************************************************)
EXTENDS OutboxStore

CONSTANTS
    Relay,              \* the relay instances that share the store
    BatchSize,          \* batch_size
    MaxAttempts,        \* max_attempts, or Unlimited for None
    Unlimited,
    Undeliverable,      \* entries of an unknown topic or an invalid payload
    MaxRefusals,        \* bound: refusals of an entry the broker can take
    MaxFaults,          \* bound: crashes, store errors and lost answers
    ClaimsOutlastPasses \* TRUE: the claim timeout is longer than any pass

ASSUME RelayAssumption ==
    /\ BatchSize \in Nat \ {0}
    /\ MaxAttempts \in (Nat \ {0}) \cup {Unlimited}
    /\ Unlimited \notin Nat
    /\ Undeliverable \subseteq Entry
    /\ MaxRefusals \in Nat
    /\ MaxFaults \in Nat
    /\ ClaimsOutlastPasses \in BOOLEAN

VARIABLES
    accepted,           \* how often the broker took each entry
    pc,                 \* what each relay does next
    batch,              \* entries of the current pass not yet marked
    fetchedAttempts,    \* entry.attempts in each relay's fetched copies
    faults              \* faults so far

relayVars == <<pc, batch, fetchedAttempts>>
vars == <<storeVars, accepted, relayVars, faults>>

\* idle: between passes; passing: about to deliver the oldest of its batch;
\* accepted, refused: about to record that delivery; down: crashed.
RelayState == {"idle", "passing", "accepted", "refused", "down"}

TypeOK ==
    /\ StoreTypeOK
    /\ accepted \in [Entry -> Nat]
    /\ pc \in [Relay -> RelayState]
    /\ batch \in [Relay -> SUBSET Entry]
    /\ fetchedAttempts \in [Relay -> [Entry -> Nat]]
    /\ faults \in 0..MaxFaults

NoCopies == [e \in Entry |-> 0]

Init ==
    /\ StoreInit
    /\ accepted = [e \in Entry |-> 0]
    /\ pc = [r \in Relay |-> "idle"]
    /\ batch = [r \in Relay |-> {}]
    /\ fetchedAttempts = [r \in Relay |-> NoCopies]
    /\ faults = 0

Holds(r, e) == e \in batch[r]

\* The entry the pass of r works on: the oldest it has not marked.
IsCurrent(r, e) == e \in batch[r] /\ IsOldest(e, batch[r])

\* One more fault, within the bound.
Fault ==
    /\ faults < MaxFaults
    /\ faults' = faults + 1

-----------------------------------------------------------------------------
Append == StoreAppend /\ UNCHANGED <<accepted, relayVars, faults>>

\* run_once starts: fetch_unpublished returns and claims a batch. A pass that
\* finds nothing leaves the relay polling.
Fetch(r) ==
    /\ pc[r] = "idle"
    /\ \E S \in SUBSET Fetchable :
          /\ IsBatch(S, BatchSize)
          /\ StoreClaim(S)
          /\ batch' = [batch EXCEPT ![r] = S]
          /\ fetchedAttempts' = [fetchedAttempts EXCEPT ![r] =
                [e \in Entry |-> IF e \in S THEN attempts[e] ELSE 0]]
          /\ pc' = [pc EXCEPT ![r] = IF S = {} THEN "idle" ELSE "passing"]
    /\ UNCHANGED <<accepted, faults>>

\* The fetch claims a batch and fails before the relay learns of it; the run
\* loop logs the error and backs off, the entries stay claimed.
FetchAnswerLost(r) ==
    /\ pc[r] = "idle"
    /\ Fault
    /\ \E S \in SUBSET Fetchable : IsBatch(S, BatchSize) /\ StoreClaim(S)
    /\ UNCHANGED <<accepted, relayVars>>

-----------------------------------------------------------------------------
(* _deliver: resolve the topic, validate the payload, publish.             *)

Broker(e) == accepted' = [accepted EXCEPT ![e] = @ + 1]

BrokerAccepts(r) ==
    /\ pc[r] = "passing"
    /\ \E e \in Entry \ Undeliverable : IsCurrent(r, e) /\ Broker(e)
    /\ pc' = [pc EXCEPT ![r] = "accepted"]
    /\ UNCHANGED <<storeVars, batch, fetchedAttempts, faults>>

\* An unknown topic, an invalid payload or a broker that raises.
Refused(r) ==
    /\ pc[r] = "passing"
    /\ \E e \in Entry :
          /\ IsCurrent(r, e)
          /\ e \in Undeliverable \/ attempts[e] < MaxRefusals
    /\ pc' = [pc EXCEPT ![r] = "refused"]
    /\ UNCHANGED <<storeVars, accepted, batch, fetchedAttempts, faults>>

\* The broker takes the message but publish() raises.
BrokerAnswerLost(r) ==
    /\ pc[r] = "passing"
    /\ Fault
    /\ \E e \in Entry \ Undeliverable : IsCurrent(r, e) /\ Broker(e)
    /\ pc' = [pc EXCEPT ![r] = "refused"]
    /\ UNCHANGED <<storeVars, batch, fetchedAttempts>>

-----------------------------------------------------------------------------
(* The marks that follow each delivery of the pass.                        *)

\* The pass is done with e: its next entry, or the next pass.
DoneWith(r, e) ==
    /\ batch' = [batch EXCEPT ![r] = @ \ {e}]
    /\ fetchedAttempts' = [fetchedAttempts EXCEPT ![r][e] = 0]
    /\ pc' = [pc EXCEPT ![r] = IF batch[r] \ {e} = {} THEN "idle" ELSE "passing"]
    /\ UNCHANGED <<accepted, faults>>

\* Mutant: the whole batch is marked when its first entry was accepted.
MarkPublishedWholeBatch(r) ==
    /\ pc[r] = "accepted"
    /\ published' = published \cup batch[r]
    /\ dead' = dead \ batch[r]
    /\ claimed' = claimed \ batch[r]
    /\ UNCHANGED <<appended, attempts, hidden, accepted, faults>>
    /\ batch' = [batch EXCEPT ![r] = {}]
    /\ fetchedAttempts' = [fetchedAttempts EXCEPT ![r] = NoCopies]
    /\ pc' = [pc EXCEPT ![r] = "idle"]

MarkPublished(r) ==
    /\ pc[r] = "accepted"
    /\ \E e \in Entry : IsCurrent(r, e) /\ StorePublished(e) /\ DoneWith(r, e)

\* Mutant: the budget is compared before the failed attempt is counted.
ExhaustedOneLate(r, e) ==
    /\ MaxAttempts # Unlimited
    /\ fetchedAttempts[r][e] >= MaxAttempts

\* Mutant: the budget is spent one attempt early.
ExhaustedOneEarly(r, e) ==
    /\ MaxAttempts # Unlimited
    /\ fetchedAttempts[r][e] + 2 >= MaxAttempts

\* The retry budget, judged by the attempts the relay fetched.
Exhausted(r, e) ==
    /\ MaxAttempts # Unlimited
    /\ fetchedAttempts[r][e] + 1 >= MaxAttempts

MarkFailed(r) ==
    /\ pc[r] = "refused"
    /\ \E e \in Entry :
          /\ IsCurrent(r, e)
          /\ ~Exhausted(r, e)
          /\ StoreFailed(e)
          /\ DoneWith(r, e)

MarkDeadLettered(r) ==
    /\ pc[r] = "refused"
    /\ \E e \in Entry :
          /\ IsCurrent(r, e)
          /\ Exhausted(r, e)
          /\ StoreDeadLettered(e)
          /\ DoneWith(r, e)

-----------------------------------------------------------------------------
(* A pass that ends early: the rest of its batch stays claimed.            *)

Abandon(r, next) ==
    /\ batch' = [batch EXCEPT ![r] = {}]
    /\ fetchedAttempts' = [fetchedAttempts EXCEPT ![r] = NoCopies]
    /\ pc' = [pc EXCEPT ![r] = next]
    /\ UNCHANGED <<storeVars, accepted>>

\* A mark raises: the error propagates, the run loop logs it and goes on.
MarkFails(r) ==
    /\ pc[r] \in {"accepted", "refused"}
    /\ Fault
    /\ Abandon(r, "idle")

\* The process dies, or the task of run() is cancelled.
Crash(r) ==
    /\ pc[r] # "down"
    /\ Fault
    /\ Abandon(r, "down")

Restart(r) ==
    /\ pc[r] = "down"
    /\ pc' = [pc EXCEPT ![r] = "idle"]
    /\ UNCHANGED <<storeVars, accepted, batch, fetchedAttempts, faults>>

RetryDue(e) == RetryFallsDue(e) /\ UNCHANGED <<accepted, relayVars, faults>>

ClaimStale(e) ==
    /\ ClaimsOutlastPasses => \A r \in Relay : ~Holds(r, e)
    /\ ClaimGoesStale(e)
    /\ UNCHANGED <<accepted, relayVars, faults>>

-----------------------------------------------------------------------------
Pass(r) ==
    \/ Fetch(r)
    \/ BrokerAccepts(r)
    \/ Refused(r)
    \/ MarkPublished(r)
    \/ MarkFailed(r)
    \/ MarkDeadLettered(r)
    \/ Restart(r)

Failure(r) ==
    \/ FetchAnswerLost(r)
    \/ BrokerAnswerLost(r)
    \/ MarkFails(r)
    \/ Crash(r)

Next ==
    \/ Append
    \/ \E r \in Relay : Pass(r) \/ Failure(r)
    \/ \E e \in Entry : RetryDue(e) \/ ClaimStale(e)

Spec == Init /\ [][Next]_vars

\* The run loop keeps polling, a crashed relay is restarted by its
\* supervisor, and the clock advances. The broker need not accept anything.
Fairness ==
    /\ \A r \in Relay : WF_vars(Pass(r))
    /\ \A e \in Entry : WF_vars(RetryDue(e)) /\ WF_vars(ClaimStale(e))

FairSpec == Spec /\ Fairness

-----------------------------------------------------------------------------
(* Safety, whatever the claims do.                                         *)

\* An entry is recorded as published only if the broker took it: no crash,
\* store error or batching order marks a message that was never sent
\* (outbox.py: "or the message is lost").
PublishedWasAccepted == \A e \in published : accepted[e] > 0

\* No entry is both published and dead-lettered, although two relays may
\* settle the same entry in different ways (ADR-074).
NeverBothSettlements == published \cap dead = {}

\* A publication is final: a relay whose claim went stale and that fails
\* later neither undoes it nor counts its failure against the entry.
LateFailureLeavesNoTrace ==
    [][\A e \in published :
          e \in published' /\ e \notin dead' /\ attempts'[e] = attempts[e]]_vars

\* An entry is never given up before max_attempts deliveries of it failed,
\* and never at all when max_attempts is None.
NotGivenUpEarly ==
    \A e \in dead : MaxAttempts # Unlimited /\ attempts[e] >= MaxAttempts

\* Stale claims let several relays fail the same entry, each counting; the
\* count still ends at most two failures per other relay above the budget:
\* one of a copy fetched before the budget was spent, one fetched after.
OvershootBounded ==
    MaxAttempts # Unlimited =>
        \A e \in Entry : attempts[e] <= MaxAttempts + 2 * (Cardinality(Relay) - 1)

-----------------------------------------------------------------------------
(* Safety, when the claim timeout is longer than any pass.                 *)

\* An entry is in the hands of one relay at a time, across crashes, store
\* errors and claims that the store drops.
OneRelayPerEntry ==
    \A r, s \in Relay : r # s => batch[r] \cap batch[s] = {}

\* The broker takes an entry again only after a crash, a failed mark or a
\* lost answer: each fault costs at most one duplicate.
DuplicatesNeedFaults == \A e \in Entry : accepted[e] <= 1 + faults

\* What outbox.py promises an operator: a dead letter reports exactly
\* max_attempts attempts.
DeadLetterReportsBudget == \A e \in dead : attempts[e] = MaxAttempts

-----------------------------------------------------------------------------
(* Liveness.                                                               *)

\* Every committed entry is eventually published or dead-lettered, though
\* claims are lost with crashed relays and some entries can never be sent.
EventuallySettled == \A e \in Entry : (e <= appended) ~> (e \in Settled)

\* An entry the broker can take is not held up by undeliverable ones, and
\* is published once the broker stops refusing it.
EventuallyPublished ==
    \A e \in Entry \ Undeliverable : (e <= appended) ~> (e \in published)

-----------------------------------------------------------------------------
(* Refinement: the relays implement the outbox promise.                    *)

Delivery == INSTANCE OutboxDelivery
    WITH taken <- {e \in Entry : accepted[e] > 0}

ImplementsDelivery == Delivery!DSafety
ImplementsFairDelivery == Delivery!DSpec
=============================================================================
