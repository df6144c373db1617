--------------------------- MODULE AggregateLocking ---------------------------
(***************************************************************************)
(* AggregateLockingBehavior (cqrs/behaviors.py) over a LockProvider, for   *)
(* several command dispatches on one asyncio loop. A dispatch acquires its *)
(* keys in sorted order, runs the rest of the pipeline and releases in     *)
(* reverse order. Any await can be cancelled; a cancellation during a      *)
(* release hands the interrupted key and those after it to a background    *)
(* task, which calls release again. A handler may dispatch a nested        *)
(* command in its own task.                                                *)
(*                                                                         *)
(* Keys are naturals, so that their order is the sort order of the key     *)
(* strings. Each dispatch acquires a key at most once, so the dispatch     *)
(* itself stands for the token of its hold.                                *)
(***************************************************************************)
EXTENDS Integers, FiniteSets

CONSTANTS
    NumKeys,            \* lock keys are 1..NumKeys
    Command,            \* command dispatches
    Keys,               \* Keys[c]: what the resolver returns for c, deduplicated
    Parent,             \* Parent[c]: the dispatch whose handler dispatches c
    NoCommand,          \* no parent; a free key
    MaxCancels,         \* bound: cancellations requested of one task
    MaxFaults           \* bound: provider calls that raise on their own

Key == 1..NumKeys

\* A nested command runs in the task of the command that dispatched it.
TaskOf(c) == IF Parent[c] = NoCommand THEN c ELSE Parent[c]

ASSUME LockingAssumption ==
    /\ NumKeys \in Nat
    /\ MaxCancels \in Nat
    /\ MaxFaults \in Nat
    /\ NoCommand \notin Command
    /\ Keys \in [Command -> SUBSET Key]
    /\ Parent \in [Command -> Command \cup {NoCommand}]
    /\ \A c \in Command : Parent[c] # NoCommand => Parent[Parent[c]] = NoCommand

VARIABLES
    holder,             \* the current hold of each key, or NoCommand
    pc,                 \* where each dispatch is in handle()
    acquired,           \* keys whose acquire() returned
    pending,            \* keys _release still has to release, in this task
    handed,             \* keys handed over to the background task
    stranded,           \* keys whose release raised without freeing the key
    outcome,            \* how the dispatch leaves the behavior
    cancelling,         \* cancellations requested of each task
    faults

vars == <<holder, pc, acquired, pending, handed, stranded, outcome, cancelling, faults>>

\* new: not dispatched; acquiring: awaiting acquire() of its next key;
\* handling: in next(); releasing: awaiting release(); done: returned.
Phase == {"new", "acquiring", "handling", "releasing", "done"}
Outcome == {"none", "result", "error", "cancelled"}

TypeOK ==
    /\ holder \in [Key -> Command \cup {NoCommand}]
    /\ pc \in [Command -> Phase]
    /\ acquired \in [Command -> SUBSET Key]
    /\ pending \in [Command -> SUBSET Key]
    /\ handed \in [Command -> SUBSET Key]
    /\ stranded \in [Command -> SUBSET Key]
    /\ outcome \in [Command -> Outcome]
    /\ cancelling \in [Command -> 0..MaxCancels]
    /\ faults \in 0..MaxFaults

Nothing == [c \in Command |-> {}]

Init ==
    /\ holder = [k \in Key |-> NoCommand]
    /\ pc = [c \in Command |-> "new"]
    /\ acquired = Nothing
    /\ pending = Nothing
    /\ handed = Nothing
    /\ stranded = Nothing
    /\ outcome = [c \in Command |-> "none"]
    /\ cancelling = [c \in Command |-> 0]
    /\ faults = 0

-----------------------------------------------------------------------------
(* The provider.                                                           *)

\* Mutant: keys are acquired in the order the resolver returned them.
IsNextKeyUnsorted(c, k) == k \in Keys[c] \ acquired[c]

\* Sorted order: k is the least key of c not acquired yet.
IsNextKey(c, k) ==
    /\ k \in Keys[c] \ acquired[c]
    /\ \A j \in Keys[c] \ acquired[c] : k <= j

\* Reverse order: k is the greatest key of those still to be released.
IsLast(k, S) == k \in S /\ \A j \in S : j <= k

\* Mutant: release() deletes whatever hold the key has.
FreeAnyHold(c, k) == holder' = [holder EXCEPT ![k] = NoCommand]

\* An ownership-safe release frees the key only while its own hold lasts.
Free(c, k) ==
    holder' = [holder EXCEPT ![k] = IF @ = c THEN NoCommand ELSE @]

Fault ==
    /\ faults < MaxFaults
    /\ faults' = faults + 1

-----------------------------------------------------------------------------
(* handle(): acquire, call next(), release.                                *)

\* The innermost running dispatch of its task: the one an await suspends.
NoActiveChild(c) ==
    \A d \in Command : Parent[d] = c => pc[d] \in {"new", "done"}

\* The command bus runs the pipeline. Without keys locking is skipped.
Start(c) ==
    /\ pc[c] = "new"
    /\ Parent[c] # NoCommand => pc[Parent[c]] = "handling" /\ NoActiveChild(Parent[c])
    /\ pc' = [pc EXCEPT ![c] = IF Keys[c] = {} THEN "handling" ELSE "acquiring"]
    /\ UNCHANGED <<holder, acquired, pending, handed, stranded, outcome, cancelling, faults>>

Acquire(c) ==
    /\ pc[c] = "acquiring"
    /\ \E k \in Key :
          /\ IsNextKey(c, k)
          /\ holder[k] = NoCommand
          /\ holder' = [holder EXCEPT ![k] = c]
          /\ acquired' = [acquired EXCEPT ![c] = @ \cup {k}]
          /\ pc' = [pc EXCEPT ![c] =
                IF Keys[c] = acquired[c] \cup {k} THEN "handling" ELSE "acquiring"]
    /\ UNCHANGED <<pending, handed, stranded, outcome, cancelling, faults>>

\* Mutant: only a cleanly handled command releases the keys it acquired.
LeaveAfterResultOnly(c, how) ==
    /\ outcome' = [outcome EXCEPT ![c] = how]
    /\ LET keys == IF pc[c] = "handling" THEN acquired[c] ELSE {}
       IN  /\ pending' = [pending EXCEPT ![c] = keys]
           /\ pc' = [pc EXCEPT ![c] = IF keys = {} THEN "done" ELSE "releasing"]

\* The try block ends, in whatever way: every acquired key is released.
Leave(c, how) ==
    /\ outcome' = [outcome EXCEPT ![c] = how]
    /\ pending' = [pending EXCEPT ![c] = acquired[c]]
    /\ pc' = [pc EXCEPT ![c] = IF acquired[c] = {} THEN "done" ELSE "releasing"]

\* A nested command asks for a key its own task holds: LockReentryError.
Reenter(c) ==
    /\ pc[c] = "acquiring"
    /\ \E k \in Key :
          /\ IsNextKey(c, k)
          /\ holder[k] # NoCommand
          /\ TaskOf(holder[k]) = TaskOf(c)
    /\ Leave(c, "error")
    /\ UNCHANGED <<holder, acquired, handed, stranded, cancelling, faults>>

AcquireRaises(c) ==
    /\ pc[c] = "acquiring"
    /\ Fault
    /\ Leave(c, "error")
    /\ UNCHANGED <<holder, acquired, handed, stranded, cancelling>>

\* next() returns a result or raises.
HandlerEnds(c) ==
    /\ pc[c] = "handling"
    /\ NoActiveChild(c)
    /\ \E how \in {"result", "error"} : Leave(c, how)
    /\ UNCHANGED <<holder, acquired, handed, stranded, cancelling, faults>>

-----------------------------------------------------------------------------
(* _release: one key at a time, each isolated from the others.             *)

\* c is done with releasing key k in its own task.
Released(c, k) ==
    /\ pending' = [pending EXCEPT ![c] = @ \ {k}]
    /\ pc' = [pc EXCEPT ![c] = IF pending[c] = {k} THEN "done" ELSE "releasing"]

Release(c) ==
    /\ pc[c] = "releasing"
    /\ \E k \in Key : IsLast(k, pending[c]) /\ Free(c, k) /\ Released(c, k)
    /\ UNCHANGED <<acquired, handed, stranded, outcome, cancelling, faults>>

\* What a call of release(k) by c may have done to the key when it raised.
FreedOrNot(c, k) ==
    \/ Free(c, k) /\ UNCHANGED stranded
    \/ holder' = holder /\ stranded' = [stranded EXCEPT ![c] = @ \cup {k}]

\* Mutant: the first failing release ends the loop.
ReleaseRaisesAndStops(c) ==
    /\ pc[c] = "releasing"
    /\ Fault
    /\ \E k \in Key : IsLast(k, pending[c]) /\ FreedOrNot(c, k)
    /\ pending' = [pending EXCEPT ![c] = {}]
    /\ pc' = [pc EXCEPT ![c] = "done"]
    /\ UNCHANGED <<acquired, handed, outcome, cancelling>>

\* A release raises. An Exception is only noted or logged; a BaseException
\* replaces the outcome once every key has had its release.
ReleaseRaises(c) ==
    /\ pc[c] = "releasing"
    /\ Fault
    /\ \E k \in Key : IsLast(k, pending[c]) /\ FreedOrNot(c, k) /\ Released(c, k)
    /\ \/ UNCHANGED outcome
       \/ outcome' = [outcome EXCEPT ![c] = "error"]
    /\ UNCHANGED <<acquired, handed, cancelling>>

\* Mutant: the hand-over forgets the key whose release was interrupted.
HandOverRest(c, k) ==
    /\ handed' = [handed EXCEPT ![c] = pending[c] \ {k}]
    /\ pending' = [pending EXCEPT ![c] = {}]
    /\ pc' = [pc EXCEPT ![c] = "done"]
    /\ outcome' = [outcome EXCEPT ![c] = "cancelled"]

\* _hand_over_and_raise: keys go to a background task; the task of c leaves
\* with the cancellation at once.
HandOver(c, k) ==
    /\ handed' = [handed EXCEPT ![c] = pending[c]]
    /\ pending' = [pending EXCEPT ![c] = {}]
    /\ pc' = [pc EXCEPT ![c] = "done"]
    /\ outcome' = [outcome EXCEPT ![c] = "cancelled"]

\* A CancelledError raised by the release of an already cancelled task counts
\* as delivered by that cancellation.
ReleaseRaisesCancelled(c) ==
    /\ pc[c] = "releasing"
    /\ cancelling[TaskOf(c)] > 0
    /\ Fault
    /\ \E k \in Key :
          /\ IsLast(k, pending[c])
          /\ Free(c, k) \/ holder' = holder
          /\ HandOver(c, k)
    /\ UNCHANGED <<acquired, stranded, cancelling>>

-----------------------------------------------------------------------------
(* task.cancel(), delivered at the await the task is suspended in.         *)

RequestCancel(c) ==
    /\ cancelling[TaskOf(c)] < MaxCancels
    /\ NoActiveChild(c)
    /\ cancelling' = [cancelling EXCEPT ![TaskOf(c)] = @ + 1]

\* A cancelled acquire() never holds the key.
CancelAcquire(c) ==
    /\ pc[c] = "acquiring"
    /\ RequestCancel(c)
    /\ Leave(c, "cancelled")
    /\ UNCHANGED <<holder, acquired, handed, stranded, faults>>

\* The handler is interrupted, or swallows the cancellation and goes on.
CancelHandler(c) ==
    /\ pc[c] = "handling"
    /\ RequestCancel(c)
    /\ Leave(c, "cancelled") \/ UNCHANGED <<outcome, pending, pc>>
    /\ UNCHANGED <<holder, acquired, handed, stranded, faults>>

\* release() is interrupted before or after it took effect, and re-raises the
\* cancellation or its own error: the interrupted key is handed over too.
CancelRelease(c) ==
    /\ pc[c] = "releasing"
    /\ RequestCancel(c)
    /\ \E k \in Key :
          /\ IsLast(k, pending[c])
          /\ Free(c, k) \/ holder' = holder
          /\ HandOver(c, k)
    /\ UNCHANGED <<acquired, stranded, faults>>

\* release() swallows the cancellation and returns: the rest is handed over.
CancelSwallowed(c) ==
    /\ pc[c] = "releasing"
    /\ RequestCancel(c)
    /\ \E k \in Key :
          /\ IsLast(k, pending[c])
          /\ Free(c, k)
          /\ handed' = [handed EXCEPT ![c] = pending[c] \ {k}]
    /\ pending' = [pending EXCEPT ![c] = {}]
    /\ pc' = [pc EXCEPT ![c] = "done"]
    /\ outcome' = [outcome EXCEPT ![c] = "cancelled"]
    /\ UNCHANGED <<acquired, stranded, faults>>

-----------------------------------------------------------------------------
(* The background task of _hand_over.                                      *)

BackgroundRelease(c) ==
    /\ \E k \in Key :
          /\ IsLast(k, handed[c])
          /\ Free(c, k)
          /\ handed' = [handed EXCEPT ![c] = @ \ {k}]
    /\ UNCHANGED <<pc, acquired, pending, stranded, outcome, cancelling, faults>>

BackgroundRaises(c) ==
    /\ Fault
    /\ \E k \in Key :
          /\ IsLast(k, handed[c])
          /\ FreedOrNot(c, k)
          /\ handed' = [handed EXCEPT ![c] = @ \ {k}]
    /\ UNCHANGED <<pc, acquired, pending, outcome, cancelling>>

-----------------------------------------------------------------------------
Progress(c) ==
    \/ Acquire(c)
    \/ Reenter(c)
    \/ HandlerEnds(c)
    \/ Release(c)

Disturbance(c) ==
    \/ AcquireRaises(c)
    \/ ReleaseRaises(c)
    \/ ReleaseRaisesCancelled(c)
    \/ CancelAcquire(c)
    \/ CancelHandler(c)
    \/ CancelRelease(c)
    \/ CancelSwallowed(c)
    \/ BackgroundRaises(c)

Next == \E c \in Command :
    Start(c) \/ Progress(c) \/ Disturbance(c) \/ BackgroundRelease(c)

Spec == Init /\ [][Next]_vars

\* The event loop runs every task that can go on, and handlers terminate.
Fairness == \A c \in Command : WF_vars(Progress(c)) /\ WF_vars(BackgroundRelease(c))

FairSpec == Spec /\ Fairness

-----------------------------------------------------------------------------
(* Properties.                                                             *)

\* A handler runs only while its command holds every one of its keys: no
\* late or repeated release of another command frees them under it, so two
\* commands on the same aggregate never run their handlers at once.
HandlerHoldsItsKeys ==
    \A c \in Command : pc[c] = "handling" => \A k \in Keys[c] : holder[k] = c

\* Every hold has somebody left who will call release() for it, unless that
\* call was made and raised: no cancellation or failing release loses a key.
NoOrphanedHold ==
    \A c \in Command, k \in Key : holder[k] = c =>
        \/ pc[c] \in {"acquiring", "handling"} /\ k \in acquired[c]
        \/ k \in pending[c] \cup handed[c] \cup stranded[c]

\* A hold ends only in a release() call made on behalf of the command that
\* took it (ADR-076, B-68).
HoldEndsByOwnRelease ==
    [][\A k \in Key : LET c == holder[k] IN
          c # NoCommand /\ holder'[k] # c =>
              holder'[k] = NoCommand /\ k \in pending[c] \cup handed[c]]_vars

\* The task of c waits for a key that a task of D holds.
WaitsOn(t, D) ==
    \E c \in Command, k \in Key :
        /\ TaskOf(c) = t
        /\ pc[c] = "acquiring"
        /\ IsNextKey(c, k)
        /\ holder[k] # NoCommand
        /\ TaskOf(holder[k]) \in D \ {t}
        /\ pc[holder[k]] \in {"acquiring", "handling"}

\* "Deterministic lock order prevents AB/BA deadlocks by construction"
\* (ADR-019): no set of tasks waits in a circle for each other's keys.
NoDeadlock ==
    \A D \in SUBSET Command : D # {} => \E t \in D : ~WaitsOn(t, D)

\* A release raised without freeing its key: only the provider's own timeout
\* or an operator can free it now.
Stranded(k) == \E c \in Command : k \in stranded[c]

\* Every dispatch that waits for a lock gets on and returns, whoever is
\* cancelled, refused or failing meanwhile, unless a key was stranded ...
EveryDispatchReturns ==
    \A c \in Command :
        (pc[c] = "acquiring") ~> (pc[c] = "done" \/ \E k \in Key : Stranded(k))

\* ... and a dispatch that returned, however it ended, comes to hold nothing
\* but keys it stranded: a hand-over always finishes what it took over.
FinishedHoldsNothing ==
    \A c \in Command, k \in Key :
        (pc[c] = "done") ~> (holder[k] # c \/ k \in stranded[c])
=============================================================================
