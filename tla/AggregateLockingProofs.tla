------------------------ MODULE AggregateLockingProofs ------------------------
(* Theorems about AggregateLocking: mutual exclusion of handlers, no lost    *)
(* hold, and that only the owner's release frees a key, for any number of   *)
(* commands, keys, nestings, cancellations and failing provider calls.      *)
EXTENDS AggregateLocking, WellFoundedInduction, TLAPS

\* Before the try block ends nothing is pending; a dispatch that acquires or
\* handles holds all it has acquired, a handling one all its keys.
BookkeepingOf(c) ==
    /\ pc[c] \in {"new", "acquiring", "handling"} => pending[c] = {}
    /\ pc[c] # "done" => handed[c] = {}
    /\ pc[c] = "new" => acquired[c] = {}
    /\ pc[c] \in {"acquiring", "handling"} =>
          \A k \in acquired[c] : holder[k] = c
    /\ pc[c] = "handling" => acquired[c] = Keys[c]

Bookkeeping == \A c \in Command : BookkeepingOf(c)

LockInv == TypeOK /\ Bookkeeping /\ NoOrphanedHold

LEMMA LockInvInit == Init => LockInv
  BY LockingAssumption
     DEF Init, LockInv, TypeOK, Bookkeeping, BookkeepingOf, NoOrphanedHold, Nothing,
         Phase, Outcome

\* Every release of a key frees the hold of the releasing dispatch or none.
LEMMA FreeEffect ==
  ASSUME TypeOK, NEW c \in Command, NEW k \in Key, Free(c, k)
  PROVE  /\ holder' \in [Key -> Command \cup {NoCommand}]
         /\ \A j \in Key : holder'[j] = holder[j]
                             \/ (j = k /\ holder[j] = c /\ holder'[j] = NoCommand)
         /\ holder'[k] # c
<1>1. holder' = [holder EXCEPT ![k] = IF holder[k] = c THEN NoCommand ELSE holder[k]]
  BY DEF Free
<1>2. c # NoCommand
  BY LockingAssumption
<1>3. CASE holder[k] = c
  BY <1>1, <1>2, <1>3 DEF TypeOK
<1>4. CASE holder[k] # c
  BY <1>1, <1>4 DEF TypeOK
<1> QED
  BY <1>3, <1>4

\* A request to cancel keeps the count of its task within the bound.
LEMMA RequestEffect ==
  ASSUME TypeOK, NEW c \in Command, RequestCancel(c)
  PROVE  cancelling' \in [Command -> 0..MaxCancels]
<1>1. TaskOf(c) \in Command
  BY LockingAssumption DEF TaskOf
<1>2. cancelling[TaskOf(c)] + 1 \in 0..MaxCancels
  BY <1>1, LockingAssumption DEF TypeOK, RequestCancel
<1> QED
  BY <1>1, <1>2 DEF TypeOK, RequestCancel

\* One key of a releasing dispatch has had its release: it is free or
\* stranded, and the dispatch goes on or is done.
LEMMA ReleasedEffect ==
  ASSUME LockInv, NEW c \in Command, NEW k \in Key, pc[c] = "releasing",
         FreedOrNot(c, k), Released(c, k), outcome' \in [Command -> Outcome],
         UNCHANGED <<acquired, handed, cancelling>>, faults' \in 0..MaxFaults
  PROVE  LockInv'
<1>1. holder' \in [Key -> Command \cup {NoCommand}]
  BY FreeEffect DEF FreedOrNot, LockInv, TypeOK
<1>2. stranded' \in [Command -> SUBSET Key]
  BY DEF FreedOrNot, LockInv, TypeOK
<1>3. TypeOK'
  BY <1>1, <1>2 DEF Released, LockInv, TypeOK, Phase
<1>4. \A j \in Key : holder'[j] = holder[j]
                   \/ (j = k /\ holder[j] = c /\ holder'[j] = NoCommand)
  <2>1. TypeOK BY DEF LockInv
  <2>2. CASE Free(c, k) BY <2>1, <2>2, FreeEffect
  <2>3. CASE holder' = holder BY <2>3
  <2> QED BY <2>2, <2>3 DEF FreedOrNot
<1>5. Bookkeeping'
  <2> SUFFICES ASSUME NEW d \in Command PROVE BookkeepingOf(d)'
    BY DEF Bookkeeping
  <2>1. BookkeepingOf(d) BY DEF LockInv, Bookkeeping
  <2>2. CASE d = c
    BY <2>1, <2>2 DEF LockInv, TypeOK, Released, BookkeepingOf
  <2>3. CASE d # c
    BY <1>4, <2>1, <2>3 DEF LockInv, TypeOK, Released, BookkeepingOf
  <2> QED BY <2>2, <2>3
<1>6. NoOrphanedHold'
  <2> SUFFICES ASSUME NEW d \in Command, NEW j \in Key, holder'[j] = d
               PROVE  \/ pc'[d] \in {"acquiring", "handling"} /\ j \in acquired'[d]
                      \/ j \in pending'[d] \cup handed'[d] \cup stranded'[d]
    BY DEF NoOrphanedHold
  <2>0. holder[j] = d
    BY <1>4, LockingAssumption
  <2>1. \/ pc[d] \in {"acquiring", "handling"} /\ j \in acquired[d]
        \/ j \in pending[d] \cup handed[d] \cup stranded[d]
    BY <2>0 DEF LockInv, NoOrphanedHold
  <2>2. CASE d # c
    BY <2>1, <2>2 DEF LockInv, TypeOK, Released, FreedOrNot
  <2>3. CASE d = c /\ j # k
    BY <2>1, <2>3 DEF LockInv, TypeOK, Released, FreedOrNot
  <2>4. CASE d = c /\ j = k
    BY <2>4, FreeEffect DEF FreedOrNot, LockInv, TypeOK
  <2> QED BY <2>2, <2>3, <2>4
<1> QED BY <1>3, <1>5, <1>6 DEF LockInv

\* Interrupted in its release loop, a dispatch leaves and hands its keys over
\* to the background task, all of them or all but the one it freed.
LEMMA HandOverEffect ==
  ASSUME LockInv, NEW c \in Command, NEW k \in Key, pc[c] = "releasing",
         Free(c, k) \/ holder' = holder,
         \/ handed' = [handed EXCEPT ![c] = pending[c]]
         \/ handed' = [handed EXCEPT ![c] = pending[c] \ {k}] /\ Free(c, k),
         pending' = [pending EXCEPT ![c] = {}],
         pc' = [pc EXCEPT ![c] = "done"],
         outcome' \in [Command -> Outcome],
         UNCHANGED <<acquired, stranded>>,
         cancelling' \in [Command -> 0..MaxCancels], faults' \in 0..MaxFaults
  PROVE  LockInv'
<1>1. holder' \in [Key -> Command \cup {NoCommand}]
  BY FreeEffect DEF LockInv, TypeOK
<1>3. TypeOK'
  BY <1>1 DEF LockInv, TypeOK, Phase
<1>4. \A j \in Key : holder'[j] = holder[j]
                   \/ (j = k /\ holder[j] = c /\ holder'[j] = NoCommand)
  <2>1. TypeOK BY DEF LockInv
  <2>2. CASE Free(c, k) BY <2>1, <2>2, FreeEffect
  <2>3. CASE holder' = holder BY <2>3
  <2> QED BY <2>2, <2>3
<1>5. Bookkeeping'
  <2> SUFFICES ASSUME NEW d \in Command PROVE BookkeepingOf(d)'
    BY DEF Bookkeeping
  <2>1. BookkeepingOf(d) BY DEF LockInv, Bookkeeping
  <2>2. CASE d = c
    BY <2>1, <2>2 DEF LockInv, TypeOK, BookkeepingOf
  <2>3. CASE d # c
    BY <1>4, <2>1, <2>3 DEF LockInv, TypeOK, BookkeepingOf
  <2> QED BY <2>2, <2>3
<1>6. NoOrphanedHold'
  <2> SUFFICES ASSUME NEW d \in Command, NEW j \in Key, holder'[j] = d
               PROVE  \/ pc'[d] \in {"acquiring", "handling"} /\ j \in acquired'[d]
                      \/ j \in pending'[d] \cup handed'[d] \cup stranded'[d]
    BY DEF NoOrphanedHold
  <2>0. holder[j] = d
    BY <1>4, LockingAssumption
  <2>1. \/ pc[d] \in {"acquiring", "handling"} /\ j \in acquired[d]
        \/ j \in pending[d] \cup handed[d] \cup stranded[d]
    BY <2>0 DEF LockInv, NoOrphanedHold
  <2>2. CASE d # c
    BY <2>1, <2>2 DEF LockInv, TypeOK
  <2>3. CASE d = c
    <3>1. handed[c] = {}
      BY DEF LockInv, Bookkeeping, BookkeepingOf
    <3>2. j \in pending[c] \cup stranded[c]
      BY <2>1, <2>3, <3>1
    <3>3. j \in stranded[c] \/ j \in handed'[c]
      BY <2>3, <3>2, FreeEffect DEF LockInv, TypeOK
    <3> QED BY <2>3, <3>3 DEF LockInv, TypeOK
  <2> QED BY <2>2, <2>3
<1> QED BY <1>3, <1>5, <1>6 DEF LockInv

\* The background task has had one of its keys released.
LEMMA BackgroundEffect ==
  ASSUME LockInv, NEW c \in Command, NEW k \in Key, k \in handed[c],
         FreedOrNot(c, k), handed' = [handed EXCEPT ![c] = @ \ {k}],
         UNCHANGED <<pc, acquired, pending, outcome, cancelling>>, faults' \in 0..MaxFaults
  PROVE  LockInv'
<1>1. holder' \in [Key -> Command \cup {NoCommand}]
  BY FreeEffect DEF FreedOrNot, LockInv, TypeOK
<1>2. stranded' \in [Command -> SUBSET Key]
  BY DEF FreedOrNot, LockInv, TypeOK
<1>3. TypeOK'
  BY <1>1, <1>2 DEF LockInv, TypeOK, Phase
<1>4. \A j \in Key : holder'[j] = holder[j]
                   \/ (j = k /\ holder[j] = c /\ holder'[j] = NoCommand)
  <2>1. TypeOK BY DEF LockInv
  <2>2. CASE Free(c, k) BY <2>1, <2>2, FreeEffect
  <2>3. CASE holder' = holder BY <2>3
  <2> QED BY <2>2, <2>3 DEF FreedOrNot
<1>5. Bookkeeping'
  <2> SUFFICES ASSUME NEW d \in Command PROVE BookkeepingOf(d)'
    BY DEF Bookkeeping
  <2>1. BookkeepingOf(d) /\ BookkeepingOf(c) BY DEF LockInv, Bookkeeping
  <2>2. pc[c] = "done" BY <2>1 DEF BookkeepingOf
  <2>3. CASE d = c
    BY <2>1, <2>2, <2>3 DEF LockInv, TypeOK, BookkeepingOf
  <2>4. CASE d # c
    BY <1>4, <2>1, <2>4 DEF LockInv, TypeOK, BookkeepingOf
  <2> QED BY <2>3, <2>4
<1>6. NoOrphanedHold'
  <2> SUFFICES ASSUME NEW d \in Command, NEW j \in Key, holder'[j] = d
               PROVE  \/ pc'[d] \in {"acquiring", "handling"} /\ j \in acquired'[d]
                      \/ j \in pending'[d] \cup handed'[d] \cup stranded'[d]
    BY DEF NoOrphanedHold
  <2>0. holder[j] = d
    BY <1>4, LockingAssumption
  <2>1. \/ pc[d] \in {"acquiring", "handling"} /\ j \in acquired[d]
        \/ j \in pending[d] \cup handed[d] \cup stranded[d]
    BY <2>0 DEF LockInv, NoOrphanedHold
  <2>2. CASE d # c
    BY <2>1, <2>2 DEF LockInv, TypeOK, FreedOrNot
  <2>3. CASE d = c /\ j # k
    BY <2>1, <2>3 DEF LockInv, TypeOK, FreedOrNot
  <2>4. CASE d = c /\ j = k
    BY <2>4, FreeEffect DEF FreedOrNot, LockInv, TypeOK
  <2> QED BY <2>2, <2>3, <2>4
<1> QED BY <1>3, <1>5, <1>6 DEF LockInv

\* Leaving the try block keeps the hold set of the dispatch releasable.
LEMMA LeaveEffect ==
  ASSUME LockInv, NEW c \in Command, NEW how \in Outcome, Leave(c, how),
         pc[c] \in {"acquiring", "handling"},
         UNCHANGED <<holder, acquired, handed, stranded>>,
         cancelling' \in [Command -> 0..MaxCancels], faults' \in 0..MaxFaults
  PROVE  LockInv'
<1>1. TypeOK'
  BY DEF LockInv, TypeOK, Leave, Phase
<1>2. Bookkeeping'
  <2> SUFFICES ASSUME NEW d \in Command PROVE BookkeepingOf(d)'
    BY DEF Bookkeeping
  <2>1. BookkeepingOf(d) BY DEF LockInv, Bookkeeping
  <2>2. CASE d = c
    BY <2>1, <2>2 DEF LockInv, TypeOK, Leave, BookkeepingOf
  <2>3. CASE d # c
    BY <2>1, <2>3 DEF LockInv, TypeOK, Leave, BookkeepingOf
  <2> QED BY <2>2, <2>3
<1>3. NoOrphanedHold'
  <2> SUFFICES ASSUME NEW d \in Command, NEW k \in Key, holder[k] = d
               PROVE  \/ pc'[d] \in {"acquiring", "handling"} /\ k \in acquired[d]
                      \/ k \in pending'[d] \cup handed[d] \cup stranded[d]
    BY DEF NoOrphanedHold
  <2>1. \/ pc[d] \in {"acquiring", "handling"} /\ k \in acquired[d]
        \/ k \in pending[d] \cup handed[d] \cup stranded[d]
    BY DEF LockInv, NoOrphanedHold
  <2>2. pending[c] = {}
    BY DEF LockInv, Bookkeeping, BookkeepingOf
  <2>3. CASE d = c
    BY <2>1, <2>2, <2>3 DEF LockInv, TypeOK, Leave
  <2>4. CASE d # c
    BY <2>1, <2>4 DEF LockInv, TypeOK, Leave
  <2> QED BY <2>3, <2>4
<1> QED BY <1>1, <1>2, <1>3 DEF LockInv

LEMMA LockInvNext == LockInv /\ [Next]_vars => LockInv'
<1> SUFFICES ASSUME LockInv, [Next]_vars PROVE LockInv'
  OBVIOUS
<1> USE LockingAssumption
<1>0. TypeOK /\ Bookkeeping /\ NoOrphanedHold
  BY DEF LockInv
<1>st. CASE UNCHANGED vars
  BY <1>0, <1>st DEF LockInv, TypeOK, Bookkeeping, BookkeepingOf, NoOrphanedHold, vars
<1>nx. ASSUME NEW c \in Command,
              Start(c) \/ Progress(c) \/ Disturbance(c) \/ BackgroundRelease(c)
       PROVE  LockInv'
  <2>0. BookkeepingOf(c) BY <1>0 DEF Bookkeeping
  <2>1. CASE Start(c)
    <3>1. TypeOK' BY <1>0, <2>1 DEF TypeOK, Start, Phase
    <3>2. Bookkeeping'
      BY <1>0, <2>1 DEF TypeOK, Start, Bookkeeping, BookkeepingOf
    <3>3. NoOrphanedHold' BY <1>0, <2>1 DEF TypeOK, Start, NoOrphanedHold
    <3> QED BY <3>1, <3>2, <3>3 DEF LockInv
  <2>2. CASE Acquire(c)
    <3> PICK k \in Key :
          /\ IsNextKey(c, k)
          /\ holder[k] = NoCommand
          /\ holder' = [holder EXCEPT ![k] = c]
          /\ acquired' = [acquired EXCEPT ![c] = @ \cup {k}]
          /\ pc' = [pc EXCEPT ![c] =
                IF Keys[c] = acquired[c] \cup {k} THEN "handling" ELSE "acquiring"]
      BY <2>2 DEF Acquire
    <3>0. pc[c] = "acquiring" /\ UNCHANGED <<pending, handed, stranded, outcome, cancelling, faults>>
      BY <2>2 DEF Acquire
    <3>1. TypeOK' BY <1>0, <3>0 DEF TypeOK, Phase
    <3>2. Bookkeeping'
      <4> SUFFICES ASSUME NEW d \in Command PROVE BookkeepingOf(d)'
        BY DEF Bookkeeping
      <4>1. BookkeepingOf(d) BY <1>0 DEF Bookkeeping
      <4>2. CASE d = c
        BY <1>0, <3>0, <4>1, <4>2 DEF TypeOK, BookkeepingOf
      <4>3. CASE d # c
        BY <1>0, <3>0, <4>1, <4>3 DEF TypeOK, BookkeepingOf
      <4> QED BY <4>2, <4>3
    <3>3. NoOrphanedHold' BY <1>0, <3>0 DEF TypeOK, NoOrphanedHold
    <3> QED BY <3>1, <3>2, <3>3 DEF LockInv
  <2>3. CASE Reenter(c)
    BY <1>0, <2>3, LeaveEffect DEF Reenter, TypeOK, Outcome
  <2>4. CASE AcquireRaises(c)
    BY <1>0, <2>4, LeaveEffect DEF AcquireRaises, TypeOK, Outcome, Fault
  <2>5. CASE HandlerEnds(c)
    <3>1. PICK how \in {"result", "error"} : Leave(c, how)
      BY <2>5 DEF HandlerEnds
    <3>2. how \in Outcome BY DEF Outcome
    <3>3. /\ pc[c] = "handling"
          /\ UNCHANGED <<holder, acquired, handed, stranded, cancelling, faults>>
      BY <2>5 DEF HandlerEnds
    <3>4. cancelling' \in [Command -> 0..MaxCancels] /\ faults' \in 0..MaxFaults
      BY <1>0, <3>3 DEF TypeOK
    <3> QED BY <3>1, <3>2, <3>3, <3>4, LeaveEffect
  <2>6. CASE CancelAcquire(c)
    <3>1. cancelling' \in [Command -> 0..MaxCancels] /\ faults' \in 0..MaxFaults
      BY <1>0, <2>6, RequestEffect DEF CancelAcquire, TypeOK
    <3>2. "cancelled" \in Outcome BY DEF Outcome
    <3> QED BY <2>6, <3>1, <3>2, LeaveEffect DEF CancelAcquire
  <2>7. CASE CancelHandler(c)
    <3>1. cancelling' \in [Command -> 0..MaxCancels] /\ faults' \in 0..MaxFaults
      BY <1>0, <2>7, RequestEffect DEF CancelHandler, TypeOK
    <3>2. "cancelled" \in Outcome BY DEF Outcome
    <3>3. CASE Leave(c, "cancelled")
      BY <2>7, <3>1, <3>2, <3>3, LeaveEffect DEF CancelHandler
    <3>4. CASE UNCHANGED <<outcome, pending, pc>>
      BY <1>0, <2>7, <3>1, <3>4
         DEF CancelHandler, LockInv, TypeOK, Bookkeeping, BookkeepingOf, NoOrphanedHold
    <3> QED BY <2>7, <3>3, <3>4 DEF CancelHandler
  <2>8. CASE Release(c)
    <3>1. PICK k \in Key : Free(c, k) /\ Released(c, k)
      BY <2>8 DEF Release
    <3>2. FreedOrNot(c, k) BY <2>8, <3>1 DEF FreedOrNot, Release
    <3>3. outcome' \in [Command -> Outcome] /\ faults' \in 0..MaxFaults
      BY <1>0, <2>8 DEF Release, TypeOK
    <3> QED BY <2>8, <3>1, <3>2, <3>3, ReleasedEffect DEF Release
  <2>9. CASE ReleaseRaises(c)
    <3>1. PICK k \in Key : FreedOrNot(c, k) /\ Released(c, k)
      BY <2>9 DEF ReleaseRaises
    <3>2. outcome' \in [Command -> Outcome] /\ faults' \in 0..MaxFaults
      BY <1>0, <2>9 DEF ReleaseRaises, TypeOK, Fault, Outcome
    <3> QED BY <2>9, <3>1, <3>2, ReleasedEffect DEF ReleaseRaises
  <2>10. CASE ReleaseRaisesCancelled(c)
    <3>1. PICK k \in Key : (Free(c, k) \/ holder' = holder) /\ HandOver(c, k)
      BY <2>10 DEF ReleaseRaisesCancelled
    <3>2. /\ outcome' \in [Command -> Outcome]
          /\ cancelling' \in [Command -> 0..MaxCancels]
          /\ faults' \in 0..MaxFaults
      BY <1>0, <2>10, <3>1 DEF ReleaseRaisesCancelled, HandOver, TypeOK, Fault, Outcome
    <3> QED
      BY <2>10, <3>1, <3>2, HandOverEffect DEF ReleaseRaisesCancelled, HandOver
  <2>11. CASE CancelRelease(c)
    <3>1. PICK k \in Key : (Free(c, k) \/ holder' = holder) /\ HandOver(c, k)
      BY <2>11 DEF CancelRelease
    <3>2. outcome' \in [Command -> Outcome] /\ faults' \in 0..MaxFaults
      BY <1>0, <2>11, <3>1 DEF CancelRelease, HandOver, TypeOK, Outcome
    <3>3. cancelling' \in [Command -> 0..MaxCancels]
      BY <1>0, <2>11, RequestEffect DEF CancelRelease
    <3> QED
      BY <2>11, <3>1, <3>2, <3>3, HandOverEffect DEF CancelRelease, HandOver
  <2>12. CASE CancelSwallowed(c)
    <3>1. PICK k \in Key :
             Free(c, k) /\ handed' = [handed EXCEPT ![c] = pending[c] \ {k}]
      BY <2>12 DEF CancelSwallowed
    <3>2. outcome' \in [Command -> Outcome] /\ faults' \in 0..MaxFaults
      BY <1>0, <2>12 DEF CancelSwallowed, TypeOK, Outcome
    <3>3. cancelling' \in [Command -> 0..MaxCancels]
      BY <1>0, <2>12, RequestEffect DEF CancelSwallowed
    <3> QED
      BY <2>12, <3>1, <3>2, <3>3, HandOverEffect DEF CancelSwallowed
  <2>13. CASE BackgroundRelease(c)
    <3>1. PICK k \in Key : /\ k \in handed[c]
                           /\ Free(c, k)
                           /\ handed' = [handed EXCEPT ![c] = @ \ {k}]
      BY <2>13 DEF BackgroundRelease, IsLast
    <3>2. FreedOrNot(c, k) BY <2>13, <3>1 DEF FreedOrNot, BackgroundRelease
    <3>3. faults' \in 0..MaxFaults BY <1>0, <2>13 DEF BackgroundRelease, TypeOK
    <3> QED BY <2>13, <3>1, <3>2, <3>3, BackgroundEffect DEF BackgroundRelease
  <2>14. CASE BackgroundRaises(c)
    <3>1. PICK k \in Key : /\ k \in handed[c]
                           /\ FreedOrNot(c, k)
                           /\ handed' = [handed EXCEPT ![c] = @ \ {k}]
      BY <2>14 DEF BackgroundRaises, IsLast
    <3>2. faults' \in 0..MaxFaults BY <1>0, <2>14 DEF BackgroundRaises, TypeOK, Fault
    <3> QED BY <2>14, <3>1, <3>2, BackgroundEffect DEF BackgroundRaises
  <2> QED
    BY <1>nx, <2>1, <2>2, <2>3, <2>4, <2>5, <2>6, <2>7, <2>8, <2>9, <2>10, <2>11,
       <2>12, <2>13, <2>14
       DEF Progress, Disturbance
<1> QED BY <1>st, <1>nx DEF Next

LEMMA LockInvAlways == Spec => []LockInv
  BY LockInvInit, LockInvNext, PTL DEF Spec

\* A handler runs only while its command holds every one of its keys, however
\* many commands, keys, cancellations and failing releases there are.
THEOREM HandlersExclude == Spec => []HandlerHoldsItsKeys
<1>1. LockInv => HandlerHoldsItsKeys
  BY LockingAssumption
     DEF LockInv, TypeOK, Bookkeeping, BookkeepingOf, HandlerHoldsItsKeys
<1> QED BY <1>1, LockInvAlways, PTL

\* Every hold has somebody left to release it, or its release raised.
THEOREM HoldsAreAccountedFor == Spec => []NoOrphanedHold
<1>1. LockInv => NoOrphanedHold
  BY DEF LockInv
<1> QED BY <1>1, LockInvAlways, PTL

\* A hold ends only in a release() call made for the command that took it.
THEOREM OnlyTheOwnerReleases == Spec => HoldEndsByOwnRelease
<1> DEFINE Step ==
       \A k \in Key : LET c == holder[k] IN
          c # NoCommand /\ holder'[k] # c =>
              holder'[k] = NoCommand /\ k \in pending[c] \cup handed[c]
<1>1. LockInv /\ [Next]_vars => Step
  <2> SUFFICES ASSUME LockInv, [Next]_vars,
                      NEW k \in Key, holder[k] # NoCommand, holder'[k] # holder[k]
               PROVE  /\ holder'[k] = NoCommand
                      /\ k \in pending[holder[k]] \cup handed[holder[k]]
    OBVIOUS
  <2>0. TypeOK BY DEF LockInv
  <2>1. ASSUME NEW c \in Command, NEW j \in Key, Free(c, j),
               j \in pending[c] \cup handed[c]
        PROVE  /\ holder'[k] = NoCommand
               /\ k \in pending[holder[k]] \cup handed[holder[k]]
    BY <2>0, <2>1, FreeEffect
  <2>2. PICK c \in Command :
           Start(c) \/ Progress(c) \/ Disturbance(c) \/ BackgroundRelease(c)
    BY DEF Next, vars
  <2>3. CASE \E j \in Key : Free(c, j) /\ j \in pending[c] \cup handed[c]
    BY <2>1, <2>3
  <2>4. CASE Acquire(c)
    BY <2>0, <2>4, LockingAssumption DEF Acquire, TypeOK
  <2>5. CASE \/ Start(c) \/ Reenter(c) \/ HandlerEnds(c) \/ AcquireRaises(c)
             \/ CancelAcquire(c) \/ CancelHandler(c)
    BY <2>5 DEF Start, Reenter, HandlerEnds, AcquireRaises, CancelAcquire, CancelHandler
  <2>6. CASE \/ Release(c) \/ ReleaseRaises(c) \/ ReleaseRaisesCancelled(c)
             \/ CancelRelease(c) \/ CancelSwallowed(c)
    <3>1. \E j \in Key : (Free(c, j) \/ holder' = holder) /\ j \in pending[c]
      BY <2>6 DEF Release, ReleaseRaises, ReleaseRaisesCancelled, CancelRelease,
                  CancelSwallowed, IsLast, FreedOrNot
    <3> QED BY <2>3, <3>1
  <2>7. CASE BackgroundRelease(c) \/ BackgroundRaises(c)
    <3>1. \E j \in Key : (Free(c, j) \/ holder' = holder) /\ j \in handed[c]
      BY <2>7 DEF BackgroundRelease, BackgroundRaises, IsLast, FreedOrNot
    <3> QED BY <2>3, <3>1
  <2> QED
    BY <2>2, <2>4, <2>5, <2>6, <2>7 DEF Progress, Disturbance
<1>2. LockInv /\ [Next]_vars => [Step]_vars
  BY <1>1
<1> QED BY <1>2, LockInvAlways, PTL DEF Spec, HoldEndsByOwnRelease

-----------------------------------------------------------------------------
(* Sorted acquisition and deadlock.                                        *)

\* A non-empty set of keys has a greatest one.
LEMMA GreatestKey ==
  ASSUME NEW N \in Nat, NEW S \in SUBSET (1..N), S # {}
  PROVE  \E m \in S : \A j \in S : j <= m
<1> DEFINE T == {N - k : k \in S}
           R == OpToRel(<, Nat)
<1>0. \A k \in S : k \in Int /\ N - k \in Nat
  OBVIOUS
<1>1. T \subseteq Nat /\ T # {}
  BY <1>0
<1>2. IsWellFoundedOn(R, Nat)
  BY NatLessThanWellFounded
<1>3. PICK x \in T : \A y \in T : ~(<<y, x>> \in R)
  <2> HIDE DEF T, R
  <2> QED BY <1>1, <1>2, WFMin
<1>4. \A y \in T : ~(y < x)
  BY <1>1, <1>3 DEF OpToRel
<1>5. PICK m \in S : x = N - m
  OBVIOUS
<1>6. \A j \in S : j <= m
  <2> SUFFICES ASSUME NEW j \in S PROVE j <= m
    OBVIOUS
  <2>1. ~(N - j < N - m)
    BY <1>4, <1>5
  <2> QED BY <1>0, <2>1
<1> QED BY <1>6

\* Until its try block ends, a dispatch has acquired an initial segment of its
\* sorted keys, and none of its releases has been called.
SortedOf(c) ==
    pc[c] \in {"new", "acquiring", "handling"} =>
        /\ stranded[c] = {}
        /\ \A j \in acquired[c], i \in Keys[c] \ acquired[c] : j < i

SortedInv == LockInv /\ \A c \in Command : SortedOf(c)

LEMMA SortedInvAlways == Spec => []SortedInv
<1>1. Init => SortedInv
  BY LockInvInit DEF Init, SortedInv, SortedOf, Nothing
<1>2. SortedInv /\ [Next]_vars => SortedInv'
  <2> SUFFICES ASSUME SortedInv, [Next]_vars, NEW d \in Command PROVE SortedOf(d)'
    BY LockInvNext DEF SortedInv
  <2>0. LockInv /\ SortedOf(d) BY DEF SortedInv
  <2>t. TypeOK /\ BookkeepingOf(d) BY <2>0 DEF LockInv, Bookkeeping
  <2>1. CASE UNCHANGED vars
    BY <2>0, <2>1 DEF vars, SortedOf
  <2>2. ASSUME NEW c \in Command, Acquire(c) PROVE SortedOf(d)'
    <3>1. PICK k \in Key :
             /\ IsNextKey(c, k)
             /\ acquired' = [acquired EXCEPT ![c] = @ \cup {k}]
      BY <2>2 DEF Acquire
    <3>2. /\ pc[c] = "acquiring"
          /\ stranded' = stranded
          /\ d # c => pc'[d] = pc[d]
      BY <2>2, <2>t DEF Acquire, TypeOK
    <3>3. CASE d # c
      BY <2>0, <2>t, <3>1, <3>2, <3>3 DEF SortedOf, TypeOK
    <3>4. CASE d = c
      <4>1. acquired'[c] = acquired[c] \cup {k} /\ stranded[c] = {}
        BY <2>0, <2>t, <3>1, <3>2, <3>4 DEF SortedOf, TypeOK
      <4>2. Keys[c] \subseteq Key /\ acquired[c] \subseteq Key
        BY <2>t, LockingAssumption DEF TypeOK
      <4>3. ASSUME NEW j \in acquired'[c], NEW i \in Keys[c] \ acquired'[c] PROVE j < i
        <5>1. CASE j \in acquired[c]
          BY <2>0, <3>2, <3>4, <4>1, <5>1 DEF SortedOf
        <5>2. CASE j = k
          BY <3>1, <4>1, <4>2, <5>2 DEF IsNextKey, Key
        <5> QED BY <4>1, <5>1, <5>2
      <4> QED BY <3>2, <3>4, <4>1, <4>3 DEF SortedOf
    <3> QED BY <3>3, <3>4
  <2>3. ASSUME NEW c \in Command, NEW how, Leave(c, how), stranded' = stranded,
               acquired' = acquired, pc[c] \in {"acquiring", "handling"}
        PROVE  SortedOf(d)'
    BY <2>0, <2>t, <2>3 DEF Leave, SortedOf, TypeOK
  <2>4. ASSUME NEW c \in Command, pc[c] \in {"releasing", "done"},
               \A e \in Command \ {c} : stranded'[e] = stranded[e] /\ pc'[e] = pc[e],
               pc'[c] \in {"releasing", "done"}, acquired' = acquired
        PROVE  SortedOf(d)'
    BY <2>0, <2>t, <2>4 DEF SortedOf
  <2>5. ASSUME NEW c \in Command,
               Start(c) \/ Progress(c) \/ Disturbance(c) \/ BackgroundRelease(c)
        PROVE  SortedOf(d)'
    <3>1. CASE Start(c)
      BY <2>0, <2>t, <3>1 DEF Start, SortedOf, TypeOK
    <3>2. CASE Reenter(c) \/ AcquireRaises(c) \/ HandlerEnds(c) \/ CancelAcquire(c)
      BY <2>3, <3>2 DEF Reenter, AcquireRaises, HandlerEnds, CancelAcquire
    <3>3. CASE CancelHandler(c)
      BY <2>0, <2>3, <3>3 DEF CancelHandler, SortedOf
    <3>4. CASE \/ Release(c) \/ ReleaseRaises(c) \/ ReleaseRaisesCancelled(c)
               \/ CancelRelease(c) \/ CancelSwallowed(c)
      <4>1. /\ pc[c] = "releasing"
            /\ acquired' = acquired
            /\ \E s : pc' = [pc EXCEPT ![c] = s] /\ s \in {"releasing", "done"}
            /\ stranded' = stranded \/ \E x : stranded' = [stranded EXCEPT ![c] = x]
        BY <3>4 DEF Release, ReleaseRaises, ReleaseRaisesCancelled, CancelRelease,
                    CancelSwallowed, Released, HandOver, FreedOrNot
      <4> QED BY <2>4, <2>t, <4>1 DEF TypeOK
    <3>5. CASE BackgroundRelease(c) \/ BackgroundRaises(c)
      <4>1. /\ handed[c] # {}
            /\ acquired' = acquired
            /\ pc' = pc
            /\ stranded' = stranded \/ \E x : stranded' = [stranded EXCEPT ![c] = x]
        BY <3>5 DEF BackgroundRelease, BackgroundRaises, FreedOrNot, IsLast
      <4>2. pc[c] = "done"
        BY <2>0, <4>1 DEF LockInv, Bookkeeping, BookkeepingOf
      <4> QED BY <2>4, <2>t, <4>1, <4>2 DEF TypeOK
    <3> QED BY <2>5, <3>1, <3>2, <3>3, <3>4, <3>5, <2>2 DEF Progress, Disturbance
  <2> QED BY <2>1, <2>5 DEF Next
<1> QED BY <1>1, <1>2, PTL DEF Spec

\* While a nested command runs, its parent is in its handler and awaits no
\* other nested command.
Running(c) == pc[c] \notin {"new", "done"}

NestedOf(c) ==
    Parent[c] # NoCommand /\ Running(c) =>
        /\ pc[Parent[c]] = "handling"
        /\ \A d \in Command : Parent[d] = Parent[c] /\ Running(d) => d = c

NestedInv == TypeOK /\ \A c \in Command : NestedOf(c)

LEMMA NestedStep ==
  ASSUME NestedInv, NEW c \in Command, NEW p,
         pc' = [pc EXCEPT ![c] = p], TypeOK',
         \/ Running(c)
         \/ /\ pc[c] = "new"
            /\ Parent[c] # NoCommand =>
                  pc[Parent[c]] = "handling" /\ NoActiveChild(Parent[c]),
         pc[c] = "handling" => p = "handling" \/ NoActiveChild(c)
  PROVE  NestedInv'
<1>1. /\ pc'[c] = p /\ Parent[c] # c
      /\ \A d \in Command : d # c => pc'[d] = pc[d]
  BY LockingAssumption DEF NestedInv, TypeOK
<1>2. SUFFICES ASSUME NEW d \in Command, Parent[d] # NoCommand, Running(d)'
               PROVE  /\ pc'[Parent[d]] = "handling"
                      /\ \A e \in Command : Parent[e] = Parent[d] /\ Running(e)' => e = d
  BY DEF NestedInv, NestedOf
<1>3. Parent[d] \in Command /\ Parent[Parent[d]] = NoCommand
  BY <1>2, LockingAssumption
<1>4. CASE d = c
  <2>1. pc[Parent[c]] = "handling"
    BY <1>2, <1>4 DEF NestedInv, NestedOf
  <2>2. pc'[Parent[c]] = "handling"
    BY <1>1, <1>3, <1>4, <2>1
  <2>3. ASSUME NEW e \in Command, Parent[e] = Parent[c], Running(e)', e # c
        PROVE  FALSE
    <3>1. Running(e)
      BY <1>1, <2>3 DEF Running
    <3> QED
      BY <1>2, <1>4, <2>3, <3>1 DEF NestedInv, NestedOf, NoActiveChild, Running
  <2> QED
    BY <1>4, <2>2, <2>3
<1>5. CASE d # c
  <2>1. Running(d)
    BY <1>1, <1>2, <1>5 DEF Running
  <2>2. /\ pc[Parent[d]] = "handling"
        /\ \A e \in Command : Parent[e] = Parent[d] /\ Running(e) => e = d
    BY <1>2, <2>1 DEF NestedInv, NestedOf
  <2>3. pc'[Parent[d]] = "handling"
    <3>1. CASE Parent[d] # c
      BY <1>1, <1>3, <2>2, <3>1
    <3>2. CASE Parent[d] = c
      <4>1. ~NoActiveChild(c)
        BY <2>1, <3>2 DEF NoActiveChild, Running
      <4> QED
        BY <1>1, <2>2, <3>2, <4>1
    <3> QED
      BY <3>1, <3>2
  <2>4. ASSUME NEW e \in Command, Parent[e] = Parent[d], Running(e)'
        PROVE  e = d
    <3>1. CASE e # c \/ Running(c)
      BY <1>1, <2>2, <2>4, <3>1 DEF Running
    <3>2. CASE e = c /\ ~Running(c)
      <4>1. NoActiveChild(Parent[d])
        BY <1>2, <2>4, <3>2
      <4> QED
        BY <2>1, <4>1 DEF NoActiveChild, Running
    <3> QED
      BY <3>1, <3>2
  <2> QED
    BY <2>3, <2>4
<1> QED
  BY <1>4, <1>5

LEMMA NestedInvAlways == Spec => []NestedInv
<1>1. Init => NestedInv
  BY LockInvInit DEF Init, NestedInv, NestedOf, Running, LockInv
<1>2. LockInv /\ LockInv' /\ NestedInv /\ [Next]_vars => NestedInv'
  <2> SUFFICES ASSUME LockInv, LockInv', NestedInv, [Next]_vars PROVE NestedInv'
    OBVIOUS
  <2>0. TypeOK /\ TypeOK' BY DEF LockInv
  <2>1. ASSUME UNCHANGED pc PROVE NestedInv'
    BY <2>0, <2>1 DEF NestedInv, NestedOf, Running
  <2>2. ASSUME NEW c \in Command, NEW how, Leave(c, how), Running(c),
               pc[c] = "handling" => NoActiveChild(c)
        PROVE  NestedInv'
    BY <2>0, <2>2, NestedStep DEF Leave
  <2>3. ASSUME NEW c \in Command,
               Start(c) \/ Progress(c) \/ Disturbance(c) \/ BackgroundRelease(c)
        PROVE  NestedInv'
    <3>1. CASE Start(c)
      BY <2>0, <3>1, NestedStep DEF Start
    <3>2. CASE Acquire(c)
      <4>1. pc[c] = "acquiring" /\ \E p : pc' = [pc EXCEPT ![c] = p]
        BY <3>2 DEF Acquire
      <4> QED BY <2>0, <4>1, NestedStep DEF Running
    <3>3. CASE Reenter(c) \/ AcquireRaises(c) \/ HandlerEnds(c) \/ CancelAcquire(c)
      BY <2>2, <3>3
         DEF Reenter, AcquireRaises, HandlerEnds, CancelAcquire, RequestCancel, Running
    <3>4. CASE CancelHandler(c)
      BY <2>1, <2>2, <3>4 DEF CancelHandler, RequestCancel, Running
    <3>5. CASE \/ Release(c) \/ ReleaseRaises(c) \/ ReleaseRaisesCancelled(c)
               \/ CancelRelease(c) \/ CancelSwallowed(c)
      <4>1. pc[c] = "releasing" /\ \E p : pc' = [pc EXCEPT ![c] = p]
        BY <3>5 DEF Release, ReleaseRaises, ReleaseRaisesCancelled, CancelRelease,
                    CancelSwallowed, Released, HandOver
      <4> QED BY <2>0, <4>1, NestedStep DEF Running
    <3>6. CASE BackgroundRelease(c) \/ BackgroundRaises(c)
      BY <2>1, <3>6 DEF BackgroundRelease, BackgroundRaises
    <3> QED BY <2>3, <3>1, <3>2, <3>3, <3>4, <3>5, <3>6 DEF Progress, Disturbance
  <2>4. CASE UNCHANGED vars
    BY <2>1, <2>4 DEF vars
  <2> QED BY <2>3, <2>4 DEF Next
<1> QED BY <1>1, <1>2, LockInvAlways, PTL DEF Spec

\* What a task holds sorts before what it waits for.
LEMMA HeldBeforeWanted ==
  ASSUME \A c \in Command : Parent[c] # NoCommand =>
            \A k \in Keys[c] \ Keys[Parent[c]], j \in Keys[Parent[c]] : j < k,
         SortedInv, NestedInv,
         NEW u \in Command, pc[u] \in {"acquiring", "handling"},
         NEW m \in Key, holder[m] = u,
         NEW d \in Command, pc[d] = "acquiring", TaskOf(d) = TaskOf(u),
         NEW i \in Key, IsNextKey(d, i), TaskOf(holder[i]) # TaskOf(u)
  PROVE  m < i
<1>1. m \in acquired[u]
  BY DEF SortedInv, LockInv, Bookkeeping, BookkeepingOf, NoOrphanedHold, SortedOf
<1>2. i \in Keys[d] \ acquired[d]
  BY DEF IsNextKey
<1>3. CASE d = u
  BY <1>1, <1>2, <1>3 DEF SortedInv, SortedOf
<1>4. CASE d # u /\ Parent[d] = u
  <2>1. pc[u] = "handling"
    BY <1>4, LockingAssumption DEF NestedInv, NestedOf, Running
  <2>2. acquired[u] = Keys[u] /\ \A k \in Keys[u] : holder[k] = u
    BY <2>1 DEF SortedInv, LockInv, Bookkeeping, BookkeepingOf
  <2>3. i \in Keys[d] \ Keys[u]
    BY <1>2, <2>2
  <2> QED
    BY <1>1, <1>4, <2>2, <2>3, LockingAssumption
<1>5. CASE d # u /\ Parent[d] # u
  <2>1. /\ Parent[u] # NoCommand /\ Running(u) /\ Running(d)
    BY <1>5, LockingAssumption DEF TaskOf, Running
  <2>2. Parent[u] # d
    BY <2>1 DEF NestedInv, NestedOf
  <2>3. Parent[d] # NoCommand /\ Parent[d] = Parent[u]
    BY <1>5, <2>1, <2>2 DEF TaskOf
  <2> QED
    BY <1>5, <2>1, <2>3 DEF NestedInv, NestedOf
<1> QED
  BY <1>3, <1>4, <1>5

\* Sorted acquisition rules out deadlock, as ADR-019 says, as long as every
\* new key of a nested command sorts after those its parent holds; among
\* commands that are not nested this is always so. (Nested commands with a
\* smaller key are the counterexample of the run LockNestedDoc.)
THEOREM SortedOrderPreventsDeadlock ==
  ASSUME \A c \in Command : Parent[c] # NoCommand =>
            \A k \in Keys[c] \ Keys[Parent[c]], j \in Keys[Parent[c]] : j < k
  PROVE  Spec => []NoDeadlock
<1>1. SortedInv /\ NestedInv => NoDeadlock
  <2> SUFFICES ASSUME SortedInv, NestedInv, NEW D \in SUBSET Command, D # {},
                      \A t \in D : WaitsOn(t, D)
               PROVE  FALSE
    BY DEF NoDeadlock
  <2> DEFINE Waits(c, k) ==
                /\ pc[c] = "acquiring" /\ IsNextKey(c, k)
                /\ holder[k] \in Command /\ pc[holder[k]] \in {"acquiring", "handling"}
                /\ TaskOf(holder[k]) \in D \ {TaskOf(c)}
             Wanted == {k \in Key : \E c \in Command : Waits(c, k)}
  <2>1. \A t \in D : \E c \in Command, k \in Key : TaskOf(c) = t /\ Waits(c, k)
    <3> SUFFICES ASSUME NEW t \in D
                 PROVE  \E c \in Command, k \in Key : TaskOf(c) = t /\ Waits(c, k)
      OBVIOUS
    <3>1. PICK c \in Command, k \in Key :
             /\ TaskOf(c) = t /\ pc[c] = "acquiring" /\ IsNextKey(c, k)
             /\ holder[k] # NoCommand /\ TaskOf(holder[k]) \in D \ {t}
             /\ pc[holder[k]] \in {"acquiring", "handling"}
      BY DEF WaitsOn
    <3>2. holder[k] \in Command
      BY <3>1 DEF NestedInv, TypeOK
    <3> QED
      BY <3>1, <3>2
  <2>2. Wanted # {} /\ Wanted \in SUBSET (1..NumKeys)
    BY <2>1 DEF Key
  <2>3. PICK m \in Wanted : \A j \in Wanted : j <= m
    <3> HIDE DEF Wanted
    <3> QED BY <2>2, GreatestKey, LockingAssumption
  <2>4. PICK u \in Command : /\ u = holder[m] /\ pc[u] \in {"acquiring", "handling"}
                             /\ TaskOf(u) \in D
    OBVIOUS
  <2>5. PICK d \in Command, i \in Key : TaskOf(d) = TaskOf(u) /\ Waits(d, i)
    BY <2>1, <2>4
  <2>6. m \in Key /\ i \in Wanted
    BY <2>5
  <2>7. /\ holder[m] = u /\ pc[d] = "acquiring" /\ IsNextKey(d, i)
        /\ TaskOf(holder[i]) # TaskOf(u)
    BY <2>4, <2>5
  <2> HIDE DEF Wanted, Waits
  <2>8. m < i
    BY <2>4, <2>5, <2>6, <2>7, HeldBeforeWanted
  <2>9. i <= m
    BY <2>3, <2>6
  <2> QED BY <2>6, <2>8, <2>9 DEF Key
<1> QED BY <1>1, SortedInvAlways, NestedInvAlways, PTL
=============================================================================
