--------------------------- MODULE UnitOfWorkProofs ---------------------------
(* Theorems about UnitOfWork for any number of repositories, events and      *)
(* faults. Each part of the invariant follows an event on its way from the   *)
(* buffer through _events and the outbox rows to the storage.                *)
EXTENDS UnitOfWork, TLAPS

InHooks == pc \in {"flush", "outbox", "commit"}

\* The buffers will be collected by a commit of this scope, or may still be.
Collectable == pc = "flush" \/ (pc \in {"handler", "idle"} /\ ~commitStarted)

CommitRecord ==
    /\ InHooks => commitStarted /\ ~committed
    /\ committed => commitStarted
    /\ ~commitStarted \/ InHooks => effects = 0
    /\ effects <= 1

\* A transaction in which no commit has started has no outbox rows, and its
\* changes have their events in the buffers; the events of the buffers are
\* those of this scope.
BufferedInv ==
    Collectable =>
        /\ txOutbox = {}
        /\ tx \ late \subseteq Pulled(Repo)
        /\ Pulled(Repo) \subseteq tx \cup undrained
        /\ Pulled(Repo) \subseteq mine \cup undrained

CollectedInv ==
    /\ ~commitStarted \/ pc = "flush" => events = {}
    /\ pc = "outbox" =>
        /\ txOutbox = {}
        /\ tx \ late \subseteq events
    /\ pc = "commit" =>
        /\ tx \ (late \cup Internal) \subseteq txOutbox
        /\ events \ Internal \subseteq txOutbox
        /\ txOutbox \subseteq events
    /\ pc \in {"outbox", "commit"} =>
        /\ events \subseteq tx \cup undrained
        /\ events \subseteq mine \cup undrained

\* Between dispatches, and after a commit, nothing is left to commit but what
\* was saved too late.
LeftoverInv ==
    /\ pc = "idle" \/ committed => tx \subseteq late /\ txOutbox = {}
    /\ pc = "idle" => Pulled(Repo) \subseteq undrained

CommittedInv ==
    committed => /\ events \ undrained \subseteq durable
                 /\ events \ Internal \subseteq outbox

FailureInv ==
    /\ pc = "exit" /\ failure = "none" => committed
    /\ pc = "exit" /\ interrupted => failure = "cancelled"
    /\ pc \notin {"idle", "exit"} => ~interrupted

ScopeInv ==
    /\ TypeOK
    /\ CommitRecord
    /\ BufferedInv
    /\ CollectedInv
    /\ LeftoverInv
    /\ CommittedInv
    /\ FailureInv
    /\ StateAndOutboxAgree
    /\ PublishedAfterCommit
    /\ CancellationSurfaces

LEMMA ScopeInvInit == Init => ScopeInv
<1> SUFFICES ASSUME Init PROVE ScopeInv
  OBVIOUS
<1>1. Pulled(Repo) = {}
  BY DEF Init, Pulled, Empty
<1>2. TypeOK
  <2>1. Empty \in [Repo -> SUBSET Event]
    BY DEF Empty
  <2>2. 0 \in 0..MaxFaults /\ 0 \in 0..MaxEvents /\ 0 \in Nat
    BY UnitOfWorkAssumption
  <2> QED
    BY <2>1, <2>2 DEF Init, TypeOK, Phase
<1>3. CommitRecord /\ FailureInv /\ CancellationSurfaces
  BY DEF Init, CommitRecord, InHooks, FailureInv, CancellationSurfaces
<1>4. BufferedInv /\ CollectedInv /\ LeftoverInv
  BY <1>1 DEF Init, BufferedInv, CollectedInv, LeftoverInv
<1>5. CommittedInv /\ StateAndOutboxAgree /\ PublishedAfterCommit
  BY DEF Init, CommittedInv, StateAndOutboxAgree, PublishedAfterCommit
<1> QED
  BY <1>2, <1>3, <1>4, <1>5 DEF ScopeInv

LEMMA FaultType ==
  ASSUME faults \in 0..MaxFaults, Fault PROVE faults' \in 0..MaxFaults
  BY UnitOfWorkAssumption DEF Fault

\* A step that leaves the storage, the buffers and the scope alone, and only
\* ends a call with an exception, or goes on to another await.
LEMMA QuietStep ==
  ASSUME ScopeInv, UNCHANGED <<storage, buffer, scope, raised, late, undrained>>,
         faults' \in 0..MaxFaults, caller' \in {"handler", "bus"}, UNCHANGED bus,
         pc \notin {"idle", "exit"},
         \/ \E how \in Raise : BodyRaises(how)
         \/ /\ pc' \in {"handler", "rollback"}
            /\ UNCHANGED dispatch
            /\ pc' = "handler" => pc = "handler" \/ commitStarted
  PROVE  ScopeInv'
<1> USE DEF ScopeInv, storage, scope, bus
<1>1. Pulled(Repo)' = Pulled(Repo)
  BY DEF Pulled
<1>2. /\ failure' \in {"none"} \cup Raise
      /\ outcome' \in {"none", "result"} \cup Raise
      /\ interrupted' \in BOOLEAN
      /\ pc' \in {"handler", "rollback", "exit"}
      /\ pc' = "handler" => pc = "handler" \/ commitStarted
  BY DEF BodyRaises, dispatch, TypeOK
<1>3. TypeOK'
  BY <1>2 DEF TypeOK, Phase
<1>4. CommitRecord'
  BY <1>2 DEF CommitRecord, InHooks
<1>5. BufferedInv'
  BY <1>1, <1>2 DEF BufferedInv, Collectable
<1>6. CollectedInv' /\ LeftoverInv' /\ CommittedInv'
  BY <1>2 DEF CollectedInv, LeftoverInv, CommittedInv
<1>7. FailureInv' /\ CancellationSurfaces'
  BY <1>2 DEF FailureInv, CancellationSurfaces, BodyRaises, dispatch, Raise
<1>8. StateAndOutboxAgree' /\ PublishedAfterCommit'
  BY DEF StateAndOutboxAgree, PublishedAfterCommit
<1> QED
  BY <1>3, <1>4, <1>5, <1>6, <1>7, <1>8

\* A hook of commit() has raised: what its caller makes of it.
LEMMA RaisedTypes ==
  ASSUME TypeOK, NEW how \in Raise, CommitRaises(how)
  PROVE  /\ failure' \in {"none"} \cup Raise
         /\ outcome' \in {"none", "result"} \cup Raise
         /\ interrupted' \in BOOLEAN
         /\ pc' \in {"handler", "exit"}
         /\ pc' = "exit" => /\ failure' \in Raise
                            /\ interrupted' => failure' = "cancelled"
         /\ pc' = "handler" => interrupted' = interrupted
         /\ UNCHANGED <<caller, toPublish, published, raised, late, undrained>>
  BY DEF CommitRaises, BodyRaises, HandlerGets, dispatch, bus, TypeOK

\* A hook of commit() raises, having changed the transaction, the buffers or
\* _events, or even committed: no later step of this scope will commit them.
LEMMA HookRaises ==
  ASSUME ScopeInv, InHooks, \E how \in Raise : CommitRaises(how),
         UNCHANGED <<commitStarted, committed, mine>>,
         tx' \subseteq Event, txOutbox' \subseteq Event,
         durable' \subseteq Event, outbox' \subseteq Event,
         events' \subseteq Event, buffer' \in [Repo -> SUBSET Event],
         effects' \in {0, 1}, faults' \in 0..MaxFaults,
         durable \subseteq durable', outbox \subseteq outbox',
         StateAndOutboxAgree'
  PROVE  ScopeInv'
<1> USE DEF ScopeInv
<1>1. PICK how \in Raise : CommitRaises(how)
  OBVIOUS
<1>2. commitStarted /\ ~committed
  BY DEF CommitRecord
<1>3. TypeOK'
  BY <1>1, RaisedTypes DEF TypeOK, Phase
<1>4. CommitRecord' /\ BufferedInv' /\ CollectedInv' /\ LeftoverInv' /\ CommittedInv'
  BY <1>1, <1>2, RaisedTypes
     DEF CommitRecord, InHooks, BufferedInv, Collectable, CollectedInv, LeftoverInv,
         CommittedInv
<1>5. FailureInv' /\ CancellationSurfaces'
  BY <1>1, RaisedTypes DEF FailureInv, CancellationSurfaces, InHooks, Raise
<1>6. PublishedAfterCommit'
  BY <1>1, RaisedTypes DEF PublishedAfterCommit
<1> QED
  BY <1>3, <1>4, <1>5, <1>6

LEMMA DispatchStep == ScopeInv /\ Dispatch => ScopeInv'
<1> SUFFICES ASSUME ScopeInv, Dispatch PROVE ScopeInv'
  OBVIOUS
<1> USE DEF ScopeInv, Dispatch, StartScope, storage, bus
<1>1. Pulled(Repo)' = Pulled(Repo)
  BY DEF Pulled
<1>2. TypeOK'
  BY DEF TypeOK, Phase
<1>3. CommitRecord' /\ CollectedInv' /\ CommittedInv' /\ FailureInv'
  BY DEF CommitRecord, InHooks, CollectedInv, CommittedInv, FailureInv
<1>4. BufferedInv' /\ LeftoverInv'
  BY <1>1 DEF BufferedInv, LeftoverInv, Collectable
<1>5. StateAndOutboxAgree' /\ PublishedAfterCommit' /\ CancellationSurfaces'
  BY DEF StateAndOutboxAgree, PublishedAfterCommit, CancellationSurfaces
<1> QED
  BY <1>2, <1>3, <1>4, <1>5

LEMMA SaveStep ==
  ASSUME ScopeInv, NEW r \in Repo, Save(r) PROVE ScopeInv'
<1> DEFINE e == raised + 1
<1>0. /\ pc = "handler" /\ e \in Event /\ e \in 0..MaxEvents
      /\ raised' = e
      /\ tx' = tx \cup {e}
      /\ buffer' = [buffer EXCEPT ![r] = @ \cup {e}]
      /\ mine' = mine \cup {e}
      /\ late' = IF committed THEN late \cup {e} ELSE late
      /\ UNCHANGED <<txOutbox, durable, outbox, events, commitStarted, committed, effects,
                     pc, caller, failure, outcome, interrupted, toPublish, published,
                     faults, undrained>>
  BY UnitOfWorkAssumption DEF ScopeInv, TypeOK, Save, Event, dispatch, bus
<1> HIDE DEF e
<1> USE DEF ScopeInv
<1>1. Pulled(Repo)' = Pulled(Repo) \cup {e}
  BY <1>0 DEF Pulled, TypeOK
<1>2. TypeOK'
  BY <1>0 DEF TypeOK
<1>3. CommitRecord' /\ CollectedInv' /\ CommittedInv' /\ FailureInv'
  BY <1>0 DEF CommitRecord, InHooks, CollectedInv, CommittedInv, FailureInv
<1>4. BufferedInv'
  BY <1>0, <1>1 DEF BufferedInv, Collectable, CommitRecord
<1>5. LeftoverInv'
  BY <1>0 DEF LeftoverInv
<1>6. StateAndOutboxAgree' /\ PublishedAfterCommit' /\ CancellationSurfaces'
  BY <1>0 DEF StateAndOutboxAgree, PublishedAfterCommit, CancellationSurfaces
<1> QED
  BY <1>2, <1>3, <1>4, <1>5, <1>6

LEMMA CommitStep ==
  ASSUME ScopeInv, NEW who \in {"handler", "bus"}, Commit(who) PROVE ScopeInv'
<1> USE DEF ScopeInv, Commit, MayCommit, storage, bus, dispatch
<1>1. Pulled(Repo)' = Pulled(Repo)
  BY DEF Pulled
<1>2. TypeOK'
  BY DEF TypeOK, Phase
<1>3. CommitRecord' /\ CollectedInv' /\ CommittedInv' /\ FailureInv' /\ LeftoverInv'
  BY DEF CommitRecord, InHooks, CollectedInv, CommittedInv, FailureInv, LeftoverInv
<1>4. BufferedInv'
  BY <1>1 DEF BufferedInv, Collectable
<1>5. StateAndOutboxAgree' /\ PublishedAfterCommit' /\ CancellationSurfaces'
  BY DEF StateAndOutboxAgree, PublishedAfterCommit, CancellationSurfaces
<1> QED
  BY <1>2, <1>3, <1>4, <1>5

LEMMA CollectStep == ScopeInv /\ Collect => ScopeInv'
<1> SUFFICES ASSUME ScopeInv, Collect PROVE ScopeInv'
  OBVIOUS
<1> USE DEF ScopeInv, Collect, storage, bus, dispatch
<1>1. Pulled(Repo) \subseteq Event /\ Empty \in [Repo -> SUBSET Event]
  BY DEF Pulled, TypeOK, Empty
<1>2. TypeOK'
  BY <1>1 DEF TypeOK, Phase
<1>3. CommitRecord' /\ CommittedInv' /\ FailureInv' /\ LeftoverInv' /\ BufferedInv'
  BY DEF CommitRecord, InHooks, CommittedInv, FailureInv, LeftoverInv, BufferedInv, Collectable
<1>4. CollectedInv'
  BY DEF CollectedInv, BufferedInv, Collectable, CommitRecord, InHooks
<1>5. StateAndOutboxAgree' /\ PublishedAfterCommit' /\ CancellationSurfaces'
  BY DEF StateAndOutboxAgree, PublishedAfterCommit, CancellationSurfaces
<1> QED
  BY <1>2, <1>3, <1>4, <1>5

LEMMA WriteOutboxStep == ScopeInv /\ WriteOutbox => ScopeInv'
<1> SUFFICES ASSUME ScopeInv, WriteOutbox PROVE ScopeInv'
  OBVIOUS
<1> USE DEF ScopeInv, WriteOutbox, scope, bus, dispatch
<1>1. TypeOK'
  BY DEF TypeOK, Phase
<1>2. CommitRecord' /\ CommittedInv' /\ FailureInv' /\ LeftoverInv' /\ BufferedInv'
  BY DEF CommitRecord, InHooks, CommittedInv, FailureInv, LeftoverInv, BufferedInv, Collectable
<1>3. CollectedInv'
  BY DEF CollectedInv
<1>4. StateAndOutboxAgree' /\ PublishedAfterCommit' /\ CancellationSurfaces'
  BY DEF StateAndOutboxAgree, PublishedAfterCommit, CancellationSurfaces
<1> QED
  BY <1>1, <1>2, <1>3, <1>4

\* The storage commits a transaction whose rows are the events of its changes.
LEMMA StorageCommitsEffect ==
  ASSUME ScopeInv, pc = "commit", StorageCommits, UNCHANGED <<late, undrained, events>>
  PROVE  /\ StateAndOutboxAgree'
         /\ events \ undrained \subseteq durable'
         /\ events \ Internal \subseteq outbox'
         /\ durable' \subseteq Event /\ outbox' \subseteq Event
         /\ durable \subseteq durable' /\ outbox \subseteq outbox'
         /\ effects' = 1
  BY DEF ScopeInv, TypeOK, StorageCommits, CollectedInv, StateAndOutboxAgree,
         CommitRecord, InHooks

LEMMA CommitStorageStep == ScopeInv /\ CommitStorage => ScopeInv'
<1> SUFFICES ASSUME ScopeInv, CommitStorage PROVE ScopeInv'
  OBVIOUS
<1>1. /\ pc = "commit" /\ tx' = {} /\ txOutbox' = {}
      /\ committed' /\ pc' \in {"exit", "handler"}
      /\ UNCHANGED <<buffer, events, commitStarted, mine, caller, failure, outcome,
                     interrupted, toPublish, published, faults, raised, late, undrained>>
  BY DEF CommitStorage, StorageCommits, bus, dispatch
<1>2. /\ StateAndOutboxAgree'
      /\ events \ undrained \subseteq durable'
      /\ events \ Internal \subseteq outbox'
      /\ durable' \subseteq Event /\ outbox' \subseteq Event
      /\ durable \subseteq durable' /\ outbox \subseteq outbox'
      /\ effects' = 1
  BY StorageCommitsEffect DEF CommitStorage
<1> USE DEF ScopeInv
<1>3. TypeOK'
  BY <1>1, <1>2 DEF TypeOK, Phase, CommitStorage
<1>4. /\ CommitRecord' /\ CommittedInv' /\ FailureInv' /\ LeftoverInv'
      /\ BufferedInv' /\ CollectedInv'
  BY <1>1, <1>2
     DEF CommitRecord, InHooks, CommittedInv, FailureInv, LeftoverInv, BufferedInv,
         Collectable, CollectedInv
<1>5. PublishedAfterCommit' /\ CancellationSurfaces'
  BY <1>1, <1>2 DEF PublishedAfterCommit, CancellationSurfaces
<1> QED
  BY <1>2, <1>3, <1>4, <1>5

LEMMA CommitStorageRaisesStep == ScopeInv /\ CommitStorageRaises => ScopeInv'
<1> SUFFICES ASSUME ScopeInv, CommitStorageRaises PROVE ScopeInv'
  OBVIOUS
<1>1. UNCHANGED <<late, undrained, events, buffer, commitStarted, committed, mine>>
  BY DEF CommitStorageRaises, CommitRaises
<1>2. faults' \in 0..MaxFaults
  BY FaultType DEF ScopeInv, TypeOK, CommitStorageRaises
<1>3. CASE StorageCommits
  <2>1. tx' = {} /\ txOutbox' = {}
    BY <1>3 DEF StorageCommits
  <2> QED
    BY <1>1, <1>2, <1>3, <2>1, StorageCommitsEffect, HookRaises
       DEF CommitStorageRaises, InHooks, ScopeInv, TypeOK
<1>4. CASE UNCHANGED <<storage, effects>>
  <2>1. UNCHANGED <<tx, txOutbox, durable, outbox, effects>>
    BY <1>4 DEF storage
  <2>2. StateAndOutboxAgree'
    BY <1>1, <2>1 DEF ScopeInv, StateAndOutboxAgree
  <2>3. effects = 0
    BY DEF CommitStorageRaises, ScopeInv, CommitRecord, InHooks
  <2> QED
    BY <1>1, <1>2, <2>1, <2>2, <2>3, HookRaises
       DEF CommitStorageRaises, InHooks, ScopeInv, TypeOK
<1> QED
  BY <1>3, <1>4 DEF CommitStorageRaises

LEMMA EarlierHookRaisesStep ==
  ScopeInv /\ (FlushRaises \/ CollectRaises \/ WriteOutboxRaises) => ScopeInv'
<1> SUFFICES ASSUME ScopeInv, FlushRaises \/ CollectRaises \/ WriteOutboxRaises
             PROVE ScopeInv'
  OBVIOUS
<1>1. /\ InHooks
      /\ \E how \in Raise : CommitRaises(how)
      /\ UNCHANGED <<tx, durable, outbox, commitStarted, committed, mine, effects>>
      /\ Fault
  BY DEF FlushRaises, CollectRaises, WriteOutboxRaises, InHooks, storage, scope, Raise
<1>2. UNCHANGED <<late, undrained>>
  BY <1>1 DEF CommitRaises
<1>3. faults' \in 0..MaxFaults /\ effects = 0 /\ StateAndOutboxAgree'
  BY <1>1, <1>2, FaultType DEF ScopeInv, TypeOK, CommitRecord, StateAndOutboxAgree
<1>4. txOutbox' \subseteq Event
  BY DEF ScopeInv, TypeOK, FlushRaises, CollectRaises, WriteOutboxRaises, storage
<1>5. events' \subseteq Event /\ buffer' \in [Repo -> SUBSET Event]
  <2>1. CASE FlushRaises \/ WriteOutboxRaises
    BY <2>1 DEF FlushRaises, WriteOutboxRaises, scope, ScopeInv, TypeOK
  <2>2. CASE CollectRaises
    <3>1. PICK R \in SUBSET Repo :
             /\ events' = events \cup Pulled(R)
             /\ buffer' = [r \in Repo |-> IF r \in R THEN {} ELSE buffer[r]]
      BY <2>2 DEF CollectRaises
    <3>2. Pulled(R) \subseteq Event
      BY DEF Pulled, ScopeInv, TypeOK
    <3> QED
      BY <3>1, <3>2 DEF ScopeInv, TypeOK
  <2> QED
    BY <2>1, <2>2
<1> QED
  BY <1>1, <1>2, <1>3, <1>4, <1>5, HookRaises DEF ScopeInv, TypeOK

\* A drain leaves in the buffers only what it records as undrained.
LEMMA DiscardEffect ==
  ASSUME TypeOK, NEW F \in SUBSET Repo, Discard(F)
  PROVE  /\ buffer' \in [Repo -> SUBSET Event]
         /\ undrained' \subseteq Event
         /\ undrained \subseteq undrained'
         /\ Pulled(Repo)' \subseteq undrained'
<1>1. buffer' \in [Repo -> SUBSET Event]
  BY DEF Discard, TypeOK
<1>2. Pulled(F) \subseteq Event
  BY DEF Pulled, TypeOK
<1>3. Pulled(Repo)' \subseteq Pulled(F)
  BY DEF Pulled, Discard
<1> QED
  BY <1>1, <1>2, <1>3 DEF Discard, TypeOK

\* rollback() ends in a new scope with nothing staged.
LEMMA RollbackEffect ==
  ASSUME ScopeInv, NEW how \in {"none"} \cup Raise, NEW F \in SUBSET Repo, Rollback(how, F)
  PROVE  /\ tx' = {} /\ txOutbox' = {} /\ events' = {} /\ mine' = {} /\ effects' = 0
         /\ ~committed' /\ ~commitStarted'
         /\ commitStarted' \in BOOLEAN /\ committed' \in BOOLEAN
         /\ buffer' \in [Repo -> SUBSET Event]
         /\ undrained' \subseteq Event
         /\ undrained \subseteq undrained'
         /\ Pulled(Repo)' \subseteq undrained'
         /\ faults' \in 0..MaxFaults
         /\ UNCHANGED <<durable, outbox, caller, raised, late>>
<1>1. TypeOK
  BY DEF ScopeInv
<1>2. faults' \in 0..MaxFaults
  BY <1>1, FaultType DEF Rollback, TypeOK
<1>3. Discard(F)
  BY DEF Rollback
<1> QED
  BY <1>1, <1>2, <1>3, DiscardEffect DEF Rollback, StartScope

LEMMA HandlerRollbackStep == ScopeInv /\ HandlerRollback => ScopeInv'
<1> SUFFICES ASSUME ScopeInv, HandlerRollback PROVE ScopeInv'
  OBVIOUS
<1>1. PICK how \in {"none"} \cup Raise, F \in SUBSET Repo :
         /\ Rollback(how, F)
         /\ LET error == RollbackRaises(how, F)
            IN  IF error = "none" THEN pc' = "handler" /\ UNCHANGED dispatch
                ELSE HandlerGets(error)
  BY DEF HandlerRollback
<1>2. pc = "rollback" /\ UNCHANGED <<toPublish, published>>
  BY DEF HandlerRollback, bus
<1> DEFINE error == RollbackRaises(how, F)
<1>3. error \in {"none"} \cup Raise
  BY DEF RollbackRaises, Raise
<1>4. \/ pc' = "handler" /\ UNCHANGED <<failure, outcome, interrupted>>
      \/ /\ pc' = "exit" /\ failure' \in Raise /\ UNCHANGED outcome
         /\ interrupted' = (failure' = "cancelled")
  BY <1>1, <1>3 DEF HandlerGets, BodyRaises, dispatch
<1> HIDE DEF error
<1> USE DEF ScopeInv
<1>5. TypeOK'
  <2>1. failure' \in {"none"} \cup Raise /\ interrupted' \in BOOLEAN /\ outcome' = outcome
    BY <1>4 DEF TypeOK
  <2> QED
    BY <1>1, <1>2, <1>4, <2>1, RollbackEffect DEF TypeOK, Phase
<1>6. /\ CommitRecord' /\ CommittedInv' /\ LeftoverInv' /\ BufferedInv' /\ CollectedInv'
  BY <1>1, <1>4, RollbackEffect
     DEF CommitRecord, InHooks, CommittedInv, LeftoverInv, BufferedInv, Collectable, CollectedInv
<1>7. FailureInv' /\ CancellationSurfaces'
  <2>1. CASE pc' = "handler" /\ UNCHANGED <<failure, outcome, interrupted>>
    BY <1>2, <2>1 DEF FailureInv, CancellationSurfaces
  <2>2. CASE /\ pc' = "exit" /\ failure' \in Raise /\ UNCHANGED outcome
             /\ interrupted' = (failure' = "cancelled")
    BY <2>2 DEF FailureInv, CancellationSurfaces, Raise
  <2> QED
    BY <1>4, <2>1, <2>2
<1>8. StateAndOutboxAgree' /\ PublishedAfterCommit'
  BY <1>1, <1>2, RollbackEffect DEF StateAndOutboxAgree, PublishedAfterCommit
<1> QED
  BY <1>5, <1>6, <1>7, <1>8

\* Events are handed over only by a dispatch whose scope committed.
LEMMA FinishEffect ==
  ASSUME ScopeInv, pc = "exit", NEW cleanup \in {"none"} \cup Raise, Finish(cleanup)
  PROVE  /\ pc' = "idle"
         /\ failure' = failure /\ published' = published
         /\ outcome' \in {"result"} \cup Raise
         /\ interrupted' \in BOOLEAN
         /\ interrupted' => outcome' = "cancelled"
         /\ toPublish \subseteq toPublish'
         /\ toPublish' # toPublish => committed /\ toPublish' \subseteq toPublish \cup events
         /\ toPublish' \subseteq Event
  BY DEF Finish, OutcomeOf, ScopeInv, TypeOK, FailureInv, Raise

LEMMA ExitRollbackStep == ScopeInv /\ ExitRollback => ScopeInv'
<1> SUFFICES ASSUME ScopeInv, ExitRollback PROVE ScopeInv'
  OBVIOUS
<1>1. PICK how \in {"none"} \cup Raise, F \in SUBSET Repo :
         Rollback(how, F) /\ Finish(RollbackRaises(how, F))
  BY DEF ExitRollback
<1>2. pc = "exit" /\ ~committed
  BY DEF ExitRollback
<1>3. RollbackRaises(how, F) \in {"none"} \cup Raise
  BY DEF RollbackRaises, Raise
<1>4. /\ pc' = "idle" /\ failure' = failure /\ published' = published
      /\ outcome' \in {"result"} \cup Raise
      /\ interrupted' \in BOOLEAN
      /\ interrupted' => outcome' = "cancelled"
      /\ toPublish' = toPublish
  BY <1>1, <1>2, <1>3, FinishEffect
<1> USE DEF ScopeInv
<1>5. TypeOK'
  BY <1>1, <1>4, RollbackEffect DEF TypeOK, Phase
<1>6. /\ CommitRecord' /\ CommittedInv' /\ LeftoverInv' /\ BufferedInv' /\ CollectedInv'
  BY <1>1, <1>4, RollbackEffect
     DEF CommitRecord, InHooks, CommittedInv, LeftoverInv, BufferedInv, Collectable, CollectedInv
<1>7. FailureInv' /\ CancellationSurfaces'
  BY <1>4 DEF FailureInv, CancellationSurfaces
<1>8. StateAndOutboxAgree' /\ PublishedAfterCommit'
  BY <1>1, <1>4, RollbackEffect DEF StateAndOutboxAgree, PublishedAfterCommit
<1> QED
  BY <1>5, <1>6, <1>7, <1>8

LEMMA ExitCommittedStep == ScopeInv /\ ExitCommitted => ScopeInv'
<1> SUFFICES ASSUME ScopeInv, ExitCommitted PROVE ScopeInv'
  OBVIOUS
<1>1. PICK F \in SUBSET Repo :
         /\ Discard(F)
         /\ IF F = {} THEN UNCHANGED faults ELSE Fault
         /\ Finish(RollbackRaises("none", F))
  BY DEF ExitCommitted
<1>2. pc = "exit" /\ committed
  BY DEF ExitCommitted
<1>3. RollbackRaises("none", F) \in {"none"} \cup Raise
  BY DEF RollbackRaises, Raise
<1>4. /\ pc' = "idle" /\ failure' = failure /\ published' = published
      /\ outcome' \in {"result"} \cup Raise
      /\ interrupted' \in BOOLEAN
      /\ interrupted' => outcome' = "cancelled"
      /\ toPublish' \subseteq toPublish \cup events
      /\ toPublish' \subseteq Event
  BY <1>1, <1>2, <1>3, FinishEffect
<1>5. UNCHANGED <<tx, txOutbox, durable, outbox, events, commitStarted, committed, mine,
                  effects, caller, raised, late>>
  BY DEF ExitCommitted, storage, scope
<1>6. /\ buffer' \in [Repo -> SUBSET Event]
      /\ undrained' \subseteq Event
      /\ undrained \subseteq undrained'
      /\ Pulled(Repo)' \subseteq undrained'
  BY <1>1, DiscardEffect DEF ScopeInv
<1>7. faults' \in 0..MaxFaults
  BY <1>1, FaultType DEF ScopeInv, TypeOK
<1> USE DEF ScopeInv
<1>8. TypeOK'
  BY <1>4, <1>5, <1>6, <1>7 DEF TypeOK, Phase
<1>9. /\ CommitRecord' /\ CommittedInv' /\ LeftoverInv' /\ BufferedInv' /\ CollectedInv'
  BY <1>2, <1>4, <1>5, <1>6
     DEF CommitRecord, InHooks, CommittedInv, LeftoverInv, BufferedInv, Collectable, CollectedInv
<1>10. FailureInv' /\ CancellationSurfaces'
  BY <1>4 DEF FailureInv, CancellationSurfaces
<1>11. StateAndOutboxAgree' /\ PublishedAfterCommit'
  BY <1>2, <1>4, <1>5, <1>6 DEF StateAndOutboxAgree, PublishedAfterCommit, CommittedInv
<1> QED
  BY <1>8, <1>9, <1>10, <1>11

LEMMA PublishStep == ScopeInv /\ (Publish \/ PublishCancelled) => ScopeInv'
<1> SUFFICES ASSUME ScopeInv, Publish \/ PublishCancelled PROVE ScopeInv'
  OBVIOUS
<1>1. /\ pc = "idle"
      /\ toPublish' \subseteq toPublish
      /\ published' \subseteq published \cup toPublish
      /\ UNCHANGED <<tx, txOutbox, durable, outbox, buffer, events, commitStarted, committed,
                     mine, effects, pc, caller, failure, outcome, interrupted, raised, late,
                     undrained>>
  BY DEF Publish, PublishCancelled, storage, scope, dispatch
<1>2. faults' \in 0..MaxFaults
  BY FaultType DEF ScopeInv, TypeOK, Publish, PublishCancelled
<1> USE DEF ScopeInv
<1>3. Pulled(Repo)' = Pulled(Repo)
  BY <1>1 DEF Pulled
<1>4. TypeOK'
  BY <1>1, <1>2 DEF TypeOK
<1>5. /\ CommitRecord' /\ CommittedInv' /\ LeftoverInv' /\ BufferedInv' /\ CollectedInv'
  BY <1>1, <1>3
     DEF CommitRecord, InHooks, CommittedInv, LeftoverInv, BufferedInv, Collectable, CollectedInv
<1>6. FailureInv' /\ CancellationSurfaces' /\ StateAndOutboxAgree' /\ PublishedAfterCommit'
  BY <1>1 DEF FailureInv, CancellationSurfaces, StateAndOutboxAgree, PublishedAfterCommit
<1> QED
  BY <1>4, <1>5, <1>6

LEMMA CrashStep == ScopeInv /\ Crash => ScopeInv'
<1> SUFFICES ASSUME ScopeInv, Crash PROVE ScopeInv'
  OBVIOUS
<1>1. faults' \in 0..MaxFaults
  BY FaultType DEF ScopeInv, TypeOK, Crash
<1>2. Pulled(Repo)' = {} /\ buffer' \in [Repo -> SUBSET Event]
  BY DEF Pulled, Crash, Empty
<1> USE DEF ScopeInv, Crash, StartScope
<1>3. TypeOK'
  BY <1>1, <1>2 DEF TypeOK, Phase
<1>4. /\ CommitRecord' /\ CommittedInv' /\ LeftoverInv' /\ BufferedInv' /\ CollectedInv'
  BY <1>2
     DEF CommitRecord, InHooks, CommittedInv, LeftoverInv, BufferedInv, Collectable, CollectedInv
<1>5. FailureInv' /\ CancellationSurfaces' /\ StateAndOutboxAgree' /\ PublishedAfterCommit'
  BY DEF FailureInv, CancellationSurfaces, StateAndOutboxAgree, PublishedAfterCommit
<1> QED
  BY <1>3, <1>4, <1>5

LEMMA ScopeInvNext == ScopeInv /\ [Next]_vars => ScopeInv'
<1> SUFFICES ASSUME ScopeInv, [Next]_vars PROVE ScopeInv'
  OBVIOUS
<1>1. CASE HandlerRaises
  BY <1>1, QuietStep, FaultType DEF HandlerRaises, ScopeInv, TypeOK
<1>2. ASSUME NEW who \in {"handler", "bus"}, CommitRefused(who) PROVE ScopeInv'
  <2>1. \/ \E how \in Raise : BodyRaises(how)
        \/ pc' = "handler" /\ UNCHANGED dispatch
    BY <1>2 DEF CommitRefused, HandlerGets, Raise
  <2> QED
    BY <1>2, <2>1, QuietStep DEF CommitRefused, ScopeInv, TypeOK
<1>3. CASE HandlerCallsRollback
  BY <1>3, QuietStep DEF HandlerCallsRollback, ScopeInv, TypeOK
<1>4. CASE Body
  BY <1>1, <1>2, <1>3, <1>4, SaveStep, CommitStep, HandlerRollbackStep DEF Body
<1>5. CASE Hooks
  BY <1>5, EarlierHookRaisesStep, CollectStep, WriteOutboxStep, CommitStorageStep,
     CommitStorageRaisesStep
     DEF Hooks
<1>6. CASE UNCHANGED vars
  <2>1. Pulled(Repo)' = Pulled(Repo)
    BY <1>6 DEF vars, Pulled
  <2> QED
    BY <1>6, <2>1
       DEF vars, storage, scope, dispatch, bus, ScopeInv, TypeOK, CommitRecord, InHooks,
           BufferedInv, Collectable, CollectedInv, LeftoverInv, CommittedInv, FailureInv,
           StateAndOutboxAgree, PublishedAfterCommit, CancellationSurfaces
<1> QED
  BY <1>4, <1>5, <1>6, DispatchStep, ExitRollbackStep, ExitCommittedStep, PublishStep,
     CrashStep
     DEF Next

LEMMA ScopeInvAlways == Spec => []ScopeInv
  BY ScopeInvInit, ScopeInvNext, PTL DEF Spec

-----------------------------------------------------------------------------
THEOREM TypeCorrect == Spec => []TypeOK
<1>1. ScopeInv => TypeOK BY DEF ScopeInv
<1> QED BY <1>1, ScopeInvAlways, PTL

\* Outbox rows commit atomically with the state change, whichever hook fails,
\* is cancelled or crashes, and whatever the handler calls.
THEOREM OutboxIsTransactional == Spec => []StateAndOutboxAgree
<1>1. ScopeInv => StateAndOutboxAgree BY DEF ScopeInv
<1> QED BY <1>1, ScopeInvAlways, PTL

\* No scope commits twice, not even after a commit that failed and took effect.
THEOREM ScopesCommitOnce == Spec => []OneCommitPerScope
<1>1. ScopeInv => OneCommitPerScope BY DEF ScopeInv, CommitRecord, OneCommitPerScope
<1> QED BY <1>1, ScopeInvAlways, PTL

\* No in-process handler sees an event of a scope that did not commit.
THEOREM PublishAfterCommit == Spec => []PublishedAfterCommit
<1>1. ScopeInv => PublishedAfterCommit BY DEF ScopeInv
<1> QED BY <1>1, ScopeInvAlways, PTL

\* A cancelled dispatch ends as cancelled.
THEOREM CancellationPropagates == Spec => []CancellationSurfaces
<1>1. ScopeInv => CancellationSurfaces BY DEF ScopeInv
<1> QED BY <1>1, ScopeInvAlways, PTL

\* A commit writes rows for events of its own scope only.
THEOREM ScopesAreIsolated == Spec => CommitsOwnScopeOnly
<1>1. ScopeInv /\ [Next]_vars => [outbox' \ outbox \subseteq mine \cup undrained]_vars
  <2> SUFFICES ASSUME ScopeInv, Next PROVE outbox' \ outbox \subseteq mine \cup undrained
    OBVIOUS
  <2>1. CASE CommitStorage \/ CommitStorageRaises
    BY <2>1 DEF CommitStorage, CommitStorageRaises, StorageCommits, storage, ScopeInv, CollectedInv
  <2>2. CASE Body
    BY <2>2 DEF Body, Save, HandlerRaises, Commit, CommitRefused, HandlerCallsRollback,
                HandlerRollback, Rollback, storage
  <2>3. CASE FlushRaises \/ Collect \/ CollectRaises \/ WriteOutbox \/ WriteOutboxRaises
    BY <2>3 DEF FlushRaises, Collect, CollectRaises, WriteOutbox, WriteOutboxRaises, storage
  <2>4. CASE Dispatch \/ ExitRollback \/ ExitCommitted \/ Publish \/ PublishCancelled \/ Crash
    BY <2>4 DEF Dispatch, ExitRollback, Rollback, ExitCommitted, Publish, PublishCancelled,
                Crash, storage
  <2> QED
    BY <2>1, <2>2, <2>3, <2>4 DEF Next, Hooks
<1> QED BY <1>1, ScopeInvAlways, PTL DEF Spec, CommitsOwnScopeOnly
=============================================================================
