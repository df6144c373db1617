------------------------- MODULE CommandDispatchProofs -------------------------
(* Theorems about CommandDispatch for any number of dispatches, commands and  *)
(* aggregates and for every registration of the two behaviors.                *)
EXTENDS CommandDispatch, SequenceTheorems, TLAPS

-----------------------------------------------------------------------------
(* Types.                                                                     *)

LEMMA PipelineFacts ==
  ASSUME pipeline \in Pipelines
  PROVE  /\ Len(pipeline) \in 0..2
         /\ DOMAIN pipeline = 1..Len(pipeline)
         /\ \A n \in 1..Len(pipeline) : pipeline[n] \in {"idempotency", "locking"}
         /\ \A m, n \in 1..Len(pipeline) : pipeline[m] = pipeline[n] => m = n
<1>1. pipeline \in KnownPipelines
  BY DispatchAssumption
<1>2. CASE pipeline = <<>>
  BY <1>2
<1>3. CASE pipeline = <<"idempotency">>
  BY <1>3
<1>4. CASE pipeline = <<"locking">>
  BY <1>4
<1>5. CASE pipeline = <<"idempotency", "locking">>
  BY <1>5
<1>6. CASE pipeline = <<"locking", "idempotency">>
  BY <1>6
<1> QED
  BY <1>1, <1>2, <1>3, <1>4, <1>5, <1>6 DEF KnownPipelines

\* What an append does to the stream and the ids of its aggregate.
LEMMA AppendEffect ==
  ASSUME StoreTypeOK, NEW a \in Aggregate, NEW e \in Event,
         NEW id \in CommandId \cup {NoId}, AppendToStream(a, e, id)
  PROVE  /\ StoreTypeOK'
         /\ \A b \in Aggregate \ {a} :
               stream'[b] = stream[b] /\ processed'[b] = processed[b]
         /\ Len(stream[a]) \in Nat
         /\ Len(stream'[a]) = Len(stream[a]) + 1
         /\ DOMAIN stream[a] = 1..Len(stream[a])
         /\ DOMAIN stream'[a] = 1..(Len(stream[a]) + 1)
         /\ \A n \in DOMAIN stream[a] : stream'[a][n] = stream[a][n]
         /\ stream'[a][Len(stream[a]) + 1] = e
         /\ processed'[a] = processed[a] \cup ({id} \ {NoId})
<1>1. stream[a] \in Seq(Event) /\ processed[a] \in SUBSET CommandId
  BY DEF StoreTypeOK
<1>2. /\ stream'[a] = Append(stream[a], e)
      /\ processed'[a] = processed[a] \cup ({id} \ {NoId})
      /\ \A b \in Aggregate \ {a} :
            stream'[b] = stream[b] /\ processed'[b] = processed[b]
  BY DEF AppendToStream, StoreTypeOK
<1>3. /\ Append(stream[a], e) \in Seq(Event)
      /\ Len(Append(stream[a], e)) = Len(stream[a]) + 1
      /\ \A n \in 1..Len(stream[a]) : Append(stream[a], e)[n] = stream[a][n]
      /\ Append(stream[a], e)[Len(stream[a]) + 1] = e
  BY <1>1, AppendProperties
<1>4. Len(stream[a]) \in Nat /\ DOMAIN stream[a] = 1..Len(stream[a])
  BY <1>1
<1>5. DOMAIN stream'[a] = 1..(Len(stream[a]) + 1)
  BY <1>2, <1>3
<1>6. StoreTypeOK'
  BY <1>2, <1>3, EventStoreAssumption DEF StoreTypeOK, AppendToStream
<1> QED
  BY <1>2, <1>3, <1>4, <1>5, <1>6

LEMMA TypeInit == Init => TypeOK
<1> SUFFICES ASSUME Init PROVE TypeOK
  OBVIOUS
<1>1. StoreTypeOK
  BY DEF Init, StoreInit, StoreTypeOK
<1>2. 0 \in 0..Len(pipeline)
  BY PipelineFacts DEF Init
<1> QED
  BY <1>1, <1>2 DEF Init, TypeOK, Phase, Failure

\* The store changes only by an accepted append, of a save that takes effect at
\* once or of a commit.
LEMMA StoreSteps ==
  ASSUME TypeOK, NEW d \in Dispatch, Pipeline(d) \/ Handler(d) \/ Bus(d)
  PROVE  \/ UNCHANGED store
         \/ /\ Accepted(d)
            /\ AppendToStream(Target[d], d, IdPassed(d))
            /\ (Save(d) /\ ~deferred) \/ (Commit(d) /\ Staged(d))
  BY DEF Pipeline, Handler, Bus, Interrupted, LookupHits, LookupMisses, Remember,
         RememberRaises, PassFailure, AcquireLock, ReleaseLock, Load, Save,
         SaveRejected, HandlerReturns, Commit, CommitRejected, CommitRaises,
         RollBack, store

\* Entering and leaving a behavior keeps the depth within the pipeline.
LEMMA DepthStep ==
  ASSUME TypeOK, NEW d \in Dispatch, UNCHANGED pipeline,
         \/ Deeper(d) /\ depth[d] < Len(pipeline)
         \/ Outer(d) /\ depth[d] > 0
         \/ UNCHANGED depth
  PROVE  depth' \in [Dispatch -> 0..Len(pipeline')]
<1>1. Len(pipeline) \in Nat /\ depth[d] \in 0..Len(pipeline)
  BY PipelineFacts DEF TypeOK
<1>2. CASE Deeper(d) /\ depth[d] < Len(pipeline)
  <2>1. depth[d] + 1 \in 0..Len(pipeline)
    BY <1>1, <1>2
  <2> QED
    BY <1>2, <2>1 DEF Deeper, TypeOK
<1>3. CASE Outer(d) /\ depth[d] > 0
  <2>1. depth[d] - 1 \in 0..Len(pipeline)
    BY <1>1, <1>3
  <2> QED
    BY <1>3, <2>1 DEF Outer, TypeOK
<1> QED
  BY <1>2, <1>3 DEF TypeOK

LEMMA TypeStep == TypeOK /\ [Next]_vars => TypeOK'
<1> SUFFICES ASSUME TypeOK, [Next]_vars PROVE TypeOK'
  OBVIOUS
<1> USE DEF TypeOK
<1>1. CASE UNCHANGED vars
  BY <1>1 DEF vars, setup, store, StoreTypeOK
<1>2. ASSUME NEW d \in Dispatch, Pipeline(d) \/ Handler(d) \/ Bus(d)
      PROVE  TypeOK'
  <2>1. StoreTypeOK'
    <3>1. Target[d] \in Aggregate /\ IdPassed(d) \in CommandId \cup {NoId} /\ d \in Event
      BY DispatchAssumption DEF IdPassed, Dispatch
    <3> QED
      BY <1>2, <3>1, StoreSteps, AppendEffect DEF store, StoreTypeOK
  <2>2. Len(pipeline) \in Nat
    BY PipelineFacts
  <2>3. Version(Target[d]) \in Nat
    BY DispatchAssumption DEF Version, StoreTypeOK
  <2>4. Id[d] \in CommandId /\ Target[d] \in Aggregate
    BY DispatchAssumption
  <2>5. CASE Pipeline(d)
    <3>1. CASE Interrupted(d)
      BY <2>1, <3>1 DEF Interrupted, Raise, Phase, Failure, setup
    <3>2. CASE LookupHits(d)
      BY <2>1, <2>4, <3>2 DEF LookupHits, Phase, setup
    <3>3. CASE LookupMisses(d)
      <4>1. depth' \in [Dispatch -> 0..Len(pipeline')]
        BY <3>3, DepthStep DEF LookupMisses, Enters, setup
      <4> QED
        BY <2>1, <3>3, <4>1 DEF LookupMisses, setup
    <3>4. CASE Remember(d) \/ RememberRaises(d) \/ PassFailure(d)
      <4>1. depth' \in [Dispatch -> 0..Len(pipeline')]
        BY <3>4, DepthStep DEF Remember, RememberRaises, PassFailure, Leaves, setup
      <4>2. cache' \in [CommandId -> Dispatch \cup {NoDispatch}]
        BY <2>4, <3>4 DEF Remember, RememberRaises, PassFailure
      <4> QED
        BY <2>1, <3>4, <4>1, <4>2 DEF Remember, RememberRaises, PassFailure, Failure, setup
    <3>5. CASE AcquireLock(d) \/ ReleaseLock(d)
      <4>1. depth' \in [Dispatch -> 0..Len(pipeline')]
        BY <3>5, DepthStep DEF AcquireLock, ReleaseLock, Enters, Leaves, setup
      <4>2. holder' \in [Aggregate -> Dispatch \cup {NoDispatch}]
        BY <2>4, <3>5 DEF AcquireLock, ReleaseLock
      <4> QED
        BY <2>1, <3>5, <4>1, <4>2 DEF AcquireLock, ReleaseLock, Failure, setup
    <3> QED
      BY <2>5, <3>1, <3>2, <3>3, <3>4, <3>5 DEF Pipeline
  <2>6. CASE Handler(d)
    <3>1. CASE Load(d)
      BY <2>1, <2>3, <3>1 DEF Load, Phase, setup
    <3>2. CASE Save(d)
      BY <2>1, <3>2 DEF Save, setup
    <3>3. CASE SaveRejected(d)
      BY <2>1, <3>3 DEF SaveRejected, Raise, RejectionOf, Phase, Failure, setup
    <3>4. CASE HandlerReturns(d)
      BY <2>1, <3>4 DEF HandlerReturns, Phase, setup
    <3> QED
      BY <2>6, <3>1, <3>2, <3>3, <3>4 DEF Handler
  <2>7. CASE Bus(d)
    <3>1. CASE Commit(d)
      BY <2>1, <3>1 DEF Commit, Return, Phase, Failure, setup
    <3>2. CASE CommitRejected(d)
      BY <2>1, <3>2 DEF CommitRejected, Return, RejectionOf, Phase, Failure, setup
    <3>3. CASE CommitRaises(d) \/ RollBack(d)
      BY <2>1, <3>3 DEF CommitRaises, RollBack, Return, Phase, Failure, setup
    <3> QED
      BY <2>7, <3>1, <3>2, <3>3 DEF Bus
  <2> QED
    BY <1>2, <2>5, <2>6, <2>7
<1> QED
  BY <1>1, <1>2 DEF Next

\* Every variable keeps its type in every reachable state.
THEOREM TypeCorrect == Spec => []TypeOK
  BY TypeInit, TypeStep, PTL DEF Spec

-----------------------------------------------------------------------------
(* The invariant.                                                             *)

PositionInv ==
    \A d \in Dispatch :
        /\ pc[d] = "done" => depth[d] = 0
        /\ pc[d] = "handler" => depth[d] = Len(pipeline)
        /\ pc[d] \in {"inward", "handler"} => failure[d] = "none"

\* Inside of the locking behavior a dispatch has the lock of its aggregate.
LockInv ==
    \A d \in Dispatch : \A n \in 1..Len(pipeline) :
        pipeline[n] = "locking" /\ n <= depth[d] => holder[Target[d]] = d

\* What is in a stream was saved there from the version before it.
StreamInv ==
    \A a \in Aggregate : \A n \in DOMAIN stream[a] :
        /\ Target[stream[a][n]] = a
        /\ seen[stream[a][n]] = n - 1
        /\ stream[a][n] \in saved
        /\ deferred => pc[stream[a][n]] = "done"

SavedInv ==
    \A d \in saved :
        /\ pc[d] # "inward"
        /\ ~deferred \/ Succeeded(d) => Stored(d)

\* Cached and carried results are those of the command.
ResultInv ==
    /\ \A i \in CommandId : cache[i] # NoDispatch => Id[cache[i]] = i
    /\ \A d \in Dispatch :
          pc[d] \in {"outward", "done"} /\ failure[d] = "none" =>
              result[d] \in Dispatch /\ Id[result[d]] = Id[d]

HasLocking == \E n \in 1..Len(pipeline) : pipeline[n] = "locking"

\* What a handler loaded under the lock stays current until it saves.
ConflictInv ==
    HasLocking /\ ~deferred =>
        \A d \in Dispatch :
            /\ failure[d] # "conflict"
            /\ pc[d] = "handler" /\ d \notin saved => seen[d] = Version(Target[d])

\* Dispatches whose save is going to be committed, or was.
Lasting(d) == d \in saved /\ depth[d] < 2 /\ (failure[d] = "none" \/ Stored(d))

\* With the lookup under the lock, a dispatch that missed keeps its miss until
\* it stores its own result, so only one save of a command id can last.
OnceInv ==
    deferred /\ LockedLookup =>
        /\ \A d \in Dispatch : depth[d] = 2 => cache[Id[d]] = NoDispatch
        /\ \A d \in Dispatch : Lasting(d) => cache[Id[d]] # NoDispatch
        /\ \A d, e \in Dispatch : Lasting(d) /\ Lasting(e) /\ Id[d] = Id[e] => d = e

\* Two saves of one stream have different command ids.
DistinctIds ==
    \A a \in Aggregate : \A m, n \in DOMAIN stream[a] :
        Id[stream[a][m]] = Id[stream[a][n]] => m = n

DistinctInv == identified => DistinctIds

DispatchInv ==
    /\ TypeOK
    /\ PositionInv
    /\ LockInv
    /\ StreamInv
    /\ IdUsedOnlyByStoredEvents
    /\ SavedInv
    /\ ResultInv
    /\ ConflictInv
    /\ OnceInv
    /\ DistinctInv

Step(d) == Pipeline(d) \/ Handler(d) \/ Bus(d)

LEMMA DispatchInvInit == Init => DispatchInv
<1> SUFFICES ASSUME Init PROVE DispatchInv
  OBVIOUS
<1>1. TypeOK
  BY TypeInit
<1>2. Len(pipeline) \in 0..2
  BY <1>1, PipelineFacts DEF TypeOK
<1>3. \A a \in Aggregate : DOMAIN stream[a] = {} /\ processed[a] = {}
  <2>1. \A a \in Aggregate : stream[a] = <<>> /\ processed[a] = {}
    BY DEF Init, StoreInit
  <2>2. DOMAIN <<>> = {}
    OBVIOUS
  <2> QED
    BY <2>1, <2>2
<1>4. PositionInv /\ SavedInv /\ ResultInv
  BY DEF Init, PositionInv, SavedInv, ResultInv
<1>8. ConflictInv
  BY DEF Init, ConflictInv
<1>7. LockInv
  BY <1>2 DEF Init, LockInv
<1>5. StreamInv /\ IdUsedOnlyByStoredEvents /\ DistinctInv
  BY <1>3 DEF StreamInv, IdUsedOnlyByStoredEvents, DistinctInv, DistinctIds
<1>6. OnceInv
  BY DEF Init, OnceInv, Lasting
<1> QED
  BY <1>1, <1>4, <1>5, <1>6, <1>7, <1>8 DEF DispatchInv

LEMMA PositionStep ==
  ASSUME DispatchInv, NEW d \in Dispatch, Step(d) PROVE PositionInv'
<1> USE DEF DispatchInv, TypeOK, PositionInv, setup
<1>1. /\ Len(pipeline) \in Nat
      /\ \A c \in Dispatch : depth[c] \in Nat
  BY PipelineFacts
<1>2. CASE Pipeline(d)
  <2>1. CASE Interrupted(d) \/ LookupHits(d)
    BY <2>1 DEF Interrupted, LookupHits, Raise
  <2>2. CASE LookupMisses(d) \/ AcquireLock(d)
    BY <1>1, <2>2 DEF LookupMisses, AcquireLock, Enters, Deeper
  <2>3. CASE Remember(d) \/ PassFailure(d)
    BY <1>1, <2>3 DEF Remember, PassFailure, Leaves, Outer
  <2>4. CASE RememberRaises(d) \/ ReleaseLock(d)
    BY <1>1, <2>4 DEF RememberRaises, ReleaseLock, Leaves, Outer
  <2> QED
    BY <1>2, <2>1, <2>2, <2>3, <2>4 DEF Pipeline
<1>3. CASE Handler(d)
  BY <1>1, <1>3 DEF Handler, Load, Save, SaveRejected, HandlerReturns, Raise
<1>4. CASE Bus(d)
  BY <1>1, <1>4 DEF Bus, Commit, CommitRejected, CommitRaises, RollBack, LeftPipeline, Return
<1> QED
  BY <1>2, <1>3, <1>4 DEF Step

LEMMA LockStep ==
  ASSUME DispatchInv, NEW d \in Dispatch, Step(d) PROVE LockInv'
<1> USE DEF DispatchInv, TypeOK, LockInv, setup
<1>1. /\ Len(pipeline) \in 0..2
      /\ \A c \in Dispatch : depth[c] \in 0..Len(pipeline)
      /\ Target[d] \in Aggregate
      /\ \A c \in Dispatch : Target[c] \in Aggregate
      /\ NoDispatch \notin Dispatch
      /\ \A m, n \in 1..Len(pipeline) : pipeline[m] = pipeline[n] => m = n
  BY PipelineFacts, DispatchAssumption
<1>2. CASE Interrupted(d) \/ LookupHits(d) \/ Handler(d) \/ Bus(d)
  BY <1>2 DEF Interrupted, LookupHits, Handler, Bus, Load, Save, SaveRejected,
     HandlerReturns, Commit, CommitRejected, CommitRaises, RollBack
<1>3. CASE LookupMisses(d)
  BY <1>1, <1>3 DEF LookupMisses, Enters, Behavior, Deeper
<1>4. CASE Remember(d) \/ RememberRaises(d) \/ PassFailure(d)
  <2>1. UNCHANGED <<pipeline, holder>>
    BY <1>4 DEF Remember, RememberRaises, PassFailure
  <2>2. \A c \in Dispatch : depth'[c] <= depth[c] /\ depth'[c] \in Int
    <3>1. Outer(d) /\ depth[d] > 0
      BY <1>4 DEF Remember, RememberRaises, PassFailure, Leaves
    <3> QED
      BY <1>1, <3>1 DEF Outer
  <2> QED
    BY <1>1, <2>1, <2>2
<1>5. CASE AcquireLock(d)
  <2>1. /\ holder[Target[d]] = NoDispatch
        /\ holder' = [holder EXCEPT ![Target[d]] = d]
        /\ UNCHANGED pipeline
        /\ \A c \in Dispatch \ {d} : depth'[c] = depth[c]
    BY <1>5 DEF AcquireLock, Deeper
  <2> SUFFICES ASSUME NEW c \in Dispatch, NEW n \in 1..Len(pipeline),
                      pipeline[n] = "locking", n <= depth'[c]
               PROVE  holder'[Target[c]] = c
    BY <2>1
  <2>2. CASE c = d
    BY <1>1, <2>1, <2>2
  <2>3. CASE c # d
    <3>1. holder[Target[c]] = c
      BY <2>1, <2>3
    <3> QED
      BY <1>1, <2>1, <3>1
  <2> QED
    BY <2>2, <2>3
<1>6. CASE ReleaseLock(d)
  <2>1. /\ pipeline[depth[d]] = "locking" /\ depth[d] \in 1..Len(pipeline)
        /\ holder' = [holder EXCEPT ![Target[d]] = NoDispatch]
        /\ UNCHANGED pipeline
        /\ depth'[d] = depth[d] - 1
        /\ \A c \in Dispatch \ {d} : depth'[c] = depth[c]
    BY <1>1, <1>6 DEF ReleaseLock, Leaves, Behavior, Outer
  <2> SUFFICES ASSUME NEW c \in Dispatch, NEW n \in 1..Len(pipeline),
                      pipeline[n] = "locking", n <= depth'[c]
               PROVE  holder'[Target[c]] = c
    BY <2>1
  <2>2. c # d
    BY <1>1, <2>1
  <2>3. holder[Target[c]] = c /\ holder[Target[d]] = d
    BY <1>1, <2>1, <2>2
  <2> QED
    BY <1>1, <2>1, <2>2, <2>3
<1> QED
  BY <1>2, <1>3, <1>4, <1>5, <1>6 DEF Step, Pipeline

\* What no step takes back.
LEMMA Forward ==
  ASSUME DispatchInv, NEW d \in Dispatch, Step(d)
  PROVE  /\ UNCHANGED setup
         /\ saved \subseteq saved'
         /\ \A e \in Dispatch :
               /\ pc[e] # "inward" => pc'[e] # "inward" /\ seen'[e] = seen[e]
               /\ pc[e] = "done" => pc'[e] = "done"
               /\ failure[e] # "none" => failure'[e] # "none"
               /\ e # d => /\ pc'[e] = pc[e]
                           /\ failure'[e] = failure[e]
                           /\ result'[e] = result[e]
                           /\ depth'[e] = depth[e]
                           /\ e \in saved' => e \in saved
<1> USE DEF DispatchInv, TypeOK, setup
<1>1. CASE Pipeline(d)
  BY <1>1 DEF Pipeline, Interrupted, LookupHits, LookupMisses, Remember,
     RememberRaises, PassFailure, AcquireLock, ReleaseLock, Enters, Leaves, Deeper,
     Outer, Raise
<1>2. CASE Handler(d)
  BY <1>2 DEF Handler, Load, Save, SaveRejected, HandlerReturns, Raise, RejectionOf
<1>3. CASE Bus(d)
  BY <1>3 DEF Bus, Commit, CommitRejected, CommitRaises, RollBack, LeftPipeline, Return,
     RejectionOf
<1> QED
  BY <1>1, <1>2, <1>3 DEF Step

\* A step leaves the store alone, or appends the save of d.
Appends(d) ==
    /\ Accepted(d)
    /\ AppendToStream(Target[d], d, IdPassed(d))
    /\ (Save(d) /\ ~deferred) \/ (Commit(d) /\ Staged(d))

LEMMA AppendStep ==
  ASSUME DispatchInv, NEW d \in Dispatch, Appends(d)
  PROVE  LET a == Target[d] IN
         /\ \A b \in Aggregate \ {a} :
               stream'[b] = stream[b] /\ processed'[b] = processed[b]
         /\ Len(stream[a]) \in Nat
         /\ seen[d] = Len(stream[a])
         /\ Len(stream'[a]) = Len(stream[a]) + 1
         /\ DOMAIN stream[a] = 1..Len(stream[a])
         /\ DOMAIN stream'[a] = 1..(Len(stream[a]) + 1)
         /\ \A n \in DOMAIN stream[a] : stream'[a][n] = stream[a][n]
         /\ stream'[a][Len(stream[a]) + 1] = d
         /\ processed'[a] = processed[a] \cup ({IdPassed(d)} \ {NoId})
         /\ IdPassed(d) \notin processed[a]
         /\ seen'[d] = seen[d] /\ d \in saved' /\ pc[d] # "done"
         /\ deferred => pc'[d] = "done" /\ d \in saved /\ depth[d] = 0 /\ failure[d] = "none"
         /\ ~deferred => pc[d] = "handler" /\ d \notin saved
<1>1. Target[d] \in Aggregate /\ IdPassed(d) \in CommandId \cup {NoId} /\ d \in Event
  BY DispatchAssumption DEF IdPassed, Dispatch
<1>2. StoreTypeOK /\ AppendToStream(Target[d], d, IdPassed(d))
  BY DEF Appends, DispatchInv, TypeOK
<1>3. seen[d] = Len(stream[Target[d]]) /\ IdPassed(d) \notin processed[Target[d]]
  BY DEF Appends, Accepted, Accepts, IsDuplicate, IsStale, Version
<1>4. /\ seen'[d] = seen[d] /\ d \in saved' /\ pc[d] # "done"
      /\ deferred => pc'[d] = "done" /\ d \in saved /\ depth[d] = 0 /\ failure[d] = "none"
      /\ ~deferred => pc[d] = "handler" /\ d \notin saved
  BY DEF Appends, Save, Commit, Staged, LeftPipeline, Return, DispatchInv, TypeOK
<1> HIDE DEF IdPassed
<1> QED
  BY <1>1, <1>2, <1>3, <1>4, AppendEffect

LEMMA StreamStep ==
  ASSUME DispatchInv, NEW d \in Dispatch, Step(d) PROVE StreamInv'
<1>1. UNCHANGED store \/ Appends(d)
  BY StoreSteps DEF DispatchInv, Step, Appends
<1>2. \A a \in Aggregate : \A n \in DOMAIN stream[a] :
          /\ stream[a][n] \in Dispatch
          /\ pc[stream[a][n]] # "inward"
  BY DEF DispatchInv, TypeOK, StoreTypeOK, Dispatch, StreamInv, SavedInv
<1> SUFFICES ASSUME NEW a \in Aggregate, NEW n \in DOMAIN stream'[a]
             PROVE  /\ Target[stream'[a][n]] = a
                    /\ seen'[stream'[a][n]] = n - 1
                    /\ stream'[a][n] \in saved'
                    /\ deferred' => pc'[stream'[a][n]] = "done"
  BY DEF StreamInv
<1>3. CASE n \in DOMAIN stream[a] /\ stream'[a][n] = stream[a][n]
  BY <1>2, <1>3, Forward DEF DispatchInv, StreamInv, setup
<1>4. CASE UNCHANGED store
  BY <1>3, <1>4 DEF store
<1>5. CASE Appends(d)
  <2>1. CASE a # Target[d]
    BY <1>3, <1>5, <2>1, AppendStep
  <2>2. CASE a = Target[d] /\ n # Len(stream[a]) + 1
    <3>1. /\ n \in 1..(Len(stream[a]) + 1)
          /\ Len(stream[a]) \in Nat
          /\ DOMAIN stream[a] = 1..Len(stream[a])
          /\ \A m \in DOMAIN stream[a] : stream'[a][m] = stream[a][m]
      BY <1>5, <2>2, AppendStep
    <3>2. n \in DOMAIN stream[a]
      BY <2>2, <3>1
    <3> QED
      BY <1>3, <3>1, <3>2
  <2>3. CASE a = Target[d] /\ n = Len(stream[a]) + 1
    <3>1. /\ stream'[a][n] = d /\ d \in saved'
          /\ Len(stream[a]) \in Nat /\ seen'[d] = Len(stream[a])
          /\ deferred => pc'[d] = "done"
      BY <1>5, <2>3, AppendStep
    <3>2. deferred' = deferred
      BY Forward DEF setup
    <3> QED
      BY <2>3, <3>1, <3>2
  <2> QED
    BY <2>1, <2>2, <2>3
<1> QED
  BY <1>1, <1>4, <1>5

LEMMA IdStep ==
  ASSUME DispatchInv, NEW d \in Dispatch, Step(d) PROVE IdUsedOnlyByStoredEvents'
<1> SUFFICES ASSUME NEW a \in Aggregate
             PROVE  processed'[a] = IF identified'
                                    THEN {Id[stream'[a][n]] : n \in DOMAIN stream'[a]}
                                    ELSE {}
  BY DEF IdUsedOnlyByStoredEvents
<1>1. UNCHANGED store \/ Appends(d)
  BY StoreSteps DEF DispatchInv, Step, Appends
<1>2. identified' = identified
  BY Forward DEF setup
<1>3. processed[a] = IF identified THEN {Id[stream[a][n]] : n \in DOMAIN stream[a]} ELSE {}
  BY DEF DispatchInv, IdUsedOnlyByStoredEvents
<1>4. CASE stream'[a] = stream[a] /\ processed'[a] = processed[a]
  BY <1>2, <1>3, <1>4
<1>5. CASE Appends(d) /\ a = Target[d]
  <2>1. CASE identified
    <3>1. IdPassed(d) = Id[d] /\ Id[d] # NoId
      BY <2>1, DispatchAssumption, EventStoreAssumption DEF IdPassed
    <3> DEFINE new == Len(stream[a]) + 1
    <3>2. /\ processed'[a] = processed[a] \cup {Id[d]}
          /\ new \in Nat
          /\ DOMAIN stream'[a] = DOMAIN stream[a] \cup {new}
          /\ \A n \in DOMAIN stream[a] : stream'[a][n] = stream[a][n]
          /\ stream'[a][new] = d
      <4>1. /\ processed'[a] = processed[a] \cup ({IdPassed(d)} \ {NoId})
            /\ Len(stream[a]) \in Nat
            /\ DOMAIN stream[a] = 1..Len(stream[a])
            /\ DOMAIN stream'[a] = 1..new
            /\ \A n \in DOMAIN stream[a] : stream'[a][n] = stream[a][n]
            /\ stream'[a][new] = d
        BY <1>5, AppendStep
      <4>2. 1..new = 1..Len(stream[a]) \cup {new}
        BY <4>1
      <4> HIDE DEF new
      <4> QED
        BY <3>1, <4>1, <4>2 DEF new
    <3> HIDE DEF new
    <3> QED
      BY <1>2, <1>3, <2>1, <3>2
  <2>2. CASE ~identified
    BY <1>2, <1>3, <1>5, <2>2, AppendStep DEF IdPassed
  <2> QED
    BY <2>1, <2>2
<1>6. CASE Appends(d) /\ a # Target[d]
  BY <1>4, <1>6, AppendStep
<1> QED
  BY <1>1, <1>4, <1>5, <1>6 DEF store

\* A stored save stays stored, and an append stores the save of its dispatch.
LEMMA StoredStep ==
  ASSUME DispatchInv, NEW d \in Dispatch, Step(d)
  PROVE  /\ \A e \in Dispatch : Stored(e) => Stored(e)'
         /\ Appends(d) => Stored(d)'
         /\ \A e \in Dispatch : Stored(e)' /\ ~Stored(e) => e = d /\ Appends(d)
<1>1. UNCHANGED store \/ Appends(d)
  BY StoreSteps DEF DispatchInv, Step, Appends
<1>2. \A e \in Dispatch : Target[e] \in Aggregate
  BY DispatchAssumption
<1>3. CASE UNCHANGED store /\ ~Appends(d)
  BY <1>3 DEF store, Stored
<1>4. CASE Appends(d)
  <2>1. /\ Len(stream[Target[d]]) + 1 \in DOMAIN stream'[Target[d]]
        /\ stream'[Target[d]][Len(stream[Target[d]]) + 1] = d
    BY <1>4, AppendStep
  <2>2. Stored(d)'
    BY <2>1 DEF Stored
  <2>3. ASSUME NEW e \in Dispatch, NEW n \in DOMAIN stream[Target[e]]
        PROVE  n \in DOMAIN stream'[Target[e]] /\ stream'[Target[e]][n] = stream[Target[e]][n]
    BY <1>2, <1>4, AppendStep
  <2>4. ASSUME NEW e \in Dispatch, NEW n \in DOMAIN stream'[Target[e]],
               stream'[Target[e]][n] = e, e # d
        PROVE  n \in DOMAIN stream[Target[e]] /\ stream[Target[e]][n] = e
    <3>1. CASE Target[e] # Target[d]
      BY <1>2, <1>4, <2>4, <3>1, AppendStep
    <3>2. CASE Target[e] = Target[d]
      <4>1. /\ n \in 1..(Len(stream[Target[d]]) + 1)
            /\ Len(stream[Target[d]]) \in Nat
            /\ n # Len(stream[Target[d]]) + 1
            /\ DOMAIN stream[Target[d]] = 1..Len(stream[Target[d]])
        BY <1>4, <2>1, <2>4, <3>2, AppendStep
      <4>2. n \in DOMAIN stream[Target[d]]
        BY <4>1
      <4> QED
        BY <1>4, <2>4, <3>2, <4>2, AppendStep
    <3> QED
      BY <3>1, <3>2
  <2> QED
    BY <1>4, <2>2, <2>3, <2>4 DEF Stored
<1> QED
  BY <1>1, <1>3, <1>4

LEMMA SavedStep ==
  ASSUME DispatchInv, NEW d \in Dispatch, Step(d) PROVE SavedInv'
<1> USE DEF DispatchInv, TypeOK
<1>1. \A e \in saved : pc[e] # "inward" /\ (~deferred \/ Succeeded(e) => Stored(e))
  BY DEF SavedInv
<1>2. \A e \in saved' : e \in Dispatch /\ pc'[e] # "inward"
  <2>1. d \in saved' => pc'[d] # "inward"
    <3>1. CASE d \in saved
      BY <1>1, <3>1, Forward
    <3>2. CASE d \notin saved
      BY <3>2 DEF Step, Pipeline, Handler, Bus, Interrupted, LookupHits, LookupMisses,
         Remember, RememberRaises, PassFailure, AcquireLock, ReleaseLock, Load, Save,
         SaveRejected, HandlerReturns, Commit, CommitRejected, CommitRaises, RollBack
    <3> QED
      BY <3>1, <3>2
  <2>2. saved' \subseteq Dispatch
    <3>1. StoreTypeOK /\ TypeOK'
      BY TypeStep DEF Step, Next
    <3> QED
      BY <3>1
  <2> QED
    BY <1>1, <2>1, <2>2, Forward
<1>3. ASSUME NEW e \in saved', ~deferred \/ Succeeded(e)'
      PROVE  Stored(e)'
  <2>1. CASE e \in saved /\ (~deferred \/ Succeeded(e))
    BY <1>1, <2>1, StoredStep
  <2>2. CASE ~deferred /\ e \notin saved
    <3>1. e = d /\ d \in saved' /\ d \notin saved
      BY <1>2, <2>2, Forward
    <3>2. Save(d)
      BY <3>1 DEF Step, Pipeline, Handler, Bus, Interrupted, LookupHits, LookupMisses,
         Remember, RememberRaises, PassFailure, AcquireLock, ReleaseLock, Load,
         SaveRejected, HandlerReturns, Commit, CommitRejected, CommitRaises, RollBack
    <3>3. Appends(d)
      BY <2>2, <3>2 DEF Save, Appends
    <3> QED
      BY <3>1, <3>3, StoredStep
  <2>3. CASE deferred /\ Succeeded(e)' /\ ~Succeeded(e)
    <3>1. e = d /\ pc'[d] = "done" /\ failure'[d] = "none"
      BY <1>2, <2>3, Forward DEF Succeeded
    <3>2. Commit(d)
      <4>1. failure[d] = "none"
        BY <3>1, Forward
      <4>2. pc[d] # "done"
        BY <2>3, <3>1, <4>1 DEF Succeeded
      <4>3. ~Pipeline(d)
        BY <3>1, <4>2 DEF Pipeline, Interrupted, LookupHits, LookupMisses,
           Remember, RememberRaises, PassFailure, AcquireLock, ReleaseLock, Raise
      <4>4. ~Handler(d)
        BY <3>1, <4>2 DEF Handler, Load, Save, SaveRejected, HandlerReturns, Raise
      <4>5. ~CommitRejected(d) /\ ~CommitRaises(d) /\ ~RollBack(d)
        BY <3>1, <4>1 DEF CommitRejected, CommitRaises, RollBack, RejectionOf
      <4> QED
        BY <4>3, <4>4, <4>5 DEF Step, Bus
    <3>3. d \in saved
      BY <3>1, <3>2 DEF Commit
    <3>4. Appends(d)
      BY <2>3, <3>2, <3>3 DEF Commit, Staged, Appends
    <3> QED
      BY <3>1, <3>4, StoredStep
  <2>4. CASE deferred /\ Succeeded(e) /\ e \notin saved
    <3>1. CASE e = d
      BY <1>2, <2>4, <3>1 DEF Succeeded, Step, Pipeline, Handler, Bus, Interrupted,
         LookupHits, LookupMisses, Remember, RememberRaises, PassFailure, AcquireLock,
         ReleaseLock, Load, Save, SaveRejected, HandlerReturns, Commit, CommitRejected,
         CommitRaises, RollBack, Enters, Leaves, LeftPipeline
    <3>2. CASE e # d
      BY <1>2, <2>4, <3>2, Forward
    <3> QED
      BY <3>1, <3>2
  <2> QED
    BY <1>3, <2>1, <2>2, <2>3, <2>4
<1>4. deferred' = deferred
  BY Forward DEF setup
<1> QED
  BY <1>2, <1>3, <1>4 DEF SavedInv

LEMMA ResultStep ==
  ASSUME DispatchInv, NEW d \in Dispatch, Step(d) PROVE ResultInv'
<1> USE DEF DispatchInv, TypeOK, ResultInv
<1>1. Id[d] \in CommandId /\ NoDispatch \notin Dispatch
  BY DispatchAssumption
<1>2. CASE Pipeline(d)
  <2>1. CASE Interrupted(d) \/ PassFailure(d) \/ LookupMisses(d) \/ AcquireLock(d)
    BY <2>1 DEF Interrupted, PassFailure, LookupMisses, AcquireLock, Raise, Enters, Leaves
  <2>2. CASE LookupHits(d)
    BY <1>1, <2>2 DEF LookupHits
  <2>3. CASE Remember(d) \/ RememberRaises(d)
    BY <1>1, <2>3 DEF Remember, RememberRaises, Leaves
  <2>4. CASE ReleaseLock(d)
    BY <2>4 DEF ReleaseLock, Leaves
  <2> QED
    BY <1>2, <2>1, <2>2, <2>3, <2>4 DEF Pipeline
<1>3. CASE Handler(d)
  BY <1>1, <1>3 DEF Handler, Load, Save, SaveRejected, HandlerReturns, Raise, RejectionOf
<1>4. CASE Bus(d)
  BY <1>4 DEF Bus, Commit, CommitRejected, CommitRaises, RollBack, LeftPipeline, Return,
     RejectionOf
<1> QED
  BY <1>2, <1>3, <1>4 DEF Step

\* Two dispatches inside of the handler, or anywhere under the lock of one
\* aggregate, are the same.
LEMMA LockExcludes ==
  ASSUME DispatchInv, NEW d \in Dispatch, NEW e \in Dispatch, Target[d] = Target[e],
         NEW n \in 1..Len(pipeline), pipeline[n] = "locking", n <= depth[d], n <= depth[e]
  PROVE  d = e
  BY DEF DispatchInv, LockInv

LEMMA ConflictStep ==
  ASSUME DispatchInv, NEW d \in Dispatch, Step(d) PROVE ConflictInv'
<1> USE DEF DispatchInv, TypeOK, PositionInv
<1>0. UNCHANGED <<pipeline, deferred>>
  BY Forward DEF setup
<1> SUFFICES ASSUME HasLocking, ~deferred, NEW e \in Dispatch
             PROVE  /\ failure'[e] # "conflict"
                    /\ pc'[e] = "handler" /\ e \notin saved' =>
                          seen'[e] = Version(Target[e])'
  BY <1>0 DEF ConflictInv, HasLocking
<1>1. \A c \in Dispatch :
          /\ failure[c] # "conflict"
          /\ pc[c] = "handler" /\ c \notin saved => seen[c] = Version(Target[c])
  BY DEF ConflictInv
<1>2. failure'[d] # "conflict"
  <2>1. CASE SaveRejected(d)
    BY <1>1, <2>1 DEF SaveRejected, Raise, RejectionOf, Accepted, Accepts, IsStale
  <2>2. CASE ~SaveRejected(d)
    BY <1>1, <2>2 DEF Step, Pipeline, Handler, Bus, Interrupted, LookupHits, LookupMisses,
       Remember, RememberRaises, PassFailure, AcquireLock, ReleaseLock, Load, Save,
       HandlerReturns, Commit, CommitRejected, CommitRaises, RollBack, Raise, Staged
  <2> QED
    BY <2>1, <2>2
<1>3. CASE e # d
  <2>1. /\ failure'[e] = failure[e] /\ pc'[e] = pc[e] /\ saved \subseteq saved'
        /\ pc[e] # "inward" => seen'[e] = seen[e]
    BY <1>3, Forward
  <2>2. ASSUME pc'[e] = "handler", e \notin saved'
        PROVE  seen'[e] = Version(Target[e])'
    <3>1. seen'[e] = Version(Target[e])
      BY <1>1, <2>1, <2>2
    <3>2. UNCHANGED store \/ Appends(d)
      BY StoreSteps DEF Step, Appends
    <3>3. CASE UNCHANGED store
      BY <3>1, <3>3 DEF store, Version
    <3>4. CASE Appends(d)
      <4>1. pc[d] = "handler"
        BY <3>4, AppendStep
      <4>2. depth[d] = Len(pipeline) /\ depth[e] = Len(pipeline)
        BY <2>1, <2>2, <4>1
      <4>3. PICK n \in 1..Len(pipeline) : pipeline[n] = "locking"
        BY DEF HasLocking
      <4>4. n <= Len(pipeline)
        BY <4>3
      <4>5. Target[e] # Target[d]
        BY <1>3, <4>2, <4>3, <4>4, LockExcludes
      <4>6. Target[e] \in Aggregate
        BY DispatchAssumption
      <4> QED
        BY <3>1, <3>4, <4>5, <4>6, AppendStep DEF Version
    <3> QED
      BY <3>2, <3>3, <3>4
  <2> QED
    BY <1>1, <2>1, <2>2
<1>4. CASE e = d
  <2>1. CASE Load(d)
    BY <1>2, <1>4, <2>1 DEF Load, Version, store
  <2>2. CASE ~Load(d)
    <3>1. pc'[d] = "handler" => d \in saved'
      BY <2>2 DEF Step, Pipeline, Handler, Bus, Interrupted, LookupHits, LookupMisses,
         Remember, RememberRaises, PassFailure, AcquireLock, ReleaseLock, Save,
         SaveRejected, HandlerReturns, Commit, CommitRejected, CommitRaises, RollBack,
         Raise, Return, Enters, Leaves, LeftPipeline
    <3> QED
      BY <1>2, <1>4, <3>1
  <2> QED
    BY <2>1, <2>2
<1> QED
  BY <1>3, <1>4

\* With deferred saves only a dispatch that is done has stored something.
LEMMA StoredIsDone ==
  ASSUME DispatchInv, NEW e \in Dispatch, deferred, Stored(e)
  PROVE  pc[e] = "done" /\ depth[e] = 0
  BY DispatchAssumption DEF Stored, DispatchInv, StreamInv, PositionInv

LEMMA OnceStep ==
  ASSUME DispatchInv, NEW d \in Dispatch, Step(d) PROVE OnceInv'
<1> USE DEF DispatchInv, TypeOK
<1>0. UNCHANGED <<pipeline, deferred>>
  BY Forward DEF setup
<1> SUFFICES ASSUME deferred, LockedLookup
             PROVE  /\ \A e \in Dispatch : depth'[e] = 2 => cache'[Id[e]] = NoDispatch
                    /\ \A e \in Dispatch : Lasting(e)' => cache'[Id[e]] # NoDispatch
                    /\ \A e, f \in Dispatch :
                          Lasting(e)' /\ Lasting(f)' /\ Id[e] = Id[f] => e = f
  BY <1>0 DEF OnceInv, LockedLookup
<1>1. /\ Len(pipeline) = 2
      /\ pipeline[1] = "locking" /\ pipeline[2] = "idempotency"
      /\ \A c \in Dispatch : depth[c] \in 0..2
  BY DEF LockedLookup
<1>2. /\ \A e \in Dispatch : depth[e] = 2 => cache[Id[e]] = NoDispatch
      /\ \A e \in Dispatch : Lasting(e) => cache[Id[e]] # NoDispatch
      /\ \A e, f \in Dispatch : Lasting(e) /\ Lasting(f) /\ Id[e] = Id[f] => e = f
  BY DEF OnceInv
<1>3. \A e \in Dispatch : Id[e] \in CommandId
  BY DispatchAssumption
<1> DEFINE Sets == (Remember(d) \/ RememberRaises(d)) /\ cache' # cache
<1>4. /\ Remember(d) \/ RememberRaises(d) =>
            /\ depth[d] = 2 /\ depth'[d] = 1
            /\ failure[d] = "none" /\ pc[d] = "outward"
      /\ ~Sets => cache' = cache
      /\ Sets => cache' = [cache EXCEPT ![Id[d]] = result[d]] /\ result[d] \in Dispatch
  <2>1. Remember(d) \/ RememberRaises(d) =>
            /\ depth[d] = 2 /\ depth'[d] = 1
            /\ failure[d] = "none" /\ pc[d] = "outward"
    BY <1>1 DEF Remember, RememberRaises, Leaves, Behavior, Outer
  <2>2. ~Remember(d) /\ ~RememberRaises(d) => cache' = cache
    BY DEF Step, Pipeline, Handler, Bus, Interrupted, LookupHits, LookupMisses,
       PassFailure, AcquireLock, ReleaseLock, Load, Save, SaveRejected, HandlerReturns,
       Commit, CommitRejected, CommitRaises, RollBack
  <2>3. Sets => cache' = [cache EXCEPT ![Id[d]] = result[d]]
    BY DEF Remember, RememberRaises
  <2>4. pc[d] = "outward" /\ failure[d] = "none" => result[d] \in Dispatch
    BY DEF ResultInv
  <2> QED
    BY <2>1, <2>2, <2>3, <2>4
<1>5. \A i \in CommandId : cache[i] # NoDispatch => cache'[i] # NoDispatch
  BY <1>3, <1>4, DispatchAssumption
<1>6. ASSUME NEW e \in Dispatch, depth'[e] = 2 PROVE cache'[Id[e]] = NoDispatch
  <2>1. CASE e = d
    <3>1. ~Sets
      BY <1>4, <1>6, <2>1
    <3>2. CASE depth[d] = 2
      BY <1>2, <1>4, <2>1, <3>1, <3>2
    <3>3. CASE depth[d] # 2
      <4>1. LookupMisses(d) \/ AcquireLock(d)
        BY <1>1, <1>6, <2>1, <3>3 DEF Step, Pipeline, Handler, Bus, Interrupted,
           LookupHits, Remember, RememberRaises, PassFailure, ReleaseLock, Load, Save,
           SaveRejected, HandlerReturns, Commit, CommitRejected, CommitRaises, RollBack, Outer
      <4>2. depth[d] = 1
        BY <1>1, <1>6, <2>1, <4>1 DEF LookupMisses, AcquireLock, Deeper
      <4>3. LookupMisses(d)
        BY <1>1, <4>1, <4>2 DEF AcquireLock, Enters, Behavior
      <4> QED
        BY <2>1, <4>3 DEF LookupMisses
    <3> QED
      BY <3>2, <3>3
  <2>2. CASE e # d
    <3>1. depth[e] = 2 /\ cache[Id[e]] = NoDispatch
      BY <1>2, <1>6, <2>2, Forward
    <3>2. CASE Id[e] = Id[d] /\ Sets
      <4>1. Target[e] = Target[d]
        BY <3>2, DispatchAssumption
      <4>2. depth[d] = 2
        BY <1>4, <3>2
      <4> QED
        BY <1>1, <2>2, <3>1, <4>1, <4>2, LockExcludes
    <3> QED
      BY <1>3, <1>4, <3>1, <3>2
  <2> QED
    BY <2>1, <2>2
<1>7. ASSUME NEW e \in Dispatch, Lasting(e)', ~Lasting(e) PROVE e = d /\ Remember(d)
  <2>1. CASE e # d
    BY <1>7, <2>1, Forward, StoredStep DEF Lasting
  <2>2. CASE e = d
    <3>1. d \in saved' /\ depth'[d] < 2 /\ (failure'[d] = "none" \/ Stored(d)')
      BY <1>7, <2>2 DEF Lasting
    <3>2. d \in saved
      <4>1. ~Save(d)
        BY <1>1, <3>1 DEF Save, PositionInv
      <4> QED
        BY <3>1, <4>1 DEF Step, Pipeline, Handler, Bus, Interrupted, LookupHits,
           LookupMisses, Remember, RememberRaises, PassFailure, AcquireLock, ReleaseLock,
           Load, SaveRejected, HandlerReturns, Commit, CommitRejected, CommitRaises, RollBack
    <3>3. CASE depth[d] < 2
      <4>1. failure[d] # "none" /\ ~Stored(d)
        BY <1>7, <2>2, <3>2, <3>3 DEF Lasting
      <4> QED
        BY <3>1, <4>1, Forward, StoredStep, AppendStep
    <3>4. CASE depth[d] = 2
      <4>1. ~Stored(d)
        BY <3>4, StoredIsDone
      <4>2. ~Stored(d)'
        BY <3>4, <4>1, StoredStep, AppendStep
      <4>3. failure'[d] = "none" /\ failure[d] = "none"
        BY <3>1, <4>2, Forward
      <4>4. Remember(d) \/ PassFailure(d) \/ RememberRaises(d) \/ ReleaseLock(d)
        BY <1>1, <3>1, <3>4 DEF Step, Pipeline, Handler, Bus, Interrupted, LookupHits,
           LookupMisses, AcquireLock, Load, Save, SaveRejected, HandlerReturns,
           Commit, CommitRejected, CommitRaises, RollBack, Deeper
      <4>5. ~ReleaseLock(d)
        BY <1>1, <3>4 DEF ReleaseLock, Leaves, Behavior
      <4>6. ~PassFailure(d) /\ ~RememberRaises(d)
        BY <4>3 DEF PassFailure, RememberRaises
      <4> QED
        BY <2>2, <4>4, <4>5, <4>6
    <3> QED
      BY <1>1, <3>3, <3>4
  <2> QED
    BY <2>1, <2>2
<1>8. Remember(d) => cache[Id[d]] = NoDispatch /\ cache'[Id[d]] # NoDispatch
  <2> SUFFICES ASSUME Remember(d) PROVE cache[Id[d]] = NoDispatch /\ cache'[Id[d]] # NoDispatch
    OBVIOUS
  <2>1. cache[Id[d]] = NoDispatch
    BY <1>2, <1>4
  <2>2. result[d] \in Dispatch
    BY <1>4 DEF ResultInv
  <2>3. cache'[Id[d]] = result[d]
    BY <1>3 DEF Remember
  <2> QED
    BY <2>1, <2>2, <2>3, DispatchAssumption
<1>9. ASSUME NEW e \in Dispatch, Lasting(e)' PROVE cache'[Id[e]] # NoDispatch
  BY <1>2, <1>3, <1>5, <1>7, <1>8, <1>9
<1>10. ASSUME NEW e \in Dispatch, NEW f \in Dispatch, Lasting(e)', Lasting(f)', Id[e] = Id[f]
       PROVE  e = f
  BY <1>2, <1>7, <1>8, <1>10
<1> QED
  BY <1>6, <1>9, <1>10

LEMMA DistinctStep ==
  ASSUME DispatchInv, NEW d \in Dispatch, Step(d) PROVE DistinctInv'
<1>0. identified' = identified
  BY Forward DEF setup
<1> SUFFICES ASSUME identified, NEW a \in Aggregate,
                    NEW m \in DOMAIN stream'[a], NEW n \in DOMAIN stream'[a],
                    Id[stream'[a][m]] = Id[stream'[a][n]]
             PROVE  m = n
  BY <1>0 DEF DistinctInv, DistinctIds
<1>1. \A i, j \in DOMAIN stream[a] : Id[stream[a][i]] = Id[stream[a][j]] => i = j
  BY DEF DispatchInv, DistinctInv, DistinctIds
<1>2. CASE stream'[a] = stream[a]
  BY <1>1, <1>2
<1>3. CASE Appends(d) /\ a = Target[d]
  <2> DEFINE new == Len(stream[a]) + 1
  <2>1. /\ \A i \in DOMAIN stream[a] : stream'[a][i] = stream[a][i]
        /\ stream'[a][new] = d
        /\ Len(stream[a]) \in Nat
        /\ DOMAIN stream[a] = 1..Len(stream[a]) /\ DOMAIN stream'[a] = 1..new
    BY <1>3, AppendStep
  <2>2. \A i \in DOMAIN stream'[a] : i = new \/ i \in DOMAIN stream[a]
    BY <2>1
  <2>3. \A i \in DOMAIN stream[a] : Id[stream[a][i]] # Id[d]
    <3>1. IdPassed(d) = Id[d] /\ IdPassed(d) \notin processed[a]
      BY <1>3, AppendStep DEF IdPassed
    <3>2. processed[a] = {Id[stream[a][i]] : i \in DOMAIN stream[a]}
      BY DEF DispatchInv, IdUsedOnlyByStoredEvents
    <3> QED
      BY <3>1, <3>2
  <2> HIDE DEF new
  <2> QED
    BY <1>1, <2>1, <2>2, <2>3
<1>4. CASE UNCHANGED store \/ (Appends(d) /\ a # Target[d])
  BY <1>2, <1>4, AppendStep DEF store
<1>5. UNCHANGED store \/ Appends(d)
  BY StoreSteps DEF DispatchInv, Step, Appends
<1> QED
  BY <1>3, <1>4, <1>5

LEMMA DispatchInvStep == DispatchInv /\ [Next]_vars => DispatchInv'
<1> SUFFICES ASSUME DispatchInv, [Next]_vars PROVE DispatchInv'
  OBVIOUS
<1>1. TypeOK'
  BY TypeStep DEF DispatchInv
<1>2. ASSUME NEW d \in Dispatch, Step(d) PROVE DispatchInv'
  BY <1>1, <1>2, PositionStep, LockStep, StreamStep, IdStep, SavedStep, ResultStep,
     ConflictStep, OnceStep, DistinctStep DEF DispatchInv
<1>3. CASE UNCHANGED vars
  <2>1. UNCHANGED <<pipeline, deferred, identified, stream, processed, pc, depth, seen,
                    saved, result, failure, cache, holder>>
    BY <1>3 DEF vars, setup, store
  <2>2. \A d \in Dispatch : (Stored(d) <=> Stored(d)') /\ (Succeeded(d) <=> Succeeded(d)')
    BY <2>1 DEF Stored, Succeeded
  <2>3. \A d \in Dispatch : Lasting(d) <=> Lasting(d)'
    BY <2>1, <2>2 DEF Lasting
  <2>4. PositionInv' /\ LockInv' /\ ResultInv'
    BY <2>1 DEF DispatchInv, PositionInv, LockInv, ResultInv
  <2>8. StreamInv' /\ DistinctInv'
    BY <2>1 DEF DispatchInv, StreamInv, DistinctInv, DistinctIds
  <2>9. IdUsedOnlyByStoredEvents'
    <3> SUFFICES ASSUME NEW a \in Aggregate
                 PROVE  processed'[a] = IF identified'
                                        THEN {Id[stream'[a][n]] : n \in DOMAIN stream'[a]}
                                        ELSE {}
      BY DEF IdUsedOnlyByStoredEvents
    <3>1. {Id[stream'[a][n]] : n \in DOMAIN stream'[a]} = {Id[stream[a][n]] : n \in DOMAIN stream[a]}
      BY <2>1
    <3> QED
      BY <2>1, <3>1 DEF DispatchInv, IdUsedOnlyByStoredEvents
  <2>5. SavedInv'
    BY <2>1, <2>2 DEF DispatchInv, TypeOK, SavedInv
  <2>6. ConflictInv'
    BY <2>1 DEF DispatchInv, ConflictInv, HasLocking, Version
  <2>7. OnceInv'
    <3> HIDE DEF Lasting
    <3>1. OnceInv
      BY DEF DispatchInv
    <3>2. LockedLookup' <=> LockedLookup
      BY <2>1 DEF LockedLookup
    <3> QED
      BY <2>1, <2>3, <3>1, <3>2 DEF OnceInv
  <2> QED
    BY <1>1, <2>4, <2>5, <2>6, <2>7, <2>8, <2>9 DEF DispatchInv
<1> QED
  BY <1>2, <1>3 DEF Next, Step

LEMMA DispatchInvariant == Spec => []DispatchInv
  BY DispatchInvInit, DispatchInvStep, PTL DEF Spec

-----------------------------------------------------------------------------
(* What the invariant gives.                                                  *)

\* No update is lost, with any pipeline and whether or not saves wait for the
\* commit (the version check of append_to_stream).
THEOREM UpdatesAreKept == Spec => []NoLostUpdate
<1>1. DispatchInv => NoLostUpdate
  BY DEF DispatchInv, StreamInv, NoLostUpdate
<1> QED
  BY <1>1, DispatchInvariant, PTL

\* A command id is used up by stored events only (the order of the checks and
\* of the record in append_to_stream).
THEOREM RejectedIdsStayUsable == Spec => []IdUsedOnlyByStoredEvents
<1>1. DispatchInv => IdUsedOnlyByStoredEvents
  BY DEF DispatchInv
<1> QED
  BY <1>1, DispatchInvariant, PTL

\* A command takes effect at most once when save() gets its id, or when the
\* lookup runs under the lock and saves wait for the commit.
THEOREM EffectsAreUnique == Spec => []OneEffectPerId
<1>1. DispatchInv => OneEffectPerId
  <2> SUFFICES ASSUME DispatchInv PROVE OneEffectPerId
    OBVIOUS
  <2>1. CASE identified
    BY <2>1 DEF DispatchInv, DistinctInv, DistinctIds, OneEffectPerId
  <2>2. ASSUME deferred, LockedLookup, NEW a \in Aggregate,
               NEW m \in DOMAIN stream[a], NEW n \in DOMAIN stream[a],
               Id[stream[a][m]] = Id[stream[a][n]]
        PROVE  m = n
    <3> DEFINE e == stream[a][m]
               f == stream[a][n]
    <3>1. /\ e \in Dispatch /\ Target[e] = a /\ e \in saved /\ seen[e] = m - 1
          /\ f \in Dispatch /\ Target[f] = a /\ f \in saved /\ seen[f] = n - 1
      BY DEF DispatchInv, TypeOK, StoreTypeOK, StreamInv
    <3>2. Stored(e) /\ Stored(f)
      BY <3>1 DEF Stored
    <3>3. depth[e] = 0 /\ depth[f] = 0
      BY <2>2, <3>1, <3>2, StoredIsDone
    <3>4. Lasting(e) /\ Lasting(f)
      BY <3>1, <3>2, <3>3 DEF Lasting
    <3>5. e = f
      BY <2>2, <3>1, <3>4 DEF DispatchInv, OnceInv
    <3>6. m \in Nat /\ n \in Nat
      BY DEF DispatchInv, TypeOK, StoreTypeOK
    <3> HIDE DEF e, f
    <3> QED
      BY <3>1, <3>5, <3>6
  <2> QED
    BY <2>1, <2>2 DEF OneEffectPerId
<1> QED
  BY <1>1, DispatchInvariant, PTL

\* A success is backed by stored events of its command, except where the result
\* came from a dispatch that did not commit (idempotency before the commit).
THEOREM SuccessesAreBacked == Spec => []SuccessAccountedFor
<1>1. DispatchInv => SuccessAccountedFor
  BY DEF DispatchInv, SavedInv, ResultInv, SuccessAccountedFor, Succeeded
<1> QED
  BY <1>1, DispatchInvariant, PTL

\* Under the lock no handler meets a version conflict when saves take effect at
\* once (AggregateLockingBehavior around the handler).
THEOREM LocksSerialiseHandlers == Spec => []LockingPreventsConflicts
<1>1. DispatchInv => LockingPreventsConflicts
  <2> SUFFICES ASSUME DispatchInv, NEW n \in DOMAIN pipeline, pipeline[n] = "locking",
                      ~deferred, NEW d \in Dispatch
               PROVE  failure[d] # "conflict"
    BY DEF LockingPreventsConflicts
  <2>1. n \in 1..Len(pipeline)
    BY PipelineFacts DEF DispatchInv, TypeOK
  <2> QED
    BY <2>1 DEF DispatchInv, ConflictInv, HasLocking
<1> QED
  BY <1>1, DispatchInvariant, PTL
================================================================================
