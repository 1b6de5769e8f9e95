-------------------------- MODULE QueueResolverProofs --------------------------
(***************************************************************************)
(* Proofs about QueueResolver, for any messages, queues and event classes  *)
(* such that no queue publishes what another one awaits (SeparateEvents).  *)
(***************************************************************************)
EXTENDS QueueResolver, TLAPS

(* A callback belongs to one message, and is one the resolver made for it.  *)
LEMMA CallbackOwner ==
  ASSUME NEW j \in Jobs, NEW cb \in CallbacksOf(j)
  PROVE  cb.job = j /\ cb \in Callback
  BY DEF CallbacksOf

(* When an event is emitted, a running execution's resolving callback is    *)
(* called just if its listener resolves on the class; likewise rejecting.   *)
LEMMA CallbackCalled ==
  ASSUME TypeOK, NoCallbackLeft,
         NEW k \in Jobs, pc[k] = "executing", NEW e \in Events
  PROVE  /\ [job |-> k, kind |-> "resolve", event |-> e] \in callbacks <=> e \in Awaits(k)
         /\ [job |-> k, kind |-> "reject", event |-> e] \in callbacks <=> e \in Refuses(k)
<1> DEFINE cb(kind) == [job |-> k, kind |-> kind, event |-> e]
<1>1. ASSUME NEW kind \in {"resolve", "reject"}
      PROVE  cb(kind) \in callbacks <=> cb(kind) \in CallbacksOf(k)
  <2>1. cb(kind).job = k
    OBVIOUS
  <2>2. ASSUME NEW j \in Jobs, cb(kind) \in CallbacksOf(j) PROVE j = k
    BY <2>1, <2>2, CallbackOwner
  <2> QED
    BY <2>2 DEF NoCallbackLeft
<1>2. cb("resolve") \in CallbacksOf(k) <=> e \in Awaits(k)
  BY DEF CallbacksOf, Callback, Awaits
<1>3. cb("reject") \in CallbacksOf(k) <=> e \in Refuses(k)
  BY DEF CallbacksOf, Callback, Refuses
<1> QED
  BY <1>1, <1>2, <1>3

(* What an execution publishes is awaited by a running message only if it   *)
(* is that message's own.                                                   *)
LEMMA OnlyOwnEvents ==
  ASSUME TypeOK, OneAtATime,
         NEW j \in Jobs, NEW k \in Jobs, pc[j] = "executing", pc[k] = "executing",
         j # k, NEW e \in Emits[QueueOf[j]]
  PROVE  e \notin Awaits(k) \cup Refuses(k)
<1>1. QueueOf[j] # QueueOf[k] /\ QueueOf[j] \in Queues /\ QueueOf[k] \in Queues
  BY ConstantsAssumption DEF OneAtATime
<1> QED
  BY <1>1, SeparateEvents DEF Awaits, Refuses

(* The variables keep their types.                                          *)
LEMMA TypeStep == TypeOK /\ [Next]_vars => TypeOK'
<1> SUFFICES ASSUME TypeOK, [Next]_vars PROVE TypeOK'
  OBVIOUS
<1> USE ConstantsAssumption DEF TypeOK, flags
<1>1. ASSUME NEW j \in Jobs, Resolve(j) PROVE TypeOK'
  BY <1>1 DEF Resolve, CallbacksOf
<1>2. ASSUME NEW j \in Jobs, Ignore(j) PROVE TypeOK'
  BY <1>2 DEF Ignore
<1>3. ASSUME NEW j \in Jobs, NEW e \in Events, Publish(j, e) PROVE TypeOK'
  BY <1>3 DEF Publish
<1>4. ASSUME NEW j \in Jobs, ExecuteDone(j) \/ ExecuteError(j) PROVE TypeOK'
  BY <1>4 DEF ExecuteDone, ExecuteError
<1>5. ASSUME NEW j \in Jobs, DeadLetterDone(j) \/ DeadLetterError(j) PROVE TypeOK'
  BY <1>5 DEF DeadLetterDone, DeadLetterError
<1>6. ASSUME NEW j \in Jobs, Redeliver(j) PROVE TypeOK'
  BY <1>6 DEF Redeliver
<1>7. CASE UNCHANGED vars
  BY <1>7 DEF vars
<1> HIDE DEF TypeOK, flags
<1> QED
  BY <1>1, <1>2, <1>3, <1>4, <1>5, <1>6, <1>7 DEF Next

(* The callbacks on the emitter stay those of the running executions.       *)
LEMMA CallbacksStep == TypeOK /\ NoCallbackLeft /\ [Next]_vars => NoCallbackLeft'
<1> DEFINE Running == {k \in Jobs : pc[k] = "executing"}
<1> SUFFICES ASSUME TypeOK, NoCallbackLeft, [Next]_vars PROVE NoCallbackLeft'
  OBVIOUS
<1>1. callbacks = UNION {CallbacksOf(j) : j \in Running}
  BY DEF NoCallbackLeft
<1>2. CASE UNCHANGED callbacks /\ Running' = Running
  BY <1>1, <1>2 DEF NoCallbackLeft
<1>3. ASSUME NEW j \in Jobs, Resolve(j) PROVE NoCallbackLeft'
  <2>1. callbacks' = callbacks \cup CallbacksOf(j) /\ Running' = Running \cup {j}
    BY <1>3 DEF Resolve, TypeOK
  <2> QED
    BY <1>1, <2>1 DEF NoCallbackLeft
<1>4. ASSUME NEW j \in Jobs, ExecuteDone(j) \/ ExecuteError(j) PROVE NoCallbackLeft'
  <2>1. callbacks' = callbacks \ CallbacksOf(j) /\ Running' = Running \ {j}
    BY <1>4 DEF ExecuteDone, ExecuteError, TypeOK
  <2>2. ASSUME NEW k \in Running \ {j} PROVE CallbacksOf(k) \cap CallbacksOf(j) = {}
    BY CallbackOwner
  <2> QED
    BY <1>1, <2>1, <2>2 DEF NoCallbackLeft
<1>5. ASSUME NEW j \in Jobs,
             \/ Ignore(j) \/ DeadLetterDone(j) \/ DeadLetterError(j) \/ Redeliver(j)
      PROVE  UNCHANGED callbacks /\ Running' = Running
  BY <1>5 DEF Ignore, MyTurn, DeadLetterDone, DeadLetterError, Redeliver, TypeOK
<1>6. ASSUME NEW j \in Jobs, NEW e \in Events, Publish(j, e)
      PROVE  UNCHANGED callbacks /\ Running' = Running
  BY <1>6 DEF Publish
<1>7. CASE UNCHANGED vars
  BY <1>2, <1>7 DEF vars
<1> QED
  BY <1>2, <1>3, <1>4, <1>5, <1>6, <1>7 DEF Next

(* A queue's executions stay sequential, of valid messages, and publish     *)
(* only the queue's classes.                                                *)
LEMMA SequentialStep ==
  TypeOK /\ OneAtATime /\ EmitsOwn /\ PathInv /\ [Next]_vars
    => OneAtATime' /\ EmitsOwn' /\ PathInv'
<1> SUFFICES ASSUME TypeOK, OneAtATime, EmitsOwn, PathInv, [Next]_vars
             PROVE  OneAtATime' /\ EmitsOwn' /\ PathInv'
  OBVIOUS
<1> USE DEF TypeOK, OneAtATime, EmitsOwn, PathInv
<1>1. ASSUME NEW j \in Jobs, Resolve(j)
      PROVE  OneAtATime' /\ EmitsOwn' /\ PathInv'
  <2>1. ASSUME NEW k \in Jobs, pc'[k] = "executing", k # j, QueueOf[k] = QueueOf[j]
        PROVE  FALSE
    BY <1>1, <2>1 DEF Resolve, MyTurn
  <2>2. ASSUME NEW k \in Jobs, pc'[k] = "executing"
        PROVE  k = j \/ pc[k] = "executing"
    BY <1>1, <2>2 DEF Resolve
  <2>3. OneAtATime'
    BY <2>1, <2>2
  <2>4. EmitsOwn' /\ PathInv'
    BY <1>1 DEF Resolve, MyTurn
  <2> QED
    BY <2>3, <2>4
<1>2. ASSUME NEW j \in Jobs, NEW e \in Events, Publish(j, e)
      PROVE  OneAtATime' /\ EmitsOwn' /\ PathInv'
  BY <1>2 DEF Publish
<1>3. ASSUME NEW j \in Jobs,
             \/ Ignore(j) \/ ExecuteDone(j) \/ ExecuteError(j)
             \/ DeadLetterDone(j) \/ DeadLetterError(j) \/ Redeliver(j)
      PROVE  OneAtATime' /\ EmitsOwn' /\ PathInv'
  BY <1>3 DEF Ignore, ExecuteDone, ExecuteError, DeadLetterDone,
              DeadLetterError, Redeliver
<1>4. CASE UNCHANGED vars
  BY <1>4 DEF vars
<1> HIDE DEF TypeOK, OneAtATime, EmitsOwn, PathInv
<1> QED
  BY <1>1, <1>2, <1>3, <1>4 DEF Next

(* The flags keep telling what the execution itself has published.          *)
LEMMA FlagsStep ==
  TypeOK /\ NoCallbackLeft /\ OneAtATime /\ EmitsOwn /\ FlagsAreOwn
    /\ [Next]_vars => FlagsAreOwn'
<1> SUFFICES ASSUME TypeOK, NoCallbackLeft, OneAtATime, EmitsOwn, FlagsAreOwn,
                    [Next]_vars, NEW k \in Jobs, pc'[k] = "executing"
             PROVE  /\ resolved'[k] <=> emitted'[k] \cap Awaits(k) # {}
                    /\ rejected'[k] <=> emitted'[k] \cap Refuses(k) # {}
  BY DEF FlagsAreOwn
<1> DEFINE Goal == /\ resolved'[k] <=> emitted'[k] \cap Awaits(k) # {}
                   /\ rejected'[k] <=> emitted'[k] \cap Refuses(k) # {}
<1>1. ASSUME NEW j \in Jobs, Resolve(j) PROVE Goal
  <2>1. CASE k = j
    BY <1>1, <2>1 DEF Resolve, TypeOK
  <2>2. CASE k # j
    BY <1>1, <2>2 DEF Resolve, TypeOK, FlagsAreOwn
  <2> QED
    BY <2>1, <2>2
<1>2. ASSUME NEW j \in Jobs, NEW e \in Events, Publish(j, e) PROVE Goal
  <2>1. pc[j] = "executing" /\ pc[k] = "executing" /\ e \in Emits[QueueOf[j]]
    BY <1>2 DEF Publish
  <2>2. /\ resolved'[k] <=> resolved[k] \/ e \in Awaits(k)
        /\ rejected'[k] <=> rejected[k] \/ e \in Refuses(k)
    BY <1>2, <2>1, CallbackCalled DEF Publish
  <2>3. CASE k = j
    <3>1. emitted'[k] = emitted[k] \cup {e}
      BY <1>2, <2>3 DEF Publish, TypeOK
    <3> QED
      BY <2>1, <2>2, <3>1 DEF FlagsAreOwn
  <2>4. CASE k # j
    <3>1. emitted'[k] = emitted[k]
      BY <1>2, <2>4 DEF Publish, TypeOK
    <3>2. e \notin Awaits(k) \cup Refuses(k)
      BY <2>1, <2>4, OnlyOwnEvents
    <3> QED
      BY <2>1, <2>2, <3>1, <3>2 DEF FlagsAreOwn
  <2> QED
    BY <2>3, <2>4
<1>3. ASSUME NEW j \in Jobs,
             \/ Ignore(j) \/ ExecuteDone(j) \/ ExecuteError(j)
             \/ DeadLetterDone(j) \/ DeadLetterError(j) \/ Redeliver(j)
      PROVE  Goal
  <2>1. pc[k] = "executing" /\ UNCHANGED <<resolved, rejected, emitted>>
    BY <1>3 DEF Ignore, ExecuteDone, ExecuteError, DeadLetterDone,
                DeadLetterError, Redeliver, TypeOK, flags
  <2> QED
    BY <2>1 DEF FlagsAreOwn
<1>4. CASE UNCHANGED vars
  BY <1>4 DEF vars, flags, FlagsAreOwn
<1> QED
  BY <1>1, <1>2, <1>3, <1>4 DEF Next

(* The verdict is taken from those flags, and stays.                        *)
LEMMA VerdictStep ==
  TypeOK /\ FlagsAreOwn /\ PathInv /\ OwnVerdict /\ [Next]_vars => OwnVerdict'
<1> SUFFICES ASSUME TypeOK, FlagsAreOwn, PathInv, OwnVerdict, [Next]_vars,
                    NEW k \in Jobs, pc'[k] = "succeeded", valid'[k]
             PROVE  /\ emitted'[k] \cap Awaits(k) # {}
                    /\ emitted'[k] \cap Refuses(k) = {}
  BY DEF OwnVerdict
<1> DEFINE Goal == /\ emitted'[k] \cap Awaits(k) # {}
                   /\ emitted'[k] \cap Refuses(k) = {}
<1>1. CASE pc[k] = "succeeded" /\ valid[k] /\ emitted'[k] = emitted[k]
  BY <1>1 DEF OwnVerdict
<1>2. ASSUME NEW j \in Jobs, Resolve(j) PROVE Goal
  BY <1>1, <1>2 DEF Resolve, TypeOK
<1>3. ASSUME NEW j \in Jobs, NEW e \in Events, Publish(j, e) PROVE Goal
  BY <1>1, <1>3 DEF Publish, TypeOK
<1>4. ASSUME NEW j \in Jobs, ExecuteDone(j) PROVE Goal
  <2>1. CASE k = j
    BY <1>4, <2>1 DEF ExecuteDone, TypeOK, FlagsAreOwn
  <2>2. CASE k # j
    BY <1>1, <1>4, <2>2 DEF ExecuteDone, TypeOK
  <2> QED
    BY <2>1, <2>2
<1>5. ASSUME NEW j \in Jobs, ExecuteError(j) \/ Redeliver(j) \/ DeadLetterError(j)
      PROVE  Goal
  BY <1>1, <1>5 DEF ExecuteError, Redeliver, DeadLetterError, TypeOK
<1>6. ASSUME NEW j \in Jobs, Ignore(j) PROVE Goal
  BY <1>1, <1>6 DEF Ignore, TypeOK
<1>7. ASSUME NEW j \in Jobs, DeadLetterDone(j) PROVE Goal
  BY <1>1, <1>7 DEF DeadLetterDone, TypeOK, PathInv
<1>8. CASE UNCHANGED vars
  BY <1>1, <1>8 DEF vars
<1> QED
  BY <1>2, <1>3, <1>4, <1>5, <1>6, <1>7, <1>8 DEF Next

(* The dead letter queue has what was dropped for it, and nothing else.     *)
LEMMA DeadLettersStep ==
  TypeOK /\ PathInv /\ DeadLettersExact /\ [Next]_vars => DeadLettersExact'
<1> SUFFICES ASSUME TypeOK, PathInv, DeadLettersExact, [Next]_vars
             PROVE  DeadLettersExact'
  OBVIOUS
<1> USE DEF TypeOK, DeadLettersExact
<1>1. ASSUME NEW j \in Jobs, Ignore(j) PROVE DeadLettersExact'
  BY <1>1 DEF Ignore
<1>2. ASSUME NEW j \in Jobs, DeadLetterDone(j) \/ DeadLetterError(j)
      PROVE  DeadLettersExact'
  BY <1>2 DEF DeadLetterDone, DeadLetterError, PathInv
<1>3. ASSUME NEW j \in Jobs,
             \/ Resolve(j) \/ ExecuteDone(j) \/ ExecuteError(j) \/ Redeliver(j)
      PROVE  DeadLettersExact'
  BY <1>3 DEF Resolve, ExecuteDone, ExecuteError, Redeliver, PathInv
<1>4. ASSUME NEW j \in Jobs, NEW e \in Events, Publish(j, e)
      PROVE  DeadLettersExact'
  BY <1>4 DEF Publish
<1>5. CASE UNCHANGED vars
  BY <1>5 DEF vars
<1> HIDE DEF TypeOK, DeadLettersExact
<1> QED
  BY <1>1, <1>2, <1>3, <1>4, <1>5 DEF Next

(* Nothing is running at first, and nothing has been published.            *)
LEMMA IInvInit == Init => IInv
<1> SUFFICES ASSUME Init PROVE IInv
  OBVIOUS
<1>1. TypeOK /\ DeadLettersExact
  BY ConstantsAssumption DEF Init, TypeOK, DeadLettersExact
<1>2. FlagsAreOwn /\ OneAtATime /\ EmitsOwn /\ PathInv /\ OwnVerdict
  BY DEF Init, FlagsAreOwn, OneAtATime, EmitsOwn, PathInv, OwnVerdict
<1>3. {k \in Jobs : pc[k] = "executing"} = {}
  BY DEF Init
<1>4. NoCallbackLeft
  BY <1>3 DEF Init, NoCallbackLeft
<1> QED
  BY <1>1, <1>2, <1>4 DEF IInv

(* Every step keeps the invariant: the lemmas above, together.              *)
LEMMA IInvStep == IInv /\ [Next]_vars => IInv'
  BY TypeStep, CallbacksStep, SequentialStep, FlagsStep, VerdictStep,
     DeadLettersStep
  DEF IInv

(* The invariant that the theorems below rest on.                           *)
THEOREM Invariance == Spec => []IInv
  BY IInvInit, IInvStep, PTL DEF Spec

(* Whatever runs beside it, a message is judged by its own execution.       *)
THEOREM VerdictIsOwn == Spec => []OwnVerdict
<1>1. IInv => OwnVerdict
  BY DEF IInv
<1> QED
  BY <1>1, Invariance, PTL

(* No callback stays on the shared emitter.                                 *)
THEOREM NoLeak == Spec => []NoCallbackLeft
<1>1. IInv => NoCallbackLeft
  BY DEF IInv
<1> QED
  BY <1>1, Invariance, PTL

(* An invalid message is dropped only into the dead letter queue, where     *)
(* there is one.                                                            *)
THEOREM DeadLetters == Spec => []DeadLettersExact
<1>1. IInv => DeadLettersExact
  BY DEF IInv
<1> QED
  BY <1>1, Invariance, PTL
================================================================================
