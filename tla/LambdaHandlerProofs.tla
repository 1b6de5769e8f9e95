-------------------------- MODULE LambdaHandlerProofs --------------------------
(***************************************************************************)
(* Proofs about LambdaHandler, for any commands, poison, environments and  *)
(* bounds, and any batch size where none is assumed.                       *)
(***************************************************************************)
EXTENDS LambdaHandler, FiniteSetTheorems, TLAPS

(* The ways an invocation ends; the first two fulfil.                       *)
Over(e) ==
  \/ RedirectToDocs(e) \/ ExecuteDone(e) \/ Created(e)
  \/ Refuse(e) \/ Serve(e) \/ StartError(e) \/ ExecuteError(e) \/ Kill(e)

(* The steps that leave requests and invocations as they are, and the queue *)
(* too, but for a send that starts.                                         *)
Inside(e) ==
  GetServer(e) \/ Started(e) \/ Route(e) \/ StoreApplied(e) \/ StoreDone(e)

Invocation(e) ==
  \/ InvokeHttp(e) \/ \E c \in Commands : InvokeCreate(e, c)
  \/ \E S \in SUBSET Messages : InvokeSqs(e, S)

LEMMA NextCases ==
  ASSUME [Next]_vars
  PROVE  \/ UNCHANGED vars
         \/ \E c \in Commands : SQSAccepts(c)
         \/ \E e \in Environments : Invocation(e) \/ Inside(e) \/ Over(e)
BY DEF Next, HandlerStep, Over, Inside, Invocation

(* What an end does: it may only delete what was executed or served.        *)
LEMMA OverEffect ==
  ASSUME NEW e \in Environments, Over(e)
  PROVE  \E requestIs \in {"created", "error"}, messageIs \in {"deleted", "visible"} :
           /\ Finish(e, requestIs, messageIs)
           /\ UNCHANGED <<effects, trigger>>
           /\ requestIs = "created" => Created(e)
           /\ messageIs = "deleted" =>
                \/ pc[e] = "routing" /\ trigger[e] = "docs"
                \/ pc[e] = "publishing"
                \/ pc[e] = "serving"
BY DEF Over, RedirectToDocs, ExecuteDone, Created, Refuse, Serve, StartError,
       ExecuteError, Kill, Fulfil, Reject, effects, invocation

(* Every variable keeps its type.                                           *)
LEMMA TypeStep == IInv /\ [Next]_vars => TypeOK'
<1> SUFFICES ASSUME IInv, [Next]_vars PROVE TypeOK'
  OBVIOUS
<1>a. TypeOK /\ OneApplication /\ ExecutionInv
  BY DEF IInv
<1> USE <1>a, ConstantsAssumption DEF effects, invocation, cache
<1>1. CASE UNCHANGED vars
  BY <1>1 DEF TypeOK, vars
<1>2. ASSUME NEW c \in Commands, SQSAccepts(c) PROVE TypeOK'
  BY <1>2 DEF TypeOK, SQSAccepts, Messages
<1>3. ASSUME NEW e \in Environments, Invocation(e) PROVE TypeOK'
  <2>1. CASE InvokeHttp(e)
    BY <2>1 DEF TypeOK, InvokeHttp, Invoke
  <2>2. ASSUME NEW c \in Commands, InvokeCreate(e, c) PROVE TypeOK'
    BY <2>2 DEF TypeOK, InvokeCreate, Invoke, Messages
  <2>3. ASSUME NEW S \in SUBSET Messages, InvokeSqs(e, S) PROVE TypeOK'
    BY <2>3 DEF TypeOK, InvokeSqs, Invoke
  <2> QED
    BY <1>3, <2>1, <2>2, <2>3 DEF Invocation
<1>4. ASSUME NEW e \in Environments, Inside(e) PROVE TypeOK'
  <2>1. CASE GetServer(e)
    BY <2>1 DEF TypeOK, GetServer, Executing
  <2>5. CASE Route(e)
    <3>1. queue' \in [Messages -> {"unsent", "sending", "visible", "inflight", "deleted"}]
      BY <2>5 DEF TypeOK, Route
    <3> QED
      BY <2>5, <3>1 DEF TypeOK, Route, Executing
  <2>2. CASE Started(e)
    BY <2>2 DEF TypeOK, Started, OneApplication
  <2>3. CASE StoreApplied(e)
    BY <2>3 DEF TypeOK, StoreApplied, Executing
  <2>4. CASE StoreDone(e)
    BY <2>4 DEF TypeOK, StoreDone, Executing, ExecutionInv
  <2> QED
    BY <1>4, <2>1, <2>2, <2>3, <2>4, <2>5 DEF Inside
<1>5. ASSUME NEW e \in Environments, Over(e) PROVE TypeOK'
  <2>1. /\ answer' \in [Commands -> {"none", "pending", "created", "error"}]
        /\ queue' \in [Messages -> {"unsent", "sending", "visible", "inflight", "deleted"}]
        /\ UNCHANGED <<stored, published, trigger>>
        /\ pc' = [pc EXCEPT ![e] = "idle"] /\ about' = [about EXCEPT ![e] = {}]
    BY <1>5, OverEffect DEF Finish, TypeOK
  <2>2. cachedApp' \in [Environments -> 0..1] /\ cachedServer' \in [Environments -> 0..1]
    BY <1>5
    DEF TypeOK, Over, RedirectToDocs, ExecuteDone, Created, Refuse, Serve,
        StartError, ExecuteError, Kill
  <2>3. faults' \in 0..MaxFaults
    BY <1>5
    DEF TypeOK, Over, RedirectToDocs, ExecuteDone, Created, Refuse, Serve,
        StartError, ExecuteError, Kill, Fault
  <2> QED
    BY <2>1, <2>2, <2>3 DEF TypeOK
<1> QED
  BY <1>1, <1>2, <1>3, <1>4, <1>5, NextCases

(* The server an environment keeps is that of its one application.          *)
LEMMA OneApplicationStep == IInv /\ [Next]_vars => OneApplication'
<1> SUFFICES ASSUME IInv, [Next]_vars PROVE OneApplication'
  OBVIOUS
<1>a. TypeOK /\ OneApplication
  BY DEF IInv
<1> USE <1>a DEF effects, invocation, cache, OneApplication, Executing
<1>1. CASE UNCHANGED vars
  BY <1>1 DEF vars
<1>2. ASSUME NEW c \in Commands, SQSAccepts(c) PROVE OneApplication'
  BY <1>2 DEF SQSAccepts
<1>3. ASSUME NEW e \in Environments, Invocation(e) PROVE OneApplication'
  <2>1. UNCHANGED cache /\ pc' = [pc EXCEPT ![e] = "getServer"]
    BY <1>3 DEF Invocation, InvokeHttp, InvokeCreate, InvokeSqs, Invoke
  <2> QED
    BY <2>1 DEF TypeOK
<1>4. ASSUME NEW e \in Environments, Inside(e) PROVE OneApplication'
  <2>1. CASE GetServer(e)
    BY <2>1 DEF GetServer, TypeOK
  <2>2. CASE Started(e)
    BY <2>2 DEF Started, TypeOK
  <2>3. CASE Route(e)
    BY <2>3 DEF Route, TypeOK
  <2>4. CASE StoreApplied(e) \/ StoreDone(e)
    BY <2>4 DEF StoreApplied, StoreDone, TypeOK
  <2> QED
    BY <1>4, <2>1, <2>2, <2>3, <2>4 DEF Inside
<1>5. ASSUME NEW e \in Environments, Over(e) PROVE OneApplication'
  <2>1. pc' = [pc EXCEPT ![e] = "idle"]
    BY <1>5, OverEffect DEF Finish
  <2>2. \/ UNCHANGED cache
        \/ /\ cachedApp' = [cachedApp EXCEPT ![e] = 0]
           /\ cachedServer' = [cachedServer EXCEPT ![e] = 0]
    BY <1>5
    DEF Over, RedirectToDocs, ExecuteDone, Created, Refuse, Serve, StartError,
        ExecuteError, Kill
  <2> QED
    BY <2>1, <2>2 DEF TypeOK
<1> QED
  BY <1>1, <1>2, <1>3, <1>4, <1>5, NextCases

(* No two environments come to hold the same message, or the same request.  *)
LEMMA HeldStep == IInv /\ [Next]_vars => HeldInv'
<1> SUFFICES ASSUME IInv, [Next]_vars PROVE HeldInv'
  OBVIOUS
<1>a. TypeOK /\ HeldInv
  BY DEF IInv
<1> USE <1>a DEF effects, invocation, cache
<1>1. CASE UNCHANGED vars
  BY <1>1 DEF vars, HeldInv
<1>2. ASSUME NEW c \in Commands, SQSAccepts(c) PROVE HeldInv'
  BY <1>2 DEF SQSAccepts, HeldInv, TypeOK, Messages
<1>3. ASSUME NEW e \in Environments, Invocation(e) PROVE HeldInv'
  <2>1. CASE InvokeHttp(e)
    BY <2>1 DEF InvokeHttp, Invoke, HeldInv, TypeOK
  <2>2. ASSUME NEW c \in Commands, InvokeCreate(e, c) PROVE HeldInv'
    BY <2>2 DEF InvokeCreate, Invoke, HeldInv, TypeOK
  <2>3. ASSUME NEW S \in SUBSET Messages, InvokeSqs(e, S) PROVE HeldInv'
    BY <2>3 DEF InvokeSqs, Invoke, HeldInv, TypeOK
  <2> QED
    BY <1>3, <2>1, <2>2, <2>3 DEF Invocation
<1>4. ASSUME NEW e \in Environments, Inside(e) PROVE HeldInv'
  <2>1. /\ UNCHANGED <<answer, invocation>>
        /\ \A m \in Messages : queue[m] = "inflight" => queue'[m] = "inflight"
    BY <1>4 DEF Inside, GetServer, Started, Route, StoreApplied, StoreDone
  <2>2. pc[e] # "idle" /\ \A f \in Environments : pc'[f] = "idle" => pc[f] = "idle"
    BY <1>4
    DEF Inside, GetServer, Started, Route, StoreApplied, StoreDone, TypeOK, Executing
  <2> QED
    BY <2>1, <2>2 DEF HeldInv, TypeOK
<1>5. ASSUME NEW e \in Environments, Over(e) PROVE HeldInv'
  BY <1>5, OverEffect DEF Finish, HeldInv, TypeOK, Messages
<1> QED
  BY <1>1, <1>2, <1>3, <1>4, <1>5, NextCases

(* What is executed stays one message, and its steps in their order.        *)
LEMMA ExecutionStep == IInv /\ [Next]_vars => ExecutionInv'
<1> SUFFICES ASSUME IInv, [Next]_vars PROVE ExecutionInv'
  OBVIOUS
<1>a. TypeOK /\ ExecutionInv
  BY DEF IInv
<1> USE <1>a DEF effects, invocation, cache
<1>1. CASE UNCHANGED vars
  BY <1>1 DEF vars, ExecutionInv, IsTriggerEvent
<1>2. ASSUME NEW c \in Commands, SQSAccepts(c) PROVE ExecutionInv'
  BY <1>2 DEF SQSAccepts, ExecutionInv, IsTriggerEvent
<1>3. ASSUME NEW e \in Environments, Invocation(e) PROVE ExecutionInv'
  <2>1. PICK t \in {"docs", "http", "create", "sqs"}, S \in SUBSET Messages :
          /\ Invoke(e, t, S)
          /\ t = "sqs" => S # {} /\ IsFiniteSet(S) /\ Cardinality(S) <= RecordLimit
    BY <1>3 DEF Invocation, InvokeHttp, InvokeCreate, InvokeSqs, Messages
  <2> QED
    BY <2>1 DEF Invoke, ExecutionInv, IsTriggerEvent, TypeOK, Executing
<1>4. ASSUME NEW e \in Environments, Inside(e) PROVE ExecutionInv'
  <2>1. CASE GetServer(e)
    BY <2>1 DEF GetServer, ExecutionInv, IsTriggerEvent, TypeOK, Executing
  <2>2. CASE Started(e)
    BY <2>2 DEF Started, ExecutionInv, IsTriggerEvent, TypeOK, Executing
  <2>3. CASE Route(e)
    BY <2>3 DEF Route, ExecutionInv, IsTriggerEvent, TypeOK, Executing
  <2>4. CASE StoreApplied(e)
    BY <2>4 DEF StoreApplied, ExecutionInv, IsTriggerEvent, TypeOK, Executing
  <2>5. CASE StoreDone(e)
    BY <2>5 DEF StoreDone, ExecutionInv, IsTriggerEvent, TypeOK, Executing
  <2> QED
    BY <1>4, <2>1, <2>2, <2>3, <2>4, <2>5 DEF Inside
<1>5. ASSUME NEW e \in Environments, Over(e) PROVE ExecutionInv'
  BY <1>5, OverEffect DEF Finish, ExecutionInv, IsTriggerEvent, TypeOK, Executing
<1> QED
  BY <1>1, <1>2, <1>3, <1>4, <1>5, NextCases

(* Before the first invocation nothing is started, held or executed.        *)
LEMMA IInvInit == Init => IInv
BY ConstantsAssumption
DEF Init, IInv, TypeOK, OneApplication, HeldInv, ExecutionInv, Executing, Messages

(* The environments keep the inductive invariant: one application each with *)
(* the server that belongs to it, and what one environment is invoked for   *)
(* held by no other, for every batch size.                                  *)
THEOREM Invariance == Spec => []IInv
<1>1. IInv /\ [Next]_vars => IInv'
  BY TypeStep, OneApplicationStep, HeldStep, ExecutionStep DEF IInv
<1> QED
  BY IInvInit, <1>1, PTL DEF Spec

--------------------------------------------------------------------------------
(* What leaves the queue. *)

(* An event that is executed is about one message.                          *)
LEMMA OneMessage ==
  ASSUME IInv, NEW e \in Environments, pc[e] \in Executing
  PROVE  /\ trigger[e] = "sqs"
         /\ \E m \in Messages : about[e] = {m} /\ queue[m] = "inflight"
<1>1. trigger[e] = "sqs" /\ Cardinality(about[e]) = 1 /\ IsFiniteSet(about[e])
  BY DEF IInv, ExecutionInv, IsTriggerEvent, Executing
<1>2. PICK m : about[e] = {m}
  BY <1>1, FS_Singleton
<1> QED
  BY <1>1, <1>2 DEF IInv, TypeOK, HeldInv

(* The server is handed no SQS event when events have one record.           *)
LEMMA ServedIsRequest ==
  ASSUME RecordLimit = 1, IInv, NEW e \in Environments, pc[e] = "serving"
  PROVE  trigger[e] # "sqs"
<1> SUFFICES ASSUME trigger[e] = "sqs" PROVE FALSE
  OBVIOUS
<1>1. /\ about[e] # {} /\ IsFiniteSet(about[e])
      /\ Cardinality(about[e]) <= 1 /\ Cardinality(about[e]) # 1
  BY DEF IInv, ExecutionInv
<1>2. Cardinality(about[e]) = 0
  BY <1>1, FS_CardinalityType
<1> QED
  BY <1>1, <1>2, FS_EmptySet

(* A message that leaves the queue in this step was executed, or it was one *)
(* of several records of an event, which the HTTP server answered.          *)
DroppedByThisStep ==
  \A m \in Messages : queue[m] # "deleted" /\ queue'[m] = "deleted" =>
    \/ m \in stored \cap published
    \/ \E e \in Environments :
         /\ pc[e] = "serving" /\ trigger[e] = "sqs"
         /\ m \in about[e] /\ Cardinality(about[e]) # 1

(* The only step that drops messages is an invocation that fulfils.         *)
LEMMA DropStep == IInv /\ [Next]_vars => DroppedByThisStep
<1> SUFFICES ASSUME IInv, [Next]_vars, NEW m \in Messages,
                    queue[m] # "deleted", queue'[m] = "deleted"
             PROVE  \/ m \in stored \cap published
                    \/ \E e \in Environments :
                         /\ pc[e] = "serving" /\ trigger[e] = "sqs"
                         /\ m \in about[e] /\ Cardinality(about[e]) # 1
  BY DEF DroppedByThisStep
<1>1. ~ UNCHANGED vars
  BY DEF vars
<1>2. ASSUME NEW c \in Commands PROVE ~ SQSAccepts(c)
  BY DEF SQSAccepts, IInv, TypeOK
<1>3. ASSUME NEW e \in Environments PROVE ~ Invocation(e) /\ ~ Inside(e)
  BY DEF Invocation, InvokeHttp, InvokeCreate, InvokeSqs, Invoke, Inside, GetServer,
         Started, Route, StoreApplied, StoreDone, IInv, TypeOK
<1>4. PICK e \in Environments : Over(e)
  BY <1>1, <1>2, <1>3, NextCases
<1>5. /\ trigger[e] = "sqs" /\ m \in about[e]
      /\ pc[e] = "publishing" \/ pc[e] = "serving"
  BY <1>4, OverEffect DEF Finish
<1>6. CASE pc[e] = "publishing"
  BY <1>5, <1>6 DEF IInv, ExecutionInv
<1>7. CASE pc[e] = "serving"
  BY <1>5, <1>7 DEF IInv, ExecutionInv
<1> QED
  BY <1>5, <1>6, <1>7

(* Whatever the batch size, a message leaves the queue unexecuted only in   *)
(* an event of several records: what SeveralRecordsRefused is violated by   *)
(* is the one way in which this deployment loses a command.                 *)
THEOREM LossOnlyInBatches == Spec => [][DroppedByThisStep]_vars
<1>1. IInv /\ [Next]_vars => [DroppedByThisStep]_vars
  BY DropStep
<1> QED
  BY <1>1, Invariance, PTL DEF Spec

(* With one record per event, the limit lambda.events.ts itself states,     *)
(* the server never answers an SQS event.                                   *)
THEOREM OneRecordIsNeverServed ==
  ASSUME RecordLimit = 1 PROVE Spec => []SeveralRecordsRefused
<1>1. IInv => SeveralRecordsRefused
  BY ServedIsRequest DEF SeveralRecordsRefused
<1> QED
  BY <1>1, Invariance, PTL

(* With one record per event, a message leaves the queue only after its     *)
(* example was stored and its event announced.                              *)
THEOREM Dropped ==
  ASSUME RecordLimit = 1 PROVE Spec => []DroppedOnlyIfExecuted
<1>1. Init => DroppedOnlyIfExecuted
  BY DEF Init, DroppedOnlyIfExecuted
<1>2. IInv /\ DroppedOnlyIfExecuted /\ [Next]_vars => DroppedOnlyIfExecuted'
  <2> SUFFICES ASSUME IInv, DroppedOnlyIfExecuted, [Next]_vars,
                      NEW m \in Messages, queue'[m] = "deleted"
               PROVE  m \in stored' \cap published'
    BY DEF DroppedOnlyIfExecuted
  <2>1. m \in stored \cap published
    BY DropStep, ServedIsRequest DEF DroppedByThisStep, DroppedOnlyIfExecuted
  <2>2. stored \subseteq stored' /\ published \subseteq published'
    <3>1. CASE UNCHANGED effects
      BY <3>1 DEF effects
    <3>2. ASSUME NEW e \in Environments, Inside(e)
          PROVE  stored \subseteq stored' /\ published \subseteq published'
      BY <3>2 DEF Inside, GetServer, Started, Route, StoreApplied, StoreDone, effects
    <3>3. ASSUME NEW e \in Environments, Invocation(e) \/ Over(e) PROVE UNCHANGED effects
      BY <3>3, OverEffect DEF Invocation, InvokeHttp, InvokeCreate, InvokeSqs, Invoke
    <3> QED
      BY <3>1, <3>2, <3>3, NextCases DEF SQSAccepts, vars
  <2> QED
    BY <2>1, <2>2
<1> QED
  BY <1>1, <1>2, Invariance, PTL DEF Spec

--------------------------------------------------------------------------------
(* CommandDelivery. *)

(* The phase of a command in CommandDelivery, as Delivery defines it.       *)
Phase(c) == CASE queue[c] \in {"unsent", "sending"} -> "none"
              [] queue[c] = "deleted" -> "retired"
              [] OTHER -> "queued"

AbstractPhase == [c \in Commands |-> Phase(c)]

(* An invocation that ends answers a request, retires a command it has      *)
(* executed, or is not seen by CommandDelivery.                             *)
LEMMA OverRefines ==
  ASSUME RecordLimit = 1, IInv, NEW e \in Environments, Over(e)
  PROVE  [Delivery!Next]_(Delivery!vars)
<1>a. TypeOK /\ HeldInv /\ Commands \subseteq Messages
  BY DEF IInv, Messages
<1>b. PICK requestIs \in {"created", "error"}, messageIs \in {"deleted", "visible"} :
        /\ Finish(e, requestIs, messageIs)
        /\ UNCHANGED <<stored, published, trigger>>
        /\ requestIs = "created" => Created(e)
        /\ messageIs = "deleted" =>
             \/ pc[e] = "routing" /\ trigger[e] = "docs"
             \/ pc[e] = "publishing"
             \/ pc[e] = "serving"
  BY OverEffect DEF effects
<1>1. CASE about[e] = {}
  <2>1. UNCHANGED <<answer, queue, stored, published>>
    BY <1>a, <1>b, <1>1 DEF Finish, TypeOK
  <2> QED
    BY <2>1 DEF Delivery!vars
<1>2. CASE trigger[e] = "create" /\ about[e] # {}
  <2>1. PICK c \in Commands : about[e] = {c} /\ answer[c] = "pending"
    BY <1>a, <1>2 DEF HeldInv
  <2>2. /\ answer' = [answer EXCEPT ![c] = requestIs]
        /\ UNCHANGED <<queue, stored, published>>
    BY <1>a, <1>b, <1>2, <2>1 DEF Finish, TypeOK
  <2>3. CASE requestIs = "created"
    <3>1. queue[c] \notin {"unsent", "sending"}
      BY <1>b, <2>1, <2>3 DEF Created
    <3>2. Delivery!AnswerCreated(c)
      BY <2>1, <2>2, <2>3, <3>1 DEF Delivery!AnswerCreated
    <3> QED
      BY <3>2 DEF Delivery!Next
  <2>4. CASE requestIs = "error"
    <3>1. Delivery!AnswerError(c)
      BY <2>1, <2>2, <2>4 DEF Delivery!AnswerError
    <3> QED
      BY <3>1 DEF Delivery!Next
  <2> QED
    BY <2>3, <2>4
<1>3. CASE trigger[e] = "sqs" /\ messageIs = "visible"
  <2>1. UNCHANGED <<answer, stored, published>>
    BY <1>a, <1>b, <1>3 DEF Finish, TypeOK
  <2>2. ASSUME NEW c \in Commands PROVE Phase(c)' = Phase(c)
    BY <1>a, <1>b, <1>3 DEF Finish, Phase, HeldInv
  <2>3. AbstractPhase' = AbstractPhase
    BY <2>2 DEF AbstractPhase
  <2> QED
    BY <2>1, <2>3 DEF Delivery!vars, AbstractPhase, Phase
<1>4. CASE trigger[e] = "sqs" /\ messageIs = "deleted" /\ about[e] # {}
  <2>1. pc[e] = "publishing"
    BY <1>b, <1>4, ServedIsRequest
  <2>2. PICK c \in Messages : about[e] = {c} /\ queue[c] = "inflight"
    BY <2>1, OneMessage DEF Executing
  <2>3. c \in published /\ c \in Commands
    BY <1>a, <2>1, <2>2 DEF IInv, ExecutionInv, TypeOK
  <2>4. /\ queue' = [queue EXCEPT ![c] = "deleted"]
        /\ UNCHANGED <<answer, stored, published>>
    BY <1>a, <1>b, <1>4, <2>2 DEF Finish, TypeOK
  <2>5. Delivery!Retire(c)
    BY <1>a, <2>2, <2>3, <2>4 DEF Delivery!Retire, TypeOK
  <2> QED
    BY <2>3, <2>5 DEF Delivery!Next
<1> QED
  BY <1>a, <1>1, <1>2, <1>3, <1>4 DEF HeldInv, TypeOK

(* Every step is one of CommandDelivery or leaves its variables alone.      *)
LEMMA RefinementStep ==
  ASSUME RecordLimit = 1
  PROVE  IInv /\ [Next]_vars => [Delivery!Next]_(Delivery!vars)
<1> SUFFICES ASSUME IInv, [Next]_vars PROVE [Delivery!Next]_(Delivery!vars)
  OBVIOUS
<1>a. TypeOK /\ Commands \subseteq Messages
  BY DEF IInv, Messages
<1>b. UNCHANGED <<answer, queue, stored, published>> => UNCHANGED Delivery!vars
  BY DEF Delivery!vars
<1>1. CASE UNCHANGED vars
  BY <1>1, <1>b DEF vars, effects
<1>2. ASSUME NEW c \in Commands, SQSAccepts(c) PROVE [Delivery!Next]_(Delivery!vars)
  <2>1. Delivery!Enqueue(c)
    BY <1>a, <1>2 DEF SQSAccepts, Delivery!Enqueue, TypeOK, effects
  <2> QED
    BY <2>1 DEF Delivery!Next
<1>3. ASSUME NEW e \in Environments, Invocation(e) PROVE [Delivery!Next]_(Delivery!vars)
  <2>1. CASE InvokeHttp(e)
    BY <1>b, <2>1 DEF InvokeHttp, Invoke, effects
  <2>2. ASSUME NEW c \in Commands, InvokeCreate(e, c) PROVE Delivery!Request(c)
    BY <2>2 DEF InvokeCreate, Invoke, effects, Delivery!Request
  <2>3. ASSUME NEW S \in SUBSET Messages, InvokeSqs(e, S)
        PROVE  UNCHANGED Delivery!vars
    <3>1. UNCHANGED <<answer, stored, published>>
      BY <2>3 DEF InvokeSqs, Invoke, effects
    <3>2. ASSUME NEW c \in Commands PROVE Phase(c)' = Phase(c)
      BY <1>a, <2>3 DEF InvokeSqs, Phase
    <3>3. AbstractPhase' = AbstractPhase
      BY <3>2 DEF AbstractPhase
    <3> QED
      BY <3>1, <3>3 DEF Delivery!vars, AbstractPhase, Phase
  <2> QED
    BY <1>3, <2>1, <2>2, <2>3 DEF Invocation, Delivery!Next
<1>4. ASSUME NEW e \in Environments, Inside(e) PROVE [Delivery!Next]_(Delivery!vars)
  <2>1. CASE GetServer(e) \/ Started(e)
    BY <1>b, <2>1 DEF GetServer, Started, effects
  <2>4. CASE Route(e)
    <3>1. UNCHANGED <<answer, stored, published>>
      BY <2>4 DEF Route, effects
    <3>2. ASSUME NEW c \in Commands PROVE Phase(c)' = Phase(c)
      BY <1>a, <2>4 DEF Route, Phase
    <3>3. AbstractPhase' = AbstractPhase
      BY <3>2 DEF AbstractPhase
    <3> QED
      BY <3>1, <3>3 DEF Delivery!vars, AbstractPhase, Phase
  <2>2. CASE StoreApplied(e)
    <3>1. PICK c \in Commands : about[e] = {c} /\ queue[c] = "inflight"
      BY <2>2, OneMessage DEF StoreApplied, Executing
    <3>2. Delivery!Apply(c)
      BY <2>2, <3>1 DEF StoreApplied, Delivery!Apply
    <3> QED
      BY <3>2 DEF Delivery!Next
  <2>3. CASE StoreDone(e)
    <3>1. PICK c \in Messages : about[e] = {c} /\ queue[c] = "inflight"
      BY <2>3, OneMessage DEF StoreDone, Executing
    <3>2. c \in stored /\ c \in Commands
      BY <1>a, <2>3, <3>1 DEF StoreDone, IInv, ExecutionInv, TypeOK
    <3>3. Delivery!Announce(c)
      BY <2>3, <3>1, <3>2 DEF StoreDone, Delivery!Announce
    <3> QED
      BY <3>2, <3>3 DEF Delivery!Next
  <2> QED
    BY <1>4, <2>1, <2>2, <2>3, <2>4 DEF Inside
<1>5. ASSUME NEW e \in Environments, Over(e) PROVE [Delivery!Next]_(Delivery!vars)
  BY <1>5, OverRefines
<1> QED
  BY <1>1, <1>2, <1>3, <1>4, <1>5, NextCases

(* With one record per event this deployment delivers commands as           *)
(* CommandDelivery promises, whatever the number of environments, their     *)
(* crashes, failed starts and repeated deliveries.                          *)
THEOREM Refinement ==
  ASSUME RecordLimit = 1 PROVE Spec => ImplementsDelivery
<1>1. Init => Delivery!Init
  BY ConstantsAssumption DEF Init, Delivery!Init, Messages
<1>2. IInv /\ [Next]_vars => [Delivery!Next]_(Delivery!vars)
  BY RefinementStep
<1> QED
  BY <1>1, <1>2, Invariance, PTL DEF Spec, ImplementsDelivery, Delivery!Spec
================================================================================
