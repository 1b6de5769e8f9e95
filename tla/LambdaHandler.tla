----------------------------- MODULE LambdaHandler -----------------------------
(***************************************************************************)
(* The other deployment: lambda.ts's handler in execution environments of  *)
(* AWS Lambda.  Each environment starts the application at its first       *)
(* invocation and keeps it in cachedApp and cachedServer for the next ones;*)
(* an invocation is an SQS event, routed to SQSLambda.handle, or a request,*)
(* to create an example or any other, which serverless-express serves.     *)
(*                                                                         *)
(* Lambda, SQS and DynamoDB are external: an environment has one           *)
(* invocation at a time; the event source mapping hands messages to one,   *)
(* deletes them when the handler fulfils and leaves them in the queue when *)
(* it rejects or is killed; a request that takes effect may still be       *)
(* answered by an error.                                                   *)
(***************************************************************************)
EXTENDS Naturals, FiniteSets

CONSTANTS
  Commands,      \* create-example requests, and their messages
  Poison,        \* messages that fail: the event, its ARN or its payload
  Environments,  \* execution environments
  RecordLimit,   \* batch size of the event source mapping
  MaxFaults      \* bound: failures of start, execution and environment

Messages == Commands \cup Poison

ASSUME ConstantsAssumption ==
  /\ Commands \cap Poison = {}
  /\ RecordLimit \in Nat \ {0}
  /\ MaxFaults \in Nat

VARIABLES
  answer,        \* answer[c]: the create request: none, pending, created, error
  queue,         \* queue[m]: unsent, sending, visible, inflight or deleted
  stored,        \* the commands whose PutItem took effect
  published,     \* the commands whose ExampleCreatedEvent was emitted
  pc,            \* pc[e]: where the invocation of environment e is
  trigger,       \* trigger[e]: what it is for: docs, http, create or sqs
  about,         \* about[e]: the messages of an SQS event, the command of a create
  cachedApp,     \* cachedApp[e]: how many applications e has started; 0: undefined
  cachedServer,  \* cachedServer[e]: which of them it serves; 0: undefined
  faults         \* how many faults have happened

effects == <<stored, published>>
invocation == <<trigger, about>>
cache == <<cachedApp, cachedServer>>
vars == <<answer, queue, effects, pc, invocation, cache, faults>>

Executing == {"storing", "stored", "publishing"}

TypeOK ==
  /\ answer \in [Commands -> {"none", "pending", "created", "error"}]
  /\ queue \in [Messages -> {"unsent", "sending", "visible", "inflight", "deleted"}]
  /\ stored \subseteq Commands
  /\ published \subseteq Commands
  /\ pc \in [Environments -> Executing \cup
               {"idle", "getServer", "starting", "routing", "serving"}]
  /\ trigger \in [Environments -> {"docs", "http", "create", "sqs"}]
  /\ about \in [Environments -> SUBSET Messages]
  /\ cachedApp \in [Environments -> 0..1]
  /\ cachedServer \in [Environments -> 0..1]
  /\ faults \in 0..MaxFaults

Init ==
  /\ answer = [c \in Commands |-> "none"]
  /\ queue = [m \in Messages |-> IF m \in Poison THEN "visible" ELSE "unsent"]
  /\ stored = {}
  /\ published = {}
  /\ pc = [e \in Environments |-> "idle"]
  /\ trigger = [e \in Environments |-> "http"]
  /\ about = [e \in Environments |-> {}]
  /\ cachedApp = [e \in Environments |-> 0]
  /\ cachedServer = [e \in Environments |-> 0]
  /\ faults = 0

Fault ==
  /\ faults < MaxFaults
  /\ faults' = faults + 1

--------------------------------------------------------------------------------
(* Invocations. *)

Invoke(e, t, S) ==
  /\ pc[e] = "idle"
  /\ pc' = [pc EXCEPT ![e] = "getServer"]
  /\ trigger' = [trigger EXCEPT ![e] = t]
  /\ about' = [about EXCEPT ![e] = S]
  /\ UNCHANGED <<effects, cache, faults>>

InvokeHttp(e) ==
  /\ Invoke(e, "docs", {}) \/ Invoke(e, "http", {})
  /\ UNCHANGED <<answer, queue>>

InvokeCreate(e, c) ==
  /\ answer[c] = "none"
  /\ Invoke(e, "create", {c})
  /\ answer' = [answer EXCEPT ![c] = "pending"]
  /\ UNCHANGED queue

InvokeSqs(e, S) ==
  /\ S # {} /\ IsFiniteSet(S) /\ Cardinality(S) <= RecordLimit
  /\ \A m \in S : queue[m] = "visible"
  /\ Invoke(e, "sqs", S)
  /\ queue' = [m \in Messages |-> IF m \in S THEN "inflight" ELSE queue[m]]
  /\ UNCHANGED answer

(* The invocation is over: a request is answered, and the messages of an    *)
(* event leave the queue or come back.                                      *)
Finish(e, requestIs, messageIs) ==
  /\ pc' = [pc EXCEPT ![e] = "idle"]
  /\ about' = [about EXCEPT ![e] = {}]
  /\ answer' = [c \in Commands |->
       IF trigger[e] = "create" /\ c \in about[e] THEN requestIs ELSE answer[c]]
  /\ queue' = [m \in Messages |->
       IF trigger[e] = "sqs" /\ m \in about[e] THEN messageIs ELSE queue[m]]

(* The handler fulfils, with whatever a request is answered.                *)
Fulfil(e, requestIs) == Finish(e, requestIs, "deleted")

(* It rejects, which a client sees as an error.                             *)
Reject(e) == Finish(e, "error", "visible")

--------------------------------------------------------------------------------
(* getServer. *)

GetServer(e) ==
  /\ pc[e] = "getServer"
  /\ pc' = [pc EXCEPT ![e] = IF cachedServer[e] = 0 THEN "starting" ELSE "routing"]
  /\ UNCHANGED <<answer, queue, effects, invocation, cache, faults>>

(* bootstrapHttpApp and init fulfil; app and server are set in one turn.    *)
Started(e) ==
  /\ pc[e] = "starting"
  /\ cachedApp' = [cachedApp EXCEPT ![e] = @ + 1]
  /\ cachedServer' = [cachedServer EXCEPT ![e] = cachedApp'[e]]
  /\ pc' = [pc EXCEPT ![e] = "routing"]
  /\ UNCHANGED <<answer, queue, effects, invocation, faults>>

(* Defect: the server is created before the application is initialised.     *)
StartErrorKeepingServer(e) ==
  /\ pc[e] = "starting"
  /\ Fault
  /\ cachedServer' = [cachedServer EXCEPT ![e] = cachedApp[e] + 1]
  /\ Reject(e)
  /\ UNCHANGED <<effects, trigger, cachedApp>>

(* One of them rejects: nothing is cached, the next invocation tries again. *)
StartError(e) ==
  /\ pc[e] = "starting"
  /\ Fault
  /\ Reject(e)
  /\ UNCHANGED <<effects, trigger, cache>>

--------------------------------------------------------------------------------
(* The handler, once it has its server. *)

(* Defect: the records are counted from zero.                               *)
IsTriggerEventFromZero(e) == trigger[e] = "sqs" /\ Cardinality(about[e]) = 0

(* LambdaTriggerEvent: one record, of a source in LambdaEventFactory.       *)
IsTriggerEvent(e) == trigger[e] = "sqs" /\ Cardinality(about[e]) = 1

RedirectToDocs(e) ==
  /\ pc[e] = "routing"
  /\ trigger[e] = "docs"
  /\ Fulfil(e, "error")
  /\ UNCHANGED <<effects, trigger, cache, faults>>

(* To SQSLambda.handle, which runs the listener, or to the server, which    *)
(* calls CreateExampleController.accept for a create: it starts its enqueue.*)
Route(e) ==
  /\ pc[e] = "routing"
  /\ trigger[e] # "docs"
  /\ pc' = [pc EXCEPT ![e] = IF IsTriggerEvent(e) THEN "storing" ELSE "serving"]
  /\ queue' = [m \in Messages |->
       IF trigger[e] = "create" /\ m \in about[e] /\ queue[m] = "unsent"
       THEN "sending" ELSE queue[m]]
  /\ UNCHANGED <<answer, effects, invocation, cache, faults>>

(* The event, the queue's name or the payload is refused.                   *)
Refuse(e) ==
  /\ pc[e] = "storing"
  /\ about[e] \subseteq Poison
  /\ Reject(e)
  /\ UNCHANGED <<effects, trigger, cache, faults>>

(* DynamoDB performs the PutItem of CreateExampleCommandHandler.            *)
StoreApplied(e) ==
  /\ pc[e] = "storing"
  /\ about[e] \subseteq Commands
  /\ stored' = stored \cup about[e]
  /\ pc' = [pc EXCEPT ![e] = "stored"]
  /\ UNCHANGED <<answer, queue, published, invocation, cache, faults>>

(* Defect: store is not awaited before the event is published.              *)
PublishBeforeStore(e) ==
  /\ pc[e] \in {"storing", "stored"}
  /\ about[e] \subseteq Commands
  /\ published' = published \cup about[e]
  /\ pc' = [pc EXCEPT ![e] = "publishing"]
  /\ UNCHANGED <<answer, queue, stored, invocation, cache, faults>>

(* It answers, and the event is emitted in the same turn.                   *)
StoreDone(e) ==
  /\ pc[e] = "stored"
  /\ published' = published \cup about[e]
  /\ pc' = [pc EXCEPT ![e] = "publishing"]
  /\ UNCHANGED <<answer, queue, stored, invocation, cache, faults>>

(* The event's handlers are done, and the resolver has seen the event.      *)
ExecuteDone(e) ==
  /\ pc[e] = "publishing"
  /\ Fulfil(e, "error")
  /\ UNCHANGED <<effects, trigger, cache, faults>>

(* Defect: the catch that logs the error does not throw it again.           *)
ExecuteErrorLogged(e) ==
  /\ pc[e] \in Executing
  /\ about[e] \subseteq Commands
  /\ Fault
  /\ Fulfil(e, "error")
  /\ UNCHANGED <<effects, trigger, cache>>

(* The execution rejects, and SQSLambda.handle with it: the PutItem, which  *)
(* may have taken effect, or a handler of the event.                        *)
ExecuteError(e) ==
  /\ pc[e] \in Executing
  /\ about[e] \subseteq Commands
  /\ Fault
  /\ Reject(e)
  /\ UNCHANGED <<effects, trigger, cache>>

(* SQS takes a command, perhaps when its sender has given up on it.         *)
SQSAccepts(c) ==
  /\ queue[c] = "sending"
  /\ answer[c] \in {"pending", "error"}
  /\ queue' = [queue EXCEPT ![c] = "visible"]
  /\ UNCHANGED <<answer, effects, pc, invocation, cache, faults>>

(* The enqueue that accept awaits resolves.                                 *)
Created(e) ==
  /\ pc[e] = "serving"
  /\ trigger[e] = "create"
  /\ \A c \in about[e] : queue[c] \notin {"unsent", "sending"}
  /\ Fulfil(e, "created")
  /\ UNCHANGED <<effects, trigger, cache, faults>>

(* serverless-express fulfils with an error's status, or rejects.  A create *)
(* request fails like this only if its enqueue does.                        *)
Serve(e) ==
  /\ pc[e] = "serving"
  /\ IF trigger[e] = "create" THEN Fault ELSE UNCHANGED faults
  /\ Fulfil(e, "error") \/ Reject(e)
  /\ UNCHANGED <<effects, trigger, cache>>

(* The environment times out or is discarded, with all it has cached.       *)
Kill(e) ==
  /\ Fault
  /\ Reject(e)
  /\ cachedApp' = [cachedApp EXCEPT ![e] = 0]
  /\ cachedServer' = [cachedServer EXCEPT ![e] = 0]
  /\ UNCHANGED <<effects, trigger>>

HandlerStep(e) ==
  \/ GetServer(e) \/ Started(e) \/ RedirectToDocs(e) \/ Route(e)
  \/ Refuse(e) \/ StoreApplied(e) \/ StoreDone(e) \/ ExecuteDone(e)
  \/ Created(e) \/ Serve(e)

Next ==
  \/ \E c \in Commands : SQSAccepts(c)
  \/ \E e \in Environments :
       \/ InvokeHttp(e) \/ \E c \in Commands : InvokeCreate(e, c)
       \/ \E S \in SUBSET Messages : InvokeSqs(e, S)
       \/ HandlerStep(e)
       \/ StartError(e) \/ ExecuteError(e) \/ Kill(e)

Spec == Init /\ [][Next]_vars

(* An invocation runs on; the event source mapping comes round to every     *)
(* message, though an environment may be busy whenever it looks.            *)
FairSpec ==
  /\ Spec
  /\ \A e \in Environments : WF_vars(HandlerStep(e))
  /\ \A m \in Messages :
       SF_vars(\E e \in Environments, S \in SUBSET Messages :
                 m \in S /\ InvokeSqs(e, S))

--------------------------------------------------------------------------------
(* A message leaves the queue only after its listener's execution: the      *)
(* event source mapping deletes on the word of the handler.                 *)
DroppedOnlyIfExecuted ==
  \A m \in Messages : queue[m] = "deleted" => m \in stored \cap published

(* CommandDelivery, as this deployment has it.                              *)
Delivery == INSTANCE CommandDelivery WITH
  phase <- [c \in Commands |-> CASE queue[c] \in {"unsent", "sending"} -> "none"
                                 [] queue[c] = "deleted" -> "retired"
                                 [] OTHER -> "queued"],
  applied <- stored,
  announced <- published

(* The Lambda deployment keeps the promise the listener process keeps, with *)
(* requests and messages handled by the same environments: a command is     *)
(* answered 201 only when it is queued, then stored, then announced, and    *)
(* leaves the queue only after that.                                        *)
ImplementsDelivery == Delivery!Spec

(* The handler's use of cachedApp: from routing on there is an initialised  *)
(* application, the one the server belongs to.                              *)
OneApplication ==
  \A e \in Environments :
    /\ cachedServer[e] = cachedApp[e]
    /\ pc[e] = "starting" => cachedApp[e] = 0
    /\ pc[e] \in Executing \cup {"routing", "serving"} => cachedApp[e] = 1

(* What an invocation is about is nobody else's: its messages are in flight, *)
(* its request is pending, and it lets go of them when it ends.             *)
HeldInv ==
  \A e \in Environments :
    /\ pc[e] = "idle" \/ trigger[e] \in {"docs", "http"} => about[e] = {}
    /\ trigger[e] = "sqs" => \A m \in about[e] : queue[m] = "inflight"
    /\ trigger[e] = "create" =>
         /\ \A c \in about[e] : c \in Commands /\ answer[c] = "pending"
         /\ \A c, d \in about[e] : c = d
    /\ \A f \in Environments \ {e} :
         trigger[f] = trigger[e] => about[e] \cap about[f] = {}

(* Only an event of one record gets as far as its listener, whose awaits    *)
(* come one after the other; one of several is served.                      *)
ExecutionInv ==
  \A e \in Environments :
    /\ trigger[e] = "sqs" /\ pc[e] # "idle" =>
         about[e] # {} /\ IsFiniteSet(about[e]) /\ Cardinality(about[e]) <= RecordLimit
    /\ trigger[e] = "sqs" /\ pc[e] = "serving" => Cardinality(about[e]) # 1
    /\ pc[e] \in Executing => IsTriggerEvent(e)
    /\ pc[e] \in {"stored", "publishing"} => about[e] \subseteq stored
    /\ pc[e] = "publishing" => about[e] \subseteq published

(* An environment never has a server without its application, and has       *)
(* started no second one (cachedApp \in 0..1 in TypeOK), however many       *)
(* starts failed before; what it executes is one message, in flight and in  *)
(* no other environment, and stored and announced in this order.            *)
IInv == TypeOK /\ OneApplication /\ HeldInv /\ ExecutionInv

(* Every queued command is executed and leaves the queue, after failures of   *)
(* start and execution and beside poison that is delivered over and over.   *)
EventuallyExecuted ==
  \A m \in Commands : queue[m] = "visible" ~> queue[m] = "deleted"

(* An SQS event that does not carry exactly one record is refused; it is    *)
(* not for the HTTP server to answer (lambda.events.ts: "Exactly one record *)
(* is required", sqs-event.ts: "More than one SQS message is not            *)
(* supported").                                                             *)
SeveralRecordsRefused ==
  \A e \in Environments : pc[e] = "serving" => trigger[e] # "sqs"
================================================================================
