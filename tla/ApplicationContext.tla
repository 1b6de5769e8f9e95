------------------------- MODULE ApplicationContext -------------------------
(***************************************************************************)
(* Which instance of a provider serves whom.  NestJS makes the instances   *)
(* of a process from the modules' provider lists and the providers'        *)
(* scopes; Injectable gives a class that names no scope the durable        *)
(* request scope, and DurableContextIdStrategy lets all HTTP requests      *)
(* share its instances.  moduleRef.resolve takes no part in that: it has a *)
(* context of its own per call, hence per queue message.  State that       *)
(* requests and messages must share (the emitter, the examples in memory)  *)
(* therefore has to be in providers that no scope touches.                 *)
(*                                                                         *)
(* A process here serves requests and messages, as a Lambda environment    *)
(* and the integration tests' application do; one of main.ts has no        *)
(* message and one of queue.ts no request.                                 *)
(***************************************************************************)
EXTENDS ServedUnits, Naturals, FiniteSets

CONSTANTS Processes,
          MaxRestarts     \* bounds the restarts

(***************************************************************************)
(* The modules' providers and controllers, each with what its constructor  *)
(* or factory takes.                                                       *)
(***************************************************************************)
CommonModule == [AppConfigService |-> {}, EventEmitter2 |-> {},
                 EventPublisher |-> {"EventEmitter2"},
                 EventSubscriber |-> {"EventEmitter2"},
                 StorageReader |-> {"AppConfigService"},
                 StorageWriter |-> {"AppConfigService"}]

QueueModule == [SQSQueueUtil |-> {"AppConfigService"},
                Enqueuer |-> {"SQSQueueUtil", "AppConfigService"},
                QueueResolver |-> {"EventSubscriber", "Enqueuer"}]

ExampleModule ==
  [ExampleRepository |-> {"AppConfigService"},
   CreateExampleCommandHandler |-> {"ExampleRepository", "EventPublisher"},
   CreateExampleQueueListener |-> {"CreateExampleCommandHandler", "QueueResolver"},
   LogExampleCreatedEventHandler |-> {},
   CreateExampleController |-> {"Enqueuer"},
   GetExampleController |-> {"ExampleRepository"}]

Providers == DOMAIN CommonModule \cup DOMAIN QueueModule \cup DOMAIN ExampleModule

Dependencies ==
  [d \in Providers |-> IF d \in DOMAIN CommonModule THEN CommonModule[d]
                       ELSE IF d \in DOMAIN QueueModule THEN QueueModule[d]
                       ELSE ExampleModule[d]]

ASSUME ConstantsAssumption == Messages \cap (Providers \cup {"none"}) = {}

Singleton == [scope |-> "DEFAULT", durable |-> FALSE]
DefaultScope == [scope |-> "REQUEST", durable |-> TRUE]

\* The classes that say Injectable(); of the others, some name Scope.DEFAULT,
\* some have no decorator of this kind, and a useFactory has no scope.
Injected == {"Enqueuer", "QueueResolver", "CreateExampleCommandHandler",
             "CreateExampleQueueListener"}

\* Defect: the repository has the scope its classes are decorated with.
ScopeOfClasses(d) ==
  IF d \in Injected \cup {"ExampleRepository"} THEN DefaultScope ELSE Singleton

\* Defect: the event handler is decorated as the other classes are.
ScopeWithInjectedHandler(d) ==
  IF d \in Injected \cup {"LogExampleCreatedEventHandler"} THEN DefaultScope ELSE Singleton

ScopeOf(d) == IF d \in Injected THEN DefaultScope ELSE Singleton

Static[d \in Providers] ==
  ScopeOf(d).scope = "DEFAULT" /\ \A e \in Dependencies[d] : Static[e]

Durable[d \in Providers] ==
  \/ ScopeOf(d).durable
  \/ ~ Static[d] /\ \A e \in Dependencies[d] : Static[e] \/ Durable[e]

Tree[d \in Providers] == {d} \cup UNION {Tree[e] : e \in Dependencies[d]}

\* Defect: the strategy is not applied, each request has its own context.
AttachNothing(d, r) == r

\* The strategy: a request's context for a provider that is not static.
Attach(d, r) == IF Durable[d] THEN "durable" ELSE r

\* What unit u, a request or a message, has its instance of d from.
ContextOf(d, u) ==
  IF Static[d] THEN "static" ELSE IF u \in Requests THEN Attach(d, u) ELSE u

Load(d, u) == {<<e, ContextOf(e, u)>> : e \in Tree[d]}

-----------------------------------------------------------------------------
VARIABLES
  inMemory,    \* config.app.useInMemoryRepository
  instances,   \* per process, the instances made since its start
  callbacks,   \* per process, callbacks and the emitter they were added to
  examples,    \* per process, examples in memory and the repository instance
  table,       \* the DynamoDB table
  running,     \* per process, the message being executed, or "none"
  outcome,     \* of each message
  request,     \* each request: its status, process, what it owes and showed
  executed,    \* history: per process, the messages executed since its start
  heard,       \* the messages whose event LogExampleCreatedEventHandler was called with
  restarts
vars == <<inMemory, instances, callbacks, examples, table, running, outcome,
          request, executed, heard, restarts>>

\* Defect: a publisher makes an emitter of its own.
EmitterOfItsOwn(publisher, u) == <<publisher, ContextOf(publisher, u)>>

\* EventPublisher and EventSubscriber are two instances of one class on one emitter.
EmitterOf(publisher, u) == <<"EventEmitter2", ContextOf("EventEmitter2", u)>>

\* What a process has after its start: the static instances, and the OnEvent
\* methods of the static ones on the emitter.
StaticInstances == {<<d, "static">> : d \in {e \in Providers : Static[e]}}
Subscribed == {<<"EventEmitter2", "static">>} \X
              {d \in {"LogExampleCreatedEventHandler"} : Static[d]}

\* The examples that u's repository has in process p.
StoredIn(p, u) ==
  IF inMemory THEN {m \in Messages : <<ContextOf("ExampleRepository", u), m>> \in examples[p]}
              ELSE table

Init ==
  /\ inMemory \in BOOLEAN
  /\ instances = [p \in Processes |-> StaticInstances]
  /\ callbacks = [p \in Processes |-> Subscribed]
  /\ examples = [p \in Processes |-> {}]
  /\ table = {}
  /\ running = [p \in Processes |-> "none"]
  /\ outcome = [m \in Messages |-> "queued"]
  /\ request = [r \in Requests |-> [status |-> "new"]]
  /\ executed = [p \in Processes |-> {}]
  /\ heard = {}
  /\ restarts = 0

\* A message's listener is resolved, executed, and its resolver subscribes.
Resolve(p, m) ==
  /\ running[p] = "none" /\ outcome[m] = "queued"
  /\ running' = [running EXCEPT ![p] = m]
  /\ outcome' = [outcome EXCEPT ![m] = "running"]
  /\ instances' = [instances EXCEPT ![p] = @ \cup Load("CreateExampleQueueListener", m)]
  /\ callbacks' = [callbacks EXCEPT ![p] = @ \cup {<<EmitterOf("EventSubscriber", m), m>>}]
  /\ UNCHANGED <<inMemory, examples, table, request, executed, heard, restarts>>

\* The command handler stores and publishes; the resolver judges and unsubscribes.
Execute(p, m) ==
  LET called == {c \in Messages \cup Providers :
                   <<EmitterOf("EventPublisher", m), c>> \in callbacks[p]}
  IN /\ running[p] = m
     /\ IF inMemory
          THEN /\ examples' = [examples EXCEPT ![p] =
                                 @ \cup {<<ContextOf("ExampleRepository", m), m>>}]
               /\ UNCHANGED table
          ELSE table' = table \cup {m} /\ UNCHANGED examples
     /\ heard' = IF "LogExampleCreatedEventHandler" \in called
                   THEN heard \cup {m} ELSE heard
     /\ outcome' = [outcome EXCEPT ![m] = IF m \in called THEN "resolved" ELSE "unmet"]
     /\ callbacks' = [callbacks EXCEPT ![p] = @ \ {<<EmitterOf("EventSubscriber", m), m>>}]
     /\ executed' = [executed EXCEPT ![p] = @ \cup {m}]
     /\ running' = [running EXCEPT ![p] = "none"]
     /\ UNCHANGED <<inMemory, instances, request, restarts>>

\* POST /api/example: its controller's enqueuer is outside of this module.
ServeCreate(p, r) ==
  /\ request[r].status = "new"
  /\ request' = [request EXCEPT ![r] = [status |-> "served"]]
  /\ instances' = [instances EXCEPT ![p] = @ \cup Load("CreateExampleController", r)]
  /\ UNCHANGED <<inMemory, callbacks, examples, table, running, outcome, executed,
                 heard, restarts>>

\* GET /api/example arrives; what has been executed where it can see it is due.
ServeGet(p, r) ==
  /\ request[r].status = "new"
  /\ request' = [request EXCEPT ![r] =
                   [status |-> "open", process |-> p,
                    due |-> IF inMemory THEN executed[p] ELSE UNION {executed[q] : q \in Processes}]]
  /\ instances' = [instances EXCEPT ![p] = @ \cup Load("GetExampleController", r)]
  /\ UNCHANGED <<inMemory, callbacks, examples, table, running, outcome, executed,
                 heard, restarts>>

AnswerGet(r) ==
  /\ request[r].status = "open"
  /\ request' = [request EXCEPT ![r] =
                   [status |-> "answered", due |-> @.due, shown |-> StoredIn(@.process, r)]]
  /\ UNCHANGED <<inMemory, instances, callbacks, examples, table, running, outcome,
                 executed, heard, restarts>>

\* The process ends, with what it was doing, and is started again.
Restart(p) ==
  /\ restarts < MaxRestarts
  /\ restarts' = restarts + 1
  /\ instances' = [instances EXCEPT ![p] = StaticInstances]
  /\ callbacks' = [callbacks EXCEPT ![p] = Subscribed]
  /\ examples' = [examples EXCEPT ![p] = {}]
  /\ executed' = [executed EXCEPT ![p] = {}]
  /\ running' = [running EXCEPT ![p] = "none"]
  /\ outcome' = [m \in Messages |-> IF running[p] = m THEN "crashed" ELSE outcome[m]]
  /\ request' = [r \in Requests |->
                   IF request[r].status = "open" /\ request[r].process = p
                     THEN [status |-> "lost"] ELSE request[r]]
  /\ UNCHANGED <<inMemory, table, heard>>

Next ==
  \/ \E p \in Processes, m \in Messages : Resolve(p, m) \/ Execute(p, m)
  \/ \E p \in Processes, r \in Requests : ServeCreate(p, r) \/ ServeGet(p, r)
  \/ \E r \in Requests : AnswerGet(r)
  \/ \E p \in Processes : Restart(p)

Spec == Init /\ [][Next]_vars

-----------------------------------------------------------------------------
(***************************************************************************)
(* What a message stored, in memory or in the table, is shown to each      *)
(* request that begins later, although requests and messages have no       *)
(* context in common (example.module.ts:19-26): "should store and get all  *)
(* examples in memory", get-example-api.spec.ts:50.                        *)
(***************************************************************************)
ExecutedIsShown ==
  \A r \in Requests : request[r].status = "answered" => request[r].due \subseteq request[r].shown

(***************************************************************************)
(* The event of a message's command handler reaches the message's own      *)
(* resolver, although publisher and subscriber are two instances of their  *)
(* class (common.module.ts:30-37).  Otherwise resolve would find its       *)
(* condition unmet, and every message would be received again.             *)
(***************************************************************************)
OwnEventArrives == \A m \in Messages : outcome[m] # "unmet"

(***************************************************************************)
(* Each event a message publishes is heard by the OnEvent handlers, in     *)
(* every process and after restarts: only static ones are subscribed at    *)
(* the start (log-example-created-event-handler.ts:9).                     *)
(***************************************************************************)
HandlersHear == \A m \in Messages : outcome[m] \in {"resolved", "unmet"} => m \in heard

(***************************************************************************)
(* However many requests a process serves, it makes one instance of a      *)
(* provider for all of them, its AWS client included; what else there is   *)
(* was made for a message (durable-context.strategy.ts:6-8).               *)
(***************************************************************************)
RequestsShareInstances ==
  \A p \in Processes, d \in Providers :
    Cardinality({i \in instances[p] : i[1] = d /\ i[2] \notin Messages}) <= 1
=============================================================================
