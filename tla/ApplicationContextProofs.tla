------------------------ MODULE ApplicationContextProofs ------------------------
(***************************************************************************)
(* Proofs about what requests and messages share, ApplicationContext, and  *)
(* what they do not, RequestLogging: for any number of processes, requests,*)
(* messages, restarts and polls.                                           *)
(***************************************************************************)
EXTENDS ApplicationContext, RequestLogging, FiniteSetTheorems, TLAPS

(***************************************************************************)
(* The providers on which, directly or not, no injected class has a hold:  *)
(* what the modules' lists come to.                                        *)
(***************************************************************************)
Scopeless == {"AppConfigService", "EventEmitter2", "EventPublisher", "EventSubscriber",
              "StorageReader", "StorageWriter", "SQSQueueUtil", "ExampleRepository",
              "LogExampleCreatedEventHandler", "GetExampleController"}

(* The providers by name.                                                  *)
LEMMA ProviderNames ==
  Providers = Scopeless \cup Injected \cup {"CreateExampleController"}
BY DEF Providers, CommonModule, QueueModule, ExampleModule, Scopeless, Injected

(* What a scopeless provider takes is scopeless, what an injected class is *)
(* needed for is not.                                                      *)
LEMMA Wiring ==
  /\ \A d \in Scopeless : Dependencies[d] \subseteq Scopeless
  /\ Dependencies["CreateExampleController"] = {"Enqueuer"}
  /\ \A d \in Providers : Dependencies[d] \subseteq Providers
<1>1. \A d \in Scopeless : Dependencies[d] \subseteq Scopeless
  <2>1. \A d \in DOMAIN CommonModule : Dependencies[d] = CommonModule[d]
    BY DEF Dependencies, Providers
  <2>2. Dependencies["SQSQueueUtil"] = {"AppConfigService"}
    BY DEF Dependencies, Providers, CommonModule, QueueModule, ExampleModule
  <2>3. Dependencies["ExampleRepository"] = {"AppConfigService"}
    BY DEF Dependencies, Providers, CommonModule, QueueModule, ExampleModule
  <2>4. Dependencies["LogExampleCreatedEventHandler"] = {}
    BY DEF Dependencies, Providers, CommonModule, QueueModule, ExampleModule
  <2>5. Dependencies["GetExampleController"] = {"ExampleRepository"}
    BY DEF Dependencies, Providers, CommonModule, QueueModule, ExampleModule
  <2>6. \A d \in DOMAIN CommonModule : CommonModule[d] \subseteq Scopeless
    BY DEF CommonModule, Scopeless
  <2>7. Scopeless = DOMAIN CommonModule \cup {"SQSQueueUtil", "ExampleRepository",
                       "LogExampleCreatedEventHandler", "GetExampleController"}
    BY DEF CommonModule, Scopeless
  <2>8. {"AppConfigService", "ExampleRepository"} \subseteq Scopeless
    BY DEF Scopeless
  <2> QED
    BY <2>1, <2>2, <2>3, <2>4, <2>5, <2>6, <2>7, <2>8
<1>2. Dependencies["CreateExampleController"] = {"Enqueuer"}
  BY DEF Dependencies, Providers, CommonModule, QueueModule, ExampleModule
<1>3. ASSUME NEW d \in Injected PROVE Dependencies[d] \subseteq Providers
  <2>1. Dependencies["Enqueuer"] = {"SQSQueueUtil", "AppConfigService"}
    BY DEF Dependencies, Providers, CommonModule, QueueModule, ExampleModule
  <2>2. Dependencies["QueueResolver"] = {"EventSubscriber", "Enqueuer"}
    BY DEF Dependencies, Providers, CommonModule, QueueModule, ExampleModule
  <2>3. Dependencies["CreateExampleCommandHandler"] = {"ExampleRepository", "EventPublisher"}
    BY DEF Dependencies, Providers, CommonModule, QueueModule, ExampleModule
  <2>4. Dependencies["CreateExampleQueueListener"]
          = {"CreateExampleCommandHandler", "QueueResolver"}
    BY DEF Dependencies, Providers, CommonModule, QueueModule, ExampleModule
  <2> QED
    BY <2>1, <2>2, <2>3, <2>4, ProviderNames DEF Injected, Scopeless
<1>4. "Enqueuer" \in Providers
  BY ProviderNames DEF Injected
<1> QED
  BY <1>1, <1>2, <1>3, <1>4, ProviderNames

(* Static and Durable, defined through what a provider takes, are functions *)
(* that satisfy their equations: the functions below do.                    *)
LEMMA StaticEquation ==
  Static = [d \in Providers |->
              ScopeOf(d).scope = "DEFAULT" /\ \A e \in Dependencies[d] : Static[e]]
<1> DEFINE g == [d \in Providers |-> d \in Scopeless]
<1>1. ASSUME NEW d \in Providers
      PROVE  d \in Scopeless <=>
               ScopeOf(d).scope = "DEFAULT" /\ \A e \in Dependencies[d] : g[e]
  <2>1. \A e \in Dependencies[d] : g[e] <=> e \in Scopeless
    BY Wiring
  <2>2. CASE d \in Scopeless
    <3>1. d \notin Injected
      BY <2>2 DEF Scopeless, Injected
    <3>2. ScopeOf(d).scope = "DEFAULT"
      BY <3>1 DEF ScopeOf, Singleton
    <3> QED
      BY <2>1, <2>2, <3>2, Wiring
  <2>3. CASE d \in Injected
    <3>1. d \notin Scopeless
      BY <2>3 DEF Scopeless, Injected
    <3>2. ScopeOf(d).scope # "DEFAULT"
      BY <2>3 DEF ScopeOf, DefaultScope
    <3> QED
      BY <3>1, <3>2
  <2>4. CASE d = "CreateExampleController"
    <3>1. d \notin Scopeless /\ "Enqueuer" \notin Scopeless
      BY <2>4 DEF Scopeless
    <3> QED
      BY <2>1, <2>4, <3>1, Wiring
  <2> QED
    BY <2>2, <2>3, <2>4, ProviderNames
<1>2. g = [d \in Providers |->
             ScopeOf(d).scope = "DEFAULT" /\ \A e \in Dependencies[d] : g[e]]
  BY <1>1
<1> HIDE DEF g
<1> QED
  BY <1>2 DEF Static

(* Exactly the scopeless providers are static.                              *)
LEMMA StaticProviders == \A d \in Providers : Static[d] <=> d \in Scopeless
<1>1. ASSUME NEW d \in Providers
      PROVE  Static[d] <=> ScopeOf(d).scope = "DEFAULT" /\ \A e \in Dependencies[d] : Static[e]
  BY StaticEquation
<1>2. \A d \in Injected : ~ Static[d]
  <2>1. ASSUME NEW d \in Injected PROVE ScopeOf(d).scope # "DEFAULT" /\ d \in Providers
    BY ProviderNames DEF ScopeOf, DefaultScope
  <2> QED
    BY <1>1, <2>1
<1>3. "CreateExampleController" \in Providers /\ "Enqueuer" \in Injected
  BY ProviderNames DEF Injected
<1>4. ~ Static["CreateExampleController"]
  BY <1>1, <1>2, <1>3, Wiring
<1>5. \A d \in Scopeless : d \in Providers /\ ScopeOf(d).scope = "DEFAULT"
  BY ProviderNames DEF Scopeless, Injected, ScopeOf, Singleton
<1>6. ASSUME NEW d \in Scopeless, \A e \in Dependencies[d] : Static[e]
      PROVE  Static[d]
  BY <1>1, <1>5, <1>6
<1>7. Static["AppConfigService"] /\ Static["EventEmitter2"]
        /\ Static["LogExampleCreatedEventHandler"]
  <2>1. ASSUME NEW d \in {"AppConfigService", "EventEmitter2", "LogExampleCreatedEventHandler"}
        PROVE  Dependencies[d] = {} /\ d \in Scopeless
    BY DEF Dependencies, Providers, CommonModule, QueueModule, ExampleModule, Scopeless
  <2> QED
    BY <1>6, <2>1
<1>8. /\ Static["EventPublisher"] /\ Static["EventSubscriber"] /\ Static["StorageReader"]
      /\ Static["StorageWriter"] /\ Static["SQSQueueUtil"] /\ Static["ExampleRepository"]
  <2>1. ASSUME NEW d \in {"EventPublisher", "EventSubscriber", "StorageReader",
                          "StorageWriter", "SQSQueueUtil", "ExampleRepository"}
        PROVE  Dependencies[d] \subseteq {"AppConfigService", "EventEmitter2"}
                 /\ d \in Scopeless
    BY DEF Dependencies, Providers, CommonModule, QueueModule, ExampleModule, Scopeless
  <2> QED
    BY <1>6, <1>7, <2>1
<1>9. Static["GetExampleController"]
  <2>1. Dependencies["GetExampleController"] = {"ExampleRepository"}
          /\ "GetExampleController" \in Scopeless
    BY DEF Dependencies, Providers, CommonModule, QueueModule, ExampleModule, Scopeless
  <2> QED
    BY <1>6, <1>8, <2>1
<1>10. \A d \in Scopeless : Static[d]
  BY <1>7, <1>8, <1>9 DEF Scopeless
<1>11. Injected \cap Scopeless = {} /\ "CreateExampleController" \notin Scopeless
  BY DEF Injected, Scopeless
<1> QED
  BY <1>2, <1>4, <1>10, <1>11, ProviderNames

LEMMA DurableEquation ==
  Durable = [d \in Providers |->
               \/ ScopeOf(d).durable
               \/ ~ Static[d] /\ \A e \in Dependencies[d] : Static[e] \/ Durable[e]]
<1> DEFINE g == [d \in Providers |-> d \notin Scopeless]
<1>1. ASSUME NEW d \in Providers
      PROVE  d \notin Scopeless <=>
               \/ ScopeOf(d).durable
               \/ ~ Static[d] /\ \A e \in Dependencies[d] : Static[e] \/ g[e]
  <2>1. \A e \in Dependencies[d] : Static[e] \/ g[e]
    BY Wiring, StaticProviders
  <2>2. d \in Scopeless => ~ ScopeOf(d).durable
    <3>1. d \in Scopeless => d \notin Injected
      BY DEF Scopeless, Injected
    <3> QED
      BY <3>1 DEF ScopeOf, Singleton
  <2> QED
    BY <2>1, <2>2, StaticProviders
<1>2. g = [d \in Providers |->
             \/ ScopeOf(d).durable
             \/ ~ Static[d] /\ \A e \in Dependencies[d] : Static[e] \/ g[e]]
  BY <1>1
<1> HIDE DEF g
<1> QED
  BY <1>2 DEF Durable

(* No provider has instances of a request of its own: whichever is not      *)
(* static is durable.                                                       *)
LEMMA DurableProviders == \A d \in Providers : Static[d] \/ Durable[d]
<1>1. ASSUME NEW d \in Providers
      PROVE  Durable[d] <=>
               \/ ScopeOf(d).durable
               \/ ~ Static[d] /\ \A e \in Dependencies[d] : Static[e] \/ Durable[e]
  BY DurableEquation
<1>2. ASSUME NEW d \in Injected PROVE Durable[d]
  <2>1. ScopeOf(d).durable /\ d \in Providers
    BY ProviderNames DEF ScopeOf, DefaultScope
  <2> QED
    BY <1>1, <2>1
<1>3. "CreateExampleController" \in Providers /\ "Enqueuer" \in Injected
  BY ProviderNames DEF Injected
<1>4. Static["CreateExampleController"] \/ Durable["CreateExampleController"]
  BY <1>1, <1>2, <1>3, Wiring
<1> QED
  BY <1>2, <1>4, StaticProviders, ProviderNames

(* In whichever context a unit is served, the emitter and the repository    *)
(* are the process's own, and so are the event handlers' callbacks.         *)
LEMMA Shared ==
  /\ \A u : ContextOf("ExampleRepository", u) = "static"
  /\ \A s, u : EmitterOf(s, u) = <<"EventEmitter2", "static">>
  /\ Subscribed = {<<<<"EventEmitter2", "static">>, "LogExampleCreatedEventHandler">>}
<1>1. Static["EventEmitter2"] /\ Static["ExampleRepository"]
        /\ Static["LogExampleCreatedEventHandler"]
  BY StaticProviders, ProviderNames DEF Scopeless
<1>2. \A d \in {"LogExampleCreatedEventHandler"} : Static[d]
  BY <1>1
<1> QED
  BY <1>1, <1>2 DEF ContextOf, EmitterOf, Subscribed

-----------------------------------------------------------------------------
(***************************************************************************)
(* The inductive invariant.                                                *)
(***************************************************************************)
Emitter == <<"EventEmitter2", "static">>

TypeOK ==
  /\ inMemory \in BOOLEAN
  /\ DOMAIN instances = Processes
  /\ callbacks \in [Processes -> SUBSET ({Emitter} \X (Messages \cup Providers))]
  /\ examples \in [Processes -> SUBSET ({"static"} \X Messages)]
  /\ table \subseteq Messages
  /\ running \in [Processes -> Messages \cup {"none"}]
  /\ outcome \in [Messages -> {"queued", "running", "resolved", "unmet", "crashed"}]
  /\ request \in [Requests -> [status : {"new", "served", "lost"}]
                   \cup [status : {"open"}, process : Processes, due : SUBSET Messages]
                   \cup [status : {"answered"}, due : SUBSET Messages, shown : SUBSET Messages]]
  /\ executed \in [Processes -> SUBSET Messages]
  /\ heard \subseteq Messages
  /\ restarts \in Nat

(* The event handlers are subscribed, and so is the resolver of a message   *)
(* that is being executed.                                                  *)
CallbacksInv ==
  \A p \in Processes :
    /\ Subscribed \subseteq callbacks[p]
    /\ \A m \in Messages : running[p] = m => <<Emitter, m>> \in callbacks[p]

(* What a process has executed is stored where its requests look for it.    *)
Stored(p) == IF inMemory THEN {m \in Messages : <<"static", m>> \in examples[p]} ELSE table

StoredInv == \A p \in Processes : executed[p] \subseteq Stored(p)

(* What is due to a request under way is there, and stays there.            *)
DueInv ==
  \A r \in Requests :
    request[r].status = "open" => request[r].due \subseteq Stored(request[r].process)

(* An instance that was not made for a message is the one of its provider.  *)
Common(d) == IF Static[d] THEN "static" ELSE "durable"

InstancesInv ==
  \A p \in Processes : \A i \in instances[p] :
    /\ i = <<i[1], i[2]>>
    /\ i[1] \in Providers /\ i[2] \notin Messages => i[2] = Common(i[1])

IInv ==
  /\ TypeOK
  /\ CallbacksInv /\ OwnEventArrives /\ HandlersHear
  /\ StoredInv /\ DueInv /\ ExecutedIsShown
  /\ InstancesInv

(* A request is shown what its process has, whichever context it has.       *)
LEMMA StoredAnywhere == \A p, u : StoredIn(p, u) = Stored(p)
<1> SUFFICES ASSUME NEW p, NEW u PROVE StoredIn(p, u) = Stored(p)
  OBVIOUS
<1>1. ContextOf("ExampleRepository", u) = "static"
  BY Shared
<1> QED
  BY <1>1 DEF StoredIn, Stored

(* What a unit has made for it was made for a message, or is the process's. *)
LEMMA Loaded ==
  ASSUME NEW d, NEW u \in Messages \cup Requests, NEW i \in Load(d, u)
  PROVE  /\ i = <<i[1], i[2]>>
         /\ i[1] \in Providers /\ i[2] \notin Messages => i[2] = Common(i[1])
<1> PICK e \in Tree[d] : i = <<e, ContextOf(e, u)>>
  BY DEF Load
<1>1. i[1] = e /\ i[2] = ContextOf(e, u)
  OBVIOUS
<1>2. ASSUME e \in Providers, ContextOf(e, u) \notin Messages
      PROVE  ContextOf(e, u) = Common(e)
  BY <1>2, DurableProviders DEF ContextOf, Attach, Common
<1> QED
  BY <1>1, <1>2

(* A process starts with the handlers subscribed and the static instances.  *)
LEMMA Started ==
  /\ Subscribed = {<<Emitter, "LogExampleCreatedEventHandler">>}
  /\ Subscribed \subseteq {Emitter} \X (Messages \cup Providers)
  /\ \A i \in StaticInstances : i = <<i[1], i[2]>> /\ i[2] = Common(i[1])
<1>1. Subscribed = {<<Emitter, "LogExampleCreatedEventHandler">>}
  BY Shared DEF Emitter
<1>2. "LogExampleCreatedEventHandler" \in Providers
  BY ProviderNames DEF Scopeless
<1>3. ASSUME NEW i \in StaticInstances PROVE i = <<i[1], i[2]>> /\ i[2] = Common(i[1])
  <2>1. PICK d \in Providers : Static[d] /\ i = <<d, "static">>
    BY DEF StaticInstances
  <2> QED
    BY <2>1 DEF Common
<1> QED
  BY <1>1, <1>2, <1>3

LEMMA IInvInit == Init => IInv
<1> SUFFICES ASSUME Init PROVE IInv
  OBVIOUS
<1>1. TypeOK
  BY Started DEF Init, TypeOK
<1>2. CallbacksInv
  BY ConstantsAssumption DEF Init, CallbacksInv
<1>3. OwnEventArrives /\ HandlersHear /\ StoredInv /\ DueInv /\ ExecutedIsShown
  BY DEF Init, OwnEventArrives, HandlersHear, StoredInv, DueInv, ExecutedIsShown
<1>4. InstancesInv
  BY Started DEF Init, InstancesInv
<1> QED
  BY <1>1, <1>2, <1>3, <1>4 DEF IInv

(* The request under way and what is due to it, by its status.              *)
LEMMA RequestShape ==
  ASSUME TypeOK, NEW r \in Requests
  PROVE  /\ request[r].status = "open" =>
              request[r].process \in Processes /\ request[r].due \in SUBSET Messages
         /\ request[r].status = "answered" =>
              request[r].due \in SUBSET Messages /\ request[r].shown \in SUBSET Messages
BY DEF TypeOK

(* Every step keeps the invariant, action by action.                        *)
LEMMA StepResolve ==
  ASSUME IInv, NEW p \in Processes, NEW m \in Messages, Resolve(p, m)
  PROVE  IInv'
<1>0. /\ TypeOK /\ CallbacksInv /\ OwnEventArrives /\ HandlersHear
      /\ StoredInv /\ DueInv /\ ExecutedIsShown /\ InstancesInv
  BY DEF IInv
<1>1. EmitterOf("EventSubscriber", m) = Emitter
  BY Shared DEF Emitter
<1>2. TypeOK'
  BY <1>0, <1>1 DEF TypeOK, Resolve
<1>3. CallbacksInv'
  BY <1>0, <1>1 DEF TypeOK, CallbacksInv, Resolve
<1>4. OwnEventArrives' /\ HandlersHear'
  BY <1>0 DEF TypeOK, OwnEventArrives, HandlersHear, Resolve
<1>5. StoredInv' /\ DueInv' /\ ExecutedIsShown'
  BY <1>0 DEF StoredInv, DueInv, ExecutedIsShown, Stored, Resolve
<1>6. InstancesInv'
  BY <1>0, Loaded DEF TypeOK, InstancesInv, Resolve
<1> QED
  BY <1>2, <1>3, <1>4, <1>5, <1>6 DEF IInv

LEMMA StepExecute ==
  ASSUME IInv, NEW p \in Processes, NEW m \in Messages, Execute(p, m)
  PROVE  IInv'
<1>0. /\ TypeOK /\ CallbacksInv /\ OwnEventArrives /\ HandlersHear
      /\ StoredInv /\ DueInv /\ ExecutedIsShown /\ InstancesInv
  BY DEF IInv
<1> DEFINE called == {c \in Messages \cup Providers :
                        <<EmitterOf("EventPublisher", m), c>> \in callbacks[p]}
<1>1. /\ EmitterOf("EventSubscriber", m) = Emitter
      /\ EmitterOf("EventPublisher", m) = Emitter
      /\ ContextOf("ExampleRepository", m) = "static"
  BY Shared DEF Emitter
<1>2. m \in called
  BY <1>0, <1>1 DEF CallbacksInv, Execute
<1>3. "LogExampleCreatedEventHandler" \in called
  <2>1. "LogExampleCreatedEventHandler" \in Providers
    BY ProviderNames DEF Scopeless
  <2> QED
    BY <1>0, <1>1, <2>1, Started DEF CallbacksInv
<1>4. /\ outcome' = [outcome EXCEPT ![m] = "resolved"]
      /\ heard' = heard \cup {m}
  BY <1>2, <1>3 DEF Execute
<1>5. TypeOK'
  <2>1. examples' \in [Processes -> SUBSET ({"static"} \X Messages)] /\ table' \subseteq Messages
    BY <1>0, <1>1 DEF TypeOK, Execute
  <2> QED
    BY <1>0, <1>4, <2>1 DEF TypeOK, Execute
<1>6. CallbacksInv'
  <2>1. <<Emitter, "LogExampleCreatedEventHandler">> # <<Emitter, m>>
    <3>1. "LogExampleCreatedEventHandler" \in Providers
      BY ProviderNames DEF Scopeless
    <3> QED
      BY <3>1, ConstantsAssumption
  <2>2. \A q \in Processes : Subscribed \subseteq callbacks'[q]
    BY <1>0, <1>1, <2>1, Started DEF TypeOK, CallbacksInv, Execute
  <2>3. ASSUME NEW q \in Processes, NEW n \in Messages, running'[q] = n
        PROVE  <<Emitter, n>> \in callbacks'[q]
    <3>1. q # p
      BY <1>0, <2>3, ConstantsAssumption DEF TypeOK, Execute
    <3> QED
      BY <1>0, <2>3, <3>1 DEF TypeOK, CallbacksInv, Execute
  <2> QED
    BY <2>2, <2>3 DEF CallbacksInv
<1>7. OwnEventArrives' /\ HandlersHear'
  BY <1>0, <1>4 DEF TypeOK, OwnEventArrives, HandlersHear
<1>8. \A q \in Processes : Stored(q) \subseteq Stored(q)'
  <2>1. \A q \in Processes : examples[q] \subseteq examples'[q]
    BY <1>0 DEF TypeOK, Execute
  <2>2. table \subseteq table' /\ inMemory' = inMemory
    BY DEF Execute
  <2> QED
    BY <2>1, <2>2 DEF Stored
<1>9. m \in Stored(p)'
  <2>1. CASE inMemory
    BY <1>0, <1>1, <2>1 DEF Stored, TypeOK, Execute
  <2>2. CASE ~ inMemory
    BY <2>2 DEF Stored, Execute
  <2> QED
    BY <2>1, <2>2
<1>10. StoredInv'
  <2> SUFFICES ASSUME NEW q \in Processes PROVE executed'[q] \subseteq Stored(q)'
    BY DEF StoredInv
  <2>1. executed'[q] \subseteq executed[q] \cup (IF q = p THEN {m} ELSE {})
    BY <1>0 DEF TypeOK, Execute
  <2>2. executed[q] \subseteq Stored(q)
    BY <1>0 DEF StoredInv
  <2> QED
    BY <1>8, <1>9, <2>1, <2>2
<1>11. DueInv'
  <2> SUFFICES ASSUME NEW r \in Requests, request'[r].status = "open"
               PROVE  (request[r].due \subseteq Stored(request[r].process))'
    BY DEF DueInv
  <2>1. request' = request
    BY DEF Execute
  <2>2. PICK q \in Processes : q = request[r].process
    BY <1>0, <2>1, RequestShape
  <2>3. request[r].due \subseteq Stored(q)
    BY <1>0, <2>1, <2>2 DEF DueInv
  <2>4. request[r].due \subseteq Stored(q)'
    BY <1>8, <2>3
  <2> QED
    BY <2>1, <2>2, <2>4 DEF Stored
<1>12. ExecutedIsShown' /\ InstancesInv'
  BY <1>0 DEF ExecutedIsShown, InstancesInv, Execute
<1> QED
  BY <1>5, <1>6, <1>7, <1>10, <1>11, <1>12 DEF IInv

LEMMA StepServeCreate ==
  ASSUME IInv, NEW p \in Processes, NEW r \in Requests, ServeCreate(p, r)
  PROVE  IInv'
<1>0. /\ TypeOK /\ CallbacksInv /\ OwnEventArrives /\ HandlersHear
      /\ StoredInv /\ DueInv /\ ExecutedIsShown /\ InstancesInv
  BY DEF IInv
<1>1. TypeOK'
  BY <1>0 DEF TypeOK, ServeCreate
<1>2. CallbacksInv' /\ OwnEventArrives' /\ HandlersHear' /\ StoredInv'
  BY <1>0 DEF CallbacksInv, OwnEventArrives, HandlersHear, StoredInv, Stored, ServeCreate
<1>3. request'[r].status = "served" /\ \A s \in Requests \ {r} : request'[s] = request[s]
  BY <1>0 DEF TypeOK, ServeCreate
<1>4. DueInv' /\ ExecutedIsShown'
  BY <1>0, <1>3 DEF DueInv, ExecutedIsShown, Stored, ServeCreate
<1>5. InstancesInv'
  BY <1>0, Loaded DEF TypeOK, InstancesInv, ServeCreate
<1> QED
  BY <1>1, <1>2, <1>4, <1>5 DEF IInv

LEMMA StepServeGet ==
  ASSUME IInv, NEW p \in Processes, NEW r \in Requests, ServeGet(p, r)
  PROVE  IInv'
<1>0. /\ TypeOK /\ CallbacksInv /\ OwnEventArrives /\ HandlersHear
      /\ StoredInv /\ DueInv /\ ExecutedIsShown /\ InstancesInv
  BY DEF IInv
<1> DEFINE due == IF inMemory THEN executed[p] ELSE UNION {executed[q] : q \in Processes}
<1>1. due \subseteq Messages /\ due \subseteq Stored(p)
  BY <1>0 DEF TypeOK, StoredInv, Stored
<1>2. /\ request'[r] = [status |-> "open", process |-> p, due |-> due]
      /\ \A s \in Requests \ {r} : request'[s] = request[s]
  BY <1>0 DEF TypeOK, ServeGet
<1>3. TypeOK'
  <2>1. request' \in [Requests ->
          [status : {"new", "served", "lost"}]
            \cup [status : {"open"}, process : Processes, due : SUBSET Messages]
            \cup [status : {"answered"}, due : SUBSET Messages, shown : SUBSET Messages]]
    BY <1>0, <1>1 DEF TypeOK, ServeGet
  <2> QED
    BY <1>0, <2>1 DEF TypeOK, ServeGet
<1>4. CallbacksInv' /\ OwnEventArrives' /\ HandlersHear' /\ StoredInv'
  BY <1>0 DEF CallbacksInv, OwnEventArrives, HandlersHear, StoredInv, Stored, ServeGet
<1>5. DueInv' /\ ExecutedIsShown'
  BY <1>0, <1>1, <1>2 DEF DueInv, ExecutedIsShown, Stored, ServeGet
<1>6. InstancesInv'
  BY <1>0, Loaded DEF TypeOK, InstancesInv, ServeGet
<1> QED
  BY <1>3, <1>4, <1>5, <1>6 DEF IInv

LEMMA StepAnswerGet ==
  ASSUME IInv, NEW r \in Requests, AnswerGet(r)
  PROVE  IInv'
<1>0. /\ TypeOK /\ CallbacksInv /\ OwnEventArrives /\ HandlersHear
      /\ StoredInv /\ DueInv /\ ExecutedIsShown /\ InstancesInv
  BY DEF IInv
<1> DEFINE shown == StoredIn(request[r].process, r)
<1>1. /\ request[r].due \subseteq shown
      /\ shown \subseteq Messages
      /\ request[r].due \subseteq Messages
  BY <1>0, RequestShape, StoredAnywhere DEF AnswerGet, DueInv, Stored, TypeOK
<1>2. /\ request'[r] = [status |-> "answered", due |-> request[r].due, shown |-> shown]
      /\ \A s \in Requests \ {r} : request'[s] = request[s]
  BY <1>0 DEF TypeOK, AnswerGet
<1>3. TypeOK'
  <2> HIDE DEF shown
  <2>1. request' = [request EXCEPT ![r] =
                      [status |-> "answered", due |-> request[r].due, shown |-> shown]]
    BY DEF AnswerGet, shown
  <2>2. request' \in [Requests ->
          [status : {"new", "served", "lost"}]
            \cup [status : {"open"}, process : Processes, due : SUBSET Messages]
            \cup [status : {"answered"}, due : SUBSET Messages, shown : SUBSET Messages]]
    BY <1>0, <1>1, <2>1 DEF TypeOK
  <2> QED
    BY <1>0, <2>2 DEF TypeOK, AnswerGet
<1>4. CallbacksInv' /\ OwnEventArrives' /\ HandlersHear' /\ StoredInv' /\ InstancesInv'
  BY <1>0 DEF CallbacksInv, OwnEventArrives, HandlersHear, StoredInv, Stored, InstancesInv,
              AnswerGet
<1>5. DueInv' /\ ExecutedIsShown'
  <2> HIDE DEF shown
  <2> QED
    BY <1>0, <1>1, <1>2 DEF DueInv, ExecutedIsShown, Stored, AnswerGet
<1> QED
  BY <1>3, <1>4, <1>5 DEF IInv

LEMMA StepRestart ==
  ASSUME IInv, NEW p \in Processes, Restart(p)
  PROVE  IInv'
<1>0. /\ TypeOK /\ CallbacksInv /\ OwnEventArrives /\ HandlersHear
      /\ StoredInv /\ DueInv /\ ExecutedIsShown /\ InstancesInv
  BY DEF IInv
<1>1. TypeOK'
  <2>1. callbacks' \in [Processes -> SUBSET ({Emitter} \X (Messages \cup Providers))]
    BY <1>0, Started DEF TypeOK, Restart
  <2>2. request' \in [Requests ->
          [status : {"new", "served", "lost"}]
            \cup [status : {"open"}, process : Processes, due : SUBSET Messages]
            \cup [status : {"answered"}, due : SUBSET Messages, shown : SUBSET Messages]]
    BY <1>0 DEF TypeOK, Restart
  <2>3. outcome' \in [Messages -> {"queued", "running", "resolved", "unmet", "crashed"}]
    BY <1>0 DEF TypeOK, Restart
  <2>4. restarts' \in Nat /\ running' \in [Processes -> Messages \cup {"none"}]
          /\ examples' \in [Processes -> SUBSET ({"static"} \X Messages)]
          /\ executed' \in [Processes -> SUBSET Messages] /\ DOMAIN instances' = Processes
    BY <1>0 DEF TypeOK, Restart
  <2> QED
    BY <1>0, <2>1, <2>2, <2>3, <2>4 DEF TypeOK, Restart
<1>2. CallbacksInv'
  BY <1>0, ConstantsAssumption DEF TypeOK, CallbacksInv, Restart
<1>3. OwnEventArrives' /\ HandlersHear'
  BY <1>0 DEF TypeOK, OwnEventArrives, HandlersHear, Restart
<1>4. StoredInv'
  BY <1>0 DEF TypeOK, StoredInv, Stored, Restart
<1>5. DueInv'
  <2> SUFFICES ASSUME NEW r \in Requests, request'[r].status = "open"
               PROVE  (request[r].due \subseteq Stored(request[r].process))'
    BY DEF DueInv
  <2>1. request'[r] = request[r] /\ request[r].process # p
    BY <1>0 DEF Restart
  <2>2. PICK q \in Processes : q = request[r].process
    BY <1>0, <2>1, RequestShape
  <2>3. request[r].due \subseteq Stored(q)
    BY <1>0, <2>1, <2>2 DEF DueInv
  <2>4. Stored(q)' = Stored(q)
    BY <1>0, <2>1, <2>2 DEF TypeOK, Stored, Restart
  <2> QED
    BY <2>1, <2>2, <2>3, <2>4 DEF Stored
<1>6. ExecutedIsShown'
  BY <1>0 DEF ExecutedIsShown, Restart
<1>7. InstancesInv'
  BY <1>0, Started DEF TypeOK, InstancesInv, Restart
<1> QED
  BY <1>1, <1>2, <1>3, <1>4, <1>5, <1>6, <1>7 DEF IInv

-----------------------------------------------------------------------------
(* However many requests, messages, processes and restarts there are, and   *)
(* wherever the examples are kept: the invariant holds in every state.      *)
THEOREM Invariance == Spec => []IInv
<1>1. IInv /\ [Next]_vars => IInv'
  <2> SUFFICES ASSUME IInv, [Next]_vars PROVE IInv'
    OBVIOUS
  <2>1. ASSUME NEW p \in Processes, NEW m \in Messages, Resolve(p, m) \/ Execute(p, m)
        PROVE  IInv'
    BY <2>1, StepResolve, StepExecute
  <2>2. ASSUME NEW p \in Processes, NEW r \in Requests, ServeCreate(p, r) \/ ServeGet(p, r)
        PROVE  IInv'
    BY <2>2, StepServeCreate, StepServeGet
  <2>3. ASSUME NEW r \in Requests, AnswerGet(r) PROVE IInv'
    BY <2>3, StepAnswerGet
  <2>4. ASSUME NEW p \in Processes, Restart(p) PROVE IInv'
    BY <2>4, StepRestart
  <2>5. CASE UNCHANGED vars
    BY <2>5 DEF vars, IInv, TypeOK, CallbacksInv, OwnEventArrives, HandlersHear, StoredInv,
                DueInv, Stored, ExecutedIsShown, InstancesInv
  <2> QED
    BY <2>1, <2>2, <2>3, <2>4, <2>5 DEF Next
<1> QED
  BY IInvInit, <1>1, PTL DEF Spec

(* A request that begins after a message was executed is shown what it      *)
(* stored, although they have no context in common.                         *)
THEOREM Shown == Spec => []ExecutedIsShown
<1>1. IInv => ExecutedIsShown
  BY DEF IInv
<1> QED
  BY Invariance, <1>1, PTL

(* The event of a message's handler reaches the message's own resolver.     *)
THEOREM OwnEvent == Spec => []OwnEventArrives
<1>1. IInv => OwnEventArrives
  BY DEF IInv
<1> QED
  BY Invariance, <1>1, PTL

(* Every event that is published is heard by the OnEvent handlers.          *)
THEOREM Heard == Spec => []HandlersHear
<1>1. IInv => HandlersHear
  BY DEF IInv
<1> QED
  BY Invariance, <1>1, PTL

(* However many requests a process serves, they share one instance of each  *)
(* provider.                                                                *)
THEOREM OneInstance == Spec => []RequestsShareInstances
<1>1. IInv => RequestsShareInstances
  <2> SUFFICES ASSUME IInv, NEW p \in Processes, NEW d \in Providers
               PROVE  Cardinality({i \in instances[p] : i[1] = d /\ i[2] \notin Messages}) <= 1
    BY DEF RequestsShareInstances
  <2> DEFINE S == {i \in instances[p] : i[1] = d /\ i[2] \notin Messages}
  <2>1. S \subseteq {<<d, Common(d)>>}
    BY DEF IInv, InstancesInv
  <2>2. S = {} \/ S = {<<d, Common(d)>>}
    BY <2>1
  <2>3. Cardinality({}) = 0 /\ Cardinality({<<d, Common(d)>>}) = 1
    BY FS_EmptySet, FS_Singleton
  <2> QED
    BY <2>2, <2>3
<1> QED
  BY Invariance, <1>1, PTL

-----------------------------------------------------------------------------
(***************************************************************************)
(* The contexts in which the same requests and messages log.  A process of *)
(* RequestLogging is one of those above, seen from its log.                *)
(***************************************************************************)
LogTypeOK ==
  /\ headers \in [Requests -> [upper : ClientIds \cup {None},
                                lower : ClientIds \cup {None}]]
  /\ context \in [Units -> Seq(ClientIds \cup Nat)]
  /\ pc \in {"listen", "receive", "batch", "execute"}
  /\ batch \in Seq(Messages)
  /\ status \in [Requests -> {"new", "open", "sent"}]
  /\ uuids \in Nat
  /\ polls \in Nat

(* The loop runs in no context, what it has not executed yet has none, and  *)
(* the message in execution has one.                                        *)
BatchInv ==
  /\ loop = <<>>
  /\ batch = <<>> <=> pc \in {"listen", "receive"}
  /\ \A i, j \in DOMAIN batch : i # j => batch[i] # batch[j]
  /\ \A i \in DOMAIN batch : (i # 1 \/ pc # "execute") => context[batch[i]] = <<>>
  /\ pc = "execute" => context[batch[1]] # <<>>

(* One id: one the client sent, or a UUID that was made so far.                    *)
HasIdOfItsOwn(u) ==
  IF Sent(u) # {} THEN \E i \in Sent(u) : context[u] = <<i>>
                  ELSE \E n \in 0..(uuids - 1) : context[u] = <<Uuid(n)>>

(* No two contexts have the same UUID.                                      *)
ContextInv ==
  /\ \A u \in Units : context[u] = <<>> \/ HasIdOfItsOwn(u)
  /\ \A r \in Requests : status[r] = "new" <=> context[r] = <<>>
  /\ \A u, v \in Units :
       u # v /\ Sent(u) = {} /\ context[u] # <<>> => context[u] # context[v]

(* A unit's lines have the context it still has.                            *)
LinesInv ==
  \A l \in lines :
    IF l.who = Listener THEN l.bindings = <<>>
      ELSE l.who \in Units /\ l.bindings = context[l.who] /\ l.bindings # <<>>

LogInv == LogTypeOK /\ BatchInv /\ ContextInv /\ LinesInv

(* Only a request comes with ids, and a client's is no UUID.                *)
LEMMA Ids ==
  ASSUME LogTypeOK, NEW u \in Units
  PROVE  /\ Sent(u) \subseteq ClientIds
         /\ \A i \in Sent(u), n \in Nat : i # Uuid(n)
         /\ u \in Messages => Sent(u) = {}
<1>1. CASE u \in Requests
  <2>1. Sent(u) \subseteq ClientIds
    BY <1>1 DEF LogTypeOK, Sent
  <2> QED
    BY <1>1, <2>1, UnitsAssumption, ClientIdsAssumption DEF Uuid
<1>2. CASE u \in Messages
  <2>1. u \notin Requests
    BY <1>2, UnitsAssumption
  <2>2. Sent(u) = {}
    BY <2>1 DEF Sent
  <2> QED
    BY <2>2
<1> QED
  BY <1>1, <1>2 DEF Units

LEMMA LogInvInit == LoggingInit => LogInv
<1> SUFFICES ASSUME LoggingInit PROVE LogInv
  OBVIOUS
<1>1. LogTypeOK
  BY DEF LoggingInit, LogTypeOK
<1>2. BatchInv /\ LinesInv
  BY DEF LoggingInit, BatchInv, LinesInv
<1>3. ContextInv
  BY DEF LoggingInit, ContextInv, Units
<1> QED
  BY <1>1, <1>2, <1>3 DEF LogInv

(* A unit gets an id of its own, and nothing changes for the others.        *)
LEMMA GetsId ==
  ASSUME LogInv, NEW u \in Units, NEW id \in ClientIds \cup Nat,
         context[u] = <<>>, context' = [context EXCEPT ![u] = <<id>>],
         id \in (IF Sent(u) # {} THEN Sent(u) ELSE {Uuid(uuids)}),
         uuids' = uuids + 1, headers' = headers,
         \A r \in Requests : status'[r] = "new" <=> (status[r] = "new" /\ r # u)
  PROVE  ContextInv'
<1>0. LogTypeOK /\ ContextInv
  BY DEF LogInv
<1>1. /\ context'[u] = <<id>>
      /\ \A v \in Units \ {u} : context'[v] = context[v]
  BY <1>0 DEF LogTypeOK
<1>2. \A v \in Units : Sent(v)' = Sent(v)
  BY DEF Sent
<1>3. \A v \in Units : HasIdOfItsOwn(v) /\ v # u => HasIdOfItsOwn(v)'
  BY <1>0, <1>1, <1>2 DEF HasIdOfItsOwn, LogTypeOK
<1>4. HasIdOfItsOwn(u)'
  BY <1>0, <1>1, <1>2 DEF HasIdOfItsOwn, LogTypeOK
<1>5. ASSUME NEW v \in Units \ {u}, context[v] # <<>>, Sent(u) = {} \/ Sent(v) = {}
      PROVE  context[v] # <<id>>
  <2>1. HasIdOfItsOwn(v)
    BY <1>0, <1>5 DEF ContextInv
  <2>2. CASE Sent(v) # {}
    <3>1. PICK i \in Sent(v) : context[v] = <<i>>
      BY <2>1, <2>2 DEF HasIdOfItsOwn
    <3>2. id = Uuid(uuids) /\ uuids \in Nat
      BY <1>0, <1>5, <2>2 DEF LogTypeOK
    <3>3. i # id
      BY <1>0, <3>1, <3>2, Ids
    <3> QED
      BY <3>1, <3>3
  <2>3. CASE Sent(v) = {}
    <3>1. PICK n \in 0..(uuids - 1) : context[v] = <<Uuid(n)>>
      BY <2>1, <2>3 DEF HasIdOfItsOwn
    <3>2. uuids \in Nat /\ n \in Nat /\ n < uuids
      BY <1>0 DEF LogTypeOK
    <3>3. ASSUME Sent(u) = {} PROVE Uuid(n) # id
      BY <3>2, <3>3 DEF Uuid
    <3>4. ASSUME Sent(u) # {} PROVE Uuid(n) # id
      BY <1>0, <3>2, <3>4, Ids
    <3>5. Uuid(n) # id
      BY <3>3, <3>4
    <3> QED
      BY <3>1, <3>5
  <2> QED
    BY <2>2, <2>3
<1>6. \A v \in Units : context'[v] = <<>> \/ HasIdOfItsOwn(v)'
  BY <1>0, <1>1, <1>3, <1>4 DEF ContextInv
<1>7. \A r \in Requests : status'[r] = "new" <=> context'[r] = <<>>
  <2>1. context'[u] # <<>>
    <3>1. <<id>> # <<>>
      OBVIOUS
    <3> QED
      BY <1>1, <3>1
  <2>2. ASSUME NEW r \in Requests PROVE status'[r] = "new" <=> context'[r] = <<>>
    BY <1>0, <1>1, <2>1 DEF ContextInv, Units
  <2> QED
    BY <2>2
<1>8. ASSUME NEW v \in Units, NEW w \in Units, v # w, Sent(v)' = {}, context'[v] # <<>>
      PROVE  context'[v] # context'[w]
  <2>1. CASE v = u
    BY <1>1, <1>2, <1>5, <1>8, <2>1
  <2>2. CASE w = u
    BY <1>1, <1>2, <1>5, <1>8, <2>2
  <2>3. CASE v # u /\ w # u
    BY <1>0, <1>1, <1>2, <1>8, <2>3 DEF ContextInv
  <2> QED
    BY <2>1, <2>2, <2>3
<1> QED
  BY <1>6, <1>7, <1>8 DEF ContextInv

(* Every step keeps the invariant; first, a request arrives.                *)
LEMMA StepUse ==
  ASSUME LogInv, NEW r \in Requests, Use(r)
  PROVE  LogInv'
<1>0. LogTypeOK /\ BatchInv /\ ContextInv /\ LinesInv
  BY DEF LogInv
<1> DEFINE id == RequestIdOf(r)
<1>1. r \in Units /\ context[r] = <<>>
  BY <1>0 DEF ContextInv, Units, Use
<1>2. id \in (IF Sent(r) # {} THEN Sent(r) ELSE {Uuid(uuids)})
  BY DEF RequestIdOf, GenerateRequestId, Sent
<1>3. id \in ClientIds \cup Nat
  BY <1>0, <1>1, <1>2, Ids DEF LogTypeOK, Uuid
<1>4. /\ context' = [context EXCEPT ![r] = <<id>>]
      /\ uuids' = uuids + 1 /\ headers' = headers
      /\ status' = [status EXCEPT ![r] = "open"]
      /\ lines' = lines \cup Line(r, context'[r])
  BY DEF Use
<1> HIDE DEF id
<1>5. ContextInv'
  <2>1. \A s \in Requests : status'[s] = "new" <=> (status[s] = "new" /\ s # r)
    BY <1>0, <1>4 DEF LogTypeOK
  <2> QED
    BY <1>1, <1>2, <1>3, <1>4, <2>1, GetsId
<1>6. LogTypeOK'
  BY <1>0, <1>1, <1>3, <1>4 DEF LogTypeOK, Use
<1>7. /\ context'[r] = <<id>> /\ context'[r] # <<>>
      /\ \A v \in Units \ {r} : context'[v] = context[v]
  BY <1>0, <1>1, <1>4 DEF LogTypeOK
<1>8. BatchInv'
  <2>1. \A i \in DOMAIN batch : batch[i] \in Units \ {r}
    BY <1>0, UnitsAssumption DEF LogTypeOK, Units
  <2>2. batch' = batch /\ pc' = pc /\ loop' = loop
    BY DEF Use
  <2>3. pc = "execute" => 1 \in DOMAIN batch
    BY <1>0 DEF LogTypeOK, BatchInv
  <2> QED
    BY <1>0, <1>7, <2>1, <2>2, <2>3 DEF BatchInv
<1>9. LinesInv'
  BY <1>0, <1>1, <1>4, <1>7, ListenerAssumption DEF LinesInv, Line
<1> QED
  BY <1>5, <1>6, <1>8, <1>9 DEF LogInv

LEMMA StepWrapInContext ==
  ASSUME LogInv, WrapInContext
  PROVE  LogInv'
<1>0. LogTypeOK /\ BatchInv /\ ContextInv /\ LinesInv
  BY DEF LogInv
<1> DEFINE m == Head(batch)
           id == Uuid(uuids)
<1>1. /\ m = batch[1] /\ 1 \in DOMAIN batch /\ m \in Messages /\ m \in Units
      /\ context[m] = <<>>
  BY <1>0 DEF LogTypeOK, BatchInv, Units, WrapInContext
<1>2. Sent(m) = {} /\ m \notin Requests
  BY <1>0, <1>1, Ids, UnitsAssumption
<1>3. id \in ClientIds \cup Nat
  BY <1>0 DEF LogTypeOK, Uuid
<1>4. /\ context' = [context EXCEPT ![m] = <<id>>]
      /\ uuids' = uuids + 1 /\ headers' = headers /\ status' = status
      /\ lines' = lines \cup Line(m, context'[m])
      /\ batch' = batch /\ pc = "batch" /\ pc' = "execute" /\ loop' = loop
  <2>1. Append(loop, id) = <<id>>
    BY <1>0 DEF BatchInv
  <2> QED
    BY <2>1 DEF WrapInContext
<1> HIDE DEF id, m
<1>5. ContextInv'
  <2>1. \A s \in Requests : status'[s] = "new" <=> (status[s] = "new" /\ s # m)
    BY <1>2, <1>4
  <2> QED
    BY <1>1, <1>2, <1>3, <1>4, <2>1, GetsId DEF id
<1>6. LogTypeOK'
  <2>1. context' \in [Units -> Seq(ClientIds \cup Nat)]
    <3>1. <<id>> \in Seq(ClientIds \cup Nat)
      BY <1>3
    <3> QED
      BY <1>0, <1>4, <3>1 DEF LogTypeOK
  <2>2. uuids' \in Nat /\ polls' = polls
    BY <1>0, <1>4 DEF LogTypeOK, WrapInContext
  <2> QED
    BY <1>0, <1>4, <2>1, <2>2 DEF LogTypeOK
<1>7. /\ context'[m] = <<id>> /\ context'[m] # <<>>
      /\ \A v \in Units \ {m} : context'[v] = context[v]
  BY <1>0, <1>1, <1>4 DEF LogTypeOK
<1>8. BatchInv'
  <2>1. ASSUME NEW i \in DOMAIN batch, i # 1 PROVE context'[batch[i]] = <<>>
    <3>1. batch[i] \in Units \ {m} /\ context[batch[i]] = <<>>
      BY <1>0, <1>1, <2>1 DEF LogTypeOK, BatchInv, Units
    <3> QED
      BY <1>7, <3>1
  <2> QED
    BY <1>0, <1>1, <1>4, <1>7, <2>1 DEF BatchInv
<1>9. LinesInv'
  BY <1>0, <1>1, <1>4, <1>7, ListenerAssumption DEF LinesInv, Line
<1> QED
  BY <1>5, <1>6, <1>8, <1>9 DEF LogInv

(* What changes no context and logs only in one's own.                      *)
LEMMA StepLogs ==
  ASSUME LogInv, NEW who, UNCHANGED <<headers, context, uuids>>,
         \/ who = Listener /\ lines' \in {lines, lines \cup Line(who, <<>>)}
         \/ /\ who \in Units /\ context[who] # <<>>
            /\ lines' \in {lines, lines \cup Line(who, context[who])},
         \A r \in Requests : status'[r] = "new" <=> status[r] = "new"
  PROVE  ContextInv' /\ LinesInv'
<1>0. LogTypeOK /\ ContextInv /\ LinesInv
  BY DEF LogInv
<1>1. ContextInv'
  <2>1. \A u \in Units :
            (Sent(u)' = Sent(u)) /\ (HasIdOfItsOwn(u)' <=> HasIdOfItsOwn(u))
    BY DEF Sent, HasIdOfItsOwn
  <2> QED
    BY <1>0, <2>1 DEF ContextInv
<1>2. LinesInv'
  BY <1>0, ListenerAssumption DEF LinesInv, Line
<1> QED
  BY <1>1, <1>2

LEMMA StepSend ==
  ASSUME LogInv, NEW r \in Requests, Send(r)
  PROVE  LogInv'
<1>0. LogTypeOK /\ BatchInv /\ ContextInv /\ LinesInv
  BY DEF LogInv
<1>1. LogTypeOK'
  BY <1>0 DEF LogTypeOK, Send
<1>2. BatchInv'
  BY <1>0 DEF BatchInv, Send
<1>3. ContextInv' /\ LinesInv'
  <2>1. r \in Units /\ context[r] # <<>>
    BY <1>0 DEF Units, ContextInv, Send
  <2>2. \A s \in Requests : status'[s] = "new" <=> status[s] = "new"
    BY <1>0 DEF LogTypeOK, Send
  <2>3. /\ lines' \in {lines, lines \cup Line(r, context[r])}
        /\ UNCHANGED <<headers, context, uuids>>
    BY DEF Send
  <2> QED
    BY <2>1, <2>2, <2>3, StepLogs
<1> QED
  BY <1>1, <1>2, <1>3 DEF LogInv

LEMMA StepLoop ==
  ASSUME LogInv, Listen \/ Receive \/ ReceiveError
  PROVE  LogInv'
<1>0. LogTypeOK /\ BatchInv /\ ContextInv /\ LinesInv
  BY DEF LogInv
<1>1. lines' \in {lines, lines \cup Line(Listener, <<>>)}
        /\ UNCHANGED <<headers, context, uuids, status, loop>>
  BY <1>0 DEF Listen, Receive, ReceiveError, BatchInv
<1>2. ContextInv' /\ LinesInv'
  BY <1>1, StepLogs
<1>3. CASE Listen \/ ReceiveError
  <2>1. LogTypeOK'
    BY <1>0, <1>3 DEF LogTypeOK, Listen, ReceiveError
  <2>2. BatchInv'
    BY <1>0, <1>3 DEF BatchInv, Listen, ReceiveError
  <2> QED
    BY <1>2, <2>1, <2>2 DEF LogInv
<1>4. CASE Receive
  <2>1. PICK ms \in {<<>>} \cup {<<m>> : m \in Messages} \cup {<<m, n>> : m, n \in Messages} :
          /\ \A i, j \in DOMAIN ms : i # j => ms[i] # ms[j]
          /\ \A i \in DOMAIN ms : context[ms[i]] = <<>>
          /\ batch' = ms
          /\ pc' = IF ms = <<>> THEN "listen" ELSE "batch"
    BY <1>4 DEF Receive
  <2>2. ms \in Seq(Messages)
    <3>1. CASE ms = <<>>
      BY <3>1
    <3>2. CASE \E m \in Messages : ms = <<m>>
      BY <3>2
    <3>3. CASE \E m, n \in Messages : ms = <<m, n>>
      BY <3>3
    <3> QED
      BY <2>1, <3>1, <3>2, <3>3
  <2>3. LogTypeOK'
    BY <1>0, <1>1, <1>4, <2>1, <2>2 DEF LogTypeOK, Receive
  <2>4. BatchInv'
    BY <1>0, <1>1, <2>1 DEF BatchInv
  <2> QED
    BY <1>2, <2>3, <2>4 DEF LogInv
<1> QED
  BY <1>3, <1>4

LEMMA StepFinish ==
  ASSUME LogInv, Finish
  PROVE  LogInv'
<1>0. LogTypeOK /\ BatchInv /\ ContextInv /\ LinesInv
  BY DEF LogInv
<1>1. /\ Head(batch) = batch[1] /\ Head(batch) \in Units /\ context[Head(batch)] # <<>>
      /\ batch # <<>> /\ Tail(batch) \in Seq(Messages)
  BY <1>0 DEF LogTypeOK, BatchInv, Units, Finish
<1>2. ContextInv' /\ LinesInv'
  <2>1. lines' \in {lines, lines \cup Line(Head(batch), context[Head(batch)])}
          /\ UNCHANGED <<headers, context, uuids, status>>
    BY DEF Finish
  <2> QED
    BY <1>1, <2>1, StepLogs
<1>3. LogTypeOK'
  BY <1>0, <1>1 DEF LogTypeOK, Finish
<1>4. BatchInv'
  <2>1. /\ batch' = Tail(batch) /\ loop' = loop /\ context' = context
        /\ pc' = IF Tail(batch) = <<>> THEN "listen" ELSE "batch"
    BY DEF Finish
  <2>2. \A i \in DOMAIN Tail(batch) :
          i \in Nat \ {0} /\ i + 1 \in DOMAIN batch /\ Tail(batch)[i] = batch[i + 1]
    BY <1>0, <1>1 DEF LogTypeOK
  <2> QED
    BY <1>0, <2>1, <2>2 DEF BatchInv
<1> QED
  BY <1>2, <1>3, <1>4 DEF LogInv

(* With any number of requests, messages and polls: the invariant.          *)
THEOREM LoggingInvariance == LoggingSpec => []LogInv
<1>1. LogInv /\ [LoggingNext]_loggingVars => LogInv'
  <2> SUFFICES ASSUME LogInv, [LoggingNext]_loggingVars PROVE LogInv'
    OBVIOUS
  <2>1. ASSUME NEW r \in Requests, Use(r) \/ Send(r) PROVE LogInv'
    BY <2>1, StepUse, StepSend
  <2>2. CASE Listen \/ Receive \/ ReceiveError
    BY <2>2, StepLoop
  <2>3. CASE WrapInContext \/ Finish
    BY <2>3, StepWrapInContext, StepFinish
  <2>4. CASE UNCHANGED loggingVars
    <3>1. \A u \in Units :
              (Sent(u)' = Sent(u)) /\ (HasIdOfItsOwn(u)' <=> HasIdOfItsOwn(u))
      BY <2>4 DEF Sent, HasIdOfItsOwn, loggingVars
    <3> QED
      BY <2>4, <3>1 DEF LogInv, LogTypeOK, BatchInv, ContextInv, LinesInv, loggingVars
  <2> QED
    BY <2>1, <2>2, <2>3, <2>4 DEF LoggingNext
<1> QED
  BY LogInvInit, <1>1, PTL DEF LoggingSpec

(* A line has the one id of its request or message, and a line of the loop  *)
(* none: no context is nested in another or carried from poll to poll.      *)
THEOREM NoNesting == LoggingSpec => []ContextsDoNotNest
<1>1. LogInv => ContextsDoNotNest
  <2> SUFFICES ASSUME LogInv, NEW l \in lines
               PROVE  Len(l.bindings) = (IF l.who = Listener THEN 0 ELSE 1)
    BY DEF ContextsDoNotNest
  <2>1. CASE l.who = Listener
    BY <2>1 DEF LogInv, LinesInv
  <2>2. CASE l.who # Listener
    <3>1. l.who \in Units /\ l.bindings = context[l.who] /\ l.bindings # <<>>
      BY <2>2 DEF LogInv, LinesInv
    <3>2. HasIdOfItsOwn(l.who)
      BY <3>1 DEF LogInv, ContextInv
    <3>3. PICK i : context[l.who] = <<i>>
      BY <3>2 DEF HasIdOfItsOwn
    <3> QED
      BY <2>2, <3>1, <3>3
  <2> QED
    BY <2>1, <2>2
<1> QED
  BY LoggingInvariance, <1>1, PTL

(* Lines with one id are of one unit, unless two requests came with that id *)
(* in a header.                                                             *)
THEOREM TellApart == LoggingSpec => []IdsTellApart
<1>1. LogInv => IdsTellApart
  <2> SUFFICES ASSUME LogInv, NEW k \in lines, NEW l \in lines,
                      k.who # l.who, k.who # Listener, l.who # Listener
               PROVE  /\ k.bindings = l.bindings => Sent(k.who) \cap Sent(l.who) # {}
                      /\ \A i \in ClientIds :
                           Sent(k.who) = {i} /\ Sent(l.who) = {i}
                             => k.bindings = l.bindings
    BY DEF IdsTellApart
  <2>1. /\ k.who \in Units /\ k.bindings = context[k.who] /\ k.bindings # <<>>
        /\ l.who \in Units /\ l.bindings = context[l.who] /\ l.bindings # <<>>
    BY DEF LogInv, LinesInv
  <2>2. CASE Sent(k.who) = {} \/ Sent(l.who) = {}
    BY <2>1, <2>2 DEF LogInv, ContextInv
  <2>3. CASE Sent(k.who) # {} /\ Sent(l.who) # {}
    <3>1. HasIdOfItsOwn(k.who) /\ HasIdOfItsOwn(l.who)
      BY <2>1 DEF LogInv, ContextInv
    <3>2. PICK i \in Sent(k.who), j \in Sent(l.who) :
            k.bindings = <<i>> /\ l.bindings = <<j>>
      BY <2>1, <2>3, <3>1 DEF HasIdOfItsOwn
    <3>3. k.bindings = l.bindings <=> i = j
      BY <3>2
    <3> QED
      BY <3>2, <3>3
  <2> QED
    BY <2>2, <2>3
<1> QED
  BY LoggingInvariance, <1>1, PTL
================================================================================
