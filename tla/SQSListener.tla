------------------------------ MODULE SQSListener ------------------------------
(***************************************************************************)
(* The life of a create-example command: CreateExampleController puts it   *)
(* on the SQS FIFO queue, a listener process (SQSListener, started by      *)
(* queue.ts) receives it, QueueResolver runs CreateExampleCommandHandler   *)
(* under it, and the message is deleted once the handler stored the        *)
(* example and the ExampleCreatedEvent came back.                          *)
(*                                                                         *)
(* Every await of that path is a place where another process, SQS or a     *)
(* crash can step in, so each is a control point of pc.  SQS and DynamoDB  *)
(* are external: they apply a request (SQSAccepts, StoreApplied,           *)
(* DeleteApplied) apart from the answer the code sees, so an answer can be *)
(* lost after the request took effect.                                     *)
(*                                                                         *)
(* A receive hands out a message under a fresh receipt handle; a receipt   *)
(* is a message with the number of times it has been received.  Those of a *)
(* foreign message, which comes back for ever, are not counted, as nothing *)
(* is done with its receipt.  Every command has its own message group      *)
(* (create-example.controller.ts sets groupId to the fresh id), so FIFO    *)
(* order constrains nothing and the messages of a batch are taken in any   *)
(* order.                                                                  *)
(***************************************************************************)
EXTENDS Naturals, FiniteSets

CONSTANTS
  Commands,     \* create-example requests accepted by the HTTP API
  Foreign,      \* queue messages that CreateExampleQueuePayload rejects
  Listeners,    \* the listener processes
  BatchSize,    \* SQS_QUEUE_BATCH_CONSUMER_SIZE
  MaxReceives,  \* bound: how often a command may be received
  MaxFaults,    \* bound: failures, crashes and too short visibility timeouts
  NoReceipt     \* the listener is between two messages

Messages == Commands \cup Foreign
Receipt == [msg: Messages, gen: 0..MaxReceives]

ASSUME ConstantsAssumption ==
  /\ Commands \cap Foreign = {}
  /\ BatchSize \in Nat \ {0}
  /\ MaxReceives \in Nat
  /\ MaxFaults \in Nat
  /\ NoReceipt \notin Receipt

VARIABLES
  request,     \* request[c]: the HTTP request: none, pending, created, error
  queue,       \* queue[m]: unsent, visible, inflight or deleted
  receives,    \* receives[m]: how often SQS has handed out the command m
  stored,      \* receipts whose PutItem took effect in DynamoDB
  published,   \* receipts whose ExampleCreatedEvent was emitted
  pc,          \* pc[p]: where the listener's loop is
  batch,       \* batch[p]: receipts of the received messages not yet done
  current,     \* current[p]: receipt of the message being executed
  subscribed,  \* subscribed[p]: receipts with a callback on p's EventEmitter2
  resolved,    \* resolved[p]: QueueResolver's local flag
  stopped,     \* stopped[p]: the field SQSListener.stopped
  faults       \* how many faults have happened

sqsVars == <<queue, receives>>
effectVars == <<stored, published>>
loopVars == <<pc, batch, current, subscribed, resolved, stopped>>
vars == <<request, sqsVars, effectVars, loopVars, faults>>

Working == {"storing", "publishing", "deleting"}
Alive == {"waiting", "receiving", "next"} \cup Working

TypeOK ==
  /\ request \in [Commands -> {"none", "pending", "created", "error"}]
  /\ queue \in [Messages -> {"unsent", "visible", "inflight", "deleted"}]
  /\ receives \in [Messages -> 0..MaxReceives]
  /\ stored \subseteq Receipt
  /\ published \subseteq Receipt
  /\ pc \in [Listeners -> Alive \cup {"ended", "down"}]
  /\ batch \in [Listeners -> SUBSET Receipt]
  /\ current \in [Listeners -> Receipt \cup {NoReceipt}]
  /\ subscribed \in [Listeners -> SUBSET Receipt]
  /\ resolved \in [Listeners -> BOOLEAN]
  /\ stopped \in [Listeners -> BOOLEAN]
  /\ faults \in 0..MaxFaults

Init ==
  /\ request = [c \in Commands |-> "none"]
  /\ queue = [m \in Messages |-> "unsent"]
  /\ receives = [m \in Messages |-> 0]
  /\ stored = {}
  /\ published = {}
  /\ pc = [p \in Listeners |-> "waiting"]
  /\ batch = [p \in Listeners |-> {}]
  /\ current = [p \in Listeners |-> NoReceipt]
  /\ subscribed = [p \in Listeners |-> {}]
  /\ resolved = [p \in Listeners |-> FALSE]
  /\ stopped = [p \in Listeners |-> FALSE]
  /\ faults = 0

(* One of the failures the environment may cause; MaxFaults bounds them. *)
Fault ==
  /\ faults < MaxFaults
  /\ faults' = faults + 1

--------------------------------------------------------------------------------
(* The HTTP side: CreateExampleController.accept. *)

(* The payload is valid, a fresh id is drawn and the enqueue is under way. *)
Accept(c) ==
  /\ request[c] = "none"
  /\ request' = [request EXCEPT ![c] = "pending"]
  /\ UNCHANGED <<sqsVars, effectVars, loopVars, faults>>

(* SQS takes the message, perhaps after the sender has given up on it. *)
SQSAccepts(c) ==
  /\ request[c] \in {"pending", "error"}
  /\ queue[c] = "unsent"
  /\ queue' = [queue EXCEPT ![c] = "visible"]
  /\ UNCHANGED <<request, receives, effectVars, loopVars, faults>>

(* Defect: the 201 answer is sent without awaiting the enqueue. *)
RespondWithoutAwait(c) ==
  /\ request[c] = "pending"
  /\ request' = [request EXCEPT ![c] = "created"]
  /\ UNCHANGED <<sqsVars, effectVars, loopVars, faults>>

(* The enqueue resolved: 201 with the example-id header. *)
Respond(c) ==
  /\ request[c] = "pending"
  /\ queue[c] # "unsent"
  /\ request' = [request EXCEPT ![c] = "created"]
  /\ UNCHANGED <<sqsVars, effectVars, loopVars, faults>>

(* The enqueue rejected: 500, whether or not SQS took the message. *)
RespondError(c) ==
  /\ request[c] = "pending"
  /\ Fault
  /\ request' = [request EXCEPT ![c] = "error"]
  /\ UNCHANGED <<sqsVars, effectVars, loopVars>>

(* Another sender puts a payload on the queue that the listener rejects. *)
SendForeign(m) ==
  /\ queue[m] = "unsent"
  /\ queue' = [queue EXCEPT ![m] = "visible"]
  /\ UNCHANGED <<request, receives, effectVars, loopVars, faults>>

--------------------------------------------------------------------------------
(* SQS: visibility timeouts and receives. *)

LatestReceipt(m) == [msg |-> m, gen |-> receives[m]]

Held(m) == \E p \in Listeners : LatestReceipt(m) \in batch[p]

(* Nobody works on the message any more: its timeout passes.  That of a     *)
(* foreign message may pass at any time, which makes no difference to the   *)
(* listener that has it.                                                    *)
VisibilityTimeout(m) ==
  /\ queue[m] = "inflight"
  /\ m \in Commands => ~Held(m)
  /\ queue' = [queue EXCEPT ![m] = "visible"]
  /\ UNCHANGED <<request, receives, effectVars, loopVars, faults>>

(* The timeout passes although a listener still has the command to do: the *)
(* clock of a whole batch starts at the receive, and the batch is done one *)
(* message after the other.                                                *)
VisibilityTooShort(c) ==
  /\ queue[c] = "inflight"
  /\ Held(c)
  /\ Fault
  /\ queue' = [queue EXCEPT ![c] = "visible"]
  /\ UNCHANGED <<request, receives, effectVars, loopVars>>

(* Nothing limits how often a message is received: the queue has no redrive *)
(* policy.                                                                  *)
Receivable ==
  {m \in Messages : /\ queue[m] = "visible"
                    /\ m \in Commands => receives[m] < MaxReceives}

Receives(m) == IF m \in Commands THEN receives[m] + 1 ELSE receives[m]

(* SQS hands out the messages S, each under a new receipt. *)
HandOut(S) ==
  /\ queue' = [m \in Messages |-> IF m \in S THEN "inflight" ELSE queue[m]]
  /\ receives' = [m \in Messages |-> IF m \in S THEN Receives(m) ELSE receives[m]]

NewReceipts(S) == {[msg |-> m, gen |-> Receives(m)] : m \in S}

--------------------------------------------------------------------------------
(* SQSListener.listen: the polling loop of process p. *)

(* Defect: the stop flag is not looked at. *)
ListenIgnoringStop(p) ==
  /\ pc[p] = "waiting"
  /\ pc' = [pc EXCEPT ![p] = "receiving"]
  /\ UNCHANGED <<request, sqsVars, effectVars, batch, current, subscribed,
                 resolved, stopped, faults>>

(* listen is entered, at start or by the timer: stop or poll. *)
Listen(p) ==
  /\ pc[p] = "waiting"
  /\ pc' = [pc EXCEPT ![p] = IF stopped[p] THEN "ended" ELSE "receiving"]
  /\ UNCHANGED <<request, sqsVars, effectVars, batch, current, subscribed,
                 resolved, stopped, faults>>

(* ReceiveMessage answers with up to BatchSize messages, none only if none *)
(* is visible (long polling).                                              *)
Receive(p) ==
  /\ pc[p] = "receiving"
  /\ \E S \in SUBSET Receivable :
       /\ Cardinality(S) <= BatchSize
       /\ S = {} => Receivable = {}
       /\ HandOut(S)
       /\ batch' = [batch EXCEPT ![p] = NewReceipts(S)]
  /\ pc' = [pc EXCEPT ![p] = "next"]
  /\ UNCHANGED <<request, effectVars, current, subscribed, resolved, stopped,
                 faults>>

(* ReceiveMessage rejects: the catch turns it into an empty batch.  SQS may *)
(* have handed out messages that the answer never delivered.                *)
ReceiveError(p) ==
  /\ pc[p] = "receiving"
  /\ Fault
  /\ \E S \in SUBSET Receivable :
       /\ Cardinality(S) <= BatchSize
       /\ HandOut(S)
  /\ pc' = [pc EXCEPT ![p] = "next"]
  /\ UNCHANGED <<request, effectVars, batch, current, subscribed, resolved,
                 stopped>>

(* Defect: after the last message no timer is set, and the loop is lost. *)
EndBatchNoTimer(p) ==
  /\ pc[p] = "next"
  /\ batch[p] = {}
  /\ UNCHANGED vars

(* The for loop is over: setTimeout schedules the next listen. *)
EndBatch(p) ==
  /\ pc[p] = "next"
  /\ batch[p] = {}
  /\ pc' = [pc EXCEPT ![p] = "waiting"]
  /\ UNCHANGED <<request, sqsVars, effectVars, batch, current, subscribed,
                 resolved, stopped, faults>>

(* Defect: the resolver unsubscribes only when the execution succeeds. *)
NextMessageNoFinally(p) ==
  /\ pc' = [pc EXCEPT ![p] = "next"]
  /\ batch' = [batch EXCEPT ![p] = @ \ {current[p]}]
  /\ current' = [current EXCEPT ![p] = NoReceipt]
  /\ resolved' = [resolved EXCEPT ![p] = FALSE]
  /\ UNCHANGED subscribed

(* Leave the current message: QueueResolver's finally has unsubscribed, the *)
(* listener's catch has logged, and the loop goes on with the next message. *)
NextMessage(p) ==
  /\ pc' = [pc EXCEPT ![p] = "next"]
  /\ batch' = [batch EXCEPT ![p] = @ \ {current[p]}]
  /\ current' = [current EXCEPT ![p] = NoReceipt]
  /\ subscribed' = [subscribed EXCEPT ![p] = @ \ {current[p]}]
  /\ resolved' = [resolved EXCEPT ![p] = FALSE]

(* Defect: a payload that does not parse ends the loop over the batch. *)
RejectPayloadAbandoningBatch(p) ==
  /\ pc[p] = "next"
  /\ \E r \in batch[p] : r.msg \in Foreign
  /\ batch' = [batch EXCEPT ![p] = {}]
  /\ UNCHANGED <<request, sqsVars, effectVars, pc, current, subscribed,
                 resolved, stopped, faults>>

(* CreateExampleQueuePayload.parse throws before anything is subscribed; the *)
(* message is logged and not deleted.                                        *)
RejectPayload(p) ==
  /\ pc[p] = "next"
  /\ \E r \in batch[p] :
       /\ r.msg \in Foreign
       /\ batch' = [batch EXCEPT ![p] = @ \ {r}]
  /\ UNCHANGED <<request, sqsVars, effectVars, pc, current, subscribed,
                 resolved, stopped, faults>>

(* A valid payload: QueueResolver.resolve subscribes, and the handler sends *)
(* its PutItem.                                                             *)
StartCommand(p) ==
  /\ pc[p] = "next"
  /\ \E r \in batch[p] :
       /\ r.msg \in Commands
       /\ current' = [current EXCEPT ![p] = r]
       /\ subscribed' = [subscribed EXCEPT ![p] = @ \cup {r}]
  /\ resolved' = [resolved EXCEPT ![p] = FALSE]
  /\ pc' = [pc EXCEPT ![p] = "storing"]
  /\ UNCHANGED <<request, sqsVars, effectVars, batch, stopped, faults>>

(* DynamoDB performs the PutItem. *)
StoreApplied(p) ==
  /\ pc[p] = "storing"
  /\ current[p] \notin stored
  /\ stored' = stored \cup {current[p]}
  /\ UNCHANGED <<request, sqsVars, published, loopVars, faults>>

(* Defect: store is not awaited, so the event goes out before the write. *)
PublishBeforeStore(p) ==
  /\ pc[p] = "storing"
  /\ published' = published \cup {current[p]}
  /\ resolved' = [resolved EXCEPT ![p] = current[p] \in subscribed[p]]
  /\ pc' = [pc EXCEPT ![p] = "publishing"]
  /\ UNCHANGED <<request, sqsVars, stored, batch, current, subscribed, stopped,
                 faults>>

(* The PutItem answers: in the same turn the event is emitted, and every    *)
(* listener of the process is called, the resolver's callback among them.   *)
StoreDone(p) ==
  /\ pc[p] = "storing"
  /\ current[p] \in stored
  /\ published' = published \cup {current[p]}
  /\ resolved' = [resolved EXCEPT ![p] = current[p] \in subscribed[p]]
  /\ pc' = [pc EXCEPT ![p] = "publishing"]
  /\ UNCHANGED <<request, sqsVars, stored, batch, current, subscribed, stopped,
                 faults>>

(* Defect: a failed execution is swallowed and the message deleted. *)
StoreErrorThenDelete(p) ==
  /\ pc[p] = "storing"
  /\ Fault
  /\ pc' = [pc EXCEPT ![p] = "deleting"]
  /\ subscribed' = [subscribed EXCEPT ![p] = @ \ {current[p]}]
  /\ UNCHANGED <<request, sqsVars, effectVars, batch, current, resolved, stopped>>

(* The PutItem rejects, whether or not it took effect. *)
StoreError(p) ==
  /\ pc[p] = "storing"
  /\ Fault
  /\ NextMessage(p)
  /\ UNCHANGED <<request, sqsVars, effectVars, stopped>>

(* All event handlers finished: unsubscribe; the message is deleted if the  *)
(* flag is set and fails otherwise.                                         *)
PublishDone(p) ==
  /\ pc[p] = "publishing"
  /\ IF resolved[p]
     THEN /\ pc' = [pc EXCEPT ![p] = "deleting"]
          /\ subscribed' = [subscribed EXCEPT ![p] = @ \ {current[p]}]
          /\ UNCHANGED <<batch, current, resolved>>
     ELSE NextMessage(p)
  /\ UNCHANGED <<request, sqsVars, effectVars, stopped, faults>>

(* An event handler rejected, and with it the handler's publish. *)
PublishError(p) ==
  /\ pc[p] = "publishing"
  /\ Fault
  /\ NextMessage(p)
  /\ UNCHANGED <<request, sqsVars, effectVars, stopped>>

(* SQS deletes the message if the receipt is the latest one. *)
DeleteApplied(p) ==
  /\ pc[p] = "deleting"
  /\ LET m == current[p].msg IN
       /\ queue[m] \in {"visible", "inflight"}
       /\ current[p] = LatestReceipt(m)
       /\ queue' = [queue EXCEPT ![m] = "deleted"]
  /\ UNCHANGED <<request, receives, effectVars, loopVars, faults>>

(* DeleteMessage answers: the message is gone, or the receipt has expired. *)
DeleteDone(p) ==
  /\ pc[p] = "deleting"
  /\ LET m == current[p].msg IN
       ~(queue[m] = "inflight" /\ current[p] = LatestReceipt(m))
  /\ NextMessage(p)
  /\ UNCHANGED <<request, sqsVars, effectVars, stopped, faults>>

(* DeleteMessage rejects, whether or not it took effect; it is only logged. *)
DeleteError(p) ==
  /\ pc[p] = "deleting"
  /\ Fault
  /\ NextMessage(p)
  /\ UNCHANGED <<request, sqsVars, effectVars, stopped>>

--------------------------------------------------------------------------------
(* Process control. *)

Stop(p) ==
  /\ pc[p] \in Alive
  /\ ~stopped[p]
  /\ stopped' = [stopped EXCEPT ![p] = TRUE]
  /\ UNCHANGED <<request, sqsVars, effectVars, pc, batch, current, subscribed,
                 resolved, faults>>

(* The process ends: killed, or an unhandled rejection, such as that of the *)
(* moduleRef.resolve outside the loop's catch.  A receive in progress may   *)
(* still be answered to nobody.                                             *)
Crash(p) ==
  /\ pc[p] \in Alive
  /\ Fault
  /\ \E S \in SUBSET Receivable :
       /\ S # {} => pc[p] = "receiving" /\ Cardinality(S) <= BatchSize
       /\ HandOut(S)
  /\ pc' = [pc EXCEPT ![p] = "down"]
  /\ batch' = [batch EXCEPT ![p] = {}]
  /\ current' = [current EXCEPT ![p] = NoReceipt]
  /\ subscribed' = [subscribed EXCEPT ![p] = {}]
  /\ resolved' = [resolved EXCEPT ![p] = FALSE]
  /\ stopped' = [stopped EXCEPT ![p] = FALSE]
  /\ UNCHANGED <<request, effectVars>>

(* queue.ts again: bootstrap and listenQueues. *)
Restart(p) ==
  /\ pc[p] = "down"
  /\ pc' = [pc EXCEPT ![p] = "waiting"]
  /\ UNCHANGED <<request, sqsVars, effectVars, batch, current, subscribed,
                 resolved, stopped, faults>>

--------------------------------------------------------------------------------
(* What the loop does by itself, when its requests are answered. *)
LoopStep(p) ==
  \/ Listen(p) \/ Receive(p) \/ EndBatch(p) \/ RejectPayload(p)
  \/ StartCommand(p) \/ StoreApplied(p) \/ StoreDone(p) \/ PublishDone(p)
  \/ DeleteApplied(p) \/ DeleteDone(p)

LoopFault(p) ==
  \/ ReceiveError(p) \/ StoreError(p) \/ PublishError(p) \/ DeleteError(p)
  \/ Crash(p)

Next ==
  \/ \E c \in Commands :
       \/ Accept(c) \/ SQSAccepts(c) \/ Respond(c) \/ RespondError(c)
       \/ VisibilityTooShort(c)
  \/ \E m \in Foreign : SendForeign(m)
  \/ \E m \in Messages : VisibilityTimeout(m)
  \/ \E p \in Listeners : LoopStep(p) \/ LoopFault(p) \/ Stop(p) \/ Restart(p)

Spec == Init /\ [][Next]_vars

(* SQS hands out the command c to some listener.                            *)
Received(c) ==
  /\ queue[c] = "visible"
  /\ \E p \in Listeners : Receive(p)
  /\ queue'[c] = "inflight"

(* The event loop of each process runs what is ready, and SQS and DynamoDB  *)
(* answer in the end.  SQS passes over no command for ever, though poison   *)
(* may fill every batch it hands out in between.  Nothing is assumed of     *)
(* senders, stops or restarts.                                              *)
Fairness ==
  /\ \A p \in Listeners : WF_vars(LoopStep(p))
  /\ \A m \in Messages : WF_vars(VisibilityTimeout(m))
  /\ \A c \in Commands : SF_vars(Received(c))

FairSpec == Spec /\ Fairness

--------------------------------------------------------------------------------
(* Safety. *)

Did(m, effects) == \E r \in effects : r.msg = m

(* A message leaves the queue only when one and the same delivery of it     *)
(* stored its example and had its event emitted; a message the payload      *)
(* schema rejects never does.                                               *)
NoLostCommand ==
  \A m \in Messages :
    queue[m] = "deleted" =>
      /\ m \in Commands
      /\ \E r \in stored \cap published : r.msg = m

(* A client that was answered 201 has its command in the queue or its       *)
(* example in the repository, through any failure of the listeners.         *)
AcknowledgedSurvives ==
  \A c \in Commands :
    request[c] = "created" =>
      queue[c] \in {"visible", "inflight"} \/ Did(c, stored)

(* On the emitter that all executions of a process share, the callbacks of  *)
(* the resolver are those of the message being executed, there as long as   *)
(* its execution lasts: the reason the listener gives for processing a      *)
(* batch sequentially.                                                      *)
NoCrossMessageEvents ==
  \A p \in Listeners :
    subscribed[p] = IF pc[p] \in {"storing", "publishing"}
                    THEN {current[p]} ELSE {}

(* A command is received again only after a failure: as many deliveries as  *)
(* faults, and one.                                                         *)
RedeliveryNeedsFault == \A c \in Commands : receives[c] <= faults + 1

(* Once stopped, and out of the poll in progress, a listener polls no more  *)
(* and takes no new message: what it still holds only shrinks.              *)
StopDrains ==
  [][\A p \in Listeners :
       stopped[p] /\ pc[p] # "receiving" =>
         pc'[p] # "receiving" /\ batch'[p] \subseteq batch[p]]_vars

--------------------------------------------------------------------------------
(* Why the safety properties hold: the parts of the inductive invariant. *)

(* Receipts are counted from the first receive on. *)
ReceiptsInv ==
  /\ \A c \in Commands :
       /\ queue[c] = "unsent" => receives[c] = 0
       /\ queue[c] = "inflight" => receives[c] >= 1
  /\ \A p \in Listeners : \A r \in batch[p] :
       /\ r.gen <= receives[r.msg]
       /\ r.msg \in Commands => r.gen >= 1

(* What a listener holds at each control point. *)
LoopInv ==
  \A p \in Listeners :
    /\ pc[p] \in {"waiting", "receiving", "ended", "down"} => batch[p] = {}
    /\ pc[p] \in Working => current[p] \in batch[p] /\ current[p].msg \in Commands
    /\ pc[p] \notin Working => current[p] = NoReceipt
    /\ pc[p] = "publishing" => resolved[p]
    /\ pc[p] \in {"publishing", "deleting"} => current[p] \in stored \cap published

(* A command that is up for another delivery has been failed before. *)
DeliveryInv ==
  \A c \in Commands :
    /\ receives[c] <= faults + 1
    /\ queue[c] = "visible" \/ (queue[c] = "inflight" /\ ~Held(c)) =>
         receives[c] <= faults

(* Of an event there is a write.                                            *)
WriteInv == published \subseteq stored

AcceptedInv == \A c \in Commands : request[c] = "created" => queue[c] # "unsent"

(* Each step of Spec preserves their conjunction, and it implies the        *)
(* safety properties above.                                                 *)
IInv ==
  /\ TypeOK
  /\ ReceiptsInv
  /\ LoopInv
  /\ NoCrossMessageEvents
  /\ DeliveryInv
  /\ AcceptedInv
  /\ NoLostCommand
  /\ WriteInv

--------------------------------------------------------------------------------
(* Liveness. *)

ConsumerUp == \E p \in Listeners : pc[p] \in Alive /\ ~stopped[p]

(* If some listener stays up, every command in the queue is processed and   *)
(* leaves it, whatever failed before, whatever poison it shares a batch     *)
(* with, and though poison alone fills a batch and comes back for ever.     *)
EventuallyRetired ==
  <>[]ConsumerUp =>
    \A c \in Commands : queue[c] = "visible" ~> queue[c] = "deleted"

(* A stopped listener comes to its end, unless it crashes first.            *)
StopTerminates ==
  \A p \in Listeners : stopped[p] ~> pc[p] = "ended" \/ ~stopped[p]

--------------------------------------------------------------------------------
(* Refinement. *)

Phase(c) ==
  CASE queue[c] = "unsent" -> "none"
    [] queue[c] = "deleted" -> "retired"
    [] OTHER -> "queued"

Delivery == INSTANCE CommandDelivery WITH
  answer <- request,
  phase <- [c \in Commands |-> Phase(c)],
  applied <- {c \in Commands : Did(c, stored)},
  announced <- {c \in Commands : Did(c, published)}

(* The queue, the listeners and the handler together deliver commands as    *)
(* CommandDelivery promises.                                                *)
ImplementsDelivery == Delivery!Spec
================================================================================
