----------------------------- MODULE QueueResolver -----------------------------
(***************************************************************************)
(* QueueResolver.resolve and resolveWith: does a message count as          *)
(* processed?  The resolver registers callbacks for event classes on the   *)
(* EventEmitter2 that EventEmitterPublisher shares among everything that   *)
(* runs in the process, runs the message's execution, and looks which of   *)
(* its two local flags the callbacks have set meanwhile.  A callback knows *)
(* nothing of the message: any event of its class sets the flag.           *)
(*                                                                         *)
(* The loop of each queue (SQSListener.listen) runs its messages one after *)
(* the other, the loops of different queues run concurrently.              *)
(***************************************************************************)
EXTENDS Naturals

CONSTANTS
  Jobs,        \* the messages
  Queues,      \* the entries of QueueMapping
  Events,      \* the event classes
  QueueOf,     \* QueueOf[j]: the queue a message comes from
  Resolves,    \* Resolves[q]: the classes the listener of q resolves on
  Rejects,     \* Rejects[q]: the classes it rejects on
  Emits,       \* Emits[q]: the classes its execution may publish
  WithDlq,     \* the queues whose listener passes a dlq to resolveWith
  MaxAttempts  \* bound: deliveries of a message

ASSUME ConstantsAssumption ==
  /\ QueueOf \in [Jobs -> Queues]
  /\ Resolves \in [Queues -> SUBSET Events]
  /\ Rejects \in [Queues -> SUBSET Events]
  /\ Emits \in [Queues -> SUBSET Events]
  /\ WithDlq \subseteq Queues
  /\ MaxAttempts \in Nat \ {0}

(* What one queue's executions publish, no other queue's listener awaits:   *)
(* true as long as QueueMapping has its one entry.                          *)
ASSUME SeparateEvents ==
  \A q, r \in Queues : q # r => Emits[q] \cap (Resolves[r] \cup Rejects[r]) = {}

VARIABLES
  valid,      \* valid[j]: the parser accepts the message
  pc,         \* pc[j]: how far the message is
  attempts,   \* attempts[j]: its deliveries
  callbacks,  \* what is registered on the emitter
  resolved,   \* resolved[j], rejected[j]: the locals of resolve
  rejected,
  emitted,    \* emitted[j]: the classes published by j's latest execution
  dlq         \* the messages sent to the dead letter queue

flags == <<resolved, rejected>>
vars == <<valid, pc, attempts, callbacks, flags, emitted, dlq>>

Callback == [job: Jobs, kind: {"resolve", "reject"}, event: Events]

(* The callbacks the resolver registers for a message.                      *)
CallbacksOf(j) ==
  {cb \in Callback :
     /\ cb.job = j
     /\ cb.event \in IF cb.kind = "resolve" THEN Resolves[QueueOf[j]]
                                            ELSE Rejects[QueueOf[j]]}

TypeOK ==
  /\ valid \in [Jobs -> BOOLEAN]
  /\ pc \in [Jobs -> {"waiting", "executing", "deadlettering", "succeeded", "failed"}]
  /\ attempts \in [Jobs -> 1..MaxAttempts]
  /\ callbacks \subseteq Callback
  /\ resolved \in [Jobs -> BOOLEAN]
  /\ rejected \in [Jobs -> BOOLEAN]
  /\ emitted \in [Jobs -> SUBSET Events]
  /\ dlq \subseteq Jobs

Init ==
  /\ valid \in [Jobs -> BOOLEAN]
  /\ pc = [j \in Jobs |-> "waiting"]
  /\ attempts = [j \in Jobs |-> 1]
  /\ callbacks = {}
  /\ resolved = [j \in Jobs |-> FALSE]
  /\ rejected = [j \in Jobs |-> FALSE]
  /\ emitted = [j \in Jobs |-> {}]
  /\ dlq = {}

(* Defect: the messages of a batch are started together.                    *)
MyTurnAlways(j) == pc[j] = "waiting"

(* The queue's loop has finished with the message before.                   *)
MyTurn(j) ==
  /\ pc[j] = "waiting"
  /\ \A k \in Jobs :
       QueueOf[k] = QueueOf[j] => pc[k] \notin {"executing", "deadlettering"}

(* The payload parses: resolve subscribes and starts the execution.         *)
Resolve(j) ==
  /\ MyTurn(j)
  /\ valid[j]
  /\ pc' = [pc EXCEPT ![j] = "executing"]
  /\ callbacks' = callbacks \cup CallbacksOf(j)
  /\ resolved' = [resolved EXCEPT ![j] = FALSE]
  /\ rejected' = [rejected EXCEPT ![j] = FALSE]
  /\ emitted' = [emitted EXCEPT ![j] = {}]
  /\ UNCHANGED <<valid, attempts, dlq>>

(* The payload does not parse: it goes to the dead letter queue if there is *)
(* one, and is dropped otherwise.                                           *)
Ignore(j) ==
  /\ MyTurn(j)
  /\ ~valid[j]
  /\ pc' = [pc EXCEPT ![j] = IF QueueOf[j] \in WithDlq THEN "deadlettering"
                                                       ELSE "succeeded"]
  /\ UNCHANGED <<valid, attempts, callbacks, flags, emitted, dlq>>

(* j's execution publishes an event: emitAsync calls every callback of the  *)
(* class before anything else runs.                                         *)
Publish(j, e) ==
  /\ pc[j] = "executing"
  /\ e \in Emits[QueueOf[j]] \ emitted[j]
  /\ resolved' = [k \in Jobs |->
       resolved[k] \/ [job |-> k, kind |-> "resolve", event |-> e] \in callbacks]
  /\ rejected' = [k \in Jobs |->
       rejected[k] \/ [job |-> k, kind |-> "reject", event |-> e] \in callbacks]
  /\ emitted' = [emitted EXCEPT ![j] = @ \cup {e}]
  /\ UNCHANGED <<valid, pc, attempts, callbacks, dlq>>

(* Defect: an event of the rejecting classes is not looked at in the end.   *)
ExecuteDoneUnlessRejected(j) ==
  /\ pc[j] = "executing"
  /\ callbacks' = callbacks \ CallbacksOf(j)
  /\ pc' = [pc EXCEPT ![j] = IF resolved[j] THEN "succeeded" ELSE "failed"]
  /\ UNCHANGED <<valid, attempts, flags, emitted, dlq>>

(* The execution fulfils: unsubscribe, then judge by the flags.             *)
ExecuteDone(j) ==
  /\ pc[j] = "executing"
  /\ callbacks' = callbacks \ CallbacksOf(j)
  /\ pc' = [pc EXCEPT ![j] = IF rejected[j] \/ ~resolved[j] THEN "failed"
                                                           ELSE "succeeded"]
  /\ UNCHANGED <<valid, attempts, flags, emitted, dlq>>

(* Defect: unsubscribing is not in a finally.                               *)
ExecuteErrorLeavingCallbacks(j) ==
  /\ pc[j] = "executing"
  /\ pc' = [pc EXCEPT ![j] = "failed"]
  /\ UNCHANGED <<valid, attempts, callbacks, flags, emitted, dlq>>

(* The execution rejects: unsubscribe, whatever the flags say.              *)
ExecuteError(j) ==
  /\ pc[j] = "executing"
  /\ callbacks' = callbacks \ CallbacksOf(j)
  /\ pc' = [pc EXCEPT ![j] = "failed"]
  /\ UNCHANGED <<valid, attempts, flags, emitted, dlq>>

(* The dead letter queue has the message.                                   *)
DeadLetterDone(j) ==
  /\ pc[j] = "deadlettering"
  /\ pc' = [pc EXCEPT ![j] = "succeeded"]
  /\ dlq' = dlq \cup {j}
  /\ UNCHANGED <<valid, attempts, callbacks, flags, emitted>>

(* Defect: a failed enqueue to the dead letter queue is swallowed.          *)
DeadLetterErrorSwallowed(j) ==
  /\ pc[j] = "deadlettering"
  /\ pc' = [pc EXCEPT ![j] = "succeeded"]
  /\ UNCHANGED <<valid, attempts, callbacks, flags, emitted, dlq>>

(* The enqueue rejects, whether or not the message got there.               *)
DeadLetterError(j) ==
  /\ pc[j] = "deadlettering"
  /\ pc' = [pc EXCEPT ![j] = "failed"]
  /\ dlq' \in {dlq, dlq \cup {j}}
  /\ UNCHANGED <<valid, attempts, callbacks, flags, emitted>>

(* A failed message was not deleted and is delivered again.                 *)
Redeliver(j) ==
  /\ pc[j] = "failed"
  /\ attempts[j] < MaxAttempts
  /\ attempts' = [attempts EXCEPT ![j] = @ + 1]
  /\ pc' = [pc EXCEPT ![j] = "waiting"]
  /\ UNCHANGED <<valid, callbacks, flags, emitted, dlq>>

Next ==
  \E j \in Jobs :
    \/ Resolve(j) \/ Ignore(j)
    \/ \E e \in Events : Publish(j, e)
    \/ ExecuteDone(j) \/ ExecuteError(j)
    \/ DeadLetterDone(j) \/ DeadLetterError(j)
    \/ Redeliver(j)

Spec == Init /\ [][Next]_vars

--------------------------------------------------------------------------------
Awaits(j) == Resolves[QueueOf[j]]
Refuses(j) == Rejects[QueueOf[j]]

(* The verdict on a message is that of its own execution: a message counts  *)
(* as processed only if its own execution published a class it resolves on  *)
(* and none it rejects on, although all queues publish on one emitter.      *)
(* What keeps other queues' executions off those classes is                *)
(* SeparateEvents.                                                          *)
OwnVerdict ==
  \A j \in Jobs :
    pc[j] = "succeeded" /\ valid[j] =>
      /\ emitted[j] \cap Awaits(j) # {}
      /\ emitted[j] \cap Refuses(j) = {}

(* The emitter holds the callbacks of the running executions and no others: *)
(* no message leaves one behind, on any way out.                            *)
NoCallbackLeft ==
  callbacks = UNION {CallbacksOf(j) : j \in {k \in Jobs : pc[k] = "executing"}}

(* An invalid message is dropped from its queue only when the dead letter   *)
(* queue has it, if the listener has one; a valid message never goes there, *)
(* even if its execution fails.                                             *)
DeadLettersExact ==
  \A j \in Jobs :
    /\ pc[j] = "succeeded" /\ ~valid[j] /\ QueueOf[j] \in WithDlq => j \in dlq
    /\ j \in dlq => ~valid[j] /\ QueueOf[j] \in WithDlq

--------------------------------------------------------------------------------
(* The inductive invariant behind OwnVerdict: the flags of a running        *)
(* execution say what it has published itself.                              *)
FlagsAreOwn ==
  \A j \in Jobs :
    pc[j] = "executing" =>
      /\ resolved[j] <=> emitted[j] \cap Awaits(j) # {}
      /\ rejected[j] <=> emitted[j] \cap Refuses(j) # {}

OneAtATime ==
  \A j, k \in Jobs :
    (pc[j] = "executing" /\ pc[k] = "executing" /\ QueueOf[j] = QueueOf[k])
      => j = k

EmitsOwn == \A j \in Jobs : emitted[j] \subseteq Emits[QueueOf[j]]

(* Only valid messages are executed, and only invalid ones dead-lettered.   *)
PathInv ==
  \A j \in Jobs :
    /\ pc[j] = "executing" => valid[j]
    /\ pc[j] = "deadlettering" => ~valid[j] /\ QueueOf[j] \in WithDlq

IInv ==
  /\ TypeOK
  /\ FlagsAreOwn
  /\ OneAtATime
  /\ EmitsOwn
  /\ PathInv
  /\ OwnVerdict
  /\ NoCallbackLeft
  /\ DeadLettersExact
================================================================================
