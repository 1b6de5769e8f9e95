------------------------------ MODULE SQSEnqueuer ------------------------------
(***************************************************************************)
(* SQSEnqueuer.enqueue: a list of messages is cut into chunks of           *)
(* SQS_MAX_BATCH_SIZE, one SendMessageBatch per chunk is sent, all at      *)
(* once, and Promise.all waits for the answers.  An answer may name        *)
(* entries that failed; a send may reject.  The promise rejects on the     *)
(* first rejection, while the other chunks are still on their way, and the *)
(* caller may then enqueue the same messages again.                        *)
(*                                                                         *)
(* SQS, external, refuses a batch whose entry ids are missing or repeated. *)
(* It does not queue a message, of whichever batch, under a deduplication  *)
(* id it has seen, and forgets the id when its interval is over.  A send   *)
(* includes the tries the SDK makes of its own, within one interval.       *)
(***************************************************************************)
EXTENDS Naturals, FiniteSets

CONSTANTS
  MaxMessages,  \* bound: messages of an enqueue
  ChunkSize,    \* SQS_MAX_BATCH_SIZE
  Ids,          \* message ids
  NoId,         \* messageId is optional
  MaxCalls,     \* bound: how often the caller enqueues the same messages
  MaxIntervals  \* bound: deduplication intervals that end for an id

ASSUME ConstantsAssumption ==
  /\ MaxMessages \in Nat
  /\ ChunkSize \in Nat \ {0}
  /\ NoId \notin Ids
  /\ MaxCalls \in Nat
  /\ MaxIntervals \in Nat

VARIABLES
  count,    \* how many messages are enqueued
  id,       \* id[m]: the messageId of the m-th
  calls,    \* how often enqueue was called
  outcome,  \* outcome[n]: none, pending, resolved or rejected
  send,     \* send[n][i]: the SendMessageBatch of chunk i in call n
  copies,   \* copies[m]: how often SQS has queued the m-th message
  seen,     \* deduplication ids whose interval lasts
  forgotten \* forgotten[k]: how often the interval of the id k has ended

inputs == <<count, id>>
sqs == <<copies, seen, forgotten>>
vars == <<inputs, calls, outcome, send, sqs>>

Call == 1..MaxCalls
Messages == 1..count

(* Defect: a last chunk that is not full is forgotten.                      *)
FullChunks == 1..(count \div ChunkSize)

(* lodash chunk: the chunks, numbered, and what is in each.                 *)
Chunks == 1..((count + ChunkSize - 1) \div ChunkSize)
Chunk(i) == {m \in Messages : (m - 1) \div ChunkSize = i - 1}

TypeOK ==
  /\ count \in 0..MaxMessages
  /\ id \in [Messages -> Ids \cup {NoId}]
  /\ calls \in 0..MaxCalls
  /\ outcome \in [Call -> {"none", "pending", "resolved", "rejected"}]
  /\ send \in [Call -> [1..MaxMessages ->
                          {"none", "sent", "accepted", "partial", "error"}]]
  /\ copies \in [1..MaxMessages -> Nat]
  /\ seen \subseteq Ids
  /\ forgotten \in [Ids -> 0..MaxIntervals]

Init ==
  /\ count \in 0..MaxMessages
  /\ id \in [Messages -> Ids \cup {NoId}]
  /\ calls = 0
  /\ outcome = [n \in Call |-> "none"]
  /\ send = [n \in Call |-> [i \in 1..MaxMessages |-> "none"]]
  /\ copies = [m \in 1..MaxMessages |-> 0]
  /\ seen = {}
  /\ forgotten = [k \in Ids |-> 0]

(* enqueue is called, again after an earlier call rejected.                 *)
Enqueue(n) ==
  /\ n = calls + 1
  /\ n > 1 => outcome[n - 1] = "rejected"
  /\ calls' = n
  /\ outcome' = [outcome EXCEPT ![n] = "pending"]
  /\ send' = [send EXCEPT ![n] =
                [i \in 1..MaxMessages |-> IF i \in Chunks THEN "sent" ELSE "none"]]
  /\ UNCHANGED <<inputs, sqs>>

(* The batch is one SQS takes: every entry has an id of its own.            *)
WellFormed(i) ==
  /\ \A m \in Chunk(i) : id[m] # NoId
  /\ \A m, k \in Chunk(i) : id[m] = id[k] => m = k

(* Defect: every call draws deduplication ids of its own.                   *)
DeduplicationIdOfCall(n, m) == <<n, id[m]>>

(* buildBatchRequestEntry: the deduplication id of m, sent by the call n.   *)
DeduplicationId(n, m) == id[m]

(* SQS takes the messages S that call n sent: it queues those it has not    *)
(* seen.                                                                    *)
Take(n, S) ==
  /\ copies' = [m \in 1..MaxMessages |->
       IF m \in S /\ DeduplicationId(n, m) \notin seen
       THEN copies[m] + 1 ELSE copies[m]]
  /\ seen' = seen \cup {DeduplicationId(n, m) : m \in S}
  /\ UNCHANGED forgotten

(* The deduplication interval of the id k is over.                          *)
Forget(k) ==
  /\ k \in seen
  /\ forgotten[k] < MaxIntervals
  /\ seen' = seen \ {k}
  /\ forgotten' = [forgotten EXCEPT ![k] = @ + 1]
  /\ UNCHANGED <<inputs, calls, outcome, send, copies>>

(* SQS answers a batch: it takes all entries, or names some as failed.      *)
Answer(n, i) ==
  /\ send[n][i] = "sent"
  /\ WellFormed(i)
  /\ \E Failed \in SUBSET Chunk(i) :
       /\ Take(n, Chunk(i) \ Failed)
       /\ send' = [send EXCEPT ![n][i] = IF Failed = {} THEN "accepted"
                                                        ELSE "partial"]
  /\ UNCHANGED <<inputs, calls, outcome>>

(* The send rejects: the batch is not well-formed, or the request or its    *)
(* answer is lost.                                                          *)
SendError(n, i) ==
  /\ send[n][i] = "sent"
  /\ \/ Take(n, {})
     \/ WellFormed(i) /\ Take(n, Chunk(i))
  /\ send' = [send EXCEPT ![n][i] = "error"]
  /\ UNCHANGED <<inputs, calls, outcome>>

(* Promise.all rejects with the first send that does.                       *)
Reject(n) ==
  /\ outcome[n] = "pending"
  /\ \E i \in Chunks : send[n][i] = "error"
  /\ outcome' = [outcome EXCEPT ![n] = "rejected"]
  /\ UNCHANGED <<inputs, calls, send, sqs>>

(* Defect: the Failed entries of the answers are not looked at.             *)
SettleIgnoringFailed(n) ==
  /\ outcome[n] = "pending"
  /\ \A i \in Chunks : send[n][i] \in {"accepted", "partial"}
  /\ outcome' = [outcome EXCEPT ![n] = "resolved"]
  /\ UNCHANGED <<inputs, calls, send, sqs>>

(* Defect: the promise settles with the last answer, so that an empty list  *)
(* leaves it pending.                                                       *)
SettleByLastAnswer(n) ==
  /\ outcome[n] = "pending"
  /\ Chunks # {}
  /\ \A i \in Chunks : send[n][i] \in {"accepted", "partial"}
  /\ outcome' = [outcome EXCEPT ![n] =
       IF \E i \in Chunks : send[n][i] = "partial" THEN "rejected" ELSE "resolved"]
  /\ UNCHANGED <<inputs, calls, send, sqs>>

(* All answers are in: failed entries in any of them throw.                 *)
Settle(n) ==
  /\ outcome[n] = "pending"
  /\ \A i \in Chunks : send[n][i] \in {"accepted", "partial"}
  /\ outcome' = [outcome EXCEPT ![n] =
       IF \E i \in Chunks : send[n][i] = "partial" THEN "rejected" ELSE "resolved"]
  /\ UNCHANGED <<inputs, calls, send, sqs>>

Next ==
  \/ \E n \in Call :
       \/ Enqueue(n) \/ Reject(n) \/ Settle(n)
       \/ \E i \in Chunks : Answer(n, i) \/ SendError(n, i)
  \/ \E k \in Ids : Forget(k)

Spec == Init /\ [][Next]_vars

(* Every send is answered or fails, and the promise settles then.           *)
Fairness ==
  \A n \in Call : \A i \in 1..MaxMessages :
    /\ WF_vars(i \in Chunks /\ (Answer(n, i) \/ SendError(n, i)))
    /\ WF_vars(Reject(n) \/ Settle(n))

FairSpec == Spec /\ Fairness

--------------------------------------------------------------------------------
(* If enqueue resolves, every message of the list is in the queue, whatever *)
(* chunk it fell into and whatever became of earlier calls: itself if its   *)
(* id is its own, and otherwise some message with its id, as SQS drops one  *)
(* whose id an earlier chunk had, and nobody is told.                       *)
ResolvedMeansQueued ==
  \A n \in Call : \A m \in Messages :
    outcome[n] = "resolved" =>
      \E k \in Messages : id[m] \in Ids /\ id[k] = id[m] /\ copies[k] >= 1

(* Retrying after a partial failure queues nothing twice, even while chunks *)
(* of the rejected call are still under way, unless a deduplication         *)
(* interval ends between the two sends; and then no message more often than *)
(* it was enqueued, as no two chunks share one.                             *)
RetryDuplicatesNothing ==
  \A m \in Messages :
    /\ copies[m] <= calls
    /\ id[m] \in Ids => copies[m] <= 1 + forgotten[id[m]]

(* Every enqueue settles, the one of an empty list too.                     *)
EnqueueSettles ==
  \A n \in Call : outcome[n] = "pending" ~> outcome[n] \in {"resolved", "rejected"}
================================================================================
