------------------------------ MODULE QueueNames ------------------------------
(***************************************************************************)
(* SQSQueueUtil: the name under which a queue of the application is sent   *)
(* to, and the queue that the Lambda function takes a name in an ARN for.  *)
(* The deployment's suffix and the type's suffix are appended by the one,  *)
(* and taken out again by the other, where they first occur.               *)
(*                                                                         *)
(* A name is a sequence of pieces, which no name or suffix splits.         *)
(***************************************************************************)
EXTENDS Naturals, SequencesExt

CONSTANTS
  Queues,    \* InternalQueues: their names
  Type,      \* QueueMapping: fifo or standard
  Pieces,    \* what suffixes are made of
  MaxSuffix  \* bound: pieces of a suffix

Names == Seq(Pieces)
NoQueue == <<>>

(* The names of InternalQueues have no dot in them.                         *)
ASSUME NamesAssumption ==
  /\ Queues \subseteq Names \ {NoQueue}
  /\ \A q \in Queues : ".fifo" \notin Range(q)
  /\ Type \in [Queues -> {"fifo", "standard"}]
  /\ MaxSuffix \in Nat

VARIABLES
  suffix,  \* the deployment's SQS_QUEUE_SUFFIX
  sent,    \* the messages in SQS: the queue meant, and the name sent to
  taken    \* the messages handed to a listener, and the queue they were taken for

namesVars == <<suffix, sent, taken>>

NamesInit ==
  /\ suffix \in BoundedSeq(Pieces, MaxSuffix)
  /\ sent = {}
  /\ taken = {}

--------------------------------------------------------------------------------
TypeSuffix == [fifo |-> <<".fifo">>, standard |-> <<>>]

(* The name in buildInternalUrl's URL.                                      *)
NameOf(q) == q \o suffix \o TypeSuffix[Type[q]]

SendTo(q) ==
  /\ sent' = sent \cup {[queue |-> q, name |-> NameOf(q)]}
  /\ UNCHANGED <<suffix, taken>>

(* name.replace(s, ""): s is removed where it occurs first.                 *)
Without(name, s) == ReplaceFirstSubSeq(<<>>, s, name)

(* Defect: the type's suffix, which was put last, is removed first.         *)
QueueFromTypeFirst(name) ==
  LET queue == Without(Without(name, <<".fifo">>), suffix) IN
    IF queue \in Queues THEN queue ELSE NoQueue

(* getQueueFromArn, for the name that is the last part of the ARN.  A name  *)
(* that is no queue's is refused, and the event with it.                    *)
QueueFrom(name) ==
  LET queue == Without(Without(name, suffix), <<".fifo">>) IN
    IF queue \in Queues THEN queue ELSE NoQueue

(* SQSLambda.handle finds the listener.                                     *)
Handle(m) ==
  /\ m \in sent
  /\ taken' = taken \cup {[queue |-> m.queue, as |-> QueueFrom(m.name)]}
  /\ UNCHANGED <<suffix, sent>>

NamesNext == (\E q \in Queues : SendTo(q)) \/ (\E m \in sent : Handle(m))

NamesSpec == NamesInit /\ [][NamesNext]_namesVars

--------------------------------------------------------------------------------
(* The suffix occurs in the name sent to before the place it was put.       *)
OccursEarly(q) ==
  \E n \in 1..Len(q) : SubSeq(q \o suffix, n, n + Len(suffix) - 1) = suffix

(* What was sent to a queue is handed to that queue's listener, and neither *)
(* refused nor given to another one, as long as the suffix does not occur   *)
(* in the queue's name, or where the name runs into it.  The suffix may     *)
(* look like the type's.                                                    *)
RoundTrip ==
  \A t \in taken : t.as # t.queue => OccursEarly(t.queue) /\ suffix # <<>>
================================================================================
