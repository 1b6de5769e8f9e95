---------------------------- MODULE CommandDelivery ----------------------------
(***************************************************************************)
(* What the application promises for a create-example command, whatever    *)
(* queue, process or database lies in between:                             *)
(*                                                                         *)
(*   - the HTTP answer is "created" only for a command the queue holds;    *)
(*   - the example of a queued command is stored, and then its             *)
(*     ExampleCreatedEvent is announced, at least once each;               *)
(*   - the command leaves the queue only after both.                       *)
(*                                                                         *)
(* A delivery that repeats what is already done is a stuttering step here. *)
(* SQSListener implements this specification (see SQSListener!Delivery).   *)
(***************************************************************************)
CONSTANT Commands

VARIABLES
  answer,      \* answer[c]:    what the HTTP client knows of its request
  phase,       \* phase[c]:     where the command is
  applied,     \* the commands whose example is in the repository
  announced    \* the commands whose ExampleCreatedEvent was published

vars == <<answer, phase, applied, announced>>

TypeOK ==
  /\ answer \in [Commands -> {"none", "pending", "created", "error"}]
  /\ phase \in [Commands -> {"none", "queued", "retired"}]
  /\ applied \subseteq Commands
  /\ announced \subseteq applied

Init ==
  /\ answer = [c \in Commands |-> "none"]
  /\ phase = [c \in Commands |-> "none"]
  /\ applied = {}
  /\ announced = {}

Request(c) ==
  /\ answer[c] = "none"
  /\ answer' = [answer EXCEPT ![c] = "pending"]
  /\ UNCHANGED <<phase, applied, announced>>

(* A request whose answer was an error may still reach the queue. *)
Enqueue(c) ==
  /\ answer[c] \in {"pending", "error"}
  /\ phase[c] = "none"
  /\ phase' = [phase EXCEPT ![c] = "queued"]
  /\ UNCHANGED <<answer, applied, announced>>

AnswerCreated(c) ==
  /\ answer[c] = "pending"
  /\ phase[c] # "none"
  /\ answer' = [answer EXCEPT ![c] = "created"]
  /\ UNCHANGED <<phase, applied, announced>>

AnswerError(c) ==
  /\ answer[c] = "pending"
  /\ answer' = [answer EXCEPT ![c] = "error"]
  /\ UNCHANGED <<phase, applied, announced>>

Apply(c) ==
  /\ phase[c] = "queued"
  /\ applied' = applied \cup {c}
  /\ UNCHANGED <<answer, phase, announced>>

Announce(c) ==
  /\ phase[c] = "queued"
  /\ c \in applied
  /\ announced' = announced \cup {c}
  /\ UNCHANGED <<answer, phase, applied>>

Retire(c) ==
  /\ phase[c] = "queued"
  /\ c \in announced
  /\ phase' = [phase EXCEPT ![c] = "retired"]
  /\ UNCHANGED <<answer, applied, announced>>

Next ==
  \E c \in Commands :
    \/ Request(c) \/ Enqueue(c) \/ AnswerCreated(c) \/ AnswerError(c)
    \/ Apply(c) \/ Announce(c) \/ Retire(c)

Spec == Init /\ [][Next]_vars
================================================================================
