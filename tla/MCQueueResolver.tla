---------------------------- MODULE MCQueueResolver ----------------------------
(* Two queues: the listener of "create" resolves on one class and rejects   *)
(* on another, and has no dead letter queue; that of "audit" has one.  Their *)
(* executions also publish a class that nobody awaits.                      *)
EXTENDS QueueResolver, TLC

CONSTANTS j1, j2, j3

MCQueueOf == (j1 :> "create") @@ (j2 :> "create") @@ (j3 :> "audit")
MCResolves == [create |-> {"Created"}, audit |-> {"Audited", "Skipped"}]
MCRejects == [create |-> {"Refused"}, audit |-> {}]
MCEmits == [create |-> {"Created", "Refused", "Logged"},
            audit |-> {"Audited", "Logged"}]
================================================================================
