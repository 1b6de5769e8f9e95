------------------------------ MODULE ServedUnits ------------------------------
(***************************************************************************)
(* What a process is at work for: HTTP requests, and messages of its       *)
(* queues, in the modules where both meet in one process.                  *)
(***************************************************************************)
CONSTANTS Requests,
          Messages   \* deliveries of commands, each of an example of its own

ASSUME UnitsAssumption == Messages \cap Requests = {}

Units == Requests \cup Messages
================================================================================
