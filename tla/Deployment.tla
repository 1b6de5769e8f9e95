------------------------------ MODULE Deployment ------------------------------
(***************************************************************************)
(* A deployment: its environment, the process that starts with it, and the *)
(* names under which that process knows its queues.  AppConfigService is   *)
(* where the two meet: SQSQueueUtil is given the suffix only by a process  *)
(* whose whole environment was accepted.                                   *)
(***************************************************************************)
EXTENDS QueueNames, Configuration

(* Any one variable is set to anything, SQS_QUEUE_SUFFIX being one.         *)
Deploy ==
  /\ ConfigurationInit
  /\ env = Plain \/ suffix = <<>>
  /\ NamesInit

(* A plain deployment stands for those that differ in another variable than *)
(* the suffix: their names are the same.                                    *)
Uses ==
  /\ config # Undefined
  /\ env = Plain
  /\ NamesNext
  /\ UNCHANGED configuration

Runs == ConfigurationNext /\ UNCHANGED namesVars

DeploymentSpec == Deploy /\ [][Uses \/ Runs]_<<namesVars, configuration>>
================================================================================
