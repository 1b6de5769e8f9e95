----------------------------- MODULE MCSQSListener -----------------------------
(* SQSListener for TLC: its .cfg files give the constants small values.     *)
EXTENDS SQSListener, TLC

(* Commands are interchangeable, and so are listeners.  Only for runs       *)
(* without liveness properties.                                             *)
Interchangeable == Permutations(Commands) \cup Permutations(Listeners)
================================================================================
