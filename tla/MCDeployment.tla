----------------------------- MODULE MCDeployment -----------------------------
EXTENDS Deployment

(* The queue of the application, and one of the other type whose name has   *)
(* the same pieces in another order.                                        *)
MCQueues == {<<"create", "-", "example">>, <<"example", "-", "create">>}
MCType == [q \in MCQueues |-> IF Head(q) = "create" THEN "fifo" ELSE "standard"]
MCPieces == {"create", "-", "example", "test", ".fifo"}
================================================================================
