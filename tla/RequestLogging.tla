--------------------------- MODULE RequestLogging ---------------------------
(***************************************************************************)
(* By which id the log lines of a process can be told apart.  A line has   *)
(* the bindings of the asynchronous context it is written in: a request's  *)
(* since LoggerModule's middleware, a queue message's since wrapInContext, *)
(* and none in the listener's loop.  What is awaited goes on in the        *)
(* context it was started in, and so does a timer: setTimeout(listen) is   *)
(* called outside of wrapInContext, or each poll would go on in the last   *)
(* message's context and the next message's be nested in that.             *)
(***************************************************************************)
EXTENDS ServedUnits, Naturals, Sequences

CONSTANTS
  ClientIds,  \* what clients may send as the id of a request
  MaxPolls    \* bounds the polls

\* No client sends what randomUUID makes or has made.
ASSUME ClientIdsAssumption == ClientIds \cap Nat = {}

\* The n-th random UUID, and no header.
Uuid(n) == n + 1
None == 0

VARIABLES
  headers,   \* each request's id header, by the case of its name
  context,   \* bindings in which a unit's code runs, ids from the outermost in
  loop,      \* bindings in which the listener's loop runs
  pc,        \* of the loop: "listen", "receive", "batch", "execute"
  batch,     \* messages received and not finished
  status,    \* of each request
  uuids,     \* random UUIDs made so far
  polls,
  lines      \* the log: who wrote a line, and its bindings
loggingVars == <<headers, context, loop, pc, batch, status, uuids, polls, lines>>

Listener == "SQSListener"
ASSUME ListenerAssumption == Listener \notin Units

Line(who, bindings) == {[who |-> who, bindings |-> bindings]}

\* Node.js has the names of headers in lower case, API Gateway as they were sent.
LoggingInit ==
  /\ headers \in [Requests -> [upper : ClientIds \cup {None}, lower : ClientIds \cup {None}]]
  /\ context = [u \in Units |-> <<>>]
  /\ loop = <<>>
  /\ pc = "listen"
  /\ batch = <<>>
  /\ status = [r \in Requests |-> "new"]
  /\ uuids = 0
  /\ polls = 0
  /\ lines = {}

\* Defect: the header is looked up as it is written in the constant only.
GenerateRequestIdAsWritten(h, uuid) == IF h.upper # None THEN h.upper ELSE uuid

GenerateRequestId(h, uuid) ==
  IF h.upper # None THEN h.upper ELSE IF h.lower # None THEN h.lower ELSE uuid

\* genReqId: a random UUID is at hand whether it is used or not.
RequestIdOf(r) == GenerateRequestId(headers[r], Uuid(uuids))

-----------------------------------------------------------------------------
(* HTTP requests *)

\* genReqId, then LoggingMiddleware: "Request received".
Use(r) ==
  /\ status[r] = "new"
  /\ status' = [status EXCEPT ![r] = "open"]
  /\ uuids' = uuids + 1
  /\ context' = [context EXCEPT ![r] = <<RequestIdOf(r)>>]
  /\ lines' = lines \cup Line(r, context'[r])
  /\ UNCHANGED <<headers, loop, pc, batch, polls>>

\* The patched response.send: "Response sent".
Send(r) ==
  /\ status[r] = "open"
  /\ status' = [status EXCEPT ![r] = "sent"]
  /\ lines' = lines \cup Line(r, context[r])
  /\ UNCHANGED <<headers, context, loop, pc, batch, uuids, polls>>

-----------------------------------------------------------------------------
(* The listener's loop; stop, crashes and the receives' order are in SQSListener. *)

Listen ==
  /\ pc = "listen" /\ polls < MaxPolls
  /\ pc' = "receive"
  /\ polls' = polls + 1
  /\ UNCHANGED <<headers, context, loop, batch, status, uuids, lines>>

Receive ==
  /\ pc = "receive"
  /\ \E ms \in {<<>>} \cup {<<m>> : m \in Messages} \cup {<<m, n>> : m, n \in Messages} :
       /\ \A i, j \in DOMAIN ms : i # j => ms[i] # ms[j]
       /\ \A i \in DOMAIN ms : context[ms[i]] = <<>>
       /\ batch' = ms
       /\ pc' = IF ms = <<>> THEN "listen" ELSE "batch"
  /\ UNCHANGED <<headers, context, loop, status, uuids, polls, lines>>

\* "Error receiving messages"
ReceiveError ==
  /\ pc = "receive"
  /\ pc' = "listen"
  /\ lines' = lines \cup Line(Listener, loop)
  /\ UNCHANGED <<headers, context, loop, batch, status, uuids, polls>>

\* Defect: the id is made with the listener, in wrapParams.
WrapWithListenersId ==
  /\ pc = "batch"
  /\ pc' = "execute"
  /\ context' = [context EXCEPT ![Head(batch)] = Append(loop, Uuid(99))]
  /\ lines' = lines \cup Line(Head(batch), context'[Head(batch)])
  /\ UNCHANGED <<headers, loop, batch, status, uuids, polls>>

\* wrapInContext: the logger of the context around it, with an id of its own
\* assigned; "Processing SQS Message".
WrapInContext ==
  /\ pc = "batch"
  /\ pc' = "execute"
  /\ uuids' = uuids + 1
  /\ context' = [context EXCEPT ![Head(batch)] = Append(loop, Uuid(uuids))]
  /\ lines' = lines \cup Line(Head(batch), context'[Head(batch)])
  /\ UNCHANGED <<headers, loop, batch, status, polls>>

\* Defect: the timer is set by the last message's function.
FinishInside ==
  /\ pc = "execute"
  /\ batch' = Tail(batch)
  /\ pc' = IF Tail(batch) = <<>> THEN "listen" ELSE "batch"
  /\ loop' = IF Tail(batch) = <<>> THEN context[Head(batch)] ELSE loop
  /\ \E logged \in BOOLEAN :
       lines' = IF logged THEN lines \cup Line(Head(batch), context[Head(batch)]) ELSE lines
  /\ UNCHANGED <<headers, context, status, uuids, polls>>

\* The execution ends, with "Error processing queue" or without; after the last
\* message the timer is set in the loop's context.
Finish ==
  /\ pc = "execute"
  /\ batch' = Tail(batch)
  /\ pc' = IF Tail(batch) = <<>> THEN "listen" ELSE "batch"
  /\ \E logged \in BOOLEAN :
       lines' = IF logged THEN lines \cup Line(Head(batch), context[Head(batch)]) ELSE lines
  /\ UNCHANGED <<headers, context, loop, status, uuids, polls>>

LoggingNext ==
  \/ \E r \in Requests : Use(r) \/ Send(r)
  \/ Listen \/ Receive \/ ReceiveError \/ WrapInContext \/ Finish

LoggingSpec == LoggingInit /\ [][LoggingNext]_loggingVars

-----------------------------------------------------------------------------
(***************************************************************************)
(* A line of a request or of a message has one id, and a line of the loop  *)
(* none: contexts are neither nested nor carried from one poll to the next *)
(* (sqs-listener.ts:67-87).                                                *)
(***************************************************************************)
ContextsDoNotNest ==
  \A l \in lines : Len(l.bindings) = (IF l.who = Listener THEN 0 ELSE 1)

(***************************************************************************)
(* Lines with one id are of one unit, unless two requests came with that   *)
(* id in a header, under whichever spelling of its name; and requests that *)
(* came with one id only, and the same, do share it (request-id.ts:11-14,  *)
(* wrap-in-context.ts:19).                                                 *)
(***************************************************************************)
Sent(u) == IF u \in Requests THEN {headers[u].upper, headers[u].lower} \ {None} ELSE {}

IdsTellApart ==
  \A k, l \in lines :
    k.who # l.who /\ k.who # Listener /\ l.who # Listener =>
      /\ k.bindings = l.bindings => Sent(k.who) \cap Sent(l.who) # {}
      /\ \A i \in ClientIds :
           Sent(k.who) = {i} /\ Sent(l.who) = {i} => k.bindings = l.bindings
=============================================================================
