------------------------------ MODULE ExampleApi ------------------------------
(***************************************************************************)
(* The HTTP API as its clients see it: POST v1/create-example, which only  *)
(* queues a command, and GET v1/example and v1/example/:id, answered from  *)
(* the repository while commands are executed, once or several times, in   *)
(* another process.                                                        *)
(*                                                                         *)
(* The repository is ExampleRepository, which both of the application's    *)
(* repositories implement; delivery is what CommandDelivery leaves of it:  *)
(* a queued message is executed, or not yet, or again.  A text (name or    *)
(* description) is blank or not, as that is what the three schemas on its  *)
(* way look at; a string is a UUID or is malformed.                        *)
(***************************************************************************)
EXTENDS Naturals, Sequences, FiniteSets

CONSTANTS
  Ids,        \* UUIDs
  Malformed,  \* strings that are no UUIDs
  Keys,       \* what the repository tells examples apart by
  KeyOf,      \* KeyOf[i]: the key of the id i
  Queries,    \* GET requests
  MaxWrites,  \* bound: executions
  MaxSent     \* bound: messages

ASSUME ConstantsAssumption ==
  /\ MaxWrites \in Nat
  /\ MaxSent \in Nat
  /\ KeyOf \in [Ids -> Keys]
  /\ Ids \cap Malformed = {}

VARIABLES
  item, writes, phase, scope, owed, since, result,   \* of ExampleRepository
  sent,    \* messages in the queue, executed ones too: they may come again
  blank,   \* the writes whose example has a blank text
  route,   \* route[q]: the controller method that q is for
  status,  \* status[q]: the HTTP status q was answered with, 0 if it is open
  known    \* history, known[q]: the keys in 200 answers when q began

repository == <<item, writes, phase, scope, owed, since, result>>
vars == <<repository, sent, blank, route, status, known>>

Repository == INSTANCE ExampleRepository

(* A message of the queue: the id and whether a text is blank.              *)
Message == [id: Ids \cup Malformed, blank: BOOLEAN]

TypeOK ==
  /\ item \in [Keys -> Repository!Item]
  /\ writes \in 0..MaxWrites
  /\ phase \in [Queries -> {"idle", "running", "done", "disconnected"}]
  /\ scope \in [Queries -> SUBSET Keys]
  /\ owed \in [Queries -> SUBSET Keys]
  /\ since \in [Queries -> SUBSET Repository!Item]
  /\ result \in [Queries -> Seq(Repository!Item)]
  /\ sent \subseteq Message
  /\ blank \subseteq 1..MaxWrites
  /\ route \in [Queries -> {"none", "all", "get"}]
  /\ status \in [Queries -> {0, 200, 400, 404, 500}]
  /\ known \in [Queries -> SUBSET Keys]

Init ==
  /\ Repository!Init
  /\ sent = {}
  /\ blank = {}
  /\ route = [q \in Queries |-> "none"]
  /\ status = [q \in Queries |-> 0]
  /\ known = [q \in Queries |-> {}]

--------------------------------------------------------------------------------
Send(m) ==
  /\ Cardinality(sent) < MaxSent
  /\ sent' = sent \cup {m}
  /\ UNCHANGED <<repository, blank, route, status, known>>

(* CreateExamplePayload, which validates the body of a request.             *)
AcceptsBody(m) == ~m.blank

(* accept: a valid body is queued under a fresh id; another one is 400.     *)
Accept(id) ==
  /\ \A m \in sent : m.id # id
  /\ \E m \in {n \in Message : n.id = id} : AcceptsBody(m) /\ Send(m)

(* Whoever else may send to the queue sends what it likes.                  *)
SendForeign(m) == Send(m)

(* Defect: the queue's payload may have blank texts.                        *)
ParsesUuidOnly(m) == m.id \in Ids

(* CreateExampleQueuePayload.parse.                                         *)
Parses(m) == m.id \in Ids /\ ~m.blank

(* A message is executed: its example is stored.                            *)
Execute(m) ==
  /\ m \in sent
  /\ Parses(m)
  /\ Repository!Store(m.id)
  /\ blank' = IF m.blank THEN blank \cup {writes + 1} ELSE blank
  /\ UNCHANGED <<sent, route, status, known>>

--------------------------------------------------------------------------------
KeysIn(q) == {i.key : i \in Repository!Given(q)}

(* The keys a client has been given.                                        *)
Told == {k \in Keys : \E q \in Queries : status[q] = 200 /\ k \in KeysIn(q)}

Begin(q, S, method) ==
  /\ status[q] = 0
  /\ Repository!Begin(q, S)
  /\ route' = [route EXCEPT ![q] = method]
  /\ known' = [known EXCEPT ![q] = Told]
  /\ UNCHANGED <<sent, blank, status>>

All(q) == Begin(q, Keys, "all")
Get(q, id) == Begin(q, {KeyOf[id]}, "get")

Answer(q, s) == status' = [status EXCEPT ![q] = s]

(* The parameter does not pass SchemaValidationPipe.                        *)
GetMalformed(q) ==
  /\ status[q] = 0
  /\ phase[q] = "idle"
  /\ Malformed # {}
  /\ Answer(q, 400)
  /\ UNCHANGED <<repository, sent, blank, route, known>>

(* fromDomain: GetExampleResponse.parse accepts the example.                *)
Presentable(i) == i.written \notin blank /\ i.description \notin blank

(* The repository hands over an example.  all presents it at once, and is   *)
(* over with the first it cannot present.                                   *)
Receive(q) ==
  /\ status[q] = 0
  /\ \E i \in since[q] :
       /\ Repository!Yield(q, i)
       /\ IF route[q] = "all" /\ ~Presentable(i) THEN Answer(q, 500)
                                                 ELSE UNCHANGED status
  /\ UNCHANGED <<sent, blank, route, known>>

(* Defect: what the query has given so far is taken for all there is.       *)
RespondWithWhatThereIs(q) ==
  /\ status[q] = 0
  /\ phase[q] = "running"
  /\ Answer(q, IF route[q] = "get" /\ result[q] = <<>> THEN 404 ELSE 200)
  /\ UNCHANGED <<repository, sent, blank, route, known>>

(* findById's Optional, mapped to a response, or a NotFoundException.       *)
OrElseThrow(q) ==
  CASE result[q] = <<>> -> 404
  [] result[q] # <<>> /\ Presentable(Head(result[q])) -> 200
  [] OTHER -> 500

(* The query is over.                                                       *)
Respond(q) ==
  /\ status[q] = 0
  /\ Repository!End(q)
  /\ Answer(q, IF route[q] = "all" THEN 200 ELSE OrElseThrow(q))
  /\ UNCHANGED <<sent, blank, route, known>>

(* Defect: the connection's error is answered with what there is.           *)
RespondDespiteError(q) ==
  /\ status[q] = 0
  /\ Repository!Disconnect(q)
  /\ Answer(q, IF route[q] = "get" /\ result[q] = <<>> THEN 404 ELSE 200)
  /\ UNCHANGED <<sent, blank, route, known>>

(* The query rejects, and Nest answers for the controller.                  *)
RespondError(q) ==
  /\ status[q] = 0
  /\ Repository!Disconnect(q)
  /\ Answer(q, 500)
  /\ UNCHANGED <<sent, blank, route, known>>

Next ==
  \/ \E id \in Ids : Accept(id)
  \/ \E m \in Message : SendForeign(m) \/ Execute(m)
  \/ \E q \in Queries :
       \/ All(q) \/ \E id \in Ids : Get(q, id)
       \/ GetMalformed(q) \/ Receive(q) \/ Respond(q) \/ RespondError(q)

Spec == Init /\ [][Next]_vars

--------------------------------------------------------------------------------
(* Reads are monotonic across requests, methods and clients: an example     *)
(* that was in some 200 answer before a request began is in that request's  *)
(* list, and getting it is not answered 404.                                *)
MonotonicReads ==
  \A q \in Queries :
    /\ route[q] = "all" /\ status[q] = 200 => known[q] \subseteq KeysIn(q)
    /\ route[q] = "get" /\ status[q] = 404 => known[q] \cap scope[q] = {}

(* No message, whoever sent it, makes an example that the API cannot show:  *)
(* the queue's schema is as strict as the response's.  One such example     *)
(* would fail every later list.                                             *)
OnlyConnectionsFail ==
  \A q \in Queries : status[q] = 500 => phase[q] = "disconnected"

(* An example stays where it is, and what a client was told is there.       *)
TableInv ==
  /\ \A k \in Keys : item[k].key = k
  /\ blank = {}
  /\ \A k \in Told : Repository!Present(item[k])

(* A request has read what is there, owes what was told before it began,    *)
(* and is answered 200 or 404 only when it has got what it is owed.         *)
QueryInv(q) ==
  /\ \A i \in since[q] : i.key \in scope[q] /\ Repository!Present(item[i.key])
  /\ Repository!Given(q) \subseteq since[q]
  /\ \A k \in known[q] : Repository!Present(item[k])
  /\ phase[q] = "idle" => since[q] = {}
  /\ phase[q] # "idle" => known[q] \cap scope[q] \subseteq owed[q]
  /\ phase[q] = "done" => owed[q] \subseteq KeysIn(q)
  /\ status[q] \in {200, 404} => phase[q] = "done"
  /\ status[q] = 404 => result[q] = <<>>
  /\ route[q] = "all" => scope[q] = Keys

(* The inductive invariant behind MonotonicReads and OnlyConnectionsFail.   *)
IInv ==
  /\ TypeOK
  /\ TableInv
  /\ \A q \in Queries : QueryInv(q)
  /\ OnlyConnectionsFail
================================================================================
