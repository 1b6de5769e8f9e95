--------------------------- MODULE ExampleRepository ---------------------------
(***************************************************************************)
(* What a caller of ExampleRepository may rely on while others write:      *)
(* store, findById and findAll, and the updateDescription that only the    *)
(* DynamoDB repository has.                                                *)
(*                                                                         *)
(* findAll is a generator, read while the repository changes.  It is no    *)
(* snapshot; what it owes its caller is every example that was there when  *)
(* it began, once, each as it stood at some time since, and it may fail    *)
(* only over an item that is not a complete example.                       *)
(***************************************************************************)
EXTENDS Naturals, Sequences

CONSTANTS
  Ids,        \* ids of examples
  Keys,       \* what the repository tells examples apart by
  KeyOf,      \* KeyOf[i]: the key of the id i
  Queries,    \* findById and findAll calls under way
  MaxWrites   \* bound: stores and updates

VARIABLES
  item,    \* item[k]: what is kept under k
  writes,  \* how many writes there were
  phase,   \* phase[q]: idle, running, done or failed
  scope,   \* scope[q]: the keys the query asks for
  owed,    \* owed[q]: those that had an item when it began
  since,   \* since[q]: the items in its scope at some time since it began
  result   \* result[q]: the items handed to the caller, in order

vars == <<item, writes, phase, scope, owed, since, result>>

(* The written-th write stored the item for id; its description comes from  *)
(* that write or from a later update.  0: never.                            *)
Item == [key: Keys, id: SUBSET Ids, written: 0..MaxWrites, description: 0..MaxWrites]

Nothing(k) == [key |-> k, id |-> {}, written |-> 0, description |-> 0]
Present(i) == i.description # 0
Complete(i) == i.written # 0

Init ==
  /\ item = [k \in Keys |-> Nothing(k)]
  /\ writes = 0
  /\ phase = [q \in Queries |-> "idle"]
  /\ scope = [q \in Queries |-> {}]
  /\ owed = [q \in Queries |-> {}]
  /\ since = [q \in Queries |-> {}]
  /\ result = [q \in Queries |-> <<>>]

(* A write of k is seen, or not, by the queries under way.                  *)
Write(k, i) ==
  /\ writes < MaxWrites
  /\ writes' = writes + 1
  /\ item' = [item EXCEPT ![k] = i]
  /\ since' = [q \in Queries |->
       IF phase[q] = "running" /\ k \in scope[q] THEN since[q] \cup {i} ELSE since[q]]
  /\ UNCHANGED <<phase, scope, owed, result>>

Store(id) ==
  LET k == KeyOf[id] IN
    Write(k, [key |-> k, id |-> {id}, written |-> writes + 1,
              description |-> writes + 1])

UpdateDescription(id) ==
  LET k == KeyOf[id] IN
    Write(k, [item[k] EXCEPT !.description = writes + 1])

Begin(q, S) ==
  /\ phase[q] = "idle"
  /\ phase' = [phase EXCEPT ![q] = "running"]
  /\ scope' = [scope EXCEPT ![q] = S]
  /\ owed' = [owed EXCEPT ![q] = {k \in S : Present(item[k])}]
  /\ since' = [since EXCEPT ![q] = {item[k] : k \in {j \in S : Present(item[j])}}]
  /\ UNCHANGED <<item, writes, result>>

Given(q) == {result[q][n] : n \in DOMAIN result[q]}

Yield(q, i) ==
  /\ phase[q] = "running"
  /\ i \in since[q]
  /\ Complete(i)
  /\ \A j \in Given(q) : j.key # i.key
  /\ result' = [result EXCEPT ![q] = Append(@, i)]
  /\ UNCHANGED <<item, writes, phase, scope, owed, since>>

(* The query is over when nothing it owes is missing.                       *)
End(q) ==
  /\ phase[q] = "running"
  /\ owed[q] \subseteq {i.key : i \in Given(q)}
  /\ phase' = [phase EXCEPT ![q] = "done"]
  /\ UNCHANGED <<item, writes, scope, owed, since, result>>

(* It fails over an incomplete item, and without one only for a lost        *)
(* connection.                                                              *)
Fail(q) ==
  /\ phase[q] = "running"
  /\ \E i \in since[q] : ~Complete(i)
  /\ phase' = [phase EXCEPT ![q] = "failed"]
  /\ UNCHANGED <<item, writes, scope, owed, since, result>>

Disconnect(q) ==
  /\ phase[q] = "running"
  /\ phase' = [phase EXCEPT ![q] = "disconnected"]
  /\ UNCHANGED <<item, writes, scope, owed, since, result>>

Next ==
  \/ \E id \in Ids : Store(id) \/ UpdateDescription(id)
  \/ \E q \in Queries :
       \/ Begin(q, Keys) \/ \E id \in Ids : Begin(q, {KeyOf[id]})
       \/ \E i \in Item : Yield(q, i)
       \/ End(q) \/ Fail(q) \/ Disconnect(q)

Spec == Init /\ [][Next]_vars
================================================================================
