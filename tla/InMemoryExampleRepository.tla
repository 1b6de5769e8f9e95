----------------------- MODULE InMemoryExampleRepository -----------------------
(***************************************************************************)
(* InMemoryExampleRepository, USE_IN_MEMORY_REPOSITORY: a Map from the id, *)
(* as it is written, to the example.  findAll iterates over the live Map:  *)
(* the iterator goes by insertion order, a store of a known id keeps its   *)
(* place, one of a new id comes last, and both may happen while the caller *)
(* of the generator is awaiting something else.                            *)
(***************************************************************************)
EXTENDS Naturals, FiniteSets, SequencesExt

CONSTANTS
  Ids,        \* ids of examples
  Queries,    \* findById and findAll calls
  MaxWrites   \* bound: stores

VARIABLES
  order,   \* the keys of the Map, in insertion order
  item,    \* item[i]: the example of the key i
  writes,  \* how many stores there were
  pc,      \* pc[q]: idle, iterating, found or done
  scope,   \* scope[q]: the keys it asks for
  pos,     \* pos[q]: how many entries the iterator has passed
  found,   \* found[q]: what findById got, before its caller has it
  result,  \* result[q]: the examples the caller has got
  owed,    \* history, owed[q]: the keys in scope at its start
  since    \* history, since[q]: the examples in scope at some time since then

map == <<order, item, writes>>
history == <<owed, since>>
vars == <<map, pc, scope, pos, found, result, history>>

Example == [key: Ids, id: SUBSET Ids, written: 0..MaxWrites, description: 0..MaxWrites]
Nothing(i) == [key |-> i, id |-> {}, written |-> 0, description |-> 0]
Known(i) == i \in ToSet(order)

Running == {"iterating", "found"}

TypeOK ==
  /\ order \in Seq(Ids)
  /\ item \in [Ids -> Example]
  /\ writes \in 0..MaxWrites
  /\ pc \in [Queries -> Running \cup {"idle", "done"}]
  /\ scope \in [Queries -> SUBSET Ids]
  /\ pos \in [Queries -> Nat]
  /\ found \in [Queries -> SUBSET Example]
  /\ result \in [Queries -> Seq(Example)]
  /\ owed \in [Queries -> SUBSET Ids]
  /\ since \in [Queries -> SUBSET Example]

Init ==
  /\ order = <<>>
  /\ item = [i \in Ids |-> Nothing(i)]
  /\ writes = 0
  /\ pc = [q \in Queries |-> "idle"]
  /\ scope = [q \in Queries |-> {}]
  /\ pos = [q \in Queries |-> 0]
  /\ found = [q \in Queries |-> {}]
  /\ result = [q \in Queries |-> <<>>]
  /\ owed = [q \in Queries |-> {}]
  /\ since = [q \in Queries |-> {}]

(* Defect: a stored example is deleted and inserted again, at the end.      *)
SetMovingToEnd(i) == order' = Append(Remove(order, i), i)

(* Map.set: a new key goes to the end, a known one stays where it is.       *)
Set(i) == order' = IF Known(i) THEN order ELSE Append(order, i)

Store(i) ==
  /\ writes < MaxWrites
  /\ writes' = writes + 1
  /\ Set(i)
  /\ item' = [item EXCEPT ![i] =
       [key |-> i, id |-> {i}, written |-> writes + 1, description |-> writes + 1]]
  /\ since' = [q \in Queries |->
       IF pc[q] \in Running /\ i \in scope[q] THEN since[q] \cup {item'[i]}
                                             ELSE since[q]]
  /\ UNCHANGED <<pc, scope, pos, found, result, owed>>

Begin(q, S) ==
  /\ pc[q] = "idle"
  /\ scope' = [scope EXCEPT ![q] = S]
  /\ owed' = [owed EXCEPT ![q] = {i \in S : Known(i)}]
  /\ since' = [since EXCEPT ![q] = {item[i] : i \in {j \in S : Known(j)}}]
  /\ UNCHANGED <<map, pos, result>>

(* findById: the Map is looked up at once, its caller goes on later.        *)
FindById(q, i) ==
  /\ Begin(q, {i})
  /\ pc' = [pc EXCEPT ![q] = "found"]
  /\ found' = [found EXCEPT ![q] = IF Known(i) THEN {item[i]} ELSE {}]

Deliver(q) ==
  /\ pc[q] = "found"
  /\ \E x \in found[q] : result' = [result EXCEPT ![q] = Append(@, x)]
  /\ found' = [found EXCEPT ![q] = {}]
  /\ UNCHANGED <<map, pc, scope, pos, history>>

Delivered(q) ==
  /\ pc[q] = "found"
  /\ found[q] = {}
  /\ pc' = [pc EXCEPT ![q] = "done"]
  /\ UNCHANGED <<map, scope, pos, found, result, history>>

FindAll(q) ==
  /\ Begin(q, Ids)
  /\ pc' = [pc EXCEPT ![q] = "iterating"]
  /\ UNCHANGED found

(* The caller asks for the next example: the next entry, as it is now.      *)
Yield(q) ==
  /\ pc[q] = "iterating"
  /\ pos[q] < Len(order)
  /\ pos' = [pos EXCEPT ![q] = @ + 1]
  /\ result' = [result EXCEPT ![q] = Append(@, item[order[pos[q] + 1]])]
  /\ UNCHANGED <<map, pc, scope, found, history>>

(* The iterator has passed the last entry.                                  *)
IterationDone(q) ==
  /\ pc[q] = "iterating"
  /\ pos[q] = Len(order)
  /\ pc' = [pc EXCEPT ![q] = "done"]
  /\ UNCHANGED <<map, scope, pos, found, result, history>>

Next ==
  \/ \E i \in Ids : Store(i)
  \/ \E q \in Queries :
       \/ FindAll(q) \/ \E i \in Ids : FindById(q, i)
       \/ Deliver(q) \/ Delivered(q) \/ Yield(q) \/ IterationDone(q)

Spec == Init /\ [][Next]_vars

--------------------------------------------------------------------------------
Repository == INSTANCE ExampleRepository WITH
  Keys <- Ids,
  KeyOf <- [i \in Ids |-> i],
  phase <- [q \in Queries |-> IF pc[q] \in Running THEN "running" ELSE pc[q]]

(* Iterating over the live Map keeps what ExampleRepository promises, and   *)
(* what the DynamoDB repository keeps too: no example that was there is     *)
(* missed or repeated, whatever is stored between two of them.              *)
ImplementsRepository == Repository!Spec

Yielded(q) == {result[q][n].key : n \in DOMAIN result[q]}

(* What findAll has yielded is what lies behind its iterator, an entry      *)
(* each: a store moves no entry from one side of it to the other.           *)
AheadOfIterator ==
  \A q \in Queries :
    pc[q] = "iterating" =>
      Yielded(q) = {order[n] : n \in 1..pos[q]} /\ Cardinality(Yielded(q)) = pos[q]

(* The Map has one entry for a key, and each holds a complete example.      *)
EntriesInv ==
  /\ \A m, n \in DOMAIN order : order[m] = order[n] => m = n
  /\ \A i \in Ids : /\ item[i].key = i
                    /\ Known(i) <=> item[i].description # 0
                    /\ Known(i) => item[i].written # 0

(* What a query is yet to deliver is there, and not delivered.              *)
QueryInv(q) ==
  /\ pos[q] <= Len(order)
  /\ pc[q] = "idle" => pos[q] = 0 /\ result[q] = <<>>
  /\ pc[q] \in Running =>
       \A i \in scope[q] : Known(i) => item[i] \in since[q]
  /\ pc[q] = "iterating" =>
       /\ scope[q] = Ids /\ owed[q] \subseteq ToSet(order)
       /\ IsFiniteSet(Yielded(q))
  /\ pc[q] = "found" =>
       /\ \A x \in found[q] :
            /\ x \in since[q] /\ x.written # 0 /\ x.key \notin Yielded(q)
            /\ \A y \in found[q] : x = y
       /\ owed[q] \subseteq Yielded(q) \cup {x.key : x \in found[q]}

(* The inductive invariant behind ImplementsRepository.                     *)
IInv ==
  TypeOK /\ EntriesInv /\ AheadOfIterator /\ \A q \in Queries : QueryInv(q)
================================================================================
