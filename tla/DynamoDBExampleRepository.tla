---------------------- MODULE DynamoDBExampleRepository ----------------------
(***************************************************************************)
(* DynamoDBExampleRepository over one table partition: store is a PutItem  *)
(* of the whole example, updateDescription an UpdateItem that creates what *)
(* it does not find, findById and findAll are consistent queries read page *)
(* by page.  findAll yields the items of a page one by one, and asks for   *)
(* the next page only when its caller has taken them, while others write.  *)
(*                                                                         *)
(* A sort key is the upper-cased id, so ids that differ in case have one   *)
(* key; keys are numbers in the order in which a query returns them.  The  *)
(* table is external: where a page ends is its choice.                     *)
(***************************************************************************)
EXTENDS Naturals, Sequences, FiniteSets

CONSTANTS
  Ids,        \* ids of examples
  KeyCount,   \* bound: sort keys
  KeyOf,      \* exampleSk: KeyOf[i] is the sort key of the id i
  Queries,    \* findById and findAll calls
  MaxWrites   \* bound: stores and updates

Keys == 1..KeyCount

ASSUME ConstantsAssumption ==
  /\ KeyCount \in Nat
  /\ MaxWrites \in Nat
  /\ KeyOf \in [Ids -> Keys]

VARIABLES
  item,    \* item[k]: the attributes of the item with sort key k
  writes,  \* how many writes there were
  pc,      \* pc[q]: where the query is
  list,    \* list[q]: it is findById, which lists all pages before it looks
  scope,   \* scope[q]: the sort keys of its key condition
  after,   \* after[q]: ExclusiveStartKey of the next page
  more,    \* more[q]: the page had a LastEvaluatedKey
  page,    \* page[q]: the items it has fetched and not yet looked at
  result,  \* result[q]: the examples its caller has got
  owed,    \* history, owed[q]: the keys in scope that had items at its start
  since    \* history, since[q]: the items in scope at some time since then

table == <<item, writes>>
cursor == <<list, scope, after, more>>
history == <<owed, since>>
vars == <<table, pc, cursor, page, result, history>>

(* Of the attributes it matters which write they come from: id, name and    *)
(* createdAt from the written-th, description from its own.  0: missing.    *)
Item == [key: Keys, id: SUBSET Ids, written: 0..MaxWrites, description: 0..MaxWrites]

Nothing(k) == [key |-> k, id |-> {}, written |-> 0, description |-> 0]
Present(i) == i.description # 0

(* DynamoDBExampleSchema.parse accepts the item.                            *)
Complete(i) == i.written # 0

Reading == {"fetching", "yielding"}

TypeOK ==
  /\ item \in [Keys -> Item]
  /\ writes \in 0..MaxWrites
  /\ pc \in [Queries -> Reading \cup {"idle", "done", "failed", "disconnected"}]
  /\ list \in [Queries -> BOOLEAN]
  /\ scope \in [Queries -> SUBSET Keys]
  /\ after \in [Queries -> 0..KeyCount]
  /\ more \in [Queries -> BOOLEAN]
  /\ page \in [Queries -> SUBSET Item]
  /\ result \in [Queries -> Seq(Item)]
  /\ owed \in [Queries -> SUBSET Keys]
  /\ since \in [Queries -> SUBSET Item]

Init ==
  /\ item = [k \in Keys |-> Nothing(k)]
  /\ writes = 0
  /\ pc = [q \in Queries |-> "idle"]
  /\ list = [q \in Queries |-> FALSE]
  /\ scope = [q \in Queries |-> {}]
  /\ after = [q \in Queries |-> 0]
  /\ more = [q \in Queries |-> FALSE]
  /\ page = [q \in Queries |-> {}]
  /\ result = [q \in Queries |-> <<>>]
  /\ owed = [q \in Queries |-> {}]
  /\ since = [q \in Queries |-> {}]

--------------------------------------------------------------------------------
Write(k, i) ==
  /\ writes < MaxWrites
  /\ writes' = writes + 1
  /\ item' = [item EXCEPT ![k] = i]
  /\ since' = [q \in Queries |->
       IF pc[q] \in Reading /\ k \in scope[q] THEN since[q] \cup {i} ELSE since[q]]
  /\ UNCHANGED <<pc, cursor, page, result, owed>>

(* Defect: store is an update, which leaves a description that is there.    *)
StoreKeepingDescription(id) ==
  LET k == KeyOf[id]
      i == [key |-> k, id |-> {id}, written |-> writes + 1,
            description |-> IF Present(item[k]) THEN item[k].description
                                                ELSE writes + 1]
  IN Write(k, i)

(* PutItem replaces all there was.                                          *)
Store(id) ==
  LET k == KeyOf[id]
      i == [key |-> k, id |-> {id}, written |-> writes + 1,
            description |-> writes + 1]
  IN Write(k, i)

(* UpdateItem sets the description, of an item that need not exist.         *)
UpdateDescription(id) ==
  LET k == KeyOf[id] IN
    Write(k, [item[k] EXCEPT !.description = writes + 1])

--------------------------------------------------------------------------------
Begin(q, S, asList) ==
  /\ pc[q] = "idle"
  /\ pc' = [pc EXCEPT ![q] = "fetching"]
  /\ list' = [list EXCEPT ![q] = asList]
  /\ scope' = [scope EXCEPT ![q] = S]
  /\ owed' = [owed EXCEPT ![q] = {k \in S : Present(item[k])}]
  /\ since' = [since EXCEPT ![q] = {item[k] : k \in {j \in S : Present(item[j])}}]
  /\ UNCHANGED <<table, after, more, page, result>>

FindById(q, id) == Begin(q, {KeyOf[id]}, TRUE)
FindAll(q) == Begin(q, Keys, FALSE)

(* Defect: each page is asked for without the key the one before ended at.  *)
RemainingFromStart(q) == {k \in scope[q] : Present(item[k])}

(* What is left of the query's range, as the table is now.                  *)
Remaining(q) == {k \in scope[q] : k > after[q] /\ Present(item[k])}

(* A page arrives: the rest of the range, or a part of it with the key it   *)
(* ends at.  queryAsList goes on for all pages.                             *)
FetchPage(q) ==
  /\ pc[q] = "fetching"
  /\ \/ /\ page' = [page EXCEPT ![q] = @ \cup {item[k] : k \in Remaining(q)}]
        /\ more' = [more EXCEPT ![q] = FALSE]
        /\ UNCHANGED after
     \/ \E last \in Remaining(q) :
          /\ page' = [page EXCEPT ![q] =
               @ \cup {item[k] : k \in {j \in Remaining(q) : j <= last}}]
          /\ more' = [more EXCEPT ![q] = TRUE]
          /\ after' = [after EXCEPT ![q] = last]
  /\ pc' = [pc EXCEPT ![q] = IF list[q] /\ more'[q] THEN "fetching" ELSE "yielding"]
  /\ UNCHANGED <<table, list, scope, result, history>>

(* The request rejects, and the query with it.                              *)
FetchError(q) ==
  /\ pc[q] = "fetching"
  /\ pc' = [pc EXCEPT ![q] = "disconnected"]
  /\ UNCHANGED <<table, cursor, page, result, history>>

(* Defect: an item that the schema does not accept is tried again.          *)
YieldRetrying(q) ==
  /\ pc[q] = "yielding"
  /\ \E i \in page[q] :
       /\ \A j \in page[q] : i.key <= j.key
       /\ Complete(i)
       /\ result' = [result EXCEPT ![q] = Append(@, i)]
       /\ page' = [page EXCEPT ![q] = @ \ {i}]
  /\ UNCHANGED <<table, pc, cursor, history>>

(* The caller asks for the next example: the page's next item is parsed.    *)
(* An item the schema does not accept ends the generator with its error.    *)
Yield(q) ==
  /\ pc[q] = "yielding"
  /\ \E i \in page[q] :
       /\ \A j \in page[q] : i.key <= j.key
       /\ IF Complete(i)
          THEN /\ result' = [result EXCEPT ![q] = Append(@, i)]
               /\ page' = [page EXCEPT ![q] = @ \ {i}]
               /\ UNCHANGED pc
          ELSE /\ pc' = [pc EXCEPT ![q] = "failed"]
               /\ UNCHANGED <<page, result>>
  /\ UNCHANGED <<table, cursor, history>>

(* Defect: findById parses the first item even if there is none.            *)
PageDoneParsingNothing(q) ==
  /\ pc[q] = "yielding"
  /\ page[q] = {}
  /\ pc' = [pc EXCEPT ![q] = IF more[q] THEN "fetching"
                             ELSE IF list[q] /\ result[q] = <<>> THEN "failed"
                             ELSE "done"]
  /\ UNCHANGED <<table, cursor, page, result, history>>

(* Defect: the query ends with the page, whether or not there are others.   *)
PageDoneIsEnd(q) ==
  /\ pc[q] = "yielding"
  /\ page[q] = {}
  /\ pc' = [pc EXCEPT ![q] = "done"]
  /\ UNCHANGED <<table, cursor, page, result, history>>

(* The page is done with: another one, or the end.                          *)
PageDone(q) ==
  /\ pc[q] = "yielding"
  /\ page[q] = {}
  /\ pc' = [pc EXCEPT ![q] = IF more[q] THEN "fetching" ELSE "done"]
  /\ UNCHANGED <<table, cursor, page, result, history>>

Next ==
  \/ \E id \in Ids : Store(id) \/ UpdateDescription(id)
  \/ \E q \in Queries :
       \/ FindAll(q) \/ \E id \in Ids : FindById(q, id)
       \/ FetchPage(q) \/ FetchError(q) \/ Yield(q) \/ PageDone(q)

Spec == Init /\ [][Next]_vars

(* The caller keeps asking and DynamoDB answers.                            *)
FairSpec ==
  /\ Spec
  /\ \A q \in Queries : WF_vars(FetchPage(q) \/ Yield(q) \/ PageDone(q))

--------------------------------------------------------------------------------
Given(q) == {result[q][n] : n \in DOMAIN result[q]}
KeysIn(S) == {i.key : i \in S}

(* An item stays once it is there, and the history has every item in scope. *)
TableInv ==
  /\ \A k \in Keys : item[k].key = k
  /\ \A q \in Queries : pc[q] \in Reading =>
       /\ owed[q] \subseteq {k \in scope[q] : Present(item[k])}
       /\ \A k \in scope[q] : Present(item[k]) => item[k] \in since[q]

(* Nothing left to fetch.                                                   *)
AllFetched(q) == pc[q] = "yielding" /\ ~more[q]

(* Descriptions are not older, and what a query may see was there.          *)
ItemInv ==
  /\ \A k \in Keys : /\ item[k].written <= item[k].description
                     /\ item[k].description <= writes
  /\ \A q \in Queries :
       /\ \A i \in since[q] : Present(i)
       /\ \A i \in since[q] \cup Given(q) : i.written <= i.description

(* Before a query begins it has read nothing.                               *)
IdleInv ==
  \A q \in Queries :
    pc[q] = "idle" => page[q] = {} /\ result[q] = <<>> /\ after[q] = 0

(* What a query has, page and result together, is what it owes up to where  *)
(* it has read.                                                             *)
CursorInv ==
  \A q \in Queries : pc[q] \in Reading =>
    /\ page[q] \subseteq since[q]
    /\ \A i, j \in page[q] : i.key = j.key => i = j
    /\ KeysIn(page[q]) \cap KeysIn(Given(q)) = {}
    /\ \A k \in KeysIn(page[q] \cup Given(q)) : AllFetched(q) \/ k <= after[q]
    /\ \A k \in owed[q] :
         AllFetched(q) \/ k <= after[q] => k \in KeysIn(page[q] \cup Given(q))

(* The inductive invariant behind the properties below.                     *)
IInv == TypeOK /\ TableInv /\ ItemInv /\ IdleInv /\ CursorInv

(* A query that did not lose its connection fails only if an item it read   *)
(* was created by updateDescription and never stored; findAll then fails    *)
(* for every caller until it is.                                            *)
OnlyUpsertBreaks ==
  \A q \in Queries :
    pc[q] = "failed" => \E i \in since[q] : i.description # 0 /\ i.written = 0

(* Whatever order stores, redelivered ones too, and updates of a            *)
(* description come in, an example never has a description older than its   *)
(* other attributes: not in the table, and not in a page that was read      *)
(* before and is handed out later.                                          *)
NoOlderDescription ==
  \A i \in {item[k] : k \in Keys} \cup UNION {Given(q) : q \in Queries} :
    i.written <= i.description

Repository == INSTANCE ExampleRepository WITH
  phase <- [q \in Queries |-> IF pc[q] \in Reading THEN "running" ELSE pc[q]]

(* Paging keeps what ExampleRepository promises of findById and findAll:    *)
(* nothing that was there is missed or repeated, whatever is written        *)
(* between two pages.                                                       *)
ImplementsRepository == Repository!Spec

(* A query ends, however its pages are cut.                                 *)
QueryEnds == \A q \in Queries : pc[q] \in Reading ~> pc[q] \notin Reading
================================================================================
