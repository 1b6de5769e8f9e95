---------------------- MODULE ConfiguredRepositoryProofs ----------------------
(***************************************************************************)
(* Proofs about the two example repositories and the choice between them,  *)
(* for any ids, keys, queries and number of writes.                        *)
(***************************************************************************)
EXTENDS ConfiguredRepository, FiniteSetTheorems, TLAPS

Elements(s) == {s[n] : n \in DOMAIN s}

(* Appending to a sequence adds one element.                                *)
LEMMA ElementsOfAppend ==
  ASSUME NEW T, NEW s \in Seq(T), NEW i \in T
  PROVE  Elements(Append(s, i)) = Elements(s) \cup {i}
<1> DEFINE t == Append(s, i)
<1>1. /\ Len(s) \in Nat /\ DOMAIN s = 1..Len(s) /\ DOMAIN t = 1..(Len(s) + 1)
      /\ t[Len(s) + 1] = i
      /\ \A n \in 1..Len(s) : t[n] = s[n]
  OBVIOUS
<1> HIDE DEF t
<1>2. DOMAIN t = DOMAIN s \cup {Len(s) + 1}
  BY <1>1
<1>3. ASSUME NEW n \in DOMAIN t PROVE t[n] \in {s[j] : j \in DOMAIN s} \cup {i}
  <2>1. CASE n \in DOMAIN s
    BY <2>1, <1>1
  <2>2. CASE n = Len(s) + 1
    BY <2>2, <1>1
  <2> QED
    BY <2>1, <2>2, <1>2
<1>4. ASSUME NEW n \in DOMAIN s PROVE s[n] \in {t[j] : j \in DOMAIN t}
  <2>1. s[n] = t[n] /\ n \in DOMAIN t
    BY <1>1, <1>2
  <2> QED
    BY <2>1
<1>5. i \in {t[j] : j \in DOMAIN t}
  <2>1. i = t[Len(s) + 1] /\ Len(s) + 1 \in DOMAIN t
    BY <1>1, <1>2
  <2> QED
    BY <2>1
<1>6. {t[n] : n \in DOMAIN t} = {s[n] : n \in DOMAIN s} \cup {i}
  BY <1>3, <1>4, <1>5, Zenon
<1> QED
  BY <1>6 DEF t, Elements

--------------------------------------------------------------------------------
(* DynamoDBExampleRepository. *)

(* The table is empty and no query has begun.                               *)
LEMMA IInvInit == Init => IInv
<1> SUFFICES ASSUME Init PROVE IInv
  OBVIOUS
<1>1. \A k \in Keys : Nothing(k) \in Item
  BY ConstantsAssumption DEF Nothing, Item
<1>2. \A q \in Queries : result[q] = <<>> /\ <<>> \in Seq(Item) /\ DOMAIN <<>> = {}
  BY DEF Init
<1>3. \A q \in Queries : Given(q) = {}
  BY <1>2 DEF Given
<1>4. TypeOK
  BY ConstantsAssumption, <1>1, <1>2 DEF Init, TypeOK
<1>5. TableInv /\ IdleInv /\ CursorInv
  BY DEF Init, TableInv, IdleInv, CursorInv, Nothing, Reading
<1>6. ItemInv
  BY ConstantsAssumption, <1>3 DEF Init, ItemInv, Nothing
<1> QED
  BY <1>4, <1>5, <1>6 DEF IInv

(* A write is of a present item, newer than all there was.                  *)
LEMMA WriteEffect ==
  ASSUME IInv, NEW id \in Ids, Store(id) \/ UpdateDescription(id)
  PROVE  \E i \in Item :
           /\ Write(KeyOf[id], i)
           /\ KeyOf[id] \in Keys /\ i.key = KeyOf[id]
           /\ i.description = writes + 1 /\ i.written <= i.description
<1> DEFINE k == KeyOf[id]
<1>1. k \in Keys /\ item[k] \in Item /\ item[k].key = k
  BY ConstantsAssumption DEF IInv, TypeOK, TableInv
<1>2. writes \in Nat /\ writes + 1 \in 0..MaxWrites
  BY ConstantsAssumption DEF IInv, TypeOK, Store, UpdateDescription, Write
<1>3. item[k].written <= writes
  BY <1>1, <1>2 DEF IInv, ItemInv, Item
<1>4. CASE Store(id)
  <2> DEFINE i == [key |-> k, id |-> {id}, written |-> writes + 1,
                   description |-> writes + 1]
  <2>1. i \in Item
    BY <1>1, <1>2 DEF Item
  <2>2. Write(k, i)
    BY <1>4 DEF Store
  <2> QED
    BY <1>1, <1>2, <2>1, <2>2
<1>5. CASE UpdateDescription(id)
  <2> DEFINE i == [item[k] EXCEPT !.description = writes + 1]
  <2>1. i = [key |-> k, id |-> item[k].id, written |-> item[k].written,
             description |-> writes + 1]
    BY <1>1 DEF Item
  <2>2. i \in Item
    BY <1>1, <1>2, <2>1 DEF Item
  <2>3. Write(k, i)
    BY <1>5 DEF UpdateDescription
  <2> HIDE DEF i
  <2>4. i.written = item[k].written /\ i.description = writes + 1 /\ i.key = k
    BY <2>1
  <2>5. i.written <= i.description
    BY <1>1, <1>2, <1>3, <2>4 DEF Item
  <2> QED
    BY <1>1, <2>2, <2>3, <2>4, <2>5
<1> QED
  BY <1>4, <1>5

(* A write disturbs no query: it only adds to what queries may see.         *)
LEMMA WriteStep ==
  ASSUME IInv, NEW k \in Keys, NEW i \in Item, Write(k, i),
         i.key = k, i.description = writes + 1, i.written <= i.description
  PROVE  IInv'
<1>a. TypeOK /\ TableInv /\ ItemInv /\ IdleInv /\ CursorInv
  BY DEF IInv
<1>1. /\ writes \in Nat /\ writes < MaxWrites /\ writes' = writes + 1
      /\ UNCHANGED <<pc, list, scope, after, more, page, result, owed>>
      /\ \A q \in Queries : Given(q)' = Given(q)
  BY <1>a, ConstantsAssumption DEF Write, TypeOK, cursor, Given
<1>2. /\ item' \in [Keys -> Item] /\ item'[k] = i
      /\ \A j \in Keys \ {k} : item'[j] = item[j]
  BY <1>a DEF Write, TypeOK
<1>3. \A q \in Queries : /\ since[q] \subseteq since'[q]
                         /\ since'[q] \subseteq since[q] \cup {i}
                         /\ pc[q] \in Reading /\ k \in scope[q] => i \in since'[q]
  BY DEF Write
<1>4. Present(i)
  BY <1>1 DEF Present
<1>5. TypeOK'
  <2>1. since' \in [Queries -> SUBSET Item]
    BY <1>a DEF Write, TypeOK
  <2>2. writes' \in 0..MaxWrites
    BY <1>1, ConstantsAssumption
  <2> QED
    BY <1>a, <1>1, <1>2, <2>1, <2>2 DEF TypeOK
<1>6. TableInv'
  <2>1. \A j \in Keys : item'[j].key = j
    BY <1>a, <1>2 DEF TableInv
  <2>2. \A j \in Keys : Present(item[j]) => Present(item'[j])
    BY <1>2, <1>4
  <2>3. \A q \in Queries : scope[q] \subseteq Keys
    BY <1>a DEF TypeOK
  <2> QED
    BY <1>a, <1>1, <1>2, <1>3, <2>1, <2>2, <2>3 DEF TableInv
<1>7. ItemInv'
  <2>1. \A j \in Keys : item[j].description \in Nat
    BY <1>a, ConstantsAssumption DEF TypeOK, Item
  <2>2. \A j \in Keys : item'[j].written <= item'[j].description
                        /\ item'[j].description <= writes'
    BY <1>a, <1>1, <1>2, <2>1 DEF ItemInv
  <2> QED
    BY <1>a, <1>1, <1>3, <1>4, <2>2 DEF ItemInv
<1>8. IdleInv'
  BY <1>a, <1>1 DEF IdleInv
<1>9. CursorInv'
  BY <1>a, <1>1, <1>3 DEF CursorInv, AllFetched, KeysIn
<1> QED
  BY <1>5, <1>6, <1>7, <1>8, <1>9 DEF IInv

(* A query begins with what is there, and owes it.                          *)
LEMMA BeginStep ==
  ASSUME IInv, NEW q \in Queries, NEW S \in SUBSET Keys, NEW asList \in BOOLEAN,
         Begin(q, S, asList)
  PROVE  IInv'
<1>a. TypeOK /\ TableInv /\ ItemInv /\ IdleInv /\ CursorInv
  BY DEF IInv
<1> DEFINE present == {k \in S : Present(item[k])}
<1>1. /\ UNCHANGED <<item, writes, after, more, page, result>>
      /\ \A r \in Queries : Given(r)' = Given(r)
      /\ pc[q] = "idle"
  BY DEF Begin, table, Given
<1>2. /\ pc'[q] = "fetching" /\ scope'[q] = S /\ owed'[q] = present
      /\ since'[q] = {item[k] : k \in present}
  BY <1>a DEF Begin, TypeOK
<1>3. \A r \in Queries \ {q} : /\ pc'[r] = pc[r] /\ scope'[r] = scope[r]
                               /\ owed'[r] = owed[r] /\ since'[r] = since[r]
  BY <1>a DEF Begin, TypeOK
<1>4. page[q] = {} /\ Given(q) = {} /\ after[q] = 0
  BY <1>a, <1>1 DEF IdleInv, Given
<1>5. present \subseteq Keys /\ \A i \in since'[q] : \E k \in present : i = item[k]
  BY <1>2
<1>6. TypeOK'
  <2>1. since'[q] \subseteq Item
    BY <1>a, <1>5 DEF TypeOK
  <2> QED
    BY <1>a, <1>1, <1>2, <1>5, <2>1 DEF Begin, TypeOK, Reading
<1>7. TableInv'
  BY <1>a, <1>1, <1>2, <1>3 DEF TableInv
<1>8. ItemInv'
  BY <1>a, <1>1, <1>3, <1>4, <1>5 DEF ItemInv
<1>9. IdleInv'
  BY <1>a, <1>1, <1>2, <1>3 DEF IdleInv
<1>10. CursorInv'
  <2>1. KeysIn(page[q]) = {} /\ KeysIn(page[q] \cup Given(q)) = {}
    BY <1>4 DEF KeysIn
  <2>2. \A k \in Keys : ~(k <= 0)
    BY ConstantsAssumption DEF Keys
  <2>3. AllFetched(q)' = FALSE
    BY <1>2 DEF AllFetched
  <2> QED
    BY <1>a, <1>1, <1>2, <1>3, <1>4, <1>5, <2>1, <2>2, <2>3
    DEF CursorInv, AllFetched, KeysIn
<1> QED
  BY <1>6, <1>7, <1>8, <1>9, <1>10 DEF IInv

(* A page brings what is in the range up to where it ends, and nothing that *)
(* an earlier page brought, although the table has changed since.           *)
LEMMA FetchStep ==
  ASSUME IInv, NEW q \in Queries, FetchPage(q)
  PROVE  IInv'
<1>a. TypeOK /\ TableInv /\ ItemInv /\ IdleInv /\ CursorInv
  BY DEF IInv
<1>b. after[q] \in Nat /\ scope[q] \subseteq Keys
  BY <1>a, ConstantsAssumption DEF TypeOK
<1>1. /\ pc[q] = "fetching" /\ ~ AllFetched(q)
      /\ UNCHANGED <<table, list, scope, result, owed, since>>
      /\ \A r \in Queries : Given(r)' = Given(r)
      /\ pc' \in [Queries -> Reading \cup {"idle", "done", "failed", "disconnected"}]
      /\ pc'[q] \in Reading
      /\ pc'[q] = IF list[q] /\ more'[q] THEN "fetching" ELSE "yielding"
      /\ \A r \in Queries \ {q} : /\ pc'[r] = pc[r] /\ page'[r] = page[r]
                                  /\ more'[r] = more[r] /\ after'[r] = after[r]
  BY <1>a DEF FetchPage, history, AllFetched, Given, TypeOK, Reading
<1>2. PICK part \in SUBSET Remaining(q) :
        /\ page' = [page EXCEPT ![q] = page[q] \cup {item[k] : k \in part}]
        /\ \/ /\ part = Remaining(q) /\ more' = [more EXCEPT ![q] = FALSE]
              /\ UNCHANGED after
           \/ \E last \in Remaining(q) :
                /\ part = {j \in Remaining(q) : j <= last}
                /\ more' = [more EXCEPT ![q] = TRUE]
                /\ after' = [after EXCEPT ![q] = last]
  BY DEF FetchPage
<1>3. Remaining(q) \subseteq Keys
  BY <1>b DEF Remaining
<1>4. \A k \in part : /\ k \in Keys /\ k \in Nat /\ k > after[q]
                      /\ item[k].key = k /\ item[k] \in since[q] /\ item[k] \in Item
  BY <1>a, <1>1, <1>3, ConstantsAssumption DEF Remaining, TableInv, TypeOK, Keys, Reading
<1>5. page'[q] = page[q] \cup {item[k] : k \in part}
  BY <1>a, <1>2 DEF TypeOK
<1>6. KeysIn(page'[q] \cup Given(q)) = KeysIn(page[q] \cup Given(q)) \cup part
  <2>1. {i.key : i \in {item[k] : k \in part}} = part
    BY <1>4
  <2> QED
    BY <1>5, <2>1 DEF KeysIn
<1>c. more'[q] = FALSE => AllFetched(q)'
  <2>1. more'[q] = FALSE => pc'[q] = "yielding"
    BY <1>1
  <2> QED
    BY <2>1 DEF AllFetched
<1>7. \/ AllFetched(q)'
      \/ after'[q] \in Keys /\ after'[q] > after[q] /\ ~ AllFetched(q)'
  <2>1. CASE part = Remaining(q) /\ more' = [more EXCEPT ![q] = FALSE]
    <3>1. more'[q] = FALSE
      BY <1>a, <2>1 DEF TypeOK
    <3> QED
      BY <1>c, <3>1
  <2>2. CASE /\ more' = [more EXCEPT ![q] = TRUE]
             /\ \E last \in Remaining(q) : after' = [after EXCEPT ![q] = last]
    BY <1>a, <1>3, <2>2 DEF AllFetched, TypeOK, Remaining
  <2> QED
    BY <1>2, <2>1, <2>2
<1>8. \A k \in Remaining(q) : AllFetched(q)' \/ k <= after'[q] <=> k \in part
  <2>1. CASE part = Remaining(q) /\ more' = [more EXCEPT ![q] = FALSE]
    <3>1. more'[q] = FALSE
      BY <1>a, <2>1 DEF TypeOK
    <3> QED
      BY <1>c, <2>1, <3>1
  <2>2. CASE /\ more' = [more EXCEPT ![q] = TRUE]
             /\ \E last \in Remaining(q) : /\ part = {j \in Remaining(q) : j <= last}
                                           /\ after' = [after EXCEPT ![q] = last]
    BY <1>a, <1>3, <2>2 DEF AllFetched, TypeOK
  <2> QED
    BY <1>2, <2>1, <2>2
<1>9. TypeOK'
  <2>1. page' \in [Queries -> SUBSET Item]
    BY <1>a, <1>2, <1>4 DEF TypeOK
  <2>2. more' \in [Queries -> BOOLEAN]
    BY <1>a, <1>2 DEF TypeOK
  <2>3. after' \in [Queries -> 0..KeyCount]
    <3>1. Remaining(q) \subseteq 0..KeyCount /\ after \in [Queries -> 0..KeyCount]
      BY <1>a, <1>3, ConstantsAssumption DEF TypeOK, Keys
    <3>2. after' = after \/ \E last \in 0..KeyCount : after' = [after EXCEPT ![q] = last]
      BY <1>2, <3>1
    <3> QED
      BY <3>1, <3>2
  <2> QED
    BY <1>a, <1>1, <2>1, <2>2, <2>3 DEF TypeOK, table
<1>10. TableInv'
  BY <1>a, <1>1 DEF TableInv, table, Reading
<1>11. ItemInv'
  BY <1>a, <1>1 DEF ItemInv, table
<1>12. IdleInv'
  BY <1>a, <1>1 DEF IdleInv, Reading
<1>13. CursorInv'
  <2>1. ASSUME NEW r \in Queries \ {q}, pc'[r] \in Reading
        PROVE  /\ page'[r] \subseteq since'[r]
               /\ \A i, j \in page'[r] : i.key = j.key => i = j
               /\ KeysIn(page'[r]) \cap KeysIn(Given(r)') = {}
               /\ \A k \in KeysIn(page'[r] \cup Given(r)') :
                    AllFetched(r)' \/ k <= after'[r]
               /\ \A k \in owed'[r] : AllFetched(r)' \/ k <= after'[r] =>
                    k \in KeysIn(page'[r] \cup Given(r)')
    BY <1>a, <1>1, <2>1 DEF CursorInv, AllFetched
  <2>2. page'[q] \subseteq since'[q]
    <3>1. page[q] \subseteq since[q] /\ since'[q] = since[q]
      BY <1>a, <1>1 DEF CursorInv, Reading
    <3> QED
      BY <1>4, <1>5, <3>1
  <2>3. \A k \in KeysIn(page[q] \cup Given(q)) : k <= after[q]
    BY <1>a, <1>1 DEF CursorInv, Reading
  <2>4. \A i, j \in page'[q] : i.key = j.key => i = j
    <3>1. \A i \in page[q] : i.key <= after[q]
      BY <2>3 DEF KeysIn
    <3>2. \A i, j \in page[q] : i.key = j.key => i = j
      BY <1>a, <1>1 DEF CursorInv, Reading
    <3> QED
      BY <1>b, <1>4, <1>5, <3>1, <3>2
  <2>5. KeysIn(page'[q]) \cap KeysIn(Given(q)) = {}
    <3>1. KeysIn(page'[q]) = KeysIn(page[q]) \cup part
      BY <1>4, <1>5 DEF KeysIn
    <3>2. KeysIn(page[q]) \cap KeysIn(Given(q)) = {}
      BY <1>a, <1>1 DEF CursorInv, Reading
    <3>3. \A k \in KeysIn(Given(q)) : k <= after[q]
      BY <2>3 DEF KeysIn
    <3> QED
      BY <1>b, <1>4, <3>1, <3>2, <3>3
  <2>6. ASSUME NEW k \in KeysIn(page'[q] \cup Given(q)), ~ AllFetched(q)'
        PROVE  k <= after'[q]
    <3>1. CASE k \in part
      BY <1>8, <2>6, <3>1
    <3>2. CASE k \in KeysIn(page[q] \cup Given(q))
      <4>1. k \in Nat /\ k <= after[q]
        <5>1. page[q] \cup Given(q) \subseteq Item
          BY <1>a DEF TypeOK, Given
        <5> QED
          BY <2>3, <3>2, <5>1, ConstantsAssumption DEF KeysIn, Item, Keys
      <4> QED
        BY <1>b, <1>7, <2>6, <4>1, ConstantsAssumption DEF Keys
    <3> QED
      BY <1>6, <3>1, <3>2
  <2>7. ASSUME NEW k \in owed[q], AllFetched(q)' \/ k <= after'[q]
        PROVE  k \in KeysIn(page'[q] \cup Given(q))
    <3>1. k \in scope[q] /\ k \in Nat /\ Present(item[k])
      BY <1>a, <1>1, <1>b, ConstantsAssumption DEF TableInv, Reading, Keys
    <3>2. CASE k <= after[q]
      BY <1>a, <1>1, <1>6, <3>2 DEF CursorInv, Reading
    <3>3. CASE k > after[q]
      BY <1>6, <1>8, <2>7, <3>1, <3>3 DEF Remaining
    <3> QED
      BY <1>b, <3>1, <3>2, <3>3
  <2> QED
    BY <1>1, <2>1, <2>2, <2>4, <2>5, <2>6, <2>7 DEF CursorInv
<1> QED
  BY <1>9, <1>10, <1>11, <1>12, <1>13 DEF IInv

(* A complete item goes from the page to the caller; another one fails.     *)
LEMMA YieldEffect ==
  ASSUME IInv, NEW q \in Queries, Yield(q)
  PROVE  \E i \in page[q] :
           /\ pc[q] = "yielding" /\ i \in since[q] /\ i \in Item
           /\ UNCHANGED <<table, cursor, history>>
           /\ \/ /\ Complete(i) /\ UNCHANGED pc
                 /\ page' = [page EXCEPT ![q] = page[q] \ {i}]
                 /\ result' = [result EXCEPT ![q] = Append(result[q], i)]
                 /\ Given(q)' = Given(q) \cup {i}
                 /\ \A r \in Queries \ {q} : Given(r)' = Given(r)
              \/ /\ ~ Complete(i) /\ pc' = [pc EXCEPT ![q] = "failed"]
                 /\ UNCHANGED <<page, result>>
                 /\ \A r \in Queries : Given(r)' = Given(r)
<1>a. TypeOK /\ CursorInv
  BY DEF IInv
<1>1. PICK i \in page[q] :
        IF Complete(i)
        THEN /\ result' = [result EXCEPT ![q] = Append(result[q], i)]
             /\ page' = [page EXCEPT ![q] = page[q] \ {i}]
             /\ UNCHANGED pc
        ELSE /\ pc' = [pc EXCEPT ![q] = "failed"]
             /\ UNCHANGED <<page, result>>
  BY DEF Yield
<1>2. /\ pc[q] = "yielding" /\ i \in since[q] /\ i \in Item
      /\ UNCHANGED <<table, cursor, history>>
  BY <1>a DEF Yield, CursorInv, Reading, TypeOK
<1>3. CASE Complete(i)
  <2>1. result' = [result EXCEPT ![q] = Append(result[q], i)]
    BY <1>1, <1>3
  <2>2. result'[q] = Append(result[q], i)
    BY <1>a, <2>1 DEF TypeOK
  <2>3. result[q] \in Seq(Item)
    BY <1>a DEF TypeOK
  <2>4. Elements(Append(result[q], i)) = Elements(result[q]) \cup {i}
    BY <1>2, <2>3, ElementsOfAppend
  <2>5. Given(q) = Elements(result[q]) /\ Given(q)' = Elements(result'[q])
    BY DEF Given, Elements
  <2>6. Given(q)' = Given(q) \cup {i}
    BY <2>2, <2>4, <2>5
  <2>7. \A r \in Queries \ {q} : Given(r)' = Given(r)
    BY <1>a, <2>1 DEF TypeOK, Given
  <2> QED
    BY <1>1, <1>2, <1>3, <2>1, <2>6, <2>7
<1>4. CASE ~ Complete(i)
  <2>1. \A r \in Queries : Given(r)' = Given(r)
    BY <1>1, <1>4 DEF Given
  <2> QED
    BY <1>1, <1>2, <1>4, <2>1
<1> QED
  BY <1>3, <1>4

(* What a query has, page and result together, is as it was.                *)
LEMMA YieldStep ==
  ASSUME IInv, NEW q \in Queries, Yield(q)
  PROVE  IInv'
<1>a. TypeOK /\ TableInv /\ ItemInv /\ IdleInv /\ CursorInv
  BY DEF IInv
<1>1. PICK i \in page[q] :
        /\ pc[q] = "yielding" /\ i \in since[q] /\ i \in Item
        /\ UNCHANGED <<table, cursor, history>>
        /\ \/ /\ Complete(i) /\ UNCHANGED pc
              /\ page' = [page EXCEPT ![q] = page[q] \ {i}]
              /\ result' = [result EXCEPT ![q] = Append(result[q], i)]
              /\ Given(q)' = Given(q) \cup {i}
              /\ \A r \in Queries \ {q} : Given(r)' = Given(r)
           \/ /\ ~ Complete(i) /\ pc' = [pc EXCEPT ![q] = "failed"]
              /\ UNCHANGED <<page, result>>
              /\ \A r \in Queries : Given(r)' = Given(r)
  BY YieldEffect
<1>2. UNCHANGED <<item, writes, list, scope, after, more, owed, since>>
  BY <1>1 DEF table, cursor, history
<1>3. CASE /\ UNCHANGED pc
           /\ page' = [page EXCEPT ![q] = page[q] \ {i}]
           /\ result' = [result EXCEPT ![q] = Append(result[q], i)]
           /\ Given(q)' = Given(q) \cup {i}
           /\ \A r \in Queries \ {q} : Given(r)' = Given(r)
  <2>1. /\ page'[q] = page[q] \ {i}
        /\ \A r \in Queries \ {q} : page'[r] = page[r] /\ result'[r] = result[r]
    BY <1>a, <1>3 DEF TypeOK
  <2>2. TypeOK'
    <3>1. result' \in [Queries -> Seq(Item)]
      <4>1. Append(result[q], i) \in Seq(Item)
        BY <1>a, <1>1 DEF TypeOK
      <4> QED
        BY <1>a, <1>3, <4>1 DEF TypeOK
    <3>2. page' \in [Queries -> SUBSET Item]
      BY <1>a, <1>3 DEF TypeOK
    <3> QED
      BY <1>a, <1>2, <1>3, <3>1, <3>2 DEF TypeOK
  <2>3. TableInv'
    BY <1>a, <1>2, <1>3 DEF TableInv
  <2>4. ItemInv'
    BY <1>a, <1>1, <1>2, <1>3 DEF ItemInv
  <2>5. IdleInv'
    BY <1>a, <1>1, <1>2, <1>3, <2>1 DEF IdleInv
  <2>6. page'[q] \cup Given(q)' = page[q] \cup Given(q)
    BY <1>3, <2>1
  <2>7. KeysIn(page'[q]) \cap KeysIn(Given(q)') = {}
    <3>1. \A j \in page'[q] : j \in page[q] /\ j.key # i.key
      BY <1>a, <1>1, <2>1 DEF CursorInv, Reading
    <3>2. KeysIn(page[q]) \cap KeysIn(Given(q)) = {}
      BY <1>a, <1>1 DEF CursorInv, Reading
    <3> QED
      BY <1>3, <3>1, <3>2 DEF KeysIn
  <2>8. CursorInv'
    <3>1. ASSUME NEW r \in Queries \ {q}, pc[r] \in Reading
          PROVE  /\ page'[r] \subseteq since[r]
                 /\ \A j, l \in page'[r] : j.key = l.key => j = l
                 /\ KeysIn(page'[r]) \cap KeysIn(Given(r)') = {}
                 /\ \A k \in KeysIn(page'[r] \cup Given(r)') : AllFetched(r) \/ k <= after[r]
                 /\ \A k \in owed[r] : AllFetched(r) \/ k <= after[r] =>
                      k \in KeysIn(page'[r] \cup Given(r)')
      BY <1>a, <1>3, <2>1, <3>1 DEF CursorInv
    <3>2. /\ page'[q] \subseteq since[q]
          /\ \A j, l \in page'[q] : j.key = l.key => j = l
          /\ \A k \in KeysIn(page'[q] \cup Given(q)') : AllFetched(q) \/ k <= after[q]
          /\ \A k \in owed[q] : AllFetched(q) \/ k <= after[q] =>
               k \in KeysIn(page'[q] \cup Given(q)')
      BY <1>a, <1>1, <2>1, <2>6 DEF CursorInv, Reading
    <3>3. \A r \in Queries : AllFetched(r)' = AllFetched(r)
      BY <1>2, <1>3 DEF AllFetched
    <3> QED
      BY <1>2, <1>3, <2>7, <3>1, <3>2, <3>3 DEF CursorInv
  <2> QED
    BY <2>2, <2>3, <2>4, <2>5, <2>8 DEF IInv
<1>4. CASE /\ pc' = [pc EXCEPT ![q] = "failed"]
           /\ UNCHANGED <<page, result>>
           /\ \A r \in Queries : Given(r)' = Given(r)
  <2>1. /\ pc'[q] = "failed" /\ \A r \in Queries \ {q} : pc'[r] = pc[r]
    BY <1>a, <1>4 DEF TypeOK
  <2>2. TypeOK' /\ TableInv' /\ ItemInv' /\ IdleInv'
    BY <1>a, <1>2, <1>4, <2>1 DEF TypeOK, TableInv, ItemInv, IdleInv, Reading
  <2>3. CursorInv'
    BY <1>a, <1>2, <1>4, <2>1 DEF CursorInv, AllFetched, Reading
  <2> QED
    BY <2>2, <2>3 DEF IInv
<1> QED
  BY <1>1, <1>3, <1>4

(* A page that is done with leaves the query where it is, or ends it.       *)
LEMMA TurnStep ==
  ASSUME IInv, NEW q \in Queries, PageDone(q) \/ FetchError(q)
  PROVE  IInv'
<1>a. TypeOK /\ TableInv /\ ItemInv /\ IdleInv /\ CursorInv
  BY DEF IInv
<1>1. /\ UNCHANGED <<item, writes, list, scope, after, more, page, result, owed, since>>
      /\ \A r \in Queries : Given(r)' = Given(r)
      /\ pc[q] \in Reading
  BY DEF PageDone, FetchError, table, cursor, history, Given, Reading
<1>2. PICK p \in {"fetching", "done", "disconnected"} :
        /\ pc' = [pc EXCEPT ![q] = p]
        /\ p = "fetching" => ~ AllFetched(q)
  BY DEF PageDone, FetchError, AllFetched
<1>3. pc'[q] = p /\ \A r \in Queries \ {q} : pc'[r] = pc[r]
  BY <1>a, <1>2 DEF TypeOK
<1>4. TypeOK' /\ TableInv' /\ ItemInv' /\ IdleInv'
  BY <1>a, <1>1, <1>2, <1>3 DEF TypeOK, TableInv, ItemInv, IdleInv, Reading
<1>5. CursorInv'
  BY <1>a, <1>1, <1>2, <1>3 DEF CursorInv, AllFetched, Reading
<1> QED
  BY <1>4, <1>5 DEF IInv

(* Every step of the DynamoDB repository keeps the inductive invariant.     *)
LEMMA IInvStep == IInv /\ [Next]_vars => IInv'
<1> SUFFICES ASSUME IInv, [Next]_vars PROVE IInv'
  OBVIOUS
<1>1. CASE UNCHANGED vars
  <2>1. UNCHANGED <<item, writes, pc, list, scope, after, more, page, result, owed, since>>
    BY <1>1 DEF vars, table, cursor, history
  <2>2. \A q \in Queries : Given(q)' = Given(q) /\ AllFetched(q)' = AllFetched(q)
    BY <2>1 DEF Given, AllFetched
  <2>3. TypeOK' /\ TableInv'
    BY <2>1 DEF IInv, TypeOK, TableInv
  <2>4. ItemInv' /\ IdleInv'
    BY <2>1, <2>2 DEF IInv, ItemInv, IdleInv
  <2>5. CursorInv'
    BY <2>1, <2>2 DEF IInv, CursorInv
  <2> QED
    BY <2>3, <2>4, <2>5 DEF IInv
<1>2. ASSUME NEW id \in Ids, Store(id) \/ UpdateDescription(id) PROVE IInv'
  BY <1>2, WriteEffect, WriteStep
<1>3. ASSUME NEW q \in Queries, FindAll(q) \/ \E id \in Ids : FindById(q, id)
      PROVE  IInv'
  BY <1>3, BeginStep, ConstantsAssumption DEF FindAll, FindById
<1> QED
  BY <1>1, <1>2, <1>3, FetchStep, YieldStep, TurnStep DEF Next

(* Every state of the DynamoDB repository satisfies the inductive invariant.*)
THEOREM Invariance == Spec => []IInv
BY IInvInit, IInvStep, PTL DEF Spec

(* Only a read of an item that was never stored makes a query fail.         *)
LEMMA FailureStep ==
  IInv /\ OnlyUpsertBreaks /\ [Next]_vars => OnlyUpsertBreaks'
<1> SUFFICES ASSUME IInv, OnlyUpsertBreaks, [Next]_vars,
                    NEW q \in Queries, pc'[q] = "failed"
             PROVE  \E i \in since'[q] : i.description # 0 /\ i.written = 0
  BY DEF OnlyUpsertBreaks
<1>a. TypeOK /\ ItemInv
  BY DEF IInv
<1>1. CASE pc[q] = "failed"
  <2>1. since[q] \subseteq since'[q]
    <3>1. ASSUME NEW k, NEW i, Write(k, i) PROVE since[q] \subseteq since'[q]
      BY <3>1 DEF Write
    <3>2. ASSUME NEW r \in Queries, NEW S, NEW asList, Begin(r, S, asList)
          PROVE  since'[q] = since[q]
      BY <1>a, <1>1, <3>2 DEF Begin, TypeOK
    <3>3. CASE UNCHANGED since
      BY <3>3
    <3> QED
      BY <3>1, <3>2, <3>3
      DEF Next, vars, Store, UpdateDescription, FindAll, FindById, FetchPage,
          FetchError, Yield, PageDone, history
  <2> QED
    BY <1>1, <2>1 DEF OnlyUpsertBreaks
<1>2. CASE pc[q] # "failed"
  <2>1. Yield(q)
    BY <1>a, <1>2
    DEF Next, vars, Store, UpdateDescription, Write, FindAll, FindById, Begin, FetchPage,
        FetchError, Yield, PageDone, TypeOK
  <2>2. PICK i \in page[q] : /\ i \in since[q] /\ i \in Item /\ ~ Complete(i)
                             /\ UNCHANGED since
    BY <1>2, <2>1, YieldEffect DEF history
  <2> QED
    BY <1>a, <2>2 DEF ItemInv, Present, Complete
<1> QED
  BY <1>1, <1>2

(* findAll and findById fail, beside a lost connection, only over an item   *)
(* that updateDescription created and nobody stored.                        *)
THEOREM OnlyUpsert == Spec => []OnlyUpsertBreaks
<1>1. Init => OnlyUpsertBreaks
  BY DEF Init, OnlyUpsertBreaks
<1> QED
  BY <1>1, FailureStep, Invariance, PTL DEF Spec

(* The inductive invariant has the age of every description.                *)
LEMMA DescriptionsInvariant == IInv => NoOlderDescription
BY DEF IInv, ItemInv, NoOlderDescription

(* No description is older than the attributes beside it, in the table and  *)
(* in every answer, whatever the order of stores, redelivered ones and      *)
(* updates.                                                                 *)
THEOREM Descriptions == Spec => []NoOlderDescription
BY DescriptionsInvariant, Invariance, PTL

AbstractPhase ==
  [q \in Queries |-> IF pc[q] \in Reading THEN "running" ELSE pc[q]]

(* A query's step is seen by ExampleRepository as a step of its phase.      *)
LEMMA PhaseStep ==
  ASSUME IInv, NEW q \in Queries, NEW p, pc' = [pc EXCEPT ![q] = p]
  PROVE  AbstractPhase' =
           [AbstractPhase EXCEPT ![q] = IF p \in Reading THEN "running" ELSE p]
BY DEF AbstractPhase, IInv, TypeOK

(* A write is a write there.                                                *)
LEMMA WriteRefines ==
  ASSUME IInv, NEW id \in Ids, Store(id) \/ UpdateDescription(id)
  PROVE  Repository!Store(id) \/ Repository!UpdateDescription(id)
<1>1. \A q \in Queries : pc[q] # "running"
  BY DEF IInv, TypeOK, Reading
<1>2. ASSUME NEW k, NEW i, Write(k, i) PROVE Repository!Write(k, i)
  <2>1. \A q \in Queries : pc[q] \in Reading <=> AbstractPhase[q] = "running"
    BY <1>1 DEF AbstractPhase, Reading
  <2>2. since' = [q \in Queries |->
          IF AbstractPhase[q] = "running" /\ k \in scope[q] THEN since[q] \cup {i}
                                                           ELSE since[q]]
    BY <1>2, <2>1 DEF Write
  <2>3. UNCHANGED AbstractPhase
    BY <1>2 DEF Write, AbstractPhase
  <2> QED
    BY <1>2, <2>2, <2>3 DEF Write, cursor, Repository!Write, AbstractPhase
<1> QED
  BY <1>2 DEF Store, UpdateDescription, Repository!Store, Repository!UpdateDescription

(* A query that begins does so there.                                       *)
LEMMA BeginRefines ==
  ASSUME IInv, NEW q \in Queries, NEW S, NEW asList, Begin(q, S, asList)
  PROVE  Repository!Begin(q, S)
<1>1. AbstractPhase[q] = "idle"
  BY DEF Begin, AbstractPhase, Reading
<1>2. AbstractPhase' = [AbstractPhase EXCEPT ![q] = "running"]
  BY PhaseStep DEF Begin, Reading
<1> QED
  BY <1>1, <1>2
  DEF Begin, table, Repository!Begin, Repository!Present, Present, AbstractPhase

(* What a query yields is owed, or was written since, and is new to its     *)
(* caller; if it fails, it has seen what is no complete example.            *)
LEMMA YieldRefines ==
  ASSUME IInv, NEW q \in Queries, Yield(q)
  PROVE  (\E i \in Repository!Item : Repository!Yield(q, i)) \/ Repository!Fail(q)
<1>1. PICK i \in page[q] :
        /\ pc[q] = "yielding" /\ i \in since[q] /\ i \in Item
        /\ UNCHANGED <<table, cursor, history>>
        /\ \/ /\ Complete(i) /\ UNCHANGED pc
              /\ result' = [result EXCEPT ![q] = Append(result[q], i)]
           \/ /\ ~ Complete(i) /\ pc' = [pc EXCEPT ![q] = "failed"]
              /\ UNCHANGED result
  BY YieldEffect
<1>2. UNCHANGED <<item, writes, scope, owed, since>> /\ i \in Repository!Item
  BY <1>1 DEF table, cursor, history, Item, Repository!Item
<1>3. AbstractPhase[q] = "running"
  BY <1>1 DEF AbstractPhase, Reading
<1>4. CASE Complete(i) /\ UNCHANGED pc /\ result' = [result EXCEPT ![q] = Append(result[q], i)]
  <2>1. \A j \in Repository!Given(q) : j.key # i.key
    <3>1. KeysIn(page[q]) \cap KeysIn(Given(q)) = {}
      BY <1>1 DEF IInv, CursorInv, Reading
    <3> QED
      BY <3>1 DEF KeysIn, Given, Repository!Given
  <2>2. Repository!Yield(q, i)
    BY <1>1, <1>2, <1>3, <1>4, <2>1
    DEF Repository!Yield, Repository!Complete, Complete, AbstractPhase
  <2> QED
    BY <1>2, <2>2
<1>5. CASE ~ Complete(i) /\ pc' = [pc EXCEPT ![q] = "failed"] /\ UNCHANGED result
  <2>1. AbstractPhase' = [AbstractPhase EXCEPT ![q] = "failed"]
    BY <1>5, PhaseStep DEF Reading
  <2>2. Repository!Fail(q)
    BY <1>1, <1>2, <1>3, <1>5, <2>1
    DEF Repository!Fail, Repository!Complete, Complete, AbstractPhase
  <2> QED
    BY <2>2
<1> QED
  BY <1>1, <1>4, <1>5

(* A query ends only with all it owes, or when its connection is lost.      *)
LEMMA TurnRefines ==
  ASSUME IInv, NEW q \in Queries, PageDone(q) \/ FetchPage(q) \/ FetchError(q)
  PROVE  \/ Repository!End(q) \/ Repository!Disconnect(q)
         \/ UNCHANGED Repository!vars
<1>1. UNCHANGED <<item, writes, scope, owed, since, result>>
  BY DEF PageDone, FetchPage, FetchError, table, cursor, history
<1>2. AbstractPhase[q] = "running"
  BY DEF AbstractPhase, PageDone, FetchPage, FetchError, Reading
<1>3. CASE FetchError(q)
  <2>1. AbstractPhase' = [AbstractPhase EXCEPT ![q] = "disconnected"]
    BY <1>3, PhaseStep DEF FetchError, Reading
  <2> QED
    BY <1>1, <1>2, <2>1 DEF Repository!Disconnect, AbstractPhase
<1>4. ASSUME NEW p \in Reading, pc' = [pc EXCEPT ![q] = p]
      PROVE  UNCHANGED Repository!vars
  <2>1. AbstractPhase' = [AbstractPhase EXCEPT ![q] = "running"]
    BY <1>4, PhaseStep
  <2>2. AbstractPhase' = AbstractPhase
    BY <1>2, <2>1 DEF AbstractPhase
  <2> QED
    BY <1>1, <2>2 DEF Repository!vars, AbstractPhase
<1>5. CASE PageDone(q) /\ ~ more[q]
  <2>1. AbstractPhase' = [AbstractPhase EXCEPT ![q] = "done"]
    BY <1>5, PhaseStep DEF PageDone, Reading
  <2>2. owed[q] \subseteq {i.key : i \in Repository!Given(q)}
    <3>1. AllFetched(q) /\ page[q] = {} /\ pc[q] \in Reading
      BY <1>5 DEF PageDone, AllFetched, Reading
    <3>2. \A k \in owed[q] : k \in KeysIn(page[q] \cup Given(q))
      BY <3>1 DEF IInv, CursorInv
    <3> QED
      BY <3>1, <3>2 DEF KeysIn, Given, Repository!Given
  <2> QED
    BY <1>1, <1>2, <2>1, <2>2 DEF Repository!End, AbstractPhase
<1> QED
  BY <1>3, <1>4, <1>5 DEF PageDone, FetchPage, Reading

(* Every step is one of ExampleRepository or leaves its variables alone.    *)
LEMMA RefinementStep ==
  IInv /\ [Next]_vars => [Repository!Next]_(Repository!vars)
<1> SUFFICES ASSUME IInv, [Next]_vars PROVE [Repository!Next]_(Repository!vars)
  OBVIOUS
<1>1. CASE UNCHANGED vars
  BY <1>1 DEF vars, table, cursor, history, Repository!vars
<1>2. ASSUME NEW id \in Ids, Store(id) \/ UpdateDescription(id)
      PROVE  [Repository!Next]_(Repository!vars)
  BY <1>2, WriteRefines DEF Repository!Next
<1>3. ASSUME NEW q \in Queries, FindAll(q) \/ \E id \in Ids : FindById(q, id)
      PROVE  [Repository!Next]_(Repository!vars)
  BY <1>3, BeginRefines DEF FindAll, FindById, Repository!Next
<1>4. ASSUME NEW q \in Queries, FetchPage(q) \/ FetchError(q) \/ Yield(q) \/ PageDone(q)
      PROVE  [Repository!Next]_(Repository!vars)
  BY <1>4, YieldRefines, TurnRefines DEF Repository!Next
<1> QED
  BY <1>1, <1>2, <1>3, <1>4 DEF Next

(* The empty table is an empty repository.                                  *)
LEMMA RefinementInit == Init => Repository!Init
BY DEF Init, Repository!Init, Nothing, Repository!Nothing, Reading

(* Paging keeps the promise of ExampleRepository, however pages are cut and *)
(* whatever is written between two of them.                                 *)
THEOREM Refinement == Spec => ImplementsRepository
<1>1. IInv /\ [Next]_vars => [Repository!Next]_(Repository!vars)
  BY RefinementStep
<1> QED
  BY RefinementInit, <1>1, Invariance, PTL DEF Spec, ImplementsRepository, Repository!Spec

--------------------------------------------------------------------------------
(* InMemoryExampleRepository. *)

(* The instance counts as FiniteSets does.                                  *)
LEMMA Counting ==
  ASSUME NEW S
  PROVE  /\ Memory!Cardinality(S) = Cardinality(S)
         /\ Memory!IsFiniteSet(S) <=> IsFiniteSet(S)
<1>1. Memory!Cardinality(S) = Cardinality(S)
  BY DEF Memory!Cardinality, Cardinality
<1>2. Memory!IsFiniteSet(S) <=> IsFiniteSet(S)
  BY DEF Memory!IsFiniteSet, IsFiniteSet
<1> QED
  BY <1>1, <1>2

(* The keys of what a query has yielded, as a set made of the sequence's.   *)
LEMMA YieldedElements ==
  ASSUME NEW q \in Queries
  PROVE  Memory!Yielded(q) = {x.key : x \in Elements(mapResult[q])}
BY Zenon DEF Memory!Yielded, Elements

(* A Map without entries, and no query has begun.                           *)
LEMMA MapInit == Memory!Init => MapInv
<1> SUFFICES ASSUME Memory!Init PROVE MapInv
  OBVIOUS
<1>1. \A i \in Ids : Memory!Nothing(i) \in Memory!Example
  BY ConstantsAssumption DEF Memory!Nothing, Memory!Example
<1>2. <<>> \in Seq(Ids) /\ <<>> \in Seq(Memory!Example) /\ DOMAIN <<>> = {} /\ Len(<<>>) = 0
  OBVIOUS
<1>3. Memory!TypeOK
  BY ConstantsAssumption, <1>1, <1>2 DEF Memory!Init, Memory!TypeOK
<1>4. Memory!EntriesInv
  BY <1>2 DEF Memory!Init, Memory!EntriesInv, Memory!Known, Memory!ToSet, Memory!Nothing
<1>5. Memory!AheadOfIterator /\ \A q \in Queries : Memory!QueryInv(q)
  BY <1>2 DEF Memory!Init, Memory!QueryInv, Memory!AheadOfIterator, Memory!Running
<1> QED
  BY <1>3, <1>4, <1>5 DEF MapInv, Memory!IInv

(* Map.set adds at most one entry, at the end.                              *)
LEMMA SetEffect ==
  ASSUME MapInv, NEW i \in Ids, Memory!Store(i)
  PROVE  /\ order' \in Seq(Ids) /\ Len(order) \in Nat
         /\ DOMAIN order = 1..Len(order) /\ DOMAIN order' = 1..Len(order')
         /\ \/ Memory!Known(i) /\ Len(order') = Len(order)
            \/ /\ ~ Memory!Known(i) /\ Len(order') = Len(order) + 1
               /\ order'[Len(order) + 1] = i
         /\ \A n \in 1..Len(order) : order'[n] = order[n]
         /\ \A j \in Ids : Memory!Known(j)' <=> Memory!Known(j) \/ j = i
<1>1. order \in Seq(Ids) /\ Len(order) \in Nat /\ DOMAIN order = 1..Len(order)
  BY DEF MapInv, Memory!IInv, Memory!TypeOK
<1>2. CASE Memory!Known(i)
  <2>1. order' = order
    BY <1>2 DEF Memory!Store, Memory!Set
  <2>2. \A j : Memory!Known(j)' <=> Memory!Known(j)
    BY <2>1 DEF Memory!Known
  <2> QED
    BY <1>1, <1>2, <2>1, <2>2
<1>3. CASE ~ Memory!Known(i)
  <2>1. order' = Append(order, i)
    BY <1>3 DEF Memory!Store, Memory!Set
  <2>2. Elements(Append(order, i)) = Elements(order) \cup {i}
    BY <1>1, ElementsOfAppend
  <2>3. \A j : Memory!Known(j) <=> j \in Elements(order)
    BY DEF Memory!Known, Memory!ToSet, Elements
  <2>4. \A j : Memory!Known(j)' <=> j \in Elements(order')
    BY DEF Memory!Known, Memory!ToSet, Elements
  <2>5. /\ order' \in Seq(Ids) /\ Len(order') = Len(order) + 1
        /\ DOMAIN order' = 1..Len(order')
        /\ order'[Len(order) + 1] = i
        /\ \A n \in 1..Len(order) : order'[n] = order[n]
    BY <1>1, <2>1
  <2> QED
    BY <1>1, <1>3, <2>1, <2>2, <2>3, <2>4, <2>5
<1> QED
  BY <1>2, <1>3

(* A store moves no entry past an iterator, and replaces only what queries  *)
(* may see anyway.                                                          *)
LEMMA MapStoreStep ==
  ASSUME MapInv, NEW i \in Ids, Memory!Store(i)
  PROVE  MapInv'
<1>a. /\ Memory!TypeOK /\ Memory!EntriesInv /\ Memory!AheadOfIterator
      /\ \A r \in Queries : Memory!QueryInv(r)
  BY DEF MapInv, Memory!IInv
<1> DEFINE x == [key |-> i, id |-> {i}, written |-> mapWrites + 1,
                 description |-> mapWrites + 1]
<1>1. /\ mapWrites \in Nat /\ mapWrites + 1 \in 0..MaxWrites /\ mapWrites' = mapWrites + 1
      /\ UNCHANGED <<mapPc, mapScope, mapPos, mapFound, mapResult, mapOwed>>
      /\ \A q \in Queries : Memory!Yielded(q)' = Memory!Yielded(q)
  BY <1>a, ConstantsAssumption DEF Memory!Store, Memory!TypeOK, Memory!Yielded
<1>2. x \in Memory!Example /\ x.key = i /\ x.written # 0 /\ x.description # 0
  BY <1>1 DEF Memory!Example
<1>3. mapItem'[i] = x /\ \A j \in Ids \ {i} : mapItem'[j] = mapItem[j]
  BY <1>a DEF Memory!Store, Memory!TypeOK
<1>4. mapItem' \in [Ids -> Memory!Example]
  BY <1>a, <1>2 DEF Memory!Store, Memory!TypeOK
<1> HIDE DEF x
<1>5. \A q \in Queries :
        /\ mapSince[q] \subseteq mapSince'[q]
        /\ mapPc[q] \in Memory!Running /\ i \in mapScope[q] => x \in mapSince'[q]
  BY <1>3 DEF Memory!Store
<1>6. Memory!TypeOK'
  <2>1. mapSince' \in [Queries -> SUBSET Memory!Example]
    <3>1. mapSince' = [q \in Queries |->
            IF mapPc[q] \in Memory!Running /\ i \in mapScope[q]
              THEN mapSince[q] \cup {x} ELSE mapSince[q]]
      BY <1>3 DEF Memory!Store
    <3> QED
      BY <1>a, <1>2, <3>1 DEF Memory!TypeOK
  <2> QED
    BY <1>a, <1>1, <1>4, <2>1, SetEffect DEF Memory!TypeOK
<1>7. Memory!EntriesInv'
  <2>1. \A n \in 1..Len(order) : order[n] = i => Memory!Known(i)
    BY <1>a, SetEffect DEF Memory!Known, Memory!ToSet
  <2>2. \A m, n \in DOMAIN order' : order'[m] = order'[n] => m = n
    BY <1>a, <2>1, SetEffect DEF Memory!EntriesInv
  <2> QED
    BY <1>a, <1>2, <1>3, <2>2, SetEffect DEF Memory!EntriesInv
<1>8. Memory!AheadOfIterator'
  <2>1. ASSUME NEW q \in Queries
        PROVE  {order'[n] : n \in 1..mapPos[q]} = {order[n] : n \in 1..mapPos[q]}
    <3>1. mapPos[q] \in Nat /\ mapPos[q] <= Len(order)
      BY <1>a DEF Memory!TypeOK, Memory!QueryInv
    <3> QED
      BY <3>1, SetEffect
  <2> QED
    BY <1>a, <1>1, <2>1 DEF Memory!AheadOfIterator
<1>9. \A q \in Queries : Memory!QueryInv(q)'
  <2>1. \A q \in Queries : mapPos[q] <= Len(order')
    BY <1>a, SetEffect DEF Memory!TypeOK, Memory!QueryInv
  <2>2. \A q \in Queries : mapPc[q] \in Memory!Running =>
          \A j \in mapScope[q] : Memory!Known(j)' => mapItem'[j] \in mapSince'[q]
    <3> SUFFICES ASSUME NEW q \in Queries, mapPc[q] \in Memory!Running,
                        NEW j \in mapScope[q], Memory!Known(j)'
                 PROVE  mapItem'[j] \in mapSince'[q]
      OBVIOUS
    <3>1. j \in Ids
      BY <1>a DEF Memory!TypeOK
    <3>2. CASE j = i
      BY <1>3, <1>5, <3>2
    <3>3. CASE j # i
      <4>1. Memory!Known(j)
        BY <3>1, <3>3, SetEffect
      <4>2. mapItem[j] \in mapSince[q]
        BY <1>a, <4>1 DEF Memory!QueryInv
      <4> QED
        BY <1>3, <1>5, <3>1, <3>3, <4>2
    <3> QED
      BY <3>2, <3>3
  <2>3. \A q \in Queries : mapPc[q] = "iterating" => mapOwed[q] \subseteq Memory!ToSet(order')
    BY <1>a, SetEffect DEF Memory!TypeOK, Memory!QueryInv, Memory!Known
  <2> QED
    BY <1>a, <1>1, <1>5, <2>1, <2>2, <2>3 DEF Memory!QueryInv
<1> QED
  BY <1>6, <1>7, <1>8, <1>9 DEF MapInv, Memory!IInv

(* A query keeps its part of the invariant when it and the Map are left     *)
(* alone.                                                                   *)
LEMMA MapOtherQuery ==
  ASSUME NEW q \in Queries, Memory!QueryInv(q),
         UNCHANGED <<order, mapItem, mapPos[q], mapResult[q], mapPc[q], mapScope[q],
                     mapSince[q], mapOwed[q], mapFound[q]>>
  PROVE  Memory!QueryInv(q)'
BY DEF Memory!QueryInv, Memory!Yielded, Memory!Known

(* A query begins: findById has what there is, findAll all before it.       *)
LEMMA MapBeginStep ==
  ASSUME MapInv, NEW q \in Queries,
         Memory!FindAll(q) \/ \E i \in Ids : Memory!FindById(q, i)
  PROVE  MapInv'
<1>a. /\ Memory!TypeOK /\ Memory!EntriesInv /\ Memory!AheadOfIterator
      /\ \A r \in Queries : Memory!QueryInv(r)
  BY DEF MapInv, Memory!IInv
<1>1. PICK S \in SUBSET Ids, p \in Memory!Running, f \in SUBSET Memory!Example :
        /\ Memory!Begin(q, S) /\ mapPc' = [mapPc EXCEPT ![q] = p]
        /\ p = "iterating" => S = Ids /\ UNCHANGED mapFound
        /\ p = "found" => /\ mapFound' = [mapFound EXCEPT ![q] = f]
                          /\ \E i \in Ids : /\ S = {i}
                                            /\ f = IF Memory!Known(i) THEN {mapItem[i]} ELSE {}
  <2>1. CASE Memory!FindAll(q)
    BY <2>1 DEF Memory!FindAll, Memory!Running
  <2>2. ASSUME NEW i \in Ids, Memory!FindById(q, i)
        PROVE  \E S \in SUBSET Ids, f \in SUBSET Memory!Example :
                 /\ Memory!Begin(q, S) /\ mapPc' = [mapPc EXCEPT ![q] = "found"]
                 /\ mapFound' = [mapFound EXCEPT ![q] = f]
                 /\ S = {i} /\ f = IF Memory!Known(i) THEN {mapItem[i]} ELSE {}
    <3>1. (IF Memory!Known(i) THEN {mapItem[i]} ELSE {}) \in SUBSET Memory!Example
      BY <1>a DEF Memory!TypeOK
    <3> QED
      BY <2>2, <3>1 DEF Memory!FindById
  <2> QED
    BY <2>1, <2>2 DEF Memory!Running
<1>2. /\ UNCHANGED <<order, mapItem, mapWrites, mapPos, mapResult>>
      /\ \A r \in Queries : Memory!Yielded(r)' = Memory!Yielded(r)
      /\ \A i \in Ids : Memory!Known(i)' <=> Memory!Known(i)
      /\ mapPc[q] = "idle"
  BY <1>1 DEF Memory!Begin, Memory!map, Memory!Yielded, Memory!Known
<1>3. /\ mapPc'[q] = p /\ mapScope'[q] = S
      /\ mapOwed'[q] = {i \in S : Memory!Known(i)}
      /\ mapSince'[q] = {mapItem[i] : i \in {j \in S : Memory!Known(j)}}
  BY <1>a, <1>1 DEF Memory!Begin, Memory!TypeOK
<1>4. \A r \in Queries \ {q} :
        /\ mapPc'[r] = mapPc[r] /\ mapScope'[r] = mapScope[r] /\ mapOwed'[r] = mapOwed[r]
        /\ mapSince'[r] = mapSince[r] /\ mapFound'[r] = mapFound[r]
  BY <1>a, <1>1 DEF Memory!Begin, Memory!TypeOK, Memory!Running
<1>5. mapPos[q] = 0 /\ Memory!Yielded(q) = {}
  <2>1. mapPos[q] = 0 /\ mapResult[q] = <<>> /\ DOMAIN <<>> = {}
    BY <1>a, <1>2 DEF Memory!QueryInv
  <2> QED
    BY <2>1 DEF Memory!Yielded
<1>6. Memory!TypeOK'
  <2>1. mapSince'[q] \subseteq Memory!Example
    BY <1>a, <1>3 DEF Memory!TypeOK
  <2>2. mapSince' \in [Queries -> SUBSET Memory!Example]
    BY <1>a, <1>1, <1>3, <2>1 DEF Memory!Begin, Memory!TypeOK
  <2>3. /\ mapScope' \in [Queries -> SUBSET Ids] /\ mapOwed' \in [Queries -> SUBSET Ids]
        /\ mapFound' \in [Queries -> SUBSET Memory!Example]
    BY <1>a, <1>1 DEF Memory!Begin, Memory!TypeOK, Memory!Running
  <2>4. mapPc' \in [Queries -> Memory!Running \cup {"idle", "done"}]
    BY <1>a, <1>1 DEF Memory!TypeOK
  <2> QED
    BY <1>a, <1>2, <2>2, <2>3, <2>4 DEF Memory!TypeOK
<1>7. Memory!EntriesInv'
  BY <1>a, <1>2 DEF Memory!EntriesInv
<1>8. Memory!AheadOfIterator'
  <2>1. {order[n] : n \in 1..0} = {} /\ Cardinality({}) = 0
    BY FS_EmptySet
  <2>2. ASSUME NEW r \in Queries, mapPc'[r] = "iterating"
        PROVE  /\ Memory!Yielded(r) = {order[n] : n \in 1..mapPos[r]}
               /\ Cardinality(Memory!Yielded(r)) = mapPos[r]
    <3>1. CASE r = q
      BY <1>5, <2>1, <3>1
    <3>2. CASE r # q
      <4>1. mapPc[r] = "iterating"
        BY <1>4, <2>2, <3>2
      <4> QED
        BY <1>a, <4>1, Counting DEF Memory!AheadOfIterator
    <3> QED
      BY <3>1, <3>2
  <2>3. \A r \in Queries :
          {order'[n] : n \in 1..mapPos'[r]} = {order[n] : n \in 1..mapPos[r]}
    BY <1>2
  <2> QED
    BY <1>2, <2>2, <2>3, Counting DEF Memory!AheadOfIterator
<1>9. ASSUME NEW r \in Queries \ {q} PROVE Memory!QueryInv(r)'
  BY <1>a, <1>2, <1>4, MapOtherQuery
<1>10. Memory!QueryInv(q)'
  <2>1. \A i \in S : Memory!Known(i) => mapItem[i] \in mapSince'[q]
    BY <1>3
  <2>2. mapPos'[q] <= Len(order') /\ \A i \in S : Memory!Known(i)' <=> Memory!Known(i)
    BY <1>a, <1>2 DEF Memory!QueryInv
  <2>3. CASE p = "iterating"
    <3>1. mapOwed'[q] \subseteq Memory!ToSet(order') /\ IsFiniteSet(Memory!Yielded(q))
      BY <1>2, <1>3, <1>5, FS_EmptySet DEF Memory!Known
    <3>2. S = Ids
      BY <1>1, <2>3
    <3>3. Memory!IsFiniteSet(Memory!Yielded(q)')
      BY <1>2, <3>1, Counting
    <3>4. \A i \in mapScope'[q] : Memory!Known(i)' => mapItem'[i] \in mapSince'[q]
      BY <1>2, <1>3, <2>1, <2>2
    <3> QED
      BY <1>3, <2>2, <2>3, <3>1, <3>2, <3>3, <3>4 DEF Memory!QueryInv
  <2>4. CASE p = "found"
    <3>1. PICK i \in Ids : S = {i} /\ f = IF Memory!Known(i) THEN {mapItem[i]} ELSE {}
      BY <1>1, <2>4
    <3>2. mapFound'[q] = f
      BY <1>a, <1>1, <2>4 DEF Memory!TypeOK
    <3>3. \A x \in f : /\ x = mapItem[i] /\ x.key = i /\ x.written # 0
                       /\ Memory!Known(i)
      BY <1>a, <3>1 DEF Memory!EntriesInv
    <3>4. mapOwed'[q] \subseteq {x.key : x \in f}
      BY <1>a, <1>3, <3>1 DEF Memory!EntriesInv
    <3>5. \A x \in f : /\ x \in mapSince'[q] /\ x.written # 0
                       /\ x.key \notin Memory!Yielded(q)'
                       /\ \A y \in f : x = y
      BY <1>2, <1>5, <2>1, <3>1, <3>3
    <3> QED
      BY <1>2, <1>3, <2>1, <2>2, <2>4, <3>2, <3>4, <3>5 DEF Memory!QueryInv
  <2> QED
    BY <2>3, <2>4 DEF Memory!Running
<1> QED
  BY <1>6, <1>7, <1>8, <1>9, <1>10 DEF MapInv, Memory!IInv

(* What the caller of a query gets: one example more.                       *)
LEMMA MapYieldEffect ==
  ASSUME MapInv, NEW q \in Queries, NEW x \in Memory!Example,
         mapResult' = [mapResult EXCEPT ![q] = Append(mapResult[q], x)]
  PROVE  /\ mapResult' \in [Queries -> Seq(Memory!Example)]
         /\ Memory!Yielded(q)' = Memory!Yielded(q) \cup {x.key}
         /\ \A r \in Queries \ {q} : Memory!Yielded(r)' = Memory!Yielded(r)
<1>1. mapResult \in [Queries -> Seq(Memory!Example)]
  BY DEF MapInv, Memory!IInv, Memory!TypeOK
<1>2. Append(mapResult[q], x) \in Seq(Memory!Example)
  BY <1>1
<1>3. mapResult'[q] = Append(mapResult[q], x)
  BY <1>1
<1>4. Elements(mapResult'[q]) = Elements(mapResult[q]) \cup {x}
  BY <1>1, <1>3, ElementsOfAppend
<1>5. Memory!Yielded(q)' = {y.key : y \in Elements(mapResult'[q])}
  BY Zenon DEF Memory!Yielded, Elements
<1>6. Memory!Yielded(q)' = Memory!Yielded(q) \cup {x.key}
  BY <1>4, <1>5, YieldedElements
<1>7. \A r \in Queries \ {q} : Memory!Yielded(r)' = Memory!Yielded(r)
  BY <1>1 DEF Memory!Yielded
<1> QED
  BY <1>1, <1>2, <1>6, <1>7

(* findById's caller gets what was found, and nothing is left to get.       *)
LEMMA DeliverStep ==
  ASSUME MapInv, NEW q \in Queries, Memory!Deliver(q)
  PROVE  MapInv'
<1>a. /\ Memory!TypeOK /\ Memory!EntriesInv /\ Memory!AheadOfIterator
      /\ \A r \in Queries : Memory!QueryInv(r)
  BY DEF MapInv, Memory!IInv
<1>1. PICK x \in mapFound[q] : mapResult' = [mapResult EXCEPT ![q] = Append(mapResult[q], x)]
  BY DEF Memory!Deliver
<1>2. /\ mapPc[q] = "found"
      /\ mapFound' = [mapFound EXCEPT ![q] = {}]
      /\ UNCHANGED <<order, mapItem, mapWrites, mapPc, mapScope, mapPos, mapOwed, mapSince>>
  BY DEF Memory!Deliver, Memory!map, Memory!history
<1>3. x \in Memory!Example
  BY <1>a DEF Memory!TypeOK
<1>4. /\ mapResult' \in [Queries -> Seq(Memory!Example)]
      /\ Memory!Yielded(q)' = Memory!Yielded(q) \cup {x.key}
      /\ \A r \in Queries \ {q} : Memory!Yielded(r)' = Memory!Yielded(r)
  BY <1>1, <1>3, MapYieldEffect
<1>5. Memory!TypeOK'
  BY <1>a, <1>2, <1>4 DEF Memory!TypeOK
<1>6. Memory!EntriesInv'
  BY <1>a, <1>2 DEF Memory!EntriesInv, Memory!Known
<1>7. Memory!AheadOfIterator'
  BY <1>a, <1>2, <1>4 DEF Memory!AheadOfIterator
<1>8. ASSUME NEW r \in Queries \ {q} PROVE Memory!QueryInv(r)'
  <2>1. mapResult'[r] = mapResult[r] /\ mapFound'[r] = mapFound[r]
    BY <1>a, <1>1, <1>2 DEF Memory!TypeOK
  <2> QED
    BY <1>a, <1>2, <2>1, MapOtherQuery
<1>9. Memory!QueryInv(q)'
  <2>1. mapFound'[q] = {}
    BY <1>a, <1>2 DEF Memory!TypeOK
  <2>2. mapOwed[q] \subseteq Memory!Yielded(q) \cup {x.key}
    BY <1>a, <1>2 DEF Memory!QueryInv
  <2>3. mapPos[q] <= Len(order)
    BY <1>a DEF Memory!QueryInv
  <2>4. \A i \in mapScope[q] : Memory!Known(i)' => mapItem[i] \in mapSince[q]
    BY <1>a, <1>2 DEF Memory!QueryInv, Memory!Running, Memory!Known
  <2> QED
    BY <1>2, <1>4, <2>1, <2>2, <2>3, <2>4 DEF Memory!QueryInv
<1> QED
  BY <1>5, <1>6, <1>7, <1>8, <1>9 DEF MapInv, Memory!IInv

(* The iterator moves on by the entry it yields.                            *)
LEMMA MapYieldStep ==
  ASSUME MapInv, NEW q \in Queries, Memory!Yield(q)
  PROVE  /\ MapInv'
         /\ \E x \in mapSince[q] :
              /\ x \in Memory!Example /\ x.written # 0 /\ x.key \notin Memory!Yielded(q)
              /\ mapResult' = [mapResult EXCEPT ![q] = Append(mapResult[q], x)]
<1>a. /\ Memory!TypeOK /\ Memory!EntriesInv /\ Memory!AheadOfIterator
      /\ \A r \in Queries : Memory!QueryInv(r)
  BY DEF MapInv, Memory!IInv
<1> DEFINE p == mapPos[q] + 1
           i == order[p]
           x == mapItem[i]
<1>1. /\ mapPc[q] = "iterating" /\ mapPos[q] < Len(order)
      /\ mapPos' = [mapPos EXCEPT ![q] = p]
      /\ mapResult' = [mapResult EXCEPT ![q] = Append(mapResult[q], x)]
      /\ UNCHANGED <<order, mapItem, mapWrites, mapPc, mapScope, mapFound, mapOwed, mapSince>>
  BY DEF Memory!Yield, Memory!map, Memory!history
<1>2. /\ mapPos[q] \in Nat /\ Len(order) \in Nat /\ DOMAIN order = 1..Len(order)
      /\ p \in DOMAIN order /\ i \in Ids /\ Memory!Known(i)
  BY <1>a, <1>1 DEF Memory!TypeOK, Memory!Known, Memory!ToSet
<1>3. /\ Memory!Yielded(q) = {order[n] : n \in 1..mapPos[q]}
      /\ Cardinality(Memory!Yielded(q)) = mapPos[q]
      /\ IsFiniteSet(Memory!Yielded(q))
  BY <1>a, <1>1, Counting DEF Memory!AheadOfIterator, Memory!QueryInv
<1>4. x \in Memory!Example /\ x.key = i /\ x.written # 0 /\ x \in mapSince[q]
  BY <1>a, <1>1, <1>2
  DEF Memory!TypeOK, Memory!EntriesInv, Memory!QueryInv, Memory!Running
<1>5. i \notin Memory!Yielded(q)
  <2>1. \A n \in 1..mapPos[q] : n \in DOMAIN order /\ n # p
    BY <1>1, <1>2
  <2>2. \A n \in 1..mapPos[q] : order[n] # order[p]
    BY <1>a, <1>2, <2>1 DEF Memory!EntriesInv
  <2> QED
    BY <1>3, <2>2
<1> HIDE DEF x, i, p
<1>6. /\ mapResult' \in [Queries -> Seq(Memory!Example)]
      /\ Memory!Yielded(q)' = Memory!Yielded(q) \cup {i}
      /\ \A r \in Queries \ {q} : Memory!Yielded(r)' = Memory!Yielded(r)
  BY <1>1, <1>4, MapYieldEffect
<1>7. mapPos'[q] = p /\ \A r \in Queries \ {q} : mapPos'[r] = mapPos[r]
  BY <1>a, <1>1 DEF Memory!TypeOK
<1>8. Memory!TypeOK'
  <2>1. mapPos' \in [Queries -> Nat]
    BY <1>a, <1>1, <1>2 DEF Memory!TypeOK, p
  <2> QED
    BY <1>a, <1>1, <1>6, <2>1 DEF Memory!TypeOK
<1>9. Memory!EntriesInv'
  BY <1>a, <1>1 DEF Memory!EntriesInv, Memory!Known
<1>10. IsFiniteSet(Memory!Yielded(q)') /\ Cardinality(Memory!Yielded(q)') = p
  <2>1. /\ IsFiniteSet(Memory!Yielded(q) \cup {i})
        /\ Cardinality(Memory!Yielded(q) \cup {i}) = Cardinality(Memory!Yielded(q)) + 1
    BY <1>3, <1>5, FS_AddElement
  <2> QED
    BY <1>3, <1>6, <2>1 DEF p
<1>11. Memory!AheadOfIterator'
  <2>1. ASSUME NEW r \in Queries \ {q}, mapPc[r] = "iterating"
        PROVE  /\ Memory!Yielded(r)' = {order[n] : n \in 1..mapPos'[r]}
               /\ Memory!Cardinality(Memory!Yielded(r)') = mapPos'[r]
    BY <1>a, <1>6, <1>7, <2>1 DEF Memory!AheadOfIterator
  <2>2. Memory!Yielded(q)' = {order[n] : n \in 1..p}
    <3>1. 1..p = 1..mapPos[q] \cup {p}
      BY <1>2 DEF p
    <3>2. {order[n] : n \in 1..p} = {order[n] : n \in 1..mapPos[q]} \cup {i}
      BY <3>1 DEF i
    <3> QED
      BY <1>3, <1>6, <3>2
  <2>3. Memory!Cardinality(Memory!Yielded(q)') = p
    BY <1>10, Counting
  <2>4. \A r \in Queries :
          {order'[n] : n \in 1..mapPos'[r]} = {order[n] : n \in 1..mapPos'[r]}
    BY <1>1
  <2> QED
    BY <1>1, <1>7, <2>1, <2>2, <2>3, <2>4 DEF Memory!AheadOfIterator
<1>12. ASSUME NEW r \in Queries \ {q} PROVE Memory!QueryInv(r)'
  <2>1. mapResult'[r] = mapResult[r]
    BY <1>a, <1>1 DEF Memory!TypeOK
  <2> QED
    BY <1>a, <1>1, <1>7, <2>1, MapOtherQuery
<1>13. Memory!QueryInv(q)'
  <2>1. Memory!IsFiniteSet(Memory!Yielded(q)')
    BY <1>10, Counting
  <2>2. mapPos'[q] <= Len(order')
    BY <1>1, <1>2, <1>7 DEF p
  <2>3. \A j \in mapScope[q] : Memory!Known(j)' => mapItem[j] \in mapSince[q]
    BY <1>a, <1>1 DEF Memory!QueryInv, Memory!Running, Memory!Known
  <2>4. mapScope[q] = Ids /\ mapOwed[q] \subseteq Memory!ToSet(order')
    BY <1>a, <1>1 DEF Memory!QueryInv
  <2> QED
    BY <1>1, <2>1, <2>2, <2>3, <2>4 DEF Memory!QueryInv
<1> QED
  BY <1>1, <1>4, <1>5, <1>8, <1>9, <1>11, <1>12, <1>13 DEF MapInv, Memory!IInv

(* A query that ends changes nothing but its state.                         *)
LEMMA MapEndStep ==
  ASSUME MapInv, NEW q \in Queries, Memory!Delivered(q) \/ Memory!IterationDone(q)
  PROVE  MapInv'
<1>a. /\ Memory!TypeOK /\ Memory!EntriesInv /\ Memory!AheadOfIterator
      /\ \A r \in Queries : Memory!QueryInv(r)
  BY DEF MapInv, Memory!IInv
<1>1. /\ mapPc' = [mapPc EXCEPT ![q] = "done"]
      /\ UNCHANGED <<order, mapItem, mapWrites, mapScope, mapPos, mapFound, mapResult,
                     mapOwed, mapSince>>
  BY DEF Memory!Delivered, Memory!IterationDone, Memory!map, Memory!history
<1>2. mapPc'[q] = "done" /\ \A r \in Queries \ {q} : mapPc'[r] = mapPc[r]
  BY <1>a, <1>1 DEF Memory!TypeOK
<1>3. \A r \in Queries : Memory!Yielded(r)' = Memory!Yielded(r)
  BY <1>1 DEF Memory!Yielded
<1>4. Memory!TypeOK'
  BY <1>a, <1>1 DEF Memory!TypeOK
<1>5. Memory!EntriesInv'
  BY <1>a, <1>1 DEF Memory!EntriesInv, Memory!Known
<1>6. Memory!AheadOfIterator'
  BY <1>a, <1>1, <1>2, <1>3 DEF Memory!AheadOfIterator
<1>7. ASSUME NEW r \in Queries \ {q} PROVE Memory!QueryInv(r)'
  BY <1>a, <1>1, <1>2, MapOtherQuery
<1>8. Memory!QueryInv(q)'
  BY <1>a, <1>1, <1>2 DEF Memory!QueryInv, Memory!Running
<1> QED
  BY <1>4, <1>5, <1>6, <1>7, <1>8 DEF MapInv, Memory!IInv

(* Every step of the in-memory repository keeps its inductive invariant.    *)
LEMMA MapStep ==
  ASSUME MapInv, Memory!Next PROVE MapInv'
<1>1. ASSUME NEW q \in Queries,
             \/ Memory!FindAll(q) \/ \E i \in Ids : Memory!FindById(q, i)
             \/ Memory!Deliver(q) \/ Memory!Delivered(q)
             \/ Memory!Yield(q) \/ Memory!IterationDone(q)
      PROVE  MapInv'
  BY <1>1, MapBeginStep, DeliverStep, MapYieldStep, MapEndStep
<1> QED
  BY <1>1, MapStoreStep DEF Memory!Next

(* The Map left alone keeps it too.                                         *)
LEMMA MapStutter == ASSUME MapInv, UNCHANGED memory PROVE MapInv'
<1>a. /\ Memory!TypeOK /\ Memory!EntriesInv /\ Memory!AheadOfIterator
      /\ \A r \in Queries : Memory!QueryInv(r)
  BY DEF MapInv, Memory!IInv
<1>1. Memory!TypeOK' /\ Memory!EntriesInv'
  BY <1>a DEF memory, Memory!TypeOK, Memory!EntriesInv, Memory!Known
<1>2. Memory!AheadOfIterator'
  <2>1. \A r \in Queries :
          /\ Memory!Yielded(r)' = Memory!Yielded(r)
          /\ {order'[n] : n \in 1..mapPos'[r]} = {order[n] : n \in 1..mapPos[r]}
    BY DEF memory, Memory!Yielded
  <2>2. UNCHANGED <<mapPc, mapPos>>
    BY DEF memory
  <2> QED
    BY <1>a, <2>1, <2>2 DEF Memory!AheadOfIterator
<1>3. \A r \in Queries : Memory!QueryInv(r)'
  BY <1>a, MapOtherQuery DEF memory
<1> QED
  BY <1>1, <1>2, <1>3 DEF MapInv, Memory!IInv

AbstractMapPhase ==
  [q \in Queries |-> IF mapPc[q] \in Memory!Running THEN "running" ELSE mapPc[q]]

(* A query's step is seen by ExampleRepository as a step of its phase.      *)
LEMMA MapPhaseStep ==
  ASSUME MapInv, NEW q \in Queries, NEW p, mapPc' = [mapPc EXCEPT ![q] = p]
  PROVE  AbstractMapPhase' =
           [AbstractMapPhase EXCEPT ![q] = IF p \in Memory!Running THEN "running" ELSE p]
BY DEF AbstractMapPhase, MapInv, Memory!IInv, Memory!TypeOK

(* The example a query hands out is one its caller may get.                 *)
LEMMA HandOutRefines ==
  ASSUME MapInv, NEW q \in Queries, mapPc[q] \in Memory!Running,
         NEW x \in mapSince[q], x \in Memory!Example, x.written # 0,
         x.key \notin Memory!Yielded(q),
         mapResult' = [mapResult EXCEPT ![q] = Append(mapResult[q], x)],
         UNCHANGED <<mapItem, mapWrites, mapPc, mapScope, mapOwed, mapSince>>
  PROVE  Memory!Repository!Next
<1>1. AbstractMapPhase[q] = "running" /\ UNCHANGED AbstractMapPhase
  BY DEF AbstractMapPhase
<1>2. \A y \in Memory!Repository!Given(q) : y.key # x.key
  BY DEF Memory!Repository!Given, Memory!Yielded
<1>3. Memory!Repository!Yield(q, x)
  BY <1>1, <1>2 DEF Memory!Repository!Yield, Memory!Repository!Complete, AbstractMapPhase
<1>4. x \in Memory!Repository!Item
  BY DEF Memory!Repository!Item, Memory!Example
<1> QED
  BY <1>3, <1>4 DEF Memory!Repository!Next

(* Every step on the Map is one of ExampleRepository, or not seen by it.    *)
LEMMA MapRefinementStep ==
  ASSUME MapInv, Memory!Next
  PROVE  [Memory!Repository!Next]_(Memory!Repository!vars)
<1>a. /\ Memory!TypeOK /\ Memory!EntriesInv
      /\ \A r \in Queries : Memory!QueryInv(r)
  BY DEF MapInv, Memory!IInv
<1>b. \A q \in Queries : mapPc[q] # "running"
  BY <1>a DEF Memory!TypeOK, Memory!Running
<1>1. ASSUME NEW i \in Ids, Memory!Store(i) PROVE Memory!Repository!Next
  <2> DEFINE x == [key |-> i, id |-> {i}, written |-> mapWrites + 1,
                   description |-> mapWrites + 1]
  <2>1. \A q \in Queries : mapPc[q] \in Memory!Running <=> AbstractMapPhase[q] = "running"
    BY <1>b DEF AbstractMapPhase, Memory!Running
  <2>2. mapItem' = [mapItem EXCEPT ![i] = x] /\ mapItem'[i] = x
    BY <1>a, <1>1 DEF Memory!Store, Memory!TypeOK
  <2>3. mapSince' = [q \in Queries |->
          IF AbstractMapPhase[q] = "running" /\ i \in mapScope[q]
            THEN mapSince[q] \cup {x} ELSE mapSince[q]]
    BY <1>1, <2>1, <2>2 DEF Memory!Store
  <2>4. UNCHANGED AbstractMapPhase
    BY <1>1 DEF Memory!Store, AbstractMapPhase
  <2>5. Memory!Repository!Write(i, x)
    BY <1>1, <2>2, <2>3, <2>4
    DEF Memory!Store, Memory!Repository!Write, AbstractMapPhase
  <2>6. Memory!Repository!Store(i)
    BY <2>5 DEF Memory!Repository!Store
  <2> QED
    BY <2>6 DEF Memory!Repository!Next
<1>2. ASSUME NEW q \in Queries, NEW S \in SUBSET Ids, NEW p \in Memory!Running,
             Memory!Begin(q, S), mapPc' = [mapPc EXCEPT ![q] = p]
      PROVE  Memory!Repository!Begin(q, S)
  <2>1. AbstractMapPhase[q] = "idle"
    BY <1>2 DEF Memory!Begin, AbstractMapPhase, Memory!Running
  <2>2. AbstractMapPhase' = [AbstractMapPhase EXCEPT ![q] = "running"]
    BY <1>2, MapPhaseStep
  <2>3. \A i \in S : Memory!Known(i) <=> Memory!Repository!Present(mapItem[i])
    BY <1>a DEF Memory!EntriesInv, Memory!Repository!Present
  <2>4. /\ {i \in S : Memory!Known(i)} = {i \in S : Memory!Repository!Present(mapItem[i])}
        /\ {mapItem[i] : i \in {j \in S : Memory!Known(j)}}
             = {mapItem[i] : i \in {j \in S : Memory!Repository!Present(mapItem[j])}}
    BY <2>3
  <2> QED
    BY <1>2, <2>1, <2>2, <2>4
    DEF Memory!Begin, Memory!map, Memory!Repository!Begin, AbstractMapPhase
<1>3. ASSUME NEW q \in Queries, Memory!FindAll(q) \/ \E i \in Ids : Memory!FindById(q, i)
      PROVE  Memory!Repository!Next
  <2>1. CASE Memory!FindAll(q)
    <3>1. Memory!Repository!Begin(q, Ids)
      BY <1>2, <2>1 DEF Memory!FindAll, Memory!Running
    <3> QED
      BY <3>1 DEF Memory!Repository!Next
  <2>2. ASSUME NEW i \in Ids, Memory!FindById(q, i) PROVE Memory!Repository!Next
    <3>1. Memory!Repository!Begin(q, {i})
      BY <1>2, <2>2 DEF Memory!FindById, Memory!Running
    <3> QED
      BY <3>1 DEF Memory!Repository!Next
  <2> QED
    BY <1>3, <2>1, <2>2
<1>4. ASSUME NEW q \in Queries, Memory!Deliver(q) PROVE Memory!Repository!Next
  <2>1. PICK x \in mapFound[q] : mapResult' = [mapResult EXCEPT ![q] = Append(mapResult[q], x)]
    BY <1>4 DEF Memory!Deliver
  <2>2. mapPc[q] = "found" /\ x \in mapSince[q] /\ x \in Memory!Example /\ x.written # 0
        /\ x.key \notin Memory!Yielded(q)
    BY <1>a, <1>4 DEF Memory!Deliver, Memory!TypeOK, Memory!QueryInv
  <2>3. UNCHANGED <<mapItem, mapWrites, mapPc, mapScope, mapOwed, mapSince>>
    BY <1>4 DEF Memory!Deliver, Memory!map, Memory!history
  <2> QED
    BY <2>1, <2>2, <2>3, HandOutRefines DEF Memory!Running
<1>5. ASSUME NEW q \in Queries, Memory!Yield(q) PROVE Memory!Repository!Next
  <2>1. /\ mapPc[q] \in Memory!Running
        /\ UNCHANGED <<mapItem, mapWrites, mapPc, mapScope, mapOwed, mapSince>>
    BY <1>5 DEF Memory!Yield, Memory!map, Memory!history, Memory!Running
  <2> QED
    BY <1>5, <2>1, MapYieldStep, HandOutRefines
<1>6. ASSUME NEW q \in Queries, Memory!Delivered(q) \/ Memory!IterationDone(q)
      PROVE  Memory!Repository!Next
  <2>1. /\ mapPc[q] \in Memory!Running /\ mapPc' = [mapPc EXCEPT ![q] = "done"]
        /\ UNCHANGED <<mapItem, mapWrites, mapScope, mapResult, mapOwed, mapSince>>
    BY <1>6
    DEF Memory!Delivered, Memory!IterationDone, Memory!map, Memory!history, Memory!Running
  <2>2. AbstractMapPhase[q] = "running"
    BY <2>1 DEF AbstractMapPhase
  <2>3. AbstractMapPhase' = [AbstractMapPhase EXCEPT ![q] = "done"]
    BY <2>1, MapPhaseStep DEF Memory!Running
  <2>4. mapOwed[q] \subseteq Memory!Yielded(q)
    <3>1. CASE Memory!Delivered(q)
      BY <1>a, <3>1 DEF Memory!Delivered, Memory!QueryInv
    <3>2. CASE Memory!IterationDone(q)
      <4>1. Memory!Yielded(q) = {order[n] : n \in 1..Len(order)}
        BY <3>2 DEF Memory!IterationDone, MapInv, Memory!IInv, Memory!AheadOfIterator
      <4>2. Memory!ToSet(order) = {order[n] : n \in 1..Len(order)}
        BY <1>a DEF Memory!ToSet, Memory!TypeOK
      <4> QED
        BY <1>a, <3>2, <4>1, <4>2 DEF Memory!IterationDone, Memory!QueryInv
    <3> QED
      BY <1>6, <3>1, <3>2
  <2>5. Memory!Yielded(q) = {x.key : x \in Memory!Repository!Given(q)}
    BY Zenon DEF Memory!Yielded, Memory!Repository!Given
  <2>6. Memory!Repository!End(q)
    BY <2>1, <2>2, <2>3, <2>4, <2>5 DEF Memory!Repository!End, AbstractMapPhase
  <2> QED
    BY <2>6 DEF Memory!Repository!Next
<1> QED
  BY <1>1, <1>3, <1>4, <1>5, <1>6 DEF Memory!Next

(* The variables of the instance are this module's.                         *)
LEMMA MapVars == UNCHANGED Memory!vars <=> UNCHANGED memory
BY DEF memory, Memory!vars, Memory!map, Memory!history

(* Every state of the in-memory repository satisfies its inductive          *)
(* invariant.                                                               *)
THEOREM MapInvariance == Memory!Spec => []MapInv
<1>1. MapInv /\ [Memory!Next]_(Memory!vars) => MapInv'
  BY MapStep, MapStutter, MapVars
<1> QED
  BY MapInit, <1>1, PTL DEF Memory!Spec

(* Iterating over the live Map keeps the promise of ExampleRepository,      *)
(* whatever is stored between two examples.                                 *)
THEOREM MapRefinement == Memory!Spec => Memory!ImplementsRepository
<1>1. Memory!Init => Memory!Repository!Init
  BY DEF Memory!Init, Memory!Repository!Init, Memory!Nothing, Memory!Repository!Nothing,
         Memory!Running
<1>2. UNCHANGED Memory!vars => UNCHANGED Memory!Repository!vars
  BY MapVars DEF memory, Memory!Repository!vars
<1>3. MapInv /\ [Memory!Next]_(Memory!vars)
        => [Memory!Repository!Next]_(Memory!Repository!vars)
  BY <1>2, MapRefinementStep
<1> QED
  BY <1>1, <1>3, MapInvariance, PTL
  DEF Memory!Spec, Memory!ImplementsRepository, Memory!Repository!Spec

--------------------------------------------------------------------------------
(* The repository that is configured. *)

(* Whichever class it is an instance of, the repository behaves as both     *)
(* specifications say: the other class does nothing.                        *)
LEMMA EitherRepository == ConfiguredSpec => Spec /\ Memory!Spec
<1>1. UseFactory => Init /\ Memory!Init
  BY DEF UseFactory
<1>2. [RepositoryStep]_<<useInMemoryRepository, memory, vars>>
        => [Next]_vars /\ [Memory!Next]_(Memory!vars)
  BY MapVars DEF RepositoryStep
<1> QED
  BY <1>1, <1>2, PTL DEF ConfiguredSpec, Spec, Memory!Spec

(* With either repository an example that was there when a query began is   *)
(* neither missed nor repeated, whatever is written while it is read.       *)
THEOREM EitherImplements == ConfiguredSpec => BothImplementRepository
BY EitherRepository, Refinement, MapRefinement, PTL DEF BothImplementRepository

(* The state of either repository satisfies its inductive invariant; a      *)
(* query fails only over an item that was never stored, or its connection,  *)
(* and hands out no description that is older than the rest.                *)
THEOREM EitherInvariance ==
  ConfiguredSpec => [](IInv /\ MapInv /\ OnlyUpsertBreaks /\ NoOlderDescription)
BY EitherRepository, Invariance, MapInvariance, OnlyUpsert, Descriptions, PTL
================================================================================
