---------------------------- MODULE ExampleApiProofs ----------------------------
(***************************************************************************)
(* Proofs about ExampleApi, for any ids, keys, requests and bounds.        *)
(***************************************************************************)
EXTENDS ExampleApi, TLAPS

(* An item that a query yields is the one added to what it has given.       *)
LEMMA GivenAfterYield ==
  ASSUME TypeOK, NEW q \in Queries, NEW i \in since[q], Repository!Yield(q, i)
  PROVE  /\ Repository!Given(q)' = Repository!Given(q) \cup {i}
         /\ \A r \in Queries \ {q} : result'[r] = result[r]
<1>1. i \in Repository!Item /\ result[q] \in Seq(Repository!Item)
  BY DEF TypeOK
<1>2. result' = [result EXCEPT ![q] = Append(result[q], i)]
  BY DEF Repository!Yield
<1>3. result'[q] = Append(result[q], i)
  BY <1>2 DEF TypeOK
<1>4. {Append(result[q], i)[n] : n \in DOMAIN Append(result[q], i)}
        = {result[q][n] : n \in DOMAIN result[q]} \cup {i}
  <2> DEFINE s == result[q]
             t == Append(s, i)
  <2>1. s \in Seq(Repository!Item) /\ Len(s) \in Nat
    BY <1>1
  <2>2. /\ DOMAIN s = 1..Len(s) /\ DOMAIN t = 1..(Len(s) + 1)
        /\ t[Len(s) + 1] = i
        /\ \A n \in 1..Len(s) : t[n] = s[n]
    BY <1>1, <2>1
  <2> HIDE DEF s, t
  <2>3. DOMAIN t = DOMAIN s \cup {Len(s) + 1}
    BY <2>1, <2>2
  <2>4. {t[n] : n \in DOMAIN t} = {s[n] : n \in DOMAIN s} \cup {i}
    <3>1. ASSUME NEW n \in DOMAIN t PROVE t[n] \in {s[j] : j \in DOMAIN s} \cup {i}
      <4>1. CASE n \in DOMAIN s
        BY <4>1, <2>2
      <4>2. CASE n = Len(s) + 1
        BY <4>2, <2>2
      <4> QED
        BY <4>1, <4>2, <2>3
    <3>2. ASSUME NEW n \in DOMAIN s PROVE s[n] \in {t[j] : j \in DOMAIN t}
      <4>1. s[n] = t[n] /\ n \in DOMAIN t
        BY <2>2, <2>3
      <4> QED
        BY <4>1
    <3>3. i \in {t[j] : j \in DOMAIN t}
      <4>1. i = t[Len(s) + 1] /\ Len(s) + 1 \in DOMAIN t
        BY <2>2, <2>3
      <4> QED
        BY <4>1
    <3> QED
      BY <3>1, <3>2, <3>3, Zenon
  <2> QED
    BY <2>4 DEF s, t
<1>5. Repository!Given(q)' = {result'[q][n] : n \in DOMAIN result'[q]}
  BY DEF Repository!Given
<1>6. Repository!Given(q)' = Repository!Given(q) \cup {i}
  BY <1>3, <1>4, <1>5, Zenon DEF Repository!Given
<1>7. \A r \in Queries \ {q} : result'[r] = result[r]
  BY <1>2 DEF TypeOK
<1> QED
  BY <1>6, <1>7

(* The queue parses no blank text, so no stored example has one.            *)
LEMMA NothingBlank ==
  ASSUME blank = {}, NEW m \in Message, Execute(m)
  PROVE  blank' = {} /\ m.id \in Ids
  BY DEF Execute, Parses

(* Every variable keeps its type.                                           *)
LEMMA TypeStep == TypeOK /\ blank = {} /\ [Next]_vars => TypeOK'
<1> SUFFICES ASSUME TypeOK, blank = {}, [Next]_vars PROVE TypeOK'
  OBVIOUS
<1> USE ConstantsAssumption DEF repository, Answer
<1>1. ASSUME NEW m \in Message, Send(m) PROVE TypeOK'
  BY <1>1 DEF TypeOK, Send
<1>2. ASSUME NEW m \in Message, Execute(m) PROVE TypeOK'
  <2> DEFINE k == KeyOf[m.id]
             i == [key |-> k, id |-> {m.id}, written |-> writes + 1,
                   description |-> writes + 1]
  <2>1. m.id \in Ids /\ k \in Keys /\ blank' = {}
    BY <1>2, NothingBlank
  <2>2. writes < MaxWrites /\ writes' = writes + 1 /\ writes + 1 \in 0..MaxWrites
    BY <1>2 DEF Execute, Repository!Store, Repository!Write, TypeOK
  <2>3. i \in Repository!Item
    BY <2>1, <2>2 DEF Repository!Item
  <2>4. /\ item' = [item EXCEPT ![k] = i]
        /\ since' = [q \in Queries |->
             IF phase[q] = "running" /\ k \in scope[q] THEN since[q] \cup {i} ELSE since[q]]
        /\ UNCHANGED <<phase, scope, owed, result, sent, route, status, known>>
    BY <1>2 DEF Execute, Repository!Store, Repository!Write
  <2> HIDE DEF i, k
  <2> QED
    BY <2>1, <2>2, <2>3, <2>4 DEF TypeOK
<1>3. ASSUME NEW q \in Queries, NEW S \in SUBSET Keys, NEW method \in {"all", "get"},
             Begin(q, S, method)
      PROVE  TypeOK'
  <2>1. Told \subseteq Keys
    BY DEF Told
  <2>2. {item[k] : k \in {j \in S : Repository!Present(item[j])}} \subseteq Repository!Item
    BY DEF TypeOK
  <2> QED
    BY <1>3, <2>1, <2>2 DEF TypeOK, Begin, Repository!Begin
<1>4. ASSUME NEW q \in Queries, GetMalformed(q) PROVE TypeOK'
  BY <1>4 DEF TypeOK, GetMalformed
<1>5. ASSUME NEW q \in Queries, Receive(q) PROVE TypeOK'
  <2>1. PICK i \in since[q] : Repository!Yield(q, i)
    BY <1>5 DEF Receive
  <2>2. i \in Repository!Item /\ result[q] \in Seq(Repository!Item)
    BY DEF TypeOK
  <2>3. /\ result' = [result EXCEPT ![q] = Append(result[q], i)]
        /\ UNCHANGED <<item, writes, phase, scope, owed, since, sent, blank, route, known>>
    BY <1>5, <2>1 DEF Receive, Repository!Yield
  <2>4. result' \in [Queries -> Seq(Repository!Item)]
    BY <2>2, <2>3 DEF TypeOK
  <2>5. status' \in [Queries -> {0, 200, 400, 404, 500}]
    <3>1. status' = [status EXCEPT ![q] = 500] \/ status' = status
      BY <1>5 DEF Receive
    <3>2. status \in [Queries -> {0, 200, 400, 404, 500}]
      BY DEF TypeOK
    <3>3. [status EXCEPT ![q] = 500] \in [Queries -> {0, 200, 400, 404, 500}]
      BY <3>2
    <3>4. CASE status' = [status EXCEPT ![q] = 500]
      BY <3>3, <3>4
    <3>5. CASE status' = status
      BY <3>2, <3>5
    <3> QED
      BY <3>1, <3>4, <3>5
  <2> QED
    BY <2>3, <2>4, <2>5 DEF TypeOK
<1>6. ASSUME NEW q \in Queries, Respond(q) PROVE TypeOK'
  <2>1. OrElseThrow(q) \in {200, 404, 500}
    BY DEF OrElseThrow
  <2> QED
    BY <1>6, <2>1 DEF TypeOK, Respond, Repository!End
<1>7. ASSUME NEW q \in Queries, RespondError(q) PROVE TypeOK'
  BY <1>7 DEF TypeOK, RespondError, Repository!Disconnect
<1>8. CASE UNCHANGED vars
  BY <1>8 DEF TypeOK, vars
<1>9. \A id \in Ids : {KeyOf[id]} \in SUBSET Keys
  OBVIOUS
<1> QED
  BY <1>1, <1>2, <1>3, <1>4, <1>5, <1>6, <1>7, <1>8, <1>9
  DEF Next, Accept, SendForeign, All, Get

(* A request keeps QueryInv when the table and it are left alone.           *)
LEMMA UnchangedQuery ==
  ASSUME NEW q \in Queries, QueryInv(q), UNCHANGED item,
         UNCHANGED <<phase[q], scope[q], owed[q], since[q], result[q], route[q],
                     status[q], known[q]>>
  PROVE  QueryInv(q)'
  BY DEF QueryInv, KeysIn, Repository!Given

(* Every request keeps QueryInv.                                            *)
LEMMA QueryStep ==
  ASSUME TypeOK, TableInv, \A q \in Queries : QueryInv(q), [Next]_vars, TypeOK',
         NEW r \in Queries
  PROVE  QueryInv(r)'
<1> USE ConstantsAssumption DEF repository, Answer
<1>1. ASSUME NEW m \in Message, Send(m) PROVE QueryInv(r)'
  BY <1>1, UnchangedQuery DEF Send
<1>2. ASSUME NEW m \in Message, Execute(m) PROVE QueryInv(r)'
  <2> DEFINE k == KeyOf[m.id]
             i == [key |-> k, id |-> {m.id}, written |-> writes + 1,
                   description |-> writes + 1]
  <2>1. m.id \in Ids /\ k \in Keys
    BY <1>2, NothingBlank DEF TableInv
  <2>2. i.key = k /\ Repository!Present(i)
    BY DEF Repository!Present, TypeOK
  <2>3. /\ item' = [item EXCEPT ![k] = i]
        /\ since' = [q \in Queries |->
             IF phase[q] = "running" /\ k \in scope[q] THEN since[q] \cup {i} ELSE since[q]]
        /\ UNCHANGED <<phase, scope, owed, result, sent, route, status, known>>
    BY <1>2 DEF Execute, Repository!Store, Repository!Write
  <2> HIDE DEF i, k
  <2>4. \A j \in Keys : Repository!Present(item[j]) => Repository!Present(item'[j])
    BY <2>1, <2>2, <2>3 DEF TypeOK
  <2>5. since[r] \subseteq since'[r]
    BY <2>3 DEF TypeOK
  <2>6. \A j \in since'[r] : j.key \in scope'[r] /\ Repository!Present(item'[j.key])
    <3> SUFFICES ASSUME NEW j \in since'[r]
                 PROVE  j.key \in scope'[r] /\ Repository!Present(item'[j.key])
      OBVIOUS
    <3>1. CASE j \in since[r]
      <4>1. j.key \in scope[r] /\ Repository!Present(item[j.key]) /\ j.key \in Keys
        BY <3>1 DEF QueryInv, TypeOK
      <4> QED
        BY <4>1, <2>3, <2>4
    <3>2. CASE j \notin since[r]
      BY <3>2, <2>1, <2>2, <2>3 DEF TypeOK
    <3> QED
      BY <3>1, <3>2
  <2>7. Repository!Given(r)' = Repository!Given(r) /\ KeysIn(r)' = KeysIn(r)
    BY <2>3 DEF KeysIn, Repository!Given
  <2>8. phase'[r] = "idle" => since'[r] = since[r]
    BY <2>3 DEF TypeOK
  <2>9. \A j \in known[r] : Repository!Present(item'[j])
    BY <2>4 DEF QueryInv, TypeOK
  <2> QED
    BY <2>3, <2>5, <2>6, <2>7, <2>8, <2>9 DEF QueryInv
<1>3. ASSUME NEW q \in Queries, NEW S \in SUBSET Keys, NEW method \in {"all", "get"},
             Begin(q, S, method), method = "all" => S = Keys
      PROVE  QueryInv(r)'
  <2>1. CASE r # q
    BY <1>3, <2>1, UnchangedQuery DEF Begin, Repository!Begin, TypeOK
  <2>2. CASE r = q
    <3>1. /\ phase[q] = "idle" /\ status[q] = 0
          /\ phase'[q] = "running" /\ scope'[q] = S /\ known'[q] = Told
          /\ route'[q] = method
          /\ owed'[q] = {k \in S : Repository!Present(item[k])}
          /\ since'[q] = {item[k] : k \in {j \in S : Repository!Present(item[j])}}
          /\ UNCHANGED <<item, result, status>>
      BY <1>3 DEF Begin, Repository!Begin, TypeOK
    <3>2. Repository!Given(q) = {}
      BY <3>1 DEF QueryInv
    <3>3. Repository!Given(q)' = {}
      BY <3>1, <3>2 DEF Repository!Given
    <3>4. \A i \in since'[q] : i.key \in S /\ Repository!Present(item[i.key])
      <4> SUFFICES ASSUME NEW i \in since'[q]
                   PROVE  i.key \in S /\ Repository!Present(item[i.key])
        OBVIOUS
      <4>1. PICK k \in S : i = item[k] /\ Repository!Present(item[k])
        BY <3>1
      <4> QED
        BY <4>1 DEF TableInv
    <3>5. \A k \in Told : Repository!Present(item[k])
      BY DEF TableInv
    <3>6. Told \cap S \subseteq owed'[q]
      BY <3>1, <3>5
    <3> QED
      BY <1>3, <2>2, <3>1, <3>3, <3>4, <3>5, <3>6 DEF QueryInv
  <2> QED
    BY <2>1, <2>2
<1>4. ASSUME NEW q \in Queries, GetMalformed(q) PROVE QueryInv(r)'
  <2>1. CASE r # q
    BY <1>4, <2>1, UnchangedQuery DEF GetMalformed, TypeOK
  <2>2. CASE r = q
    <3>1. /\ status'[q] = 400
          /\ UNCHANGED <<item, phase, scope, owed, since, result, route, known>>
      BY <1>4 DEF GetMalformed, TypeOK
    <3> QED
      BY <2>2, <3>1 DEF QueryInv, KeysIn, Repository!Given
  <2> QED
    BY <2>1, <2>2
<1>5. ASSUME NEW q \in Queries, Receive(q) PROVE QueryInv(r)'
  <2>1. CASE r # q
    BY <1>5, <2>1, UnchangedQuery DEF Receive, Repository!Yield, TypeOK
  <2>2. CASE r = q
    <3>1. PICK i \in since[q] : Repository!Yield(q, i)
      BY <1>5 DEF Receive
    <3>2. Repository!Given(q)' = Repository!Given(q) \cup {i}
      BY <3>1, GivenAfterYield
    <3>3. /\ status[q] = 0 /\ status'[q] \in {0, 500} /\ phase[q] = "running"
          /\ UNCHANGED <<item, phase, scope, owed, since, route, known>>
      BY <1>5, <3>1 DEF Receive, Repository!Yield, TypeOK
    <3> QED
      BY <2>2, <3>2, <3>3 DEF QueryInv
  <2> QED
    BY <2>1, <2>2
<1>6. ASSUME NEW q \in Queries, Respond(q) PROVE QueryInv(r)'
  <2>1. CASE r # q
    BY <1>6, <2>1, UnchangedQuery DEF Respond, Repository!End, TypeOK
  <2>2. CASE r = q
    <3>1. /\ phase[q] = "running" /\ owed[q] \subseteq KeysIn(q)
          /\ phase'[q] = "done"
          /\ UNCHANGED <<item, scope, owed, since, result, route, known>>
      BY <1>6 DEF Respond, Repository!End, KeysIn, TypeOK
    <3>2. status'[q] = 404 => result[q] = <<>>
      BY <1>6 DEF Respond, OrElseThrow, TypeOK
    <3> QED
      BY <2>2, <3>1, <3>2 DEF QueryInv, KeysIn, Repository!Given
  <2> QED
    BY <2>1, <2>2
<1>7. ASSUME NEW q \in Queries, RespondError(q) PROVE QueryInv(r)'
  <2>1. CASE r # q
    BY <1>7, <2>1, UnchangedQuery DEF RespondError, Repository!Disconnect, TypeOK
  <2>2. CASE r = q
    <3>1. /\ status'[q] = 500 /\ phase[q] = "running" /\ phase'[q] = "disconnected"
          /\ UNCHANGED <<item, scope, owed, since, result, route, known>>
      BY <1>7 DEF RespondError, Repository!Disconnect, TypeOK
    <3> QED
      BY <2>2, <3>1 DEF QueryInv, KeysIn, Repository!Given
  <2> QED
    BY <2>1, <2>2
<1>8. CASE UNCHANGED vars
  BY <1>8, UnchangedQuery DEF vars
<1>9. \A id \in Ids : {KeyOf[id]} \in SUBSET Keys
  OBVIOUS
<1> QED
  BY <1>1, <1>2, <1>3, <1>4, <1>5, <1>6, <1>7, <1>8, <1>9
  DEF Next, Accept, SendForeign, All, Get

(* What clients have been told, and nothing blank is stored.                *)
LEMMA TableStep ==
  ASSUME TypeOK, TableInv, \A q \in Queries : QueryInv(q), [Next]_vars, TypeOK'
  PROVE  TableInv'
<1> USE ConstantsAssumption DEF repository, Answer
<1>1. ASSUME NEW m \in Message, Send(m) PROVE TableInv'
  BY <1>1 DEF Send, TableInv, Told, KeysIn, Repository!Given
<1>2. ASSUME NEW m \in Message, Execute(m) PROVE TableInv'
  <2> DEFINE k == KeyOf[m.id]
             i == [key |-> k, id |-> {m.id}, written |-> writes + 1,
                   description |-> writes + 1]
  <2>1. m.id \in Ids /\ k \in Keys /\ blank' = {}
    BY <1>2, NothingBlank DEF TableInv
  <2>2. i.key = k /\ Repository!Present(i)
    BY DEF Repository!Present, TypeOK
  <2>3. /\ item' = [item EXCEPT ![k] = i]
        /\ UNCHANGED <<result, status>>
    BY <1>2 DEF Execute, Repository!Store, Repository!Write
  <2> HIDE DEF i, k
  <2>4. \A j \in Keys : /\ Repository!Present(item[j]) => Repository!Present(item'[j])
                        /\ item'[j].key = j
    BY <2>1, <2>2, <2>3 DEF TypeOK, TableInv
  <2>5. Told' = Told
    BY <2>3 DEF Told, KeysIn, Repository!Given
  <2> QED
    BY <2>1, <2>4, <2>5 DEF TableInv, Told
<1>3. ASSUME NEW q \in Queries, UNCHANGED <<item, blank>>,
             \A r \in Queries \ {q} : status'[r] = status[r] /\ result'[r] = result[r],
             status'[q] = 200 => result'[q] = result[q]
      PROVE  TableInv'
  <2>1. ASSUME NEW k \in Told' PROVE Repository!Present(item[k])
    <3>1. PICK r \in Queries : status'[r] = 200 /\ k \in KeysIn(r)'
      BY <2>1 DEF Told
    <3>2. result'[r] = result[r]
      BY <1>3, <3>1
    <3>3. k \in KeysIn(r)
      BY <3>1, <3>2 DEF KeysIn, Repository!Given
    <3> QED
      BY <3>3 DEF QueryInv, KeysIn
  <2> QED
    BY <1>3, <2>1 DEF TableInv
<1>4. ASSUME NEW q \in Queries, NEW S \in SUBSET Keys, NEW method \in {"all", "get"},
             Begin(q, S, method)
      PROVE  TableInv'
  BY <1>4, <1>3 DEF Begin, Repository!Begin
<1>5. ASSUME NEW q \in Queries, GetMalformed(q) PROVE TableInv'
  BY <1>5, <1>3 DEF GetMalformed, TypeOK
<1>6. ASSUME NEW q \in Queries, Receive(q) PROVE TableInv'
  <2>1. /\ \A r \in Queries \ {q} : status'[r] = status[r] /\ result'[r] = result[r]
        /\ status'[q] # 200
        /\ UNCHANGED <<item, blank>>
    BY <1>6 DEF Receive, Repository!Yield, TypeOK
  <2> QED
    BY <2>1, <1>3
<1>7. ASSUME NEW q \in Queries, Respond(q) \/ RespondError(q) PROVE TableInv'
  BY <1>7, <1>3 DEF Respond, RespondError, Repository!End, Repository!Disconnect, TypeOK
<1>8. CASE UNCHANGED vars
  BY <1>8 DEF vars, TableInv, Told, KeysIn, Repository!Given
<1>9. \A id \in Ids : {KeyOf[id]} \in SUBSET Keys
  OBVIOUS
<1> QED
  BY <1>1, <1>2, <1>4, <1>5, <1>6, <1>7, <1>8, <1>9
  DEF Next, Accept, SendForeign, All, Get

(* An example without a blank text can be presented, so only RespondError   *)
(* answers 500.                                                             *)
LEMMA FailureStep ==
  ASSUME TypeOK, blank = {}, OnlyConnectionsFail, [Next]_vars
  PROVE  OnlyConnectionsFail'
<1> USE DEF repository, Answer
<1>1. \A i : Presentable(i)
  BY DEF Presentable
<1>2. ASSUME NEW m \in Message, Send(m) \/ Execute(m) PROVE OnlyConnectionsFail'
  BY <1>2 DEF Send, Execute, Repository!Store, Repository!Write, OnlyConnectionsFail
<1>3. ASSUME NEW q \in Queries, NEW S, NEW method, Begin(q, S, method)
      PROVE  OnlyConnectionsFail'
  BY <1>3 DEF Begin, Repository!Begin, OnlyConnectionsFail, TypeOK
<1>4. ASSUME NEW q \in Queries, GetMalformed(q) PROVE OnlyConnectionsFail'
  BY <1>4 DEF GetMalformed, OnlyConnectionsFail, TypeOK
<1>5. ASSUME NEW q \in Queries, Receive(q) PROVE OnlyConnectionsFail'
  BY <1>1, <1>5 DEF Receive, Repository!Yield, OnlyConnectionsFail
<1>6. ASSUME NEW q \in Queries, Respond(q) PROVE OnlyConnectionsFail'
  <2>1. status'[q] # 500 /\ \A r \in Queries \ {q} : status'[r] = status[r]
                                                   /\ phase'[r] = phase[r]
    BY <1>1, <1>6 DEF Respond, OrElseThrow, Repository!End, TypeOK
  <2> QED
    BY <2>1 DEF OnlyConnectionsFail
<1>7. ASSUME NEW q \in Queries, RespondError(q) PROVE OnlyConnectionsFail'
  BY <1>7 DEF RespondError, Repository!Disconnect, OnlyConnectionsFail, TypeOK
<1>8. CASE UNCHANGED vars
  BY <1>8 DEF vars, OnlyConnectionsFail
<1> QED
  BY <1>2, <1>3, <1>4, <1>5, <1>6, <1>7, <1>8
  DEF Next, Accept, SendForeign, All, Get

(* IInv holds in every reachable state.                                     *)
THEOREM Invariance == Spec => []IInv
<1>1. Init => IInv
  <2> SUFFICES ASSUME Init PROVE IInv
    OBVIOUS
  <2> USE ConstantsAssumption DEF Init, Repository!Init
  <2>1. TypeOK
    <3>1. \A k \in Keys : Repository!Nothing(k) \in Repository!Item
      BY DEF Repository!Nothing, Repository!Item
    <3> QED
      BY <3>1 DEF TypeOK
  <2>2. TableInv
    BY DEF TableInv, Told, Repository!Nothing
  <2>3. \A q \in Queries : QueryInv(q)
    BY DEF QueryInv, Repository!Given
  <2>4. OnlyConnectionsFail
    BY DEF OnlyConnectionsFail
  <2> QED
    BY <2>1, <2>2, <2>3, <2>4 DEF IInv
<1>2. IInv /\ [Next]_vars => IInv'
  <2> SUFFICES ASSUME IInv, [Next]_vars PROVE IInv'
    OBVIOUS
  <2>1. TypeOK /\ TableInv /\ OnlyConnectionsFail /\ blank = {}
    BY DEF IInv, TableInv
  <2>2. \A q \in Queries : QueryInv(q)
    BY DEF IInv
  <2>3. TypeOK'
    BY <2>1, TypeStep
  <2>4. TableInv'
    BY <2>1, <2>2, <2>3, TableStep
  <2>5. \A q \in Queries : QueryInv(q)'
    BY <2>1, <2>2, <2>3, QueryStep
  <2>6. OnlyConnectionsFail'
    BY <2>1, FailureStep
  <2> QED
    BY <2>3, <2>4, <2>5, <2>6 DEF IInv
<1> QED
  BY <1>1, <1>2, PTL DEF Spec

(* Reads are monotonic: what some answer had is in every list that begins   *)
(* after it, and found by every get.                                        *)
THEOREM ReadsAreMonotonic == Spec => []MonotonicReads
<1>1. IInv => MonotonicReads
  <2> SUFFICES ASSUME IInv, NEW q \in Queries
               PROVE  /\ route[q] = "all" /\ status[q] = 200 => known[q] \subseteq KeysIn(q)
                      /\ route[q] = "get" /\ status[q] = 404 => known[q] \cap scope[q] = {}
    BY DEF MonotonicReads
  <2>1. QueryInv(q) /\ TypeOK
    BY DEF IInv
  <2>2. status[q] \in {200, 404} => known[q] \cap scope[q] \subseteq KeysIn(q)
    BY <2>1 DEF QueryInv
  <2>3. CASE route[q] = "all"
    BY <2>1, <2>2, <2>3 DEF QueryInv, TypeOK
  <2>4. CASE route[q] = "get"
    <3>1. status[q] = 404 => KeysIn(q) = {}
      BY <2>1 DEF QueryInv, KeysIn, Repository!Given
    <3> QED
      BY <2>2, <2>4, <3>1
  <2> QED
    BY <2>3, <2>4
<1> QED
  BY <1>1, Invariance, PTL

(* Whatever is sent to the queue, no stored example makes a request fail.   *)
THEOREM DataNeverFails == Spec => []OnlyConnectionsFail
<1>1. IInv => OnlyConnectionsFail
  BY DEF IInv
<1> QED
  BY <1>1, Invariance, PTL
=================================================================================
