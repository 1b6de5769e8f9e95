----------------------------- MODULE SendingProofs -----------------------------
(***************************************************************************)
(* Proofs about what is sent to SQS and with what: SQSEnqueuer, for lists  *)
(* of any length, any size of a chunk and any number of retries; and the   *)
(* deployment that names the queues and sets what the processes run with,  *)
(* for queues, suffixes and numbers of any length.                         *)
(***************************************************************************)
EXTENDS SQSEnqueuer, Deployment, SequenceTheorems,
        FiniteSetTheorems, WellFoundedInduction, TLAPS

(* Division with its remainder.                                             *)
LEMMA Division ==
  ASSUME NEW a \in Nat, NEW c \in Nat \ {0}
  PROVE  /\ a \div c \in Nat
         /\ c * (a \div c) <= a
         /\ a < c * (a \div c) + c
OBVIOUS

(* Larger factors, larger products.                                         *)
LEMMA Product ==
  ASSUME NEW a \in Int, NEW b \in Int, NEW c \in Nat \ {0}, a <= b
  PROVE  c * a <= c * b
OBVIOUS

(* The product with the next number.                                        *)
LEMMA Distribute ==
  ASSUME NEW a \in Int, NEW c \in Int
  PROVE  c * (a + 1) = c * a + c
OBVIOUS

(* There are no more chunks than messages.                                  *)
LEMMA ChunksBounded == TypeOK => Chunks \subseteq 1..MaxMessages
<1> SUFFICES ASSUME TypeOK PROVE Chunks \subseteq 1..MaxMessages
  OBVIOUS
<1> DEFINE c == ChunkSize
           q == (count + c - 1) \div c
<1>1. count \in Nat /\ count <= MaxMessages /\ c \in Nat \ {0} /\ count + c - 1 \in Nat
  BY ConstantsAssumption DEF TypeOK
<1>2. q \in Nat /\ c * q <= count + c - 1
  BY <1>1, Division
<1> HIDE DEF q, c
<1>3. q <= count
  <2> SUFFICES ASSUME count + 1 <= q PROVE FALSE
    BY <1>1, <1>2
  <2>1. c * (count + 1) <= c * q
    BY <1>1, <1>2, Product
  <2>2. c * (count + 1) = c * count + c
    BY <1>1, Distribute
  <2>3. count * 1 <= count * c
    <3>1. CASE count = 0
      BY <1>1, <3>1
    <3>2. CASE count # 0
      BY <1>1, <3>2, Product
    <3> QED
      BY <3>1, <3>2
  <2>4. count * 1 = count /\ count * c = c * count /\ c * count \in Nat
    BY <1>1
  <2> QED
    BY <1>1, <1>2, <2>1, <2>2, <2>3, <2>4
<1>4. Chunks = 1..q
  BY DEF Chunks, q, c
<1> QED
  BY <1>1, <1>2, <1>3, <1>4, ConstantsAssumption

(* Every message is in a chunk: the last one need not be full.              *)
LEMMA ChunksCover ==
  ASSUME TypeOK, NEW m \in Messages
  PROVE  \E i \in Chunks : m \in Chunk(i)
<1> DEFINE c == ChunkSize
           q == (count + c - 1) \div c
           r == (m - 1) \div c
<1>1. /\ count \in Nat /\ c \in Nat \ {0} /\ count + c - 1 \in Nat
      /\ m \in Nat /\ m - 1 \in Nat /\ m <= count
  BY ConstantsAssumption DEF TypeOK, Messages
<1>2. q \in Nat /\ count + c - 1 < c * q + c
  BY <1>1, Division
<1>3. r \in Nat /\ c * r <= m - 1
  BY <1>1, Division
<1> HIDE DEF q, r, c
<1>4. r + 1 <= q
  <2> SUFFICES ASSUME q <= r PROVE FALSE
    BY <1>2, <1>3
  <2>1. c * q <= c * r
    BY <1>1, <1>2, <1>3, Product
  <2>2. c * q \in Nat /\ c * r \in Nat
    BY <1>1, <1>2, <1>3
  <2> QED
    BY <1>1, <1>2, <1>3, <2>1, <2>2
<1>5. r + 1 \in Chunks
  BY <1>2, <1>3, <1>4 DEF Chunks, q, c
<1>6. (m - 1) \div ChunkSize = (r + 1) - 1
  BY <1>3 DEF r, c
<1>7. m \in Chunk(r + 1)
  BY <1>6 DEF Chunk
<1> QED
  BY <1>5, <1>7

(* Some message with the id of m is in the queue.                           *)
Queued(m) == \E k \in Messages : id[m] \in Ids /\ id[k] = id[m] /\ copies[k] >= 1

(* What an answer has accepted is in the queue, under ids of the messages.  *)
SendInv ==
  \A n \in Call : \A i \in Chunks :
    send[n][i] = "accepted" => \A m \in Chunk(i) : Queued(m)

(* An enqueue that has resolved was accepted chunk by chunk.                *)
OutcomeInv ==
  \A n \in Call : outcome[n] = "resolved" => \A i \in Chunks : send[n][i] = "accepted"

(* Nothing is sent of a call that is not made yet.                          *)
CallsInv ==
  \A n \in Call : \A i \in 1..MaxMessages : n > calls => send[n][i] = "none"

(* What SQS has seen is in the queue.                                       *)
SeenInv == \A k \in seen : \E m \in Messages : id[m] = k /\ copies[m] >= 1

(* The calls whose send of m is over.                                       *)
Tried(m) ==
  {n \in Call : \E i \in Chunks :
     m \in Chunk(i) /\ send[n][i] \in {"accepted", "partial", "error"}}

(* Each copy of a message is from a send of its own, and all but the last   *)
(* are from intervals that have ended.                                      *)
CopiesInv ==
  \A m \in Messages :
    /\ copies[m] <= Cardinality(Tried(m))
    /\ id[m] \in Ids =>
         copies[m] <= forgotten[id[m]] + (IF id[m] \in seen THEN 1 ELSE 0)

IInv == TypeOK /\ SendInv /\ OutcomeInv /\ CallsInv /\ SeenInv /\ CopiesInv

(* No message is in two chunks.                                             *)
LEMMA ChunksDisjoint ==
  ASSUME NEW i \in Int, NEW j \in Int, NEW m, m \in Chunk(i), m \in Chunk(j)
  PROVE  i = j
<1>1. (m - 1) \div ChunkSize = i - 1 /\ (m - 1) \div ChunkSize = j - 1
  BY DEF Chunk
<1> QED
  BY <1>1

(* The calls are finitely many.                                             *)
LEMMA TriedFinite ==
  ASSUME NEW m
  PROVE  IsFiniteSet(Tried(m)) /\ Cardinality(Tried(m)) \in Nat
<1>1. IsFiniteSet(Call)
  BY ConstantsAssumption, FS_Interval DEF Call
<1>2. Tried(m) \in SUBSET Call
  BY DEF Tried
<1> QED
  BY <1>1, <1>2, FS_Subset, FS_CardinalityType

(* Nothing is enqueued or sent at first.                                    *)
LEMMA IInvInit == Init => IInv
<1> SUFFICES ASSUME Init PROVE IInv
  OBVIOUS
<1>1. TypeOK
  BY ConstantsAssumption DEF Init, TypeOK
<1>2. SendInv
  BY <1>1, ChunksBounded DEF Init, SendInv
<1>3. OutcomeInv /\ CallsInv /\ SeenInv
  BY DEF Init, OutcomeInv, CallsInv, SeenInv
<1>4. CopiesInv
  <2> SUFFICES ASSUME NEW m \in Messages
               PROVE  /\ copies[m] = 0 /\ Cardinality(Tried(m)) \in Nat
                      /\ id[m] \in Ids => forgotten[id[m]] = 0
    BY DEF CopiesInv
  <2>1. m \in 1..MaxMessages
    BY <1>1, ConstantsAssumption DEF TypeOK, Messages
  <2> QED
    BY <2>1, TriedFinite DEF Init
<1> QED
  BY <1>1, <1>2, <1>3, <1>4 DEF IInv

(* A batch that is taken is queued, unless SQS has seen it, and nothing     *)
(* leaves the queue.                                                        *)
LEMMA TakeEffect ==
  ASSUME IInv, NEW n \in Call, NEW S \in SUBSET Messages,
         \A m \in S : id[m] \in Ids, Take(n, S)
  PROVE  /\ copies' \in [1..MaxMessages -> Nat] /\ seen' \subseteq Ids
         /\ UNCHANGED forgotten
         /\ \A m \in Messages :
              /\ copies'[m] >= copies[m]
              /\ copies'[m] <= copies[m] + (IF m \in S THEN 1 ELSE 0)
              /\ id[m] \in Ids =>
                   copies'[m] <= forgotten[id[m]] + (IF id[m] \in seen' THEN 1 ELSE 0)
         /\ \A k \in seen' : \E m \in Messages : id[m] = k /\ copies'[m] >= 1
         /\ \A m \in S : id[m] \in seen'
<1>1. /\ count \in 0..MaxMessages /\ MaxMessages \in Nat
      /\ copies \in [1..MaxMessages -> Nat] /\ seen \subseteq Ids
      /\ forgotten \in [Ids -> 0..MaxIntervals] /\ MaxIntervals \in Nat
      /\ Messages \subseteq 1..MaxMessages
  BY ConstantsAssumption DEF IInv, TypeOK, Messages
<1>2. /\ copies' = [m \in 1..MaxMessages |->
           IF m \in S /\ id[m] \notin seen THEN copies[m] + 1 ELSE copies[m]]
      /\ seen' = seen \cup {id[m] : m \in S}
      /\ UNCHANGED forgotten
  BY DEF Take, DeduplicationId
<1>3. copies' \in [1..MaxMessages -> Nat] /\ seen' \subseteq Ids
  BY <1>1, <1>2
<1>4. ASSUME NEW m \in Messages
      PROVE  /\ copies'[m] >= copies[m]
             /\ copies'[m] <= copies[m] + (IF m \in S THEN 1 ELSE 0)
             /\ m \in S /\ id[m] \notin seen => copies'[m] >= 1
             /\ id[m] \in Ids =>
                  copies'[m] <= forgotten[id[m]] + (IF id[m] \in seen' THEN 1 ELSE 0)
  <2>1. copies[m] \in Nat /\ copies'[m] = IF m \in S /\ id[m] \notin seen
                                          THEN copies[m] + 1 ELSE copies[m]
    BY <1>1, <1>2
  <2>2. id[m] \in Ids =>
          /\ forgotten[id[m]] \in Nat
          /\ copies[m] <= forgotten[id[m]] + (IF id[m] \in seen THEN 1 ELSE 0)
    BY <1>1 DEF IInv, CopiesInv
  <2>3. (id[m] \in seen => id[m] \in seen') /\ (m \in S => id[m] \in seen')
    BY <1>2
  <2> QED
    BY <2>1, <2>2, <2>3
<1>5. ASSUME NEW k \in seen'
      PROVE  \E m \in Messages : id[m] = k /\ copies'[m] >= 1
  <2>1. CASE k \in seen
    <3>1. PICK m \in Messages : id[m] = k /\ copies[m] >= 1
      BY <2>1 DEF IInv, SeenInv
    <3>2. copies[m] \in Nat /\ copies'[m] \in Nat /\ copies'[m] >= copies[m]
      BY <1>1, <1>3, <1>4
    <3> QED
      BY <3>1, <3>2
  <2>2. CASE k \notin seen
    <3>1. PICK m \in S : id[m] = k
      BY <1>2, <2>2
    <3> QED
      BY <1>4, <2>2, <3>1
  <2> QED
    BY <2>1, <2>2
<1> QED
  BY <1>2, <1>3, <1>4, <1>5

(* A call of enqueue starts with none of its chunks accepted.               *)
LEMMA EnqueueStep ==
  ASSUME IInv, NEW n \in Call, Enqueue(n)
  PROVE  IInv'
<1>a. TypeOK /\ SendInv /\ OutcomeInv /\ CallsInv /\ SeenInv /\ CopiesInv
  BY DEF IInv
<1> DEFINE row == [i \in 1..MaxMessages |-> IF i \in Chunks THEN "sent" ELSE "none"]
<1>1. /\ UNCHANGED <<count, id, copies, seen, forgotten>> /\ n = calls + 1 /\ calls' = n
      /\ outcome' = [outcome EXCEPT ![n] = "pending"]
      /\ send' = [send EXCEPT ![n] = row]
  BY DEF Enqueue, inputs, sqs
<1>2. Chunks \subseteq 1..MaxMessages /\ Chunks' = Chunks
      /\ Messages' = Messages /\ \A i : Chunk(i)' = Chunk(i)
  BY <1>a, <1>1, ChunksBounded DEF Chunks, Chunk, Messages
<1>3. row \in [1..MaxMessages -> {"none", "sent", "accepted", "partial", "error"}]
      /\ \A i \in Chunks : row[i] = "sent"
  BY <1>2
<1> HIDE DEF row
<1>4. TypeOK'
  BY <1>a, <1>1, <1>2, <1>3, ConstantsAssumption DEF TypeOK, Call
<1>5. \A m : Queued(m)' = Queued(m)
  BY <1>1, <1>2 DEF Queued
<1>6. SendInv'
  BY <1>a, <1>1, <1>2, <1>3, <1>5 DEF SendInv, TypeOK
<1>7. OutcomeInv'
  BY <1>a, <1>1, <1>2 DEF OutcomeInv, TypeOK
<1>8. CallsInv'
  BY <1>a, <1>1, ConstantsAssumption DEF CallsInv, TypeOK, Call
<1>9. SeenInv'
  BY <1>a, <1>1, <1>2 DEF SeenInv
<1>10. ASSUME NEW m PROVE Tried(m)' = Tried(m)
  <2>1. ASSUME NEW k \in Call, NEW i \in Chunks
        PROVE  \/ send'[k][i] = send[k][i]
               \/ send'[k][i] = "sent" /\ send[k][i] = "none"
    <3>1. CASE k = n
      BY <1>a, <1>1, <1>2, <1>3, <3>1, ConstantsAssumption DEF CallsInv, TypeOK, Call
    <3>2. CASE k # n
      BY <1>a, <1>1, <3>2 DEF TypeOK
    <3> QED
      BY <3>1, <3>2
  <2> QED
    BY <1>2, <2>1 DEF Tried
<1>11. CopiesInv'
  BY <1>a, <1>1, <1>2, <1>10 DEF CopiesInv
<1> QED
  BY <1>4, <1>6, <1>7, <1>8, <1>9, <1>11 DEF IInv

(* An answer or an error settles a send; only an answer without failed      *)
(* entries accepts it.                                                      *)
LEMMA SendStep ==
  ASSUME IInv, NEW n \in Call, NEW i \in Chunks, Answer(n, i) \/ SendError(n, i)
  PROVE  IInv'
<1>a. TypeOK /\ SendInv /\ OutcomeInv /\ CallsInv /\ SeenInv /\ CopiesInv
  BY DEF IInv
<1>b. Chunks \subseteq 1..MaxMessages /\ \A j : Chunk(j) \subseteq Messages
  BY <1>a, ChunksBounded DEF Chunk
<1>1. PICK S \in SUBSET Chunk(i), s \in {"accepted", "partial", "error"} :
        /\ Take(n, S) /\ send[n][i] = "sent"
        /\ send' = [send EXCEPT ![n][i] = s]
        /\ s = "accepted" => S = Chunk(i)
        /\ S = {} \/ WellFormed(i)
        /\ UNCHANGED <<count, id, calls, outcome>>
  <2>1. CASE Answer(n, i)
    <3>1. PICK Failed \in SUBSET Chunk(i) :
            /\ Take(n, Chunk(i) \ Failed)
            /\ send' = [send EXCEPT ![n][i] = IF Failed = {} THEN "accepted"
                                                             ELSE "partial"]
      BY <2>1 DEF Answer
    <3>2. Chunk(i) \ Failed \in SUBSET Chunk(i) /\ (Failed = {} => Chunk(i) \ Failed = Chunk(i))
      OBVIOUS
    <3>3. WellFormed(i) /\ send[n][i] = "sent" /\ UNCHANGED <<count, id, calls, outcome>>
      BY <2>1 DEF Answer, inputs
    <3>4. CASE Failed = {}
      BY <3>1, <3>2, <3>3, <3>4
    <3>5. CASE Failed # {}
      BY <3>1, <3>2, <3>3, <3>5
    <3> QED
      BY <3>4, <3>5
  <2>2. CASE SendError(n, i)
    BY <2>2 DEF SendError, inputs
  <2> QED
    BY <2>1, <2>2
<1>c. S \in SUBSET Messages /\ \A m \in S : id[m] \in Ids
  BY <1>a, <1>b, <1>1 DEF TypeOK, WellFormed
<1>2. /\ copies' \in [1..MaxMessages -> Nat] /\ seen' \subseteq Ids
      /\ UNCHANGED forgotten
      /\ \A m \in Messages :
           /\ copies'[m] >= copies[m]
           /\ copies'[m] <= copies[m] + (IF m \in S THEN 1 ELSE 0)
           /\ id[m] \in Ids =>
                copies'[m] <= forgotten[id[m]] + (IF id[m] \in seen' THEN 1 ELSE 0)
      /\ \A k \in seen' : \E m \in Messages : id[m] = k /\ copies'[m] >= 1
      /\ \A m \in S : id[m] \in seen'
  BY <1>1, <1>c, TakeEffect
<1>3. Chunks' = Chunks /\ Messages' = Messages /\ \A j : Chunk(j)' = Chunk(j)
  BY <1>1 DEF Chunks, Chunk, Messages
<1>4. TypeOK'
  BY <1>a, <1>b, <1>1, <1>2, <1>3 DEF TypeOK
<1>5. /\ send'[n][i] = s
      /\ \A k \in Call, j \in 1..MaxMessages : k # n \/ j # i => send'[k][j] = send[k][j]
  BY <1>a, <1>b, <1>1 DEF TypeOK
<1>6. SendInv'
  <2>1. ASSUME s = "accepted", NEW m \in Chunk(i) PROVE Queued(m)'
    <3>1. id[m] \in Ids /\ id[m] \in seen'
      BY <1>1, <1>2, <1>c, <2>1
    <3> QED
      BY <1>1, <1>2, <1>3, <3>1 DEF Queued
  <2>2. ASSUME NEW k \in Call, NEW j \in Chunks, send[k][j] = "accepted", NEW m \in Chunk(j)
        PROVE  Queued(m)'
    <3>1. PICK l \in Messages : id[m] \in Ids /\ id[l] = id[m] /\ copies[l] >= 1
      BY <1>a, <2>2 DEF SendInv, Queued
    <3>2. copies[l] \in Nat /\ copies'[l] \in Nat /\ copies'[l] >= copies[l]
      BY <1>a, <1>2, ConstantsAssumption DEF TypeOK, Messages
    <3>3. copies'[l] >= 1
      BY <3>1, <3>2
    <3> QED
      BY <1>1, <1>3, <3>1, <3>3 DEF Queued
  <2>3. ASSUME NEW k \in Call, NEW j \in Chunks, send'[k][j] = "accepted", NEW m \in Chunk(j)
        PROVE  Queued(m)'
    <3>1. CASE k = n /\ j = i
      BY <1>5, <2>1, <2>3, <3>1
    <3>2. CASE k # n \/ j # i
      BY <1>5, <1>b, <2>2, <2>3, <3>2
    <3> QED
      BY <3>1, <3>2
  <2> QED
    BY <1>3, <2>3 DEF SendInv
<1>7. OutcomeInv'
  BY <1>a, <1>b, <1>1, <1>3, <1>5 DEF OutcomeInv
<1>8. CallsInv'
  <2>1. n <= calls
    BY <1>a, <1>b, <1>1, ConstantsAssumption DEF CallsInv, TypeOK, Call
  <2> QED
    BY <1>a, <1>1, <1>5, <2>1, ConstantsAssumption DEF CallsInv, TypeOK, Call
<1>9. SeenInv'
  BY <1>1, <1>2, <1>3 DEF SeenInv
<1>10. ASSUME NEW m \in Messages
       PROVE  Cardinality(Tried(m)') >= Cardinality(Tried(m)) + (IF m \in S THEN 1 ELSE 0)
  <2>1. ASSUME NEW k \in Tried(m) PROVE k \in Tried(m)'
    BY <1>b, <1>1, <1>3, <1>5, <2>1 DEF Tried
  <2>2. Tried(m)' \subseteq Call
    BY DEF Tried
  <2>3. IsFiniteSet(Tried(m)') /\ IsFiniteSet(Tried(m)) /\ Cardinality(Tried(m)) \in Nat
    <3>1. IsFiniteSet(Call)
      BY ConstantsAssumption, FS_Interval DEF Call
    <3> QED
      BY <2>2, <3>1, FS_Subset, TriedFinite
  <2>4. CASE m \in S
    <3>1. n \in Tried(m)'
      BY <1>1, <1>3, <1>5, <2>4 DEF Tried
    <3>2. n \notin Tried(m)
      <4>1. ASSUME NEW j \in Chunks, m \in Chunk(j) PROVE j = i
        BY <1>b, <2>4, <4>1, ChunksDisjoint
      <4> QED
        BY <1>1, <4>1 DEF Tried
    <3>3. Tried(m) \cup {n} \in SUBSET Tried(m)'
      BY <2>1, <3>1
    <3>4. Cardinality(Tried(m) \cup {n}) = Cardinality(Tried(m)) + 1
      BY <2>3, <3>2, FS_AddElement
    <3>5. Cardinality(Tried(m) \cup {n}) <= Cardinality(Tried(m)')
      BY <2>3, <3>3, FS_Subset
    <3>6. Cardinality(Tried(m)') \in Nat
      BY <2>3, FS_CardinalityType
    <3> QED
      BY <2>3, <2>4, <3>4, <3>5, <3>6
  <2>5. CASE m \notin S
    <3>1. Cardinality(Tried(m)) <= Cardinality(Tried(m)')
      BY <2>1, <2>3, FS_Subset
    <3>2. Cardinality(Tried(m)') \in Nat
      BY <2>3, FS_CardinalityType
    <3> QED
      BY <2>3, <2>5, <3>1, <3>2
  <2> QED
    BY <2>4, <2>5
<1>11. CopiesInv'
  <2> SUFFICES ASSUME NEW m \in Messages PROVE copies'[m] <= Cardinality(Tried(m)')
    BY <1>1, <1>2, <1>3 DEF CopiesInv
  <2>1. copies[m] \in Nat /\ copies'[m] \in Nat
    BY <1>a, <1>2, ConstantsAssumption DEF TypeOK, Messages
  <2>2. Cardinality(Tried(m)) \in Nat /\ copies[m] <= Cardinality(Tried(m))
    BY <1>a, TriedFinite DEF CopiesInv
  <2>3. Cardinality(Tried(m)') \in Nat
    <3>1. Tried(m)' \in SUBSET Call /\ IsFiniteSet(Call)
      BY ConstantsAssumption, FS_Interval DEF Call, Tried
    <3> QED
      BY <3>1, FS_Subset, FS_CardinalityType
  <2> QED
    BY <1>2, <1>10, <2>1, <2>2, <2>3
<1> QED
  BY <1>4, <1>6, <1>7, <1>8, <1>9, <1>11 DEF IInv

(* The promise resolves only when every answer has accepted its chunk.      *)
LEMMA SettleStep ==
  ASSUME IInv, NEW n \in Call, Reject(n) \/ Settle(n)
  PROVE  IInv'
<1>a. TypeOK /\ SendInv /\ OutcomeInv /\ CallsInv /\ SeenInv /\ CopiesInv
  BY DEF IInv
<1>1. PICK o \in {"resolved", "rejected"} :
        /\ outcome' = [outcome EXCEPT ![n] = o]
        /\ o = "resolved" => \A i \in Chunks : send[n][i] = "accepted"
        /\ UNCHANGED <<count, id, calls, send, copies, seen, forgotten>>
  BY DEF Reject, Settle, inputs, sqs
<1>2. Chunks' = Chunks /\ Messages' = Messages /\ \A j : Chunk(j)' = Chunk(j)
  BY <1>1 DEF Chunks, Chunk, Messages
<1>3. \A m : Tried(m)' = Tried(m) /\ Queued(m)' = Queued(m)
  BY <1>1, <1>2 DEF Tried, Queued
<1>4. TypeOK'
  BY <1>a, <1>1, <1>2 DEF TypeOK
<1>5. SendInv' /\ CallsInv' /\ SeenInv' /\ CopiesInv'
  BY <1>a, <1>1, <1>2, <1>3 DEF SendInv, CallsInv, SeenInv, CopiesInv
<1>6. OutcomeInv'
  BY <1>a, <1>1, <1>2 DEF OutcomeInv, TypeOK
<1> QED
  BY <1>4, <1>5, <1>6 DEF IInv

(* An id that is forgotten may be queued once more.                         *)
LEMMA ForgetStep ==
  ASSUME IInv, NEW k \in Ids, Forget(k)
  PROVE  IInv'
<1>a. TypeOK /\ SendInv /\ OutcomeInv /\ CallsInv /\ SeenInv /\ CopiesInv
  BY DEF IInv
<1>1. /\ k \in seen /\ forgotten[k] < MaxIntervals /\ seen' = seen \ {k}
      /\ forgotten' = [forgotten EXCEPT ![k] = @ + 1]
      /\ UNCHANGED <<count, id, calls, outcome, send, copies>>
  BY DEF Forget, inputs
<1>2. Chunks' = Chunks /\ Messages' = Messages /\ \A j : Chunk(j)' = Chunk(j)
  BY <1>1 DEF Chunks, Chunk, Messages
<1>3. \A m : Tried(m)' = Tried(m) /\ Queued(m)' = Queued(m)
  BY <1>1, <1>2 DEF Tried, Queued
<1>4. TypeOK'
  <2>1. forgotten' \in [Ids -> 0..MaxIntervals] /\ seen' \subseteq Ids
    BY <1>a, <1>1, ConstantsAssumption DEF TypeOK
  <2> QED
    BY <1>a, <1>1, <1>2, <2>1 DEF TypeOK
<1>5. SendInv' /\ OutcomeInv' /\ CallsInv' /\ SeenInv'
  BY <1>a, <1>1, <1>2, <1>3 DEF SendInv, OutcomeInv, CallsInv, SeenInv
<1>6. CopiesInv'
  <2> SUFFICES ASSUME NEW m \in Messages, id[m] \in Ids
               PROVE  copies[m] <= forgotten'[id[m]] + (IF id[m] \in seen' THEN 1 ELSE 0)
    BY <1>a, <1>1, <1>2, <1>3 DEF CopiesInv
  <2>1. copies[m] \in Nat /\ forgotten[id[m]] \in Nat
    BY <1>a, ConstantsAssumption DEF TypeOK, Messages
  <2>2. copies[m] <= forgotten[id[m]] + (IF id[m] \in seen THEN 1 ELSE 0)
    BY <1>a DEF CopiesInv
  <2>3. CASE id[m] = k
    BY <1>a, <1>1, <2>1, <2>2, <2>3 DEF TypeOK
  <2>4. CASE id[m] # k
    BY <1>a, <1>1, <2>1, <2>2, <2>4 DEF TypeOK
  <2> QED
    BY <2>3, <2>4
<1> QED
  BY <1>4, <1>5, <1>6 DEF IInv

(* Every step keeps the inductive invariant.                                *)
LEMMA IInvStep == IInv /\ [Next]_vars => IInv'
<1> SUFFICES ASSUME IInv, [Next]_vars PROVE IInv'
  OBVIOUS
<1>1. CASE UNCHANGED vars
  <2>1. UNCHANGED <<count, id, calls, outcome, send, copies, seen, forgotten>>
    BY <1>1 DEF vars, inputs, sqs
  <2>2. Chunks' = Chunks /\ Messages' = Messages /\ \A j : Chunk(j)' = Chunk(j)
    BY <2>1 DEF Chunks, Chunk, Messages
  <2>3. \A m : Tried(m)' = Tried(m) /\ Queued(m)' = Queued(m)
    BY <2>1, <2>2 DEF Tried, Queued
  <2> QED
    BY <2>1, <2>2, <2>3
    DEF IInv, TypeOK, SendInv, OutcomeInv, CallsInv, SeenInv, CopiesInv
<1> QED
  BY <1>1, EnqueueStep, SendStep, SettleStep, ForgetStep DEF Next

(* Every state satisfies the inductive invariant.                           *)
THEOREM Invariance == Spec => []IInv
BY IInvInit, IInvStep, PTL DEF Spec

(* If enqueue resolves, every message of its list is in the queue, however  *)
(* the list is cut, in whatever order its sends are answered, and whatever  *)
(* became of calls before it; if ids repeat, a message with its id is.      *)
THEOREM Resolved == Spec => []ResolvedMeansQueued
<1>1. IInv => ResolvedMeansQueued
  <2> SUFFICES ASSUME IInv, NEW n \in Call, outcome[n] = "resolved", NEW m \in Messages
               PROVE  Queued(m)
    BY DEF ResolvedMeansQueued, Queued
  <2>1. PICK i \in Chunks : m \in Chunk(i)
    BY ChunksCover DEF IInv
  <2> QED
    BY <2>1 DEF IInv, OutcomeInv, SendInv
<1> QED
  BY <1>1, Invariance, PTL

(* However a list is cut and however many calls of it are under way at      *)
(* once, no message is queued more often than it was enqueued, nor more     *)
(* often than its deduplication interval ended, and once.                   *)
THEOREM NoDuplicates == Spec => []RetryDuplicatesNothing
<1>1. IInv => RetryDuplicatesNothing
  <2> SUFFICES ASSUME IInv, NEW m \in Messages
               PROVE  /\ copies[m] <= calls
                      /\ id[m] \in Ids => copies[m] <= 1 + forgotten[id[m]]
    BY DEF RetryDuplicatesNothing
  <2>a. TypeOK /\ CallsInv /\ CopiesInv
    BY DEF IInv
  <2>1. calls \in Nat /\ copies[m] \in Nat
    BY <2>a, ConstantsAssumption DEF TypeOK, Messages
  <2>2. Tried(m) \in SUBSET (1..calls)
    <3> SUFFICES ASSUME NEW n \in Tried(m) PROVE n <= calls /\ n \in Nat /\ n >= 1
      BY <2>1
    <3>1. n \in Call /\ \E i \in Chunks : send[n][i] # "none"
      BY DEF Tried
    <3> QED
      BY <2>a, <2>1, <3>1, ChunksBounded, ConstantsAssumption DEF CallsInv, Call
  <2>3. Cardinality(Tried(m)) <= calls
    <3>1. IsFiniteSet(1..calls) /\ Cardinality(1..calls) = calls
      BY <2>1, FS_Interval
    <3> QED
      BY <2>2, <3>1, FS_Subset
  <2>4. copies[m] <= Cardinality(Tried(m)) /\ Cardinality(Tried(m)) \in Nat
    BY <2>a, TriedFinite DEF CopiesInv
  <2>5. id[m] \in Ids =>
          /\ copies[m] <= forgotten[id[m]] + (IF id[m] \in seen THEN 1 ELSE 0)
          /\ forgotten[id[m]] \in Nat
    BY <2>a, ConstantsAssumption DEF CopiesInv, TypeOK
  <2> QED
    BY <2>1, <2>3, <2>4, <2>5
<1> QED
  BY <1>1, Invariance, PTL

-----------------------------------------------------------------------------
(* The names of queues: QueueNames.                                         *)

(* The pieces of names with their suffixes.                                 *)
AllPieces == Pieces \cup {".fifo"}

(* Where a sequence occurs in a beginning of another one.                   *)
LEMMA OccursIn ==
  ASSUME NEW S, NEW t \in Seq(S), NEW s \in Seq(S), s # <<>>, NEW i \in 0..Len(t)
  PROVE  s \in SubSeqs(SubSeq(t, 1, i)) <=>
           \E n \in 1..Len(t) : n + Len(s) - 1 <= i /\ SubSeq(t, n, n + Len(s) - 1) = s
<1> DEFINE u == SubSeq(t, 1, i)
<1>1. u \in Seq(S) /\ Len(u) = i /\ i \in Nat /\ \A k \in 1..i : u[k] = t[k]
  <2>1. i \in Int /\ \A k \in 1..i : t[k] \in S
    BY ElementOfSeq, LenProperties
  <2> QED
    BY <2>1, SubSeqProperties, LenProperties
<1>2. ASSUME NEW a \in 0..i, NEW b \in 0..i, a < b
      PROVE  SubSeq(u, a + 1, b) = SubSeq(t, a + 1, b) /\ Len(SubSeq(t, a + 1, b)) = b - a
  <2>1. /\ \A k \in (a + 1)..b : t[k] \in S
        /\ \A k \in (a + 1)..b : u[k] \in S
    BY <1>1, ElementOfSeq, LenProperties
  <2>2. /\ SubSeq(t, a + 1, b) \in Seq(S) /\ Len(SubSeq(t, a + 1, b)) = b - a
        /\ \A k \in 1..(b - a) : SubSeq(t, a + 1, b)[k] = t[a + k]
    BY <1>1, <1>2, <2>1, SubSeqProperties
  <2>3. /\ SubSeq(u, a + 1, b) \in Seq(S) /\ Len(SubSeq(u, a + 1, b)) = b - a
        /\ \A k \in 1..(b - a) : SubSeq(u, a + 1, b)[k] = u[a + k]
    BY <1>1, <1>2, <2>1, SubSeqProperties
  <2>4. \A k \in 1..(b - a) : u[a + k] = t[a + k]
    BY <1>1
  <2> QED
    BY <2>2, <2>3, <2>4, SeqEqual
<1>3. Len(s) \in Nat \ {0}
  BY EmptySeq
<1> HIDE DEF u
<1>4. s \in SubSeqs(u) <=> \E a, b \in 0..i : s = SubSeq(u, a + 1, b)
  <2>1. s \in SubSeqs(u) <=> \E a, b \in 0..Len(u) : s = SubSeq(u, a + 1, b)
    BY DEF SubSeqs
  <2> QED
    BY <1>1, <2>1
<1>5. ASSUME s \in SubSeqs(u)
      PROVE  \E n \in 1..Len(t) : n + Len(s) - 1 <= i /\ SubSeq(t, n, n + Len(s) - 1) = s
  <2>1. PICK a \in 0..i, b \in 0..i : s = SubSeq(u, a + 1, b)
    BY <1>4, <1>5
  <2>2. a < b
    BY <1>1, <1>3, <2>1, SubSeqEmpty
  <2>3. s = SubSeq(t, a + 1, b) /\ Len(s) = b - a
    BY <1>2, <2>1, <2>2
  <2>4. a + 1 \in 1..Len(t) /\ b = a + 1 + Len(s) - 1
    BY <1>1, <2>2, <2>3, LenProperties
  <2> QED
    BY <2>3, <2>4
<1>6. ASSUME NEW n \in 1..Len(t), n + Len(s) - 1 <= i, SubSeq(t, n, n + Len(s) - 1) = s
      PROVE  s \in SubSeqs(u)
  <2> DEFINE a == n - 1
             b == n + Len(s) - 1
  <2>1. a \in 0..i /\ b \in 0..i /\ a < b /\ a + 1 = n
    BY <1>1, <1>3, <1>6
  <2>2. SubSeq(u, a + 1, b) = s
    BY <1>2, <1>6, <2>1
  <2> HIDE DEF a, b
  <2> QED
    BY <1>4, <2>1, <2>2
<1> QED
  BY <1>5, <1>6 DEF u

(* A sequence that occurs nowhere is not removed.                           *)
LEMMA NothingRemoved ==
  ASSUME NEW S, NEW t \in Seq(S), NEW s \in Seq(S), s # <<>>,
         \A n \in 1..Len(t) : SubSeq(t, n, n + Len(s) - 1) # s
  PROVE  Without(t, s) = t
<1>1. SubSeq(t, 1, Len(t)) = t /\ Len(t) \in 0..Len(t)
  BY SubSeqFull, LenProperties
<1>2. s \notin SubSeqs(t)
  BY <1>1, OccursIn
<1> QED
  BY <1>2 DEF Without, ReplaceFirstSubSeq

(* The empty sequence is at the front of each.                              *)
LEMMA EmptyRemoved ==
  ASSUME NEW S, NEW t \in Seq(S)
  PROVE  Without(t, <<>>) = t
<1>1. Len(t) \in Nat /\ SubSeq(t, 1, Len(t)) = t /\ SubSeq(t, 1, 0) = <<>>
  BY SubSeqFull, LenProperties, SubSeqEmpty
<1>2. <<>> \in SubSeqs(t) /\ <<>> \in SubSeqs(SubSeq(t, 1, 0))
  <2>1. /\ SubSeq(t, 0 + 1, 0) = <<>> /\ 0 \in 0..Len(t)
        /\ SubSeq(<<>>, 0 + 1, 0) = <<>> /\ 0 \in 0..Len(<<>>)
    BY <1>1, SubSeqEmpty
  <2>2. ASSUME NEW u, SubSeq(u, 0 + 1, 0) = <<>>, 0 \in 0..Len(u) PROVE <<>> \in SubSeqs(u)
    BY <2>2 DEF SubSeqs
  <2> QED
    BY <1>1, <2>1, <2>2
<1> DEFINE First(i) == /\ <<>> \in SubSeqs(SubSeq(t, 1, i))
                       /\ \A j \in 0..i - 1 : <<>> \notin SubSeqs(SubSeq(t, 1, j))
<1>3. 0 \in 0..Len(t) /\ First(0)
  BY <1>1, <1>2
<1>4. \A i \in 0..Len(t) : First(i) => i = 0
  BY <1>1, <1>2
<1>5. (CHOOSE i \in 0..Len(t) : First(i)) = 0
  BY <1>3, <1>4
<1>6. IndexFirstSubSeq(<<>>, t) = 1
  BY <1>5 DEF IndexFirstSubSeq
<1>7. ReplaceSubSeqAt(1, <<>>, <<>>, t) = SubSeq(t, 1, 0) \o <<>> \o SubSeq(t, 1, Len(t))
  BY <1>1 DEF ReplaceSubSeqAt
<1> QED
  BY <1>1, <1>2, <1>6, <1>7 DEF Without, ReplaceFirstSubSeq

(* The definition of ReplaceSubSeqAt.                                       *)
LEMMA ReplacedAt ==
  ASSUME NEW i, NEW r, NEW s, NEW t
  PROVE  ReplaceSubSeqAt(i, r, s, t)
           = (SubSeq(t, 1, i - 1) \o r) \o SubSeq(t, i + Len(s), Len(t))
BY DEF ReplaceSubSeqAt

(* What is put between two sequences is removed from there, if it does not  *)
(* occur before.                                                            *)
LEMMA FirstRemoved ==
  ASSUME NEW S, NEW q \in Seq(S), NEW s \in Seq(S), NEW r \in Seq(S), s # <<>>,
         \A n \in 1..Len(q) : SubSeq(q \o s, n, n + Len(s) - 1) # s
  PROVE  Without((q \o s) \o r, s) = q \o r
<1> DEFINE t == (q \o s) \o r
           end == Len(q) + Len(s)
<1>1. /\ q \o s \in Seq(S) /\ Len(q \o s) = end
      /\ t \in Seq(S) /\ Len(t) = end + Len(r) /\ t = q \o (s \o r)
      /\ Len(q) \in Nat /\ Len(s) \in Nat \ {0} /\ Len(r) \in Nat
  BY ConcatProperties, ConcatAssociative, LenProperties, EmptySeq
<1>2. ASSUME NEW n \in 1..end, n + Len(s) - 1 <= end
      PROVE  SubSeq(t, n, n + Len(s) - 1) = SubSeq(q \o s, n, n + Len(s) - 1)
  <2>1. n \in 1..Len(q \o s) /\ n + Len(s) - 1 \in 1..Len(q \o s)
    BY <1>1, <1>2
  <2> QED
    BY <1>1, <2>1, SubSeqOfConcat1
<1>3. SubSeq(t, Len(q) + 1, end) = s
  <2>1. SubSeq(t, Len(q) + 1, end) = SubSeq(q \o s, Len(q) + 1, end)
    BY <1>1, <1>2
  <2>2. Len(q) + 1 \in Len(q) + 1..Len(q) + Len(s) /\ end \in Len(q) + 1..Len(q) + Len(s)
    BY <1>1
  <2>3. SubSeq(q \o s, Len(q) + 1, end) = SubSeq(s, Len(q) + 1 - Len(q), end - Len(q))
    BY <2>2, SubSeqOfConcat2
  <2>4. Len(q) + 1 - Len(q) = 1 /\ end - Len(q) = Len(s)
    BY <1>1
  <2> QED
    BY <2>1, <2>3, <2>4, SubSeqFull
<1>4. SubSeq(t, 1, Len(q)) = q
  <2>1. CASE q = <<>>
    BY <2>1, <1>1, SubSeqEmpty
  <2>2. CASE q # <<>>
    <3>1. s \o r \in Seq(S) /\ 1 \in 1..Len(q) /\ Len(q) \in 1..Len(q)
      BY <2>2, <1>1, ConcatProperties, EmptySeq
    <3> QED
      BY <1>1, <3>1, SubSeqOfConcat1, SubSeqFull
  <2> QED
    BY <2>1, <2>2
<1>5. SubSeq(t, end + 1, Len(t)) = r
  <2>1. CASE r = <<>>
    BY <2>1, <1>1, SubSeqEmpty
  <2>2. CASE r # <<>>
    <3>1. /\ end + 1 \in Len(q \o s) + 1..Len(q \o s) + Len(r)
          /\ Len(t) \in Len(q \o s) + 1..Len(q \o s) + Len(r)
      BY <2>2, <1>1, EmptySeq
    <3>2. SubSeq(t, end + 1, Len(t)) = SubSeq(r, end + 1 - Len(q \o s), Len(t) - Len(q \o s))
      BY <1>1, <3>1, SubSeqOfConcat2
    <3>3. end + 1 - Len(q \o s) = 1 /\ Len(t) - Len(q \o s) = Len(r)
      BY <1>1
    <3> QED
      BY <3>2, <3>3, SubSeqFull
  <2> QED
    BY <2>1, <2>2
<1>6. ASSUME NEW n \in 1..Len(q) PROVE SubSeq(t, n, n + Len(s) - 1) # s
  <2>1. n \in 1..end /\ n + Len(s) - 1 <= end
    BY <1>1
  <2> QED
    BY <1>2, <2>1
<1> DEFINE Within(i) == s \in SubSeqs(SubSeq(t, 1, i))
           At(n) == SubSeq(t, n, n + Len(s) - 1) = s
<1>7. end = Len(q) + Len(s) /\ At(Len(q) + 1) /\ \A n \in 1..Len(q) : ~ At(n)
  <2>1. Len(q) + 1 + Len(s) - 1 = end
    BY <1>1
  <2> QED
    BY <1>3, <1>6, <2>1
<1> HIDE DEF t, end
<1>8. \A i \in 0..Len(t) : Within(i) <=> end <= i
  <2> SUFFICES ASSUME NEW i \in 0..Len(t) PROVE Within(i) <=> end <= i
    OBVIOUS
  <2>1. Within(i) <=> \E n \in 1..Len(t) : n + Len(s) - 1 <= i /\ At(n)
    <3>1. t \in Seq(S)
      BY <1>1
    <3> QED
      BY <3>1, OccursIn
  <2> HIDE DEF At, Within
  <2>2. ASSUME NEW n \in 1..Len(t), n + Len(s) - 1 <= i, At(n) PROVE end <= i
    BY <1>7, <1>1, <2>2
  <2>3. ASSUME end <= i
        PROVE  Len(q) + 1 \in 1..Len(t) /\ Len(q) + 1 + Len(s) - 1 <= i /\ At(Len(q) + 1)
    BY <1>7, <1>1, <2>3
  <2> QED
    BY <2>1, <2>2, <2>3
<1>9. s \in SubSeqs(t)
  <2>1. SubSeq(t, 1, Len(t)) = t /\ Len(t) \in 0..Len(t) /\ end <= Len(t)
    BY <1>7, <1>1, SubSeqFull
  <2> QED
    BY <1>8, <2>1
<1> DEFINE First(i) == Within(i) /\ \A j \in 0..i - 1 : ~ Within(j)
<1>10. (CHOOSE i \in 0..Len(t) : First(i)) = end
  <2>0. end \in 0..Len(t)
    BY <1>7, <1>1
  <2>1. First(end)
    <3> SUFFICES ASSUME NEW j \in 0..end - 1 PROVE ~ Within(j)
      BY <1>7, <1>8, <2>0
    <3>1. j \in 0..Len(t) /\ ~ end <= j
      BY <1>7, <1>1
    <3> QED
      BY <1>8, <3>1
  <2>2. ASSUME NEW i \in 0..Len(t), First(i) PROVE i = end
    <3>1. end <= i /\ (end <= i - 1 => ~ Within(end))
      BY <1>7, <1>1, <1>8, <2>2
    <3> QED
      BY <1>7, <1>1, <1>8, <2>0, <3>1
  <2> QED
    BY <2>0, <2>1, <2>2
<1>11. IndexFirstSubSeq(s, t) = Len(q) + 1
  <2>1. IndexFirstSubSeq(s, t) = end - (Len(s) - 1)
    BY <1>10 DEF IndexFirstSubSeq
  <2> QED
    BY <1>7, <1>1, <2>1
<1>12. ReplaceSubSeqAt(Len(q) + 1, <<>>, s, t)
         = (SubSeq(t, 1, Len(q)) \o <<>>) \o SubSeq(t, end + 1, Len(t))
  <2> DEFINE i == Len(q) + 1
  <2>1. i - 1 = Len(q) /\ i + Len(s) = end + 1
    BY <1>7, <1>1
  <2> HIDE DEF i
  <2>2. ReplaceSubSeqAt(i, <<>>, s, t)
          = (SubSeq(t, 1, i - 1) \o <<>>) \o SubSeq(t, i + Len(s), Len(t))
    BY ReplacedAt
  <2>3. ReplaceSubSeqAt(i, <<>>, s, t)
          = (SubSeq(t, 1, Len(q)) \o <<>>) \o SubSeq(t, end + 1, Len(t))
    BY <2>1, <2>2
  <2> QED
    BY <2>3 DEF i
<1>13. Without(t, s) = ReplaceSubSeqAt(Len(q) + 1, <<>>, s, t) /\ q \o <<>> = q
  BY <1>9, <1>11, ConcatEmptySeq DEF Without, ReplaceFirstSubSeq
<1>14. Without(t, s) = q \o r
  BY <1>4, <1>5, <1>12, <1>13
<1> QED
  BY <1>14 DEF t

(* A bounded sequence is one.                                               *)
LEMMA Bounded ==
  ASSUME NEW S, NEW n \in Nat, NEW s \in BoundedSeq(S, n)
  PROVE  s \in Seq(S)
<1>1. PICK m \in 0..n : s \in [1..m -> S]
  BY DEF BoundedSeq, SeqOf
<1> QED
  BY <1>1

(* A name is taken for its own queue's, whatever the suffix, unless that    *)
(* occurs early.                                                            *)
LEMMA FoundAgain ==
  ASSUME suffix \in Seq(Pieces), NEW q \in Queues, suffix # <<>> => ~ OccursEarly(q)
  PROVE  QueueFrom(NameOf(q)) = q
<1> DEFINE fifo == <<".fifo">>
           r == TypeSuffix[Type[q]]
<1>1. /\ q \in Seq(AllPieces) /\ suffix \in Seq(AllPieces) /\ fifo \in Seq(AllPieces)
      /\ <<>> \in Seq(AllPieces) /\ fifo # <<>> /\ Len(fifo) = 1 /\ fifo[1] = ".fifo"
  BY NamesAssumption, SeqMonotonic DEF Names, AllPieces
<1>2. r = fifo \/ r = <<>>
  BY NamesAssumption DEF TypeSuffix
<1>3. /\ Len(q) \in Nat /\ q \o fifo \in Seq(AllPieces) /\ Len(q \o fifo) = Len(q) + 1
      /\ \A n \in 1..Len(q) : q[n] # ".fifo" /\ (q \o fifo)[n] = q[n]
  <2>1. \A n \in 1..Len(q) : q[n] \in Range(q)
    BY <1>1, RangeEquality
  <2> QED
    BY <1>1, <2>1, ConcatProperties, LenProperties, NamesAssumption
<1> HIDE DEF fifo, r
<1>4. Without(NameOf(q), suffix) = q \o r
  <2>1. CASE suffix = <<>>
    <3>1. (q \o suffix) \o r = q \o r /\ q \o r \in Seq(AllPieces)
      BY <1>1, <1>2, <2>1, ConcatEmptySeq, ConcatProperties
    <3> QED
      BY <2>1, <3>1, EmptyRemoved DEF NameOf, r
  <2>2. CASE suffix # <<>>
    <3>1. \A n \in 1..Len(q) : SubSeq(q \o suffix, n, n + Len(suffix) - 1) # suffix
      BY <2>2 DEF OccursEarly
    <3>2. r \in Seq(AllPieces)
      BY <1>1, <1>2
    <3>3. Without((q \o suffix) \o r, suffix) = q \o r
      BY <1>1, <2>2, <3>1, <3>2, FirstRemoved
    <3> QED
      BY <3>3 DEF NameOf, r
  <2> QED
    BY <2>1, <2>2
<1>5. Without(q \o fifo, fifo) = q
  <2>1. ASSUME NEW n \in 1..Len(q)
        PROVE  SubSeq(q \o fifo, n, n + Len(fifo) - 1) # fifo
    <3>1. n + Len(fifo) - 1 = n /\ n \in 1..Len(q \o fifo)
      BY <1>1, <1>3
    <3>2. SubSeq(q \o fifo, n, n)[1] = (q \o fifo)[n]
      <4>1. \A i \in n..n : (q \o fifo)[i] \in AllPieces
        BY <1>3, <3>1, ElementOfSeq
      <4> QED
        BY <4>1, SubSeqProperties
    <3> QED
      BY <1>1, <1>3, <3>1, <3>2
  <2>2. Without((q \o fifo) \o <<>>, fifo) = q \o <<>>
    BY <1>1, <2>1, FirstRemoved
  <2> QED
    BY <1>1, <1>3, <2>2, ConcatEmptySeq
<1>6. Without(q, fifo) = q
  <2>1. ASSUME NEW n \in 1..Len(q) PROVE SubSeq(q, n, n + Len(fifo) - 1) # fifo
    <3>1. n + Len(fifo) - 1 = n
      BY <1>1, <1>3
    <3>2. SubSeq(q, n, n)[1] = q[n]
      <4>1. \A i \in n..n : q[i] \in AllPieces
        BY <1>1, ElementOfSeq
      <4> QED
        BY <4>1, SubSeqProperties
    <3> QED
      BY <1>1, <1>3, <3>1, <3>2
  <2> QED
    BY <1>1, <2>1, NothingRemoved
<1>7. Without(Without(NameOf(q), suffix), <<".fifo">>) = q
  BY <1>1, <1>2, <1>4, <1>5, <1>6, ConcatEmptySeq DEF fifo
<1> QED
  BY <1>7 DEF QueueFrom

(* What was sent has its queue's name, and what was taken was taken for the *)
(* queue found for that name.                                               *)
NamesInv ==
  /\ suffix \in Seq(Pieces)
  /\ \A m \in sent : m.queue \in Queues /\ m.name = NameOf(m.queue)
  /\ \A t \in taken : t.queue \in Queues /\ t.as = QueueFrom(NameOf(t.queue))

(* The suffix is set once, so that a name stays what it was.                *)
LEMMA NamesStep == NamesInv /\ [NamesNext]_namesVars => NamesInv'
<1> SUFFICES ASSUME NamesInv, [NamesNext]_namesVars PROVE NamesInv'
  OBVIOUS
<1>1. suffix' = suffix
  BY DEF NamesNext, SendTo, Handle, namesVars
<1>2. \A q : NameOf(q)' = NameOf(q)
  BY <1>1 DEF NameOf
<1>3. \A n : QueueFrom(n)' = QueueFrom(n)
  BY <1>1 DEF QueueFrom
<1>4. ASSUME NEW q \in Queues, SendTo(q) PROVE NamesInv'
  BY <1>1, <1>2, <1>3, <1>4 DEF NamesInv, SendTo
<1>5. ASSUME NEW m \in sent, Handle(m) PROVE NamesInv'
  BY <1>1, <1>2, <1>3, <1>5 DEF NamesInv, Handle
<1>6. CASE UNCHANGED namesVars
  BY <1>1, <1>2, <1>3, <1>6 DEF NamesInv, namesVars
<1> QED
  BY <1>4, <1>5, <1>6 DEF NamesNext

(* What was sent to a queue is handed to that queue's listener, for any     *)
(* queues, types and suffixes, unless the suffix occurs before its place.   *)
THEOREM FoundByName == DeploymentSpec => []RoundTrip
<1>1. Deploy => NamesInv
  BY NamesAssumption, Bounded DEF Deploy, NamesInit, NamesInv
<1>2. NamesInv /\ [Uses \/ Runs]_<<namesVars, configuration>> => NamesInv'
  <2>1. [Uses \/ Runs]_<<namesVars, configuration>> => [NamesNext]_namesVars
    BY DEF Uses, Runs
  <2> QED
    BY <2>1, NamesStep
<1>3. NamesInv => RoundTrip
  BY FoundAgain DEF NamesInv, RoundTrip
<1> QED
  BY <1>1, <1>2, <1>3, PTL DEF DeploymentSpec

-----------------------------------------------------------------------------
(* Numbers and what is configured with them: Configuration.                 *)

(* A set of numbers that has 0 and each next number has them all.           *)
LEMMA AllNumbers ==
  ASSUME NEW T, T \subseteq Nat, 0 \in T, \A n \in T : n + 1 \in T
  PROVE  T = Nat
<1> SUFFICES ASSUME Nat \ T # {} PROVE FALSE
  OBVIOUS
<1> DEFINE R == OpToRel(<, Nat)
<1>1. \A a, b \in Nat : a < b => <<a, b>> \in R
  BY DEF OpToRel
<1>2. IsWellFoundedOn(R, Nat)
  BY NatLessThanWellFounded
<1> HIDE DEF R
<1>3. PICK x \in Nat \ T : \A y \in Nat \ T : ~ (<<y, x>> \in R)
  BY <1>2, WFMin
<1>4. x - 1 \in Nat /\ x - 1 < x /\ x - 1 + 1 = x
  BY <1>3
<1>5. x - 1 \in T
  BY <1>1, <1>3, <1>4
<1> QED
  BY <1>3, <1>4, <1>5

(* A function defined by its value for 0 and by the one for the next number *)
(* exists.                                                                  *)
StepsOn(V) == [Nat -> [V -> V]]
Follows(f, V, a, h) ==
  /\ f \in [Nat -> V]
  /\ f[0] = a
  /\ \A n \in Nat : f[n + 1] = h[n][f[n]]

LEMMA Recursion ==
  ASSUME NEW V, NEW a \in V, NEW h \in StepsOn(V)
  PROVE  \E f : Follows(f, V, a, h)
<1> USE DEF StepsOn
<1> DEFINE Upto(f, k) == /\ f \in [0..k -> V] /\ f[0] = a
                         /\ \A n \in 0..(k - 1) : f[n + 1] = h[n][f[n]]
<1>1. \A k \in Nat : \E f : Upto(f, k)
  <2> DEFINE T == {k \in Nat : \E f : Upto(f, k)}
  <2>1. 0 \in T
    <3>1. Upto([n \in 0..0 |-> a], 0)
      OBVIOUS
    <3> QED
      BY <3>1
  <2>2. ASSUME NEW k \in T PROVE k + 1 \in T
    <3>1. PICK f : Upto(f, k)
      BY <2>2
    <3> DEFINE g == [n \in 0..(k + 1) |-> IF n = k + 1 THEN h[k][f[k]] ELSE f[n]]
    <3>2. k \in Nat /\ f[k] \in V /\ h[k][f[k]] \in V
      BY <2>2, <3>1
    <3>3. g \in [0..(k + 1) -> V] /\ g[0] = a
      BY <3>1, <3>2
    <3>4. ASSUME NEW n \in 0..k PROVE g[n + 1] = h[n][g[n]]
      BY <3>1, <3>2
    <3> HIDE DEF g
    <3>5. Upto(g, k + 1)
      <4>1. k + 1 - 1 = k
        BY <3>2
      <4> QED
        BY <3>3, <3>4, <4>1
    <3> HIDE DEF Upto
    <3> QED
      BY <3>2, <3>5
  <2> HIDE DEF Upto
  <2> QED
    BY <2>1, <2>2, AllNumbers
<1>2. ASSUME NEW k \in Nat, NEW l \in Nat, NEW f, NEW g, Upto(f, k), Upto(g, l)
      PROVE  \A n \in Nat : n <= k /\ n <= l => f[n] = g[n]
  <2> DEFINE T == {n \in Nat : n <= k /\ n <= l => f[n] = g[n]}
  <2>1. 0 \in T
    BY <1>2
  <2>2. ASSUME NEW n \in T PROVE n + 1 \in T
    BY <1>2, <2>2
  <2> HIDE DEF Upto
  <2>3. T = Nat
    <3> HIDE DEF T
    <3>1. T \subseteq Nat
      BY DEF T
    <3> QED
      BY <2>1, <2>2, <3>1, AllNumbers
  <2> QED
    BY <2>3
<1> DEFINE F(k) == CHOOSE f : Upto(f, k)
           G == [k \in Nat |-> F(k)[k]]
<1>3. \A k \in Nat : Upto(F(k), k)
  <2> HIDE DEF Upto
  <2> QED
    BY <1>1
<1> HIDE DEF F
<1>4. G \in [Nat -> V] /\ G[0] = a
  BY <1>3
<1>5. ASSUME NEW n \in Nat PROVE G[n + 1] = h[n][G[n]]
  <2>1. F(n + 1)[n + 1] = h[n][F(n + 1)[n]]
    BY <1>3
  <2>2. F(n + 1)[n] = F(n)[n]
    <3> HIDE DEF Upto
    <3> QED
      BY <1>2, <1>3
  <2> QED
    BY <2>1, <2>2
<1> HIDE DEF G
<1>6. Follows(G, V, a, h)
  BY <1>4, <1>5 DEF Follows
<1> QED
  BY <1>6

(* The powers of ten.                                                       *)
LEMMA PowersOfTen ==
  /\ TenTo[0] = 1
  /\ \A n \in Nat : TenTo[n] \in Nat \ {0} /\ TenTo[n + 1] = 10 * TenTo[n]
<1>1. TenTo = [n \in Nat |-> IF n = 0 THEN 1 ELSE 10 * TenTo[n - 1]]
  <2> DEFINE h == [n \in Nat |-> [x \in Nat |-> 10 * x]]
  <2>1. h \in [Nat -> [Nat -> Nat]] /\ \A n, x \in Nat : h[n][x] = 10 * x
    OBVIOUS
  <2> HIDE DEF h
  <2> DEFINE V == Nat
             a == 1
  <2>2. a \in V /\ h \in StepsOn(V)
    BY <2>1 DEF StepsOn
  <2> HIDE DEF V, a
  <2>4. PICK f : Follows(f, V, a, h)
    BY <2>2, Recursion
  <2>5. f \in [Nat -> Nat] /\ f[0] = 1 /\ \A n \in Nat : f[n + 1] = h[n][f[n]]
    BY <2>4 DEF Follows, V, a
  <2>3. ASSUME NEW n \in Nat PROVE f[n] = IF n = 0 THEN 1 ELSE 10 * f[n - 1]
    <3>1. CASE n = 0
      BY <2>5, <3>1
    <3>2. CASE n # 0
      <4>1. n - 1 \in Nat /\ n - 1 + 1 = n
        BY <3>2
      <4> QED
        BY <2>1, <2>5, <3>2, <4>1
    <3> QED
      BY <3>1, <3>2
  <2>6. f = [n \in Nat |-> IF n = 0 THEN 1 ELSE 10 * f[n - 1]]
    BY <2>3, <2>5
  <2> QED
    BY <2>6 DEF TenTo
<1>2. TenTo[0] = 1
  BY <1>1
<1>3. ASSUME NEW n \in Nat PROVE TenTo[n + 1] = 10 * TenTo[n]
  <2>1. n + 1 \in Nat /\ n + 1 # 0 /\ n + 1 - 1 = n
    OBVIOUS
  <2> QED
    BY <1>1, <2>1
<1>4. \A n \in Nat : TenTo[n] \in Nat \ {0}
  <2> DEFINE T == {n \in Nat : TenTo[n] \in Nat \ {0}}
  <2>1. T \subseteq Nat /\ 0 \in T /\ \A n \in T : n + 1 \in T
    BY <1>2, <1>3
  <2>2. T = Nat
    <3> HIDE DEF T
    <3> QED
      BY <2>1, AllNumbers
  <2> QED
    BY <2>2
<1> QED
  BY <1>2, <1>3, <1>4

(* A digit's number.                                                        *)
LEMMA DigitNumbers == \A c \in Range(Digits) : DigitOf[c] \in 0..9
<1>1. DOMAIN Digits = 1..10
  BY DEF Digits
<1>2. ASSUME NEW c \in Range(Digits) PROVE DigitOf[c] \in 0..9
  <2>1. \E n \in DOMAIN Digits : Digits[n] = c
    BY DEF Range
  <2>2. (CHOOSE n \in DOMAIN Digits : Digits[n] = c) \in 1..10
    BY <1>1, <2>1
  <2> QED
    BY <2>2 DEF DigitOf
<1> QED
  BY <1>2

(* A number is read digit by digit.                                         *)
LEMMA Read ==
  ASSUME NEW s \in Seq(Range(Digits))
  PROVE  \E f \in [0..Len(s) -> Nat] :
           /\ f[0] = 0 /\ f[Len(s)] = Number(s)
           /\ \A n \in 0..(Len(s) - 1) : f[n + 1] = 10 * f[n] + DigitOf[s[n + 1]]
<1> DEFINE L == Len(s)
           Equation(f) == f = [n \in 0..L |-> IF n = 0 THEN 0 ELSE 10 * f[n - 1] + DigitOf[s[n]]]
           h == [n \in Nat |-> [x \in Nat |->
                  IF n < L THEN 10 * x + DigitOf[s[n + 1]] ELSE 0]]
<1>1. L \in Nat /\ \A n \in 0..(L - 1) : DigitOf[s[n + 1]] \in 0..9
  BY DigitNumbers, ElementOfSeq, LenProperties
<1> HIDE DEF L
<1> DEFINE V == Nat
           a == 0
<1>2. /\ a \in V /\ h \in StepsOn(V)
      /\ \A n \in 0..(L - 1), x \in Nat : h[n][x] = 10 * x + DigitOf[s[n + 1]]
  <2>1. ASSUME NEW n \in Nat, NEW x \in Nat
        PROVE  (IF n < L THEN 10 * x + DigitOf[s[n + 1]] ELSE 0) \in Nat
    <3>1. CASE n < L
      <4>1. n \in 0..(L - 1)
        BY <1>1, <3>1
      <4> QED
        BY <1>1, <3>1, <4>1
    <3> QED
      BY <3>1
  <2>2. h \in [Nat -> [Nat -> Nat]]
    BY <2>1
  <2>3. ASSUME NEW n \in 0..(L - 1), NEW x \in Nat
        PROVE  h[n][x] = 10 * x + DigitOf[s[n + 1]]
    <3>1. n \in Nat /\ n < L
      BY <1>1
    <3> QED
      BY <3>1
  <2> QED
    BY <2>2, <2>3 DEF StepsOn
<1> HIDE DEF h, V, a
<1>3. PICK g : Follows(g, V, a, h)
  BY <1>2, Recursion
<1>4. g \in [Nat -> Nat] /\ g[0] = 0 /\ \A n \in Nat : g[n + 1] = h[n][g[n]]
  BY <1>3 DEF Follows, V, a
<1> DEFINE e == [n \in 0..L |-> g[n]]
<1>5. Equation(e)
  <2>1. ASSUME NEW n \in 0..L PROVE e[n] = IF n = 0 THEN 0 ELSE 10 * e[n - 1] + DigitOf[s[n]]
    <3>1. CASE n = 0
      BY <1>1, <1>4, <3>1
    <3>2. CASE n # 0
      <4>1. n - 1 \in 0..(L - 1) /\ n - 1 \in 0..L /\ n - 1 \in Nat /\ n - 1 + 1 = n
        BY <1>1, <3>2
      <4> QED
        BY <1>2, <1>4, <3>2, <4>1
    <3> QED
      BY <3>1, <3>2
  <2> QED
    BY <2>1
<1> DEFINE f == CHOOSE f : Equation(f)
<1> HIDE DEF e
<1>6. Equation(f)
  <2> HIDE DEF Equation
  <2> QED
    BY <1>5
<1>7. Number(s) = f[L]
  BY DEF Number, L
<1> HIDE DEF f
<1>8. f[0] = 0 /\ \A n \in 0..(L - 1) : f[n + 1] = 10 * f[n] + DigitOf[s[n + 1]]
  <2>1. f[0] = 0
    BY <1>1, <1>6
  <2>2. ASSUME NEW n \in 0..(L - 1) PROVE f[n + 1] = 10 * f[n] + DigitOf[s[n + 1]]
    <3> DEFINE k == n + 1
    <3>1. k \in 0..L /\ k # 0 /\ k - 1 = n
      BY <1>1
    <3> HIDE DEF k
    <3>2. f[k] = 10 * f[k - 1] + DigitOf[s[k]]
      BY <1>6, <3>1
    <3>3. f[k] = 10 * f[n] + DigitOf[s[k]]
      BY <3>1, <3>2
    <3> QED
      BY <3>3 DEF k
  <2> QED
    BY <2>1, <2>2
<1>9. f \in [0..L -> Nat]
  <2> DEFINE T == {n \in Nat : n <= L => f[n] \in Nat}
  <2>1. 0 \in T
    BY <1>8
  <2>2. ASSUME NEW n \in T PROVE n + 1 \in T
    <3>1. CASE n < L
      <4>1. n \in 0..(L - 1) /\ f[n] \in Nat
        BY <1>1, <2>2, <3>1
      <4>2. PICK d \in 0..9 : f[n + 1] = 10 * f[n] + d
        BY <1>1, <1>8, <4>1
      <4>3. f[n + 1] \in Nat
        <5>1. \A x \in Nat : 10 * x + d \in Nat
          OBVIOUS
        <5> QED
          BY <4>1, <4>2, <5>1
      <4> QED
        BY <4>1, <4>3
    <3>2. CASE ~ n < L
      BY <1>1, <3>2
    <3> QED
      BY <3>1, <3>2
  <2>3. T = Nat
    <3> HIDE DEF T
    <3>1. T \subseteq Nat
      BY DEF T
    <3> QED
      BY <2>1, <2>2, <3>1, AllNumbers
  <2>4. \A n \in 0..L : f[n] \in Nat
    BY <1>1, <2>3
  <2> QED
    BY <1>6, <2>4
<1> QED
  BY <1>7, <1>8, <1>9 DEF L

(* A quotient lies between its multiples.                                   *)
LEMMA Quotient ==
  ASSUME NEW x \in Nat, NEW n \in Nat, NEW p \in Nat \ {0}, p * n <= x, x < p * n + p
  PROVE  x \div p = n
<1> DEFINE q == x \div p
<1>1. q \in Nat /\ p * q <= x /\ x < p * q + p
  BY Division
<1> HIDE DEF q
<1>2. p * q \in Nat /\ p * n \in Nat /\ p * (q + 1) = p * q + p /\ p * (n + 1) = p * n + p
  BY <1>1, Distribute
<1>3. ~ q + 1 <= n
  <2> SUFFICES ASSUME q + 1 <= n PROVE FALSE
    OBVIOUS
  <2>1. p * (q + 1) <= p * n
    BY <1>1, Product
  <2> QED
    BY <1>1, <1>2, <2>1
<1>4. ~ n + 1 <= q
  <2> SUFFICES ASSUME n + 1 <= q PROVE FALSE
    OBVIOUS
  <2>1. p * (n + 1) <= p * q
    BY <1>1, Product
  <2> QED
    BY <1>1, <1>2, <2>1
<1>5. q = n
  BY <1>1, <1>3, <1>4
<1> QED
  BY <1>5 DEF q

(* Digits that follow do not change the number but for its power of ten.    *)
LEMMA Cut ==
  ASSUME NEW a \in Seq(Range(Digits)), NEW b \in Seq(Range(Digits))
  PROVE  /\ Number(a) \in Nat
         /\ Number(a \o b) \div TenTo[Len(b)] = Number(a)
<1> DEFINE s == a \o b
<1>1. /\ s \in Seq(Range(Digits)) /\ Len(s) = Len(a) + Len(b)
      /\ Len(a) \in Nat /\ Len(b) \in Nat
      /\ \A i \in 1..Len(a) : s[i] = a[i]
  BY ConcatProperties, LenProperties
<1> HIDE DEF s
<1>2. PICK f \in [0..Len(s) -> Nat] :
        /\ f[0] = 0 /\ f[Len(s)] = Number(s)
        /\ \A n \in 0..(Len(s) - 1) : f[n + 1] = 10 * f[n] + DigitOf[s[n + 1]]
  BY <1>1, Read
<1>3. PICK g \in [0..Len(a) -> Nat] :
        /\ g[0] = 0 /\ g[Len(a)] = Number(a)
        /\ \A n \in 0..(Len(a) - 1) : g[n + 1] = 10 * g[n] + DigitOf[a[n + 1]]
  BY Read
<1>4. f[Len(a)] = Number(a)
  <2> DEFINE T == {n \in Nat : n <= Len(a) => f[n] = g[n]}
  <2>1. 0 \in T
    BY <1>2, <1>3
  <2>2. ASSUME NEW n \in T PROVE n + 1 \in T
    <3>1. CASE n < Len(a)
      <4>1. /\ n \in 0..(Len(a) - 1) /\ n \in 0..(Len(s) - 1) /\ n + 1 \in 1..Len(a)
            /\ f[n] = g[n]
        BY <1>1, <2>2, <3>1
      <4>2. f[n + 1] = 10 * f[n] + DigitOf[s[n + 1]]
        BY <1>2, <4>1
      <4>3. g[n + 1] = 10 * g[n] + DigitOf[a[n + 1]]
        BY <1>3, <4>1
      <4>4. s[n + 1] = a[n + 1]
        BY <1>1, <4>1
      <4>5. f[n + 1] = g[n + 1]
        BY <4>1, <4>2, <4>3, <4>4
      <4> QED
        BY <4>1, <4>5
    <3>2. CASE ~ n < Len(a)
      BY <1>1, <3>2
    <3> QED
      BY <3>1, <3>2
  <2>3. T = Nat
    <3> HIDE DEF T
    <3>1. T \subseteq Nat
      BY DEF T
    <3> QED
      BY <2>1, <2>2, <3>1, AllNumbers
  <2>4. Len(a) \in T /\ Len(a) <= Len(a)
    <3>1. Len(a) \in Nat
      BY <1>1
    <3> HIDE DEF T
    <3> QED
      BY <2>3, <3>1
  <2>5. f[Len(a)] = g[Len(a)]
    BY <2>4
  <2> QED
    BY <1>3, <2>5
<1> DEFINE N == Number(a)
<1>5. N \in Nat
  BY <1>1, <1>3
<1> HIDE DEF N
<1>6. ASSUME NEW n \in Nat, n <= Len(b)
      PROVE  TenTo[n] * N <= f[Len(a) + n] /\ f[Len(a) + n] < TenTo[n] * N + TenTo[n]
  <2> DEFINE Between(k) == TenTo[k] * N <= f[Len(a) + k] /\ f[Len(a) + k] < TenTo[k] * N + TenTo[k]
             T == {k \in Nat : k <= Len(b) => Between(k)}
  <2>1. Between(0)
    <3>1. TenTo[0] = 1 /\ Len(a) + 0 = Len(a) /\ f[Len(a)] = N
      BY <1>1, <1>4, PowersOfTen DEF N
    <3>2. 1 * N <= N /\ N < 1 * N + 1
      BY <1>5
    <3> QED
      BY <3>1, <3>2
  <2>2. ASSUME NEW k \in Nat, k + 1 <= Len(b), Between(k) PROVE Between(k + 1)
    <3> DEFINE p == TenTo[k]
               x == f[Len(a) + k]
    <3>1. PICK d \in 0..9 : f[Len(a) + (k + 1)] = 10 * x + d
      <4> DEFINE l == Len(a) + k
      <4>1. l \in 0..(Len(s) - 1) /\ l + 1 \in 1..Len(s) /\ l + 1 = Len(a) + (k + 1)
        BY <1>1, <2>2
      <4> HIDE DEF l
      <4>2. DigitOf[s[l + 1]] \in 0..9
        BY <1>1, <4>1, DigitNumbers, ElementOfSeq
      <4>3. f[l + 1] = 10 * f[l] + DigitOf[s[l + 1]]
        BY <1>2, <4>1
      <4>4. f[Len(a) + (k + 1)] = 10 * f[l] + DigitOf[s[l + 1]]
        BY <4>1, <4>3
      <4> QED
        BY <4>2, <4>4 DEF l
    <3>2. p \in Nat \ {0} /\ TenTo[k + 1] = 10 * p /\ p * N <= x /\ x < p * N + p
      BY <2>2, PowersOfTen
    <3>3. x \in Nat
      BY <1>1, <1>2, <2>2
    <3> HIDE DEF p, x
    <3>4. (10 * p) * N = 10 * (p * N) /\ p * N \in Nat
      BY <1>5, <3>2
    <3>5. 10 * (p * N) <= 10 * x + d /\ 10 * x + d < 10 * (p * N) + 10 * p
      <4> DEFINE y == p * N
      <4>1. y \in Nat /\ y <= x /\ x < y + p
        BY <3>2, <3>4
      <4> HIDE DEF y
      <4>2. 10 * y <= 10 * x + d /\ 10 * x + d < 10 * y + 10 * p
        BY <3>1, <3>2, <3>3, <4>1
      <4> QED
        BY <4>2 DEF y
    <3> QED
      BY <3>1, <3>2, <3>4, <3>5
  <2> HIDE DEF Between
  <2>3. 0 \in T /\ \A k \in T : k + 1 \in T
    BY <1>1, <2>1, <2>2
  <2>4. T = Nat
    <3> HIDE DEF T
    <3>1. T \subseteq Nat
      BY DEF T
    <3> QED
      BY <2>3, <3>1, AllNumbers
  <2>5. Between(n)
    BY <1>6, <2>4
  <2> QED
    BY <2>5 DEF Between
<1>7. TenTo[Len(b)] * N <= Number(s) /\ Number(s) < TenTo[Len(b)] * N + TenTo[Len(b)]
  BY <1>1, <1>2, <1>6
<1>8. Number(s) \div TenTo[Len(b)] = N
  <2>1. Number(s) \in Nat /\ TenTo[Len(b)] \in Nat \ {0}
    <3>1. Len(s) \in 0..Len(s)
      BY <1>1
    <3>2. \A n \in 0..Len(s) : f[n] \in Nat
      BY <1>2
    <3>3. Number(s) \in Nat
      BY <1>2, <3>1, <3>2
    <3> QED
      BY <1>1, <3>3, PowersOfTen
  <2> QED
    BY <1>5, <1>7, <2>1, Quotient
<1> QED
  BY <1>5, <1>8 DEF N, s

(* What parseInt reads of a numeric string is what stands before the dot.   *)
LEMMA ReadBeforeDot ==
  ASSUME NEW C, NEW s \in Seq(C), IsNumeric(s)
  PROVE  LET m == Magnitude(s)
             dot == IF "." \in Range(m) THEN CHOOSE n \in DOMAIN m : m[n] = "." ELSE Len(m) + 1
             whole == SubSeq(m, 1, dot - 1)
             decimals == SubSeq(m, dot + 1, Len(m))
         IN /\ whole \in Seq(Range(Digits)) /\ decimals \in Seq(Range(Digits))
            /\ ParseInt(s) = CASE whole = <<>> -> NaN
                             [] whole # <<>> /\ Head(s) = "-" -> -Number(whole)
                             [] OTHER -> Number(whole)
<1> DEFINE D == Range(Digits)
           m == Magnitude(s)
           dot == IF "." \in Range(m) THEN CHOOSE n \in DOMAIN m : m[n] = "." ELSE Len(m) + 1
           whole == SubSeq(m, 1, dot - 1)
           decimals == SubSeq(m, dot + 1, Len(m))
<1>1. m \in Seq(C) /\ Len(m) \in Nat /\ DOMAIN m = 1..Len(m)
  <2>1. m \in Seq(C)
    BY HeadTailProperties DEF Magnitude, Signed
  <2> QED
    BY <2>1, LenProperties
<1>2. "." \notin D
  <2>1. DOMAIN Digits = 1..10 /\ \A n \in 1..10 : Digits[n] # "."
    BY DEF Digits
  <2> QED
    BY <2>1 DEF Range
<1>3. ASSUME NEW i \in Int, NEW j \in Int, 1 <= i, j <= Len(m)
      PROVE  /\ AllDigits(SubSeq(m, i, j)) <=> \A k \in i..j : m[k] \in D
             /\ (\A k \in i..j : m[k] \in D) => SubSeq(m, i, j) \in Seq(D)
  <2> DEFINE u == SubSeq(m, i, j)
  <2>1. \A k \in i..j : m[k] \in C
    BY <1>1, <1>3, ElementOfSeq
  <2>2. /\ u \in Seq(C) /\ Len(u) = (IF i <= j THEN j - i + 1 ELSE 0)
        /\ \A k \in 1..(j - i + 1) : u[k] = m[i + k - 1]
    BY <2>1, SubSeqProperties
  <2>3. Range(u) = {u[k] : k \in 1..Len(u)}
    BY <2>2, RangeEquality
  <2>4. (\A k \in i..j : m[k] \in D) => u \in Seq(D)
    BY SubSeqProperties
  <2> HIDE DEF u
  <2>5. ASSUME \A k \in i..j : m[k] \in D PROVE Range(u) \subseteq D
    BY <2>4, <2>5, RangeOfSeq
  <2>6. ASSUME Range(u) \subseteq D, NEW k \in i..j PROVE m[k] \in D
    <3> DEFINE l == k - i + 1
    <3>1. l \in 1..(j - i + 1) /\ l \in 1..Len(u) /\ i + l - 1 = k
      BY <2>2
    <3> HIDE DEF l
    <3>2. u[l] \in D /\ u[l] = m[k]
      BY <2>2, <2>3, <2>6, <3>1
    <3> QED
      BY <3>2
  <2> QED
    BY <2>4, <2>5, <2>6 DEF AllDigits, u
<1>4. \E d \in 1..(Len(m) + 1) :
        /\ \A k \in 1..Len(m) : k # d => m[k] \in D
        /\ d <= Len(m) => m[d] = "."
  <2>1. CASE AllDigits(m)
    <3>1. \A k \in 1..Len(m) : m[k] \in D
      <4>1. SubSeq(m, 1, Len(m)) = m
        BY <1>1, SubSeqFull
      <4>2. AllDigits(SubSeq(m, 1, Len(m)))
        BY <2>1, <4>1
      <4> QED
        BY <1>1, <1>3, <4>2
    <3>2. Len(m) + 1 \in 1..(Len(m) + 1) /\ ~ Len(m) + 1 <= Len(m)
      BY <1>1
    <3> QED
      BY <3>1, <3>2
  <2>2. ASSUME NEW n \in 1..(Len(m) - 1), m[n] = ".",
               AllDigits(SubSeq(m, 1, n - 1)), AllDigits(SubSeq(m, n + 1, Len(m)))
        PROVE  \A k \in 1..Len(m) : k # n => m[k] \in D
    <3>1. \A k \in 1..(n - 1) : m[k] \in D
      BY <1>1, <1>3, <2>2
    <3>2. \A k \in (n + 1)..Len(m) : m[k] \in D
      BY <1>1, <1>3, <2>2
    <3> QED
      BY <1>1, <3>1, <3>2
  <2>3. \/ AllDigits(m)
        \/ \E n \in 1..(Len(m) - 1) : /\ m[n] = "." /\ AllDigits(SubSeq(m, 1, n - 1))
                                      /\ AllDigits(SubSeq(m, n + 1, Len(m)))
    BY DEF IsNumeric
  <2> QED
    BY <1>1, <2>1, <2>2, <2>3
<1>5. PICK d \in 1..(Len(m) + 1) :
        /\ \A k \in 1..Len(m) : k # d => m[k] \in D
        /\ d <= Len(m) => m[d] = "."
  BY <1>4
<1> DEFINE read == CHOOSE n \in 0..Len(m) :
                     /\ AllDigits(SubSeq(m, 1, n))
                     /\ n < Len(m) => ~ AllDigits(SubSeq(m, 1, n + 1))
<1> HIDE DEF m, D
<1>6. dot = d
  <2>1. Range(m) = {m[k] : k \in 1..Len(m)}
    BY <1>1, RangeEquality
  <2>2. CASE d = Len(m) + 1
    <3>1. "." \notin Range(m)
      BY <1>1, <1>2, <1>5, <2>1, <2>2
    <3> QED
      BY <2>2, <3>1
  <2>3. CASE d # Len(m) + 1
    <3>1. d \in 1..Len(m) /\ m[d] = "." /\ \A k \in 1..Len(m) : m[k] = "." => k = d
      BY <1>1, <1>2, <1>5, <2>3
    <3>2. "." \in Range(m)
      BY <2>1, <3>1
    <3> QED
      BY <1>1, <3>1, <3>2
  <2> QED
    BY <2>2, <2>3
<1> HIDE DEF dot
<1>7. whole \in Seq(D) /\ Len(whole) = d - 1 /\ decimals \in Seq(D)
  <2>1. \A k \in 1..(d - 1) : m[k] \in D
    BY <1>1, <1>5
  <2>2. \A k \in (d + 1)..Len(m) : m[k] \in D
    BY <1>1, <1>5
  <2>3. whole \in Seq(D) /\ Len(whole) = d - 1
    BY <1>5, <1>6, <2>1, SubSeqProperties
  <2>4. decimals \in Seq(D)
    BY <1>1, <1>5, <1>6, <2>2, SubSeqProperties
  <2> QED
    BY <2>3, <2>4
<1>8. read = d - 1
  <2> DEFINE Stops(n) == /\ AllDigits(SubSeq(m, 1, n))
                         /\ n < Len(m) => ~ AllDigits(SubSeq(m, 1, n + 1))
  <2>1. ASSUME NEW n \in 0..Len(m) PROVE AllDigits(SubSeq(m, 1, n)) <=> n < d
    <3>1. AllDigits(SubSeq(m, 1, n)) <=> \A k \in 1..n : m[k] \in D
      BY <1>1, <1>3
    <3>2. CASE n < d
      BY <1>1, <1>5, <3>1, <3>2
    <3>3. CASE ~ n < d
      <4>1. d \in 1..n /\ m[d] \notin D
        BY <1>1, <1>2, <1>5, <3>3
      <4> QED
        BY <3>1, <3>3, <4>1
    <3> QED
      BY <3>2, <3>3
  <2>2. ASSUME NEW n \in 0..Len(m) PROVE Stops(n) <=> n = d - 1
    <3>1. n < Len(m) => (AllDigits(SubSeq(m, 1, n + 1)) <=> n + 1 < d)
      BY <1>1, <2>1
    <3> QED
      BY <1>1, <1>5, <2>1, <3>1
  <2>3. d - 1 \in 0..Len(m)
    BY <1>1, <1>5
  <2> HIDE DEF Stops
  <2>4. (CHOOSE n \in 0..Len(m) : Stops(n)) = d - 1
    BY <2>2, <2>3
  <2> QED
    BY <2>4 DEF Stops
<1>9. ParseInt(s) = CASE read = 0 -> NaN
                    [] read # 0 /\ Head(s) = "-" -> -Number(SubSeq(m, 1, read))
                    [] OTHER -> Number(SubSeq(m, 1, read))
  BY DEF ParseInt, m
<1>10. whole = SubSeq(m, 1, read) /\ (whole = <<>> <=> read = 0)
  <2>1. whole = SubSeq(m, 1, read)
    BY <1>6, <1>8
  <2>2. whole = <<>> <=> Len(whole) = 0
    BY <1>7, EmptySeq
  <2>3. Len(whole) = 0 <=> read = 0
    BY <1>7, <1>8
  <2> QED
    BY <2>1, <2>2, <2>3
<1> HIDE DEF whole, decimals, read
<1>11. ParseInt(s) = CASE whole = <<>> -> NaN
                     [] whole # <<>> /\ Head(s) = "-" -> -Number(whole)
                     [] OTHER -> Number(whole)
  BY <1>9, <1>10
<1> QED
  BY <1>7, <1>11 DEF whole, decimals, dot, m, D

-----------------------------------------------------------------------------
(* What an environment was accepted for is what its process has; one that   *)
(* exited or errs does so for what it has.                                  *)
SettingsInv ==
  /\ \A v \in Numeric : env[v] = Unset \/ env[v] \in Seq(Characters)
  /\ process \in {"starting", "refused"} => config = Undefined
  /\ process \notin {"starting", "refused"} => Valid /\ config = Configured
  /\ process = "exited" => config["APP_PORT"] \notin Ports
  /\ process = "erring" =>
       ~ ReceivesWith(config["SQS_QUEUE_BATCH_CONSUMER_SIZE"],
                      config["SQS_QUEUE_WAIT_TIME_SECONDS"])

(* A process that is about to start in any environment, whichever and       *)
(* however many variables are set.                                          *)
AnyStart ==
  /\ \A v \in Variables : env[v] \in Input(v)
  /\ process = "starting"
  /\ config = Undefined

(* The deployments of the runs are some of these.                           *)
LEMMA StartsAny == ConfigurationInit => AnyStart
<1> SUFFICES ASSUME ConfigurationInit PROVE AnyStart
  OBVIOUS
<1>1. PICK v \in Variables : \E s \in Input(v) : env = [Plain EXCEPT ![v] = s]
  BY DEF ConfigurationInit
<1>2. PICK s \in Input(v) : env = [Plain EXCEPT ![v] = s]
  BY <1>1
<1>3. ASSUME NEW w \in Variables PROVE Plain[w] \in Input(w)
  BY <1>3 DEF Plain, Input, Numeric, Texts
<1>4. ASSUME NEW w \in Variables PROVE env[w] \in Input(w)
  BY <1>2, <1>3 DEF Plain
<1> QED
  BY <1>4 DEF AnyStart, ConfigurationInit

(* Nothing is configured before the start.                                  *)
LEMMA SettingsInit == AnyStart => SettingsInv
<1> SUFFICES ASSUME AnyStart PROVE SettingsInv
  OBVIOUS
<1>1. ASSUME NEW v \in Numeric PROVE env[v] = Unset \/ env[v] \in Seq(Characters)
  <2>1. env[v] \in Input(v)
    BY DEF AnyStart, Variables
  <2>2. env[v] = Unset \/ env[v] \in BoundedSeq(Characters, MaxLength)
    BY <2>1 DEF Input
  <2> QED
    BY <2>2, Bounded, ConfigurationAssumption
<1> QED
  BY <1>1 DEF SettingsInv, AnyStart

(* The environment is read once, and what was read of it stays.             *)
LEMMA SettingsStep == SettingsInv /\ [ConfigurationNext]_configuration => SettingsInv'
<1> SUFFICES ASSUME SettingsInv, [ConfigurationNext]_configuration PROVE SettingsInv'
  OBVIOUS
<1>1. env' = env
  BY DEF ConfigurationNext, Start, Listen, Poll, configuration
<1>2. Valid' = Valid /\ Configured' = Configured
  BY <1>1 DEF Valid, Configured, Accepted, Transformed
<1>3. CASE Start
  BY <1>1, <1>2, <1>3 DEF SettingsInv, Start
<1>4. CASE Listen
  BY <1>1, <1>2, <1>4 DEF SettingsInv, Listen
<1>5. CASE Poll
  BY <1>1, <1>2, <1>5 DEF SettingsInv, Poll
<1>6. CASE UNCHANGED configuration
  BY <1>1, <1>2, <1>6 DEF SettingsInv, configuration
<1> QED
  BY <1>3, <1>4, <1>5, <1>6 DEF ConfigurationNext

(* In each deployment, with strings of any length.                          *)
THEOREM SettingsInvariance == DeploymentSpec => []SettingsInv
<1>1. Deploy => SettingsInv
  BY StartsAny, SettingsInit DEF Deploy
<1>2. SettingsInv /\ [Uses \/ Runs]_<<namesVars, configuration>> => SettingsInv'
  <2>1. [Uses \/ Runs]_<<namesVars, configuration>> => [ConfigurationNext]_configuration
    BY DEF Uses, Runs
  <2> QED
    BY <2>1, SettingsStep
<1> QED
  BY <1>1, <1>2, PTL DEF DeploymentSpec

(* Of the texts that are accepted only two become true.                     *)
LEMMA SettingsMemory == SettingsInv => InMemoryOnlyIfAsked
<1> SUFFICES ASSUME SettingsInv, config # Undefined, Repository = "memory"
             PROVE  env["USE_IN_MEMORY_REPOSITORY"] \in {"1", "true"}
  BY DEF InMemoryOnlyIfAsked
<1> DEFINE v == "USE_IN_MEMORY_REPOSITORY"
<1>1. Valid /\ config = Configured
  BY DEF SettingsInv
<1>2. v \in Variables /\ v \notin Numeric
  BY DEF Variables, Numeric, Texts
<1>3. config[v] = (env[v] \notin {Unset, "0", "false"})
  BY <1>1, <1>2 DEF Configured, Transformed
<1>4. env[v] \in AcceptedTexts[v]
  BY <1>1, <1>2 DEF Valid, Accepted
<1>5. AcceptedTexts[v] = {Unset, "0", "1", "true", "false"}
  BY DEF AcceptedTexts, Texts
<1>6. config[v]
  BY DEF Repository
<1> QED
  BY <1>3, <1>4, <1>5, <1>6

(* Examples are kept in memory only where that was asked for.               *)
THEOREM MemoryAskedFor == DeploymentSpec => []InMemoryOnlyIfAsked
  BY SettingsInvariance, SettingsMemory, PTL

(* What is configured for an accepted string is what parseInt reads of it.  *)
LEMMA SettingsNumbers == SettingsInv => NumbersAreTruncated
<1> SUFFICES ASSUME SettingsInv, config # Undefined, NEW v \in Numeric, env[v] # Unset
             PROVE
  LET m == Magnitude(env[v])
      dot == IF "." \in Range(m) THEN CHOOSE n \in DOMAIN m : m[n] = "." ELSE Len(m) + 1
      whole == SubSeq(m, 1, dot - 1)
      decimals == SubSeq(m, dot + 1, Len(m))
      cut == Number(whole \o decimals) \div TenTo[Len(decimals)]
  IN config[v] = CASE whole = <<>> -> NaN
                 [] whole # <<>> /\ Head(env[v]) = "-" -> -cut
                 [] OTHER -> cut
  BY DEF NumbersAreTruncated
<1> DEFINE m == Magnitude(env[v])
           dot == IF "." \in Range(m) THEN CHOOSE n \in DOMAIN m : m[n] = "." ELSE Len(m) + 1
           whole == SubSeq(m, 1, dot - 1)
           decimals == SubSeq(m, dot + 1, Len(m))
           cut == Number(whole \o decimals) \div TenTo[Len(decimals)]
<1>1. Valid /\ config = Configured
  BY DEF SettingsInv
<1>2. v \in Variables /\ v # "USE_IN_MEMORY_REPOSITORY" /\ v # "LOGGING_TYPE"
  BY DEF Variables, Numeric
<1>3. IsNumeric(env[v]) /\ env[v] \in Seq(Characters)
  BY <1>1, <1>2 DEF Valid, Accepted, SettingsInv
<1>4. config[v] = ParseInt(env[v])
  BY <1>1, <1>2 DEF Configured, Transformed
<1>5. /\ whole \in Seq(Range(Digits)) /\ decimals \in Seq(Range(Digits))
      /\ ParseInt(env[v]) = CASE whole = <<>> -> NaN
                            [] whole # <<>> /\ Head(env[v]) = "-" -> -Number(whole)
                            [] OTHER -> Number(whole)
  BY <1>3, ReadBeforeDot
<1>6. cut = Number(whole)
  BY <1>5, Cut
<1> HIDE DEF cut, whole, decimals, dot, m
<1>7. config[v] = CASE whole = <<>> -> NaN
                  [] whole # <<>> /\ Head(env[v]) = "-" -> -cut
                  [] OTHER -> cut
  BY <1>4, <1>5, <1>6
<1> QED
  BY <1>7 DEF cut, whole, decimals, dot, m

(* What a started process has for a number is the number written, cut.      *)
THEOREM NumbersCut == DeploymentSpec => []NumbersAreTruncated
  BY SettingsInvariance, SettingsNumbers, PTL

(* Digits without a sign are read to the last.                              *)
LEMMA ReadDigits ==
  ASSUME NEW s \in Seq(Range(Digits)), s # <<>>
  PROVE  ParseInt(s) = Number(s)
<1>1. "." \notin Range(Digits) /\ "+" \notin Range(Digits) /\ "-" \notin Range(Digits)
  <2>1. /\ DOMAIN Digits = 1..10
        /\ \A n \in 1..10 : Digits[n] # "." /\ Digits[n] # "+" /\ Digits[n] # "-"
    BY DEF Digits
  <2> QED
    BY <2>1 DEF Range
<1>2. Range(s) \subseteq Range(Digits) /\ Head(s) \in Range(Digits)
  BY RangeOfSeq, HeadTailProperties
<1>3. Magnitude(s) = s
  BY <1>1, <1>2 DEF Magnitude, Signed
<1>4. IsNumeric(s)
  BY <1>2, <1>3 DEF IsNumeric, AllDigits
<1> DEFINE whole == SubSeq(s, 1, Len(s) + 1 - 1)
<1>5. whole = s
  <2>1. Len(s) + 1 - 1 = Len(s)
    BY LenProperties
  <2> QED
    BY <2>1, SubSeqFull
<1> HIDE DEF whole
<1>6. ParseInt(s) = CASE whole = <<>> -> NaN
                    [] whole # <<>> /\ Head(s) = "-" -> -Number(whole)
                    [] OTHER -> Number(whole)
  <2>1. "." \notin Range(s)
    BY <1>1, <1>2
  <2> DEFINE dot == IF "." \in Range(s) THEN CHOOSE n \in DOMAIN s : s[n] = "." ELSE Len(s) + 1
             before == SubSeq(s, 1, dot - 1)
  <2>2. ParseInt(s) = CASE before = <<>> -> NaN
                      [] before # <<>> /\ Head(s) = "-" -> -Number(before)
                      [] OTHER -> Number(before)
    <3> DEFINE m == Magnitude(s)
               dotOfM == IF "." \in Range(m) THEN CHOOSE n \in DOMAIN m : m[n] = "." ELSE Len(m) + 1
               beforeOfM == SubSeq(m, 1, dotOfM - 1)
    <3>1. ParseInt(s) = CASE beforeOfM = <<>> -> NaN
                        [] beforeOfM # <<>> /\ Head(s) = "-" -> -Number(beforeOfM)
                        [] OTHER -> Number(beforeOfM)
      BY <1>4, ReadBeforeDot
    <3> QED
      BY <1>3, <3>1
  <2>3. dot = Len(s) + 1
    BY <2>1
  <2> HIDE DEF dot
  <2>4. before = whole
    BY <2>3 DEF whole
  <2> HIDE DEF before
  <2> QED
    BY <2>2, <2>4
<1> QED
  BY <1>1, <1>2, <1>5, <1>6

(* The defaults that something is wrong without.                            *)
LEMMA Defaults ==
  /\ ParseInt(Default["APP_PORT"]) = 3000
  /\ ParseInt(Default["SQS_QUEUE_BATCH_CONSUMER_SIZE"]) = 10
<1>1. /\ {"0", "1", "3"} \subseteq Range(Digits)
      /\ DigitOf["0"] = 0 /\ DigitOf["1"] = 1 /\ DigitOf["3"] = 3
  <2>1. /\ DOMAIN Digits = 1..10
        /\ \A n \in 1..10 : /\ Digits[n] = "0" <=> n = 1
                            /\ Digits[n] = "1" <=> n = 2
                            /\ Digits[n] = "3" <=> n = 4
    BY DEF Digits
  <2> HIDE DEF Digits
  <2>2. {"0", "1", "3"} \subseteq Range(Digits)
    BY <2>1 DEF Range
  <2>3. /\ (CHOOSE n \in DOMAIN Digits : Digits[n] = "0") = 1
        /\ (CHOOSE n \in DOMAIN Digits : Digits[n] = "1") = 2
        /\ (CHOOSE n \in DOMAIN Digits : Digits[n] = "3") = 4
    BY <2>1
  <2> QED
    BY <2>2, <2>3 DEF DigitOf
<1>2. ParseInt(Default["APP_PORT"]) = 3000
  <2> DEFINE s == <<"3", "0", "0", "0">>
  <2>1. /\ s \in Seq(Range(Digits)) /\ s # <<>> /\ Len(s) = 4
        /\ s[1] = "3" /\ s[2] = "0" /\ s[3] = "0" /\ s[4] = "0"
    BY <1>1
  <2>2. s = Default["APP_PORT"]
    BY DEF Default
  <2> HIDE DEF s
  <2>3. PICK f \in [0..Len(s) -> Nat] :
           /\ f[0] = 0 /\ f[Len(s)] = Number(s)
           /\ \A n \in 0..(Len(s) - 1) : f[n + 1] = 10 * f[n] + DigitOf[s[n + 1]]
    BY <2>1, Read
  <2>4. ASSUME NEW n \in Nat, n < 4
        PROVE  f[n + 1] = 10 * f[n] + DigitOf[s[n + 1]]
    <3>1. n \in 0..(Len(s) - 1)
      BY <2>1, <2>4
    <3> QED
      BY <2>3, <3>1
  <2>5. f[0 + 1] = 3
    BY <1>1, <2>1, <2>3, <2>4
  <2>6. f[1 + 1] = 30
    BY <1>1, <2>1, <2>4, <2>5
  <2>7. f[2 + 1] = 300
    BY <1>1, <2>1, <2>4, <2>6
  <2>8. f[3 + 1] = 3000
    BY <1>1, <2>1, <2>4, <2>7
  <2> QED
    BY <2>1, <2>2, <2>3, <2>8, ReadDigits
<1>3. ParseInt(Default["SQS_QUEUE_BATCH_CONSUMER_SIZE"]) = 10
  <2> DEFINE s == <<"1", "0">>
  <2>1. /\ s \in Seq(Range(Digits)) /\ s # <<>> /\ Len(s) = 2
        /\ s[1] = "1" /\ s[2] = "0"
    BY <1>1
  <2>2. s = Default["SQS_QUEUE_BATCH_CONSUMER_SIZE"]
    BY DEF Default
  <2> HIDE DEF s
  <2>3. PICK f \in [0..Len(s) -> Nat] :
           /\ f[0] = 0 /\ f[Len(s)] = Number(s)
           /\ \A n \in 0..(Len(s) - 1) : f[n + 1] = 10 * f[n] + DigitOf[s[n + 1]]
    BY <2>1, Read
  <2>4. ASSUME NEW n \in Nat, n < 2
        PROVE  f[n + 1] = 10 * f[n] + DigitOf[s[n + 1]]
    <3>1. n \in 0..(Len(s) - 1)
      BY <2>1, <2>4
    <3> QED
      BY <2>3, <3>1
  <2>5. f[0 + 1] = 1
    BY <1>1, <2>1, <2>3, <2>4
  <2>6. f[1 + 1] = 10
    <3>1. f[1 + 1] = 10 * f[1] + DigitOf[s[1 + 1]]
      BY <2>4
    <3>2. f[1] = 1 /\ DigitOf[s[1 + 1]] = 0
      BY <1>1, <2>1, <2>5
    <3> QED
      BY <3>1, <3>2
  <2> QED
    BY <2>1, <2>2, <2>3, <2>6, ReadDigits
<1> QED
  BY <1>2, <1>3

(* What is not set has its default, which is in the range of its use.       *)
LEMMA SettingsDefaults == SettingsInv => DefaultsWork
<1> SUFFICES ASSUME SettingsInv PROVE DefaultsWork
  OBVIOUS
<1> DEFINE port == "APP_PORT"
           size == "SQS_QUEUE_BATCH_CONSUMER_SIZE"
           wait == "SQS_QUEUE_WAIT_TIME_SECONDS"
<1>1. ASSUME process \in {"exited", "erring"} PROVE config = Configured
  BY <1>1 DEF SettingsInv
<1>2. ASSUME config = Configured, NEW v \in {port, size, wait}, env[v] = Unset
      PROVE  config[v] = IF v \in DOMAIN Default THEN ParseInt(Default[v]) ELSE Undefined
  <2>1. /\ v \in Variables /\ v \in Numeric
        /\ v # "USE_IN_MEMORY_REPOSITORY" /\ v # "LOGGING_TYPE"
    BY DEF Variables, Numeric
  <2> QED
    BY <1>2, <2>1 DEF Configured, Transformed
<1>3. port \in DOMAIN Default /\ size \in DOMAIN Default /\ wait \notin DOMAIN Default
  BY DEF Default
<1>4. process = "exited" => env[port] # Unset
  <2> SUFFICES ASSUME process = "exited", env[port] = Unset PROVE FALSE
    OBVIOUS
  <2>1. config[port] = 3000
    BY <1>1, <1>2, <1>3, Defaults
  <2>2. 3000 \in Ports
    BY DEF Ports
  <2> QED
    BY <2>1, <2>2 DEF SettingsInv
<1>5. process = "erring" => env[size] # Unset \/ env[wait] # Unset
  <2> SUFFICES ASSUME process = "erring", env[size] = Unset, env[wait] = Unset PROVE FALSE
    OBVIOUS
  <2>1. config[size] = 10 /\ config[wait] = Undefined
    BY <1>1, <1>2, <1>3, Defaults
  <2>2. ReceivesWith(10, Undefined)
    BY DEF ReceivesWith
  <2> QED
    BY <2>1, <2>2 DEF SettingsInv
<1> QED
  BY <1>4, <1>5 DEF DefaultsWork

(* A process that starts and then cannot do its work was told so.           *)
THEOREM DefaultsSuffice == DeploymentSpec => []DefaultsWork
  BY SettingsInvariance, SettingsDefaults, PTL

(* The three of them in any environment, whichever and however many of its  *)
(* variables are set, and not only where one differs from a plain one.      *)
THEOREM AnyEnvironment ==
  AnyStart /\ [][ConfigurationNext]_configuration =>
    [](NumbersAreTruncated /\ DefaultsWork /\ InMemoryOnlyIfAsked)
<1>1. AnyStart /\ [][ConfigurationNext]_configuration => []SettingsInv
  BY SettingsInit, SettingsStep, PTL
<1>2. SettingsInv => NumbersAreTruncated /\ DefaultsWork /\ InMemoryOnlyIfAsked
  BY SettingsNumbers, SettingsDefaults, SettingsMemory
<1> QED
  BY <1>1, <1>2, PTL
================================================================================
