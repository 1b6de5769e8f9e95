---------------------------- MODULE S3StorageProofs ----------------------------
(***************************************************************************)
(* Proofs about S3Storage, for any keys, calls of write and read, and any  *)
(* number of failing requests.                                             *)
(***************************************************************************)
EXTENDS S3Storage, TLAPS

Idle == [status : {"idle"}]

WriteCall == [status : {"sending", "applied", "resolved", "rejected"},
              key : Keys, before : SUBSET Writes]

ReadCall ==
  [status : {"sending"}, key : Keys, before : SUBSET Writes]
    \cup [status : {"resolved"}, key : Keys, before : SUBSET Writes,
          answer : Writes \cup {None}, failed : BOOLEAN]

TypeOK ==
  /\ object \in [Keys -> Writes \cup {None}]
  /\ sent \subseteq Writes
  /\ write \in [Writes -> Idle \cup WriteCall]
  /\ read \in [Reads -> Idle \cup ReadCall]

(* A request on its way is of a call that has not been told it was applied, *)
(* so no resolved write can come to replace an object.                      *)
SentInv ==
  \A w \in sent : write[w].status \in {"sending", "rejected"}

(* Once a write is applied its key has an object, and none that this write  *)
(* was called after.                                                        *)
AppliedInv ==
  \A w \in Writes : write[w].status \in {"applied", "resolved"} =>
    /\ object[write[w].key] # None
    /\ object[write[w].key] \notin write[w].before

(* What a call knows to be resolved stays so.                               *)
BeforeInv ==
  /\ \A w \in Writes : write[w].status # "idle" => write[w].before \subseteq Resolved
  /\ \A r \in Reads : read[r].status # "idle" => read[r].before \subseteq Resolved

IInv == TypeOK /\ SentInv /\ AppliedInv /\ BeforeInv /\ ResolvedIsRead

(* Nothing is called, sent or stored at first.                              *)
LEMMA IInvInit == Init => IInv
BY DEF Init, IInv, TypeOK, Idle, SentInv, AppliedInv, BeforeInv, ResolvedIsRead

(* A call that is not idle is a record of a key and what preceded it.       *)
LEMMA Called ==
  ASSUME IInv
  PROVE  /\ \A w \in Writes : write[w].status # "idle" => write[w] \in WriteCall
         /\ \A r \in Reads : read[r].status # "idle" => read[r] \in ReadCall
BY DEF IInv, TypeOK, Idle

(* A write is called: it knows what is resolved, and is nobody's past.      *)
LEMMA WriteStep ==
  ASSUME IInv, NEW w \in Writes, NEW k \in Keys, Write(w, k)
  PROVE  IInv'
<1>a. TypeOK /\ SentInv /\ AppliedInv /\ BeforeInv /\ ResolvedIsRead
  BY DEF IInv
<1>1. UNCHANGED <<object, read>> /\ sent' = sent \cup {w} /\ write[w].status = "idle"
  BY DEF Write
<1>2. write'[w] = [status |-> "sending", key |-> k, before |-> Resolved]
  BY <1>a DEF Write, TypeOK
<1>3. \A v \in Writes \ {w} : write'[v] = write[v]
  BY <1>a DEF Write, TypeOK
<1>4. Resolved' = Resolved /\ w \notin Resolved /\ Resolved \subseteq Writes
  BY <1>1, <1>2, <1>3 DEF Resolved
<1>5. TypeOK'
  <2>1. write'[w] \in WriteCall
    BY <1>2, <1>4 DEF WriteCall
  <2>2. write' \in [Writes -> Idle \cup WriteCall]
    BY <1>a, <2>1 DEF Write, TypeOK
  <2> QED
    BY <1>a, <1>1, <2>2 DEF TypeOK
<1>6. SentInv'
  BY <1>a, <1>1, <1>2, <1>3 DEF SentInv, TypeOK
<1>7. AppliedInv'
  BY <1>a, <1>1, <1>2, <1>3 DEF AppliedInv
<1>8. BeforeInv'
  BY <1>a, <1>1, <1>2, <1>3, <1>4 DEF BeforeInv
<1>9. ResolvedIsRead'
  <2>1. \A r \in Reads : read[r].status = "resolved" =>
          \A v \in read[r].before : v \in Writes /\ write'[v] = write[v]
    BY <1>a, <1>3, <1>4 DEF BeforeInv
  <2> QED
    BY <1>a, <1>1, <2>1 DEF ResolvedIsRead
<1> QED
  BY <1>5, <1>6, <1>7, <1>8, <1>9 DEF IInv

(* A write's status is all that changes of it: S3 applies it, or its answer *)
(* or error arrives.                                                        *)
LEMMA StatusStep ==
  ASSUME IInv, NEW w \in Writes, write[w].status # "idle",
         NEW s \in {"sending", "applied", "resolved", "rejected"},
         write' = [write EXCEPT ![w].status = s],
         write[w].status = "resolved" => s = "resolved",
         UNCHANGED read
  PROVE  /\ write' \in [Writes -> Idle \cup WriteCall]
         /\ Resolved \subseteq Resolved'
         /\ write'[w] = [status |-> s, key |-> write[w].key, before |-> write[w].before]
         /\ \A v \in Writes \ {w} : write'[v] = write[v]
         /\ BeforeInv'
         /\ ResolvedIsRead'
<1>a. TypeOK /\ BeforeInv /\ ResolvedIsRead
  BY DEF IInv
<1>1. write[w] \in WriteCall
  BY Called
<1>2. write'[w] = [status |-> s, key |-> write[w].key, before |-> write[w].before]
  BY <1>a, <1>1 DEF TypeOK, WriteCall
<1>3. \A v \in Writes \ {w} : write'[v] = write[v]
  BY <1>a DEF TypeOK
<1>4. write' \in [Writes -> Idle \cup WriteCall]
  <2>1. write'[w] \in WriteCall
    BY <1>1, <1>2 DEF WriteCall
  <2> QED
    BY <1>a, <2>1 DEF TypeOK
<1>5. Resolved \subseteq Resolved'
  BY <1>2, <1>3 DEF Resolved
<1>6. BeforeInv'
  BY <1>a, <1>2, <1>3, <1>5 DEF BeforeInv
<1>7. ResolvedIsRead'
  <2>1. \A v \in Writes : write'[v].before = write[v].before /\ write'[v].key = write[v].key
    BY <1>2, <1>3
  <2>2. \A r \in Reads : read[r].status = "resolved" => read[r].before \subseteq Writes
    BY <1>a DEF BeforeInv, Resolved
  <2> QED
    BY <1>a, <2>1, <2>2 DEF ResolvedIsRead
<1> QED
  BY <1>2, <1>3, <1>4, <1>5, <1>6, <1>7

(* S3 applies a write, told or not: it is not one that a call has preceded. *)
LEMMA PutAppliedStep ==
  ASSUME IInv, NEW w \in Writes, PutApplied(w)
  PROVE  IInv'
<1>a. TypeOK /\ SentInv /\ AppliedInv /\ BeforeInv
  BY DEF IInv
<1> DEFINE s == IF write[w].status = "sending" THEN "applied" ELSE write[w].status
<1>1. /\ w \in sent /\ sent' = sent \ {w} /\ UNCHANGED read
      /\ object' = [object EXCEPT ![write[w].key] = w]
      /\ write[w].status \in {"sending", "rejected"}
  BY <1>a DEF PutApplied, SentInv
<1>2. write[w] \in WriteCall
  BY <1>1, Called
<1>3. write' = [write EXCEPT ![w].status = s] /\ s \in {"applied", "rejected"}
  BY <1>1 DEF PutApplied
<1> HIDE DEF s
<1>4. /\ write' \in [Writes -> Idle \cup WriteCall]
      /\ write'[w] = [status |-> s, key |-> write[w].key, before |-> write[w].before]
      /\ \A v \in Writes \ {w} : write'[v] = write[v]
      /\ BeforeInv' /\ ResolvedIsRead'
  BY <1>1, <1>3, StatusStep
<1>5. TypeOK'
  BY <1>a, <1>1, <1>2, <1>4 DEF TypeOK, WriteCall
<1>6. SentInv'
  BY <1>a, <1>1, <1>4 DEF SentInv, TypeOK
<1>7. AppliedInv'
  <2>1. \A v \in Writes : write[v].status # "idle" => w \notin write[v].before
    BY <1>a, <1>1 DEF BeforeInv, Resolved
  <2>2. \A v \in Writes : write'[v].before = write[v].before /\ write'[v].key = write[v].key
    BY <1>4
  <2>3. \A k \in Keys : object'[k] = IF k = write[w].key THEN w ELSE object[k]
    BY <1>a, <1>1 DEF TypeOK
  <2>4. \A v \in Writes : write[v].status # "idle" => write[v].key \in Keys
    BY Called DEF WriteCall
  <2>5. w # None
    BY ConstantsAssumption
  <2> QED
    BY <1>a, <1>1, <1>4, <2>1, <2>2, <2>3, <2>4, <2>5 DEF AppliedInv
<1> QED
  BY <1>4, <1>5, <1>6, <1>7 DEF IInv

(* The answer of a write, or its error, changes nothing in the bucket.      *)
LEMMA WriteEndStep ==
  ASSUME IInv, NEW w \in Writes, WriteDone(w) \/ WriteError(w)
  PROVE  IInv'
<1>a. TypeOK /\ SentInv /\ AppliedInv
  BY DEF IInv
<1>1. PICK s \in {"resolved", "rejected"} :
        /\ write' = [write EXCEPT ![w].status = s]
        /\ s = "resolved" => write[w].status = "applied"
        /\ write[w].status \in {"sending", "applied"}
        /\ UNCHANGED <<object, sent, read>>
  BY DEF WriteDone, WriteError
<1>2. /\ write' \in [Writes -> Idle \cup WriteCall]
      /\ write'[w] = [status |-> s, key |-> write[w].key, before |-> write[w].before]
      /\ \A v \in Writes \ {w} : write'[v] = write[v]
      /\ BeforeInv' /\ ResolvedIsRead'
  BY <1>1, StatusStep
<1>3. TypeOK'
  BY <1>a, <1>1, <1>2 DEF TypeOK
<1>4. /\ write'[w].status = s /\ write'[w].key = write[w].key
      /\ write'[w].before = write[w].before
  BY <1>2
<1>5. SentInv'
  <2>1. ASSUME NEW v \in sent, v # w PROVE write'[v].status \in {"sending", "rejected"}
    BY <1>a, <1>2, <2>1 DEF SentInv, TypeOK
  <2>2. w \in sent => s = "rejected"
    BY <1>a, <1>1 DEF SentInv
  <2> QED
    BY <1>1, <1>4, <2>1, <2>2 DEF SentInv
<1>6. AppliedInv'
  <2>1. ASSUME NEW v \in Writes \ {w}, write'[v].status \in {"applied", "resolved"}
        PROVE  object[write'[v].key] # None /\ object[write'[v].key] \notin write'[v].before
    BY <1>a, <1>2, <2>1 DEF AppliedInv
  <2>2. CASE s = "resolved"
    BY <1>a, <1>1, <1>4, <2>1, <2>2 DEF AppliedInv
  <2>3. CASE s = "rejected"
    BY <1>1, <1>4, <2>1, <2>3 DEF AppliedInv
  <2> QED
    BY <1>1, <2>2, <2>3
<1> QED
  BY <1>2, <1>3, <1>5, <1>6 DEF IInv

(* A read takes what is resolved, and the answer what the bucket has.       *)
LEMMA ReadStep ==
  ASSUME IInv, NEW r \in Reads,
         \/ \E k \in Keys : Read(r, k)
         \/ ReadDone(r) \/ ReadMissing(r) \/ ReadError(r)
  PROVE  IInv'
<1>a. TypeOK /\ SentInv /\ AppliedInv /\ BeforeInv /\ ResolvedIsRead
  BY DEF IInv
<1>1. UNCHANGED <<object, sent, write>> /\ \A q \in Reads \ {r} : read'[q] = read[q]
  BY <1>a DEF Read, ReadDone, ReadMissing, ReadError, Answer, TypeOK
<1>2. Resolved' = Resolved /\ Resolved \subseteq Writes
  BY <1>1 DEF Resolved
<1>3. SentInv' /\ AppliedInv'
  BY <1>a, <1>1 DEF SentInv, AppliedInv
<1>4. ASSUME NEW k \in Keys, Read(r, k) PROVE IInv'
  <2>1. read'[r] = [status |-> "sending", key |-> k, before |-> Resolved]
    BY <1>a, <1>4 DEF Read, TypeOK
  <2>2. TypeOK'
    <3>1. read'[r] \in ReadCall
      BY <1>2, <2>1 DEF ReadCall
    <3>2. read' \in [Reads -> Idle \cup ReadCall]
      BY <1>a, <1>4, <3>1 DEF Read, TypeOK
    <3> QED
      BY <1>a, <1>1, <3>2 DEF TypeOK
  <2>3. BeforeInv'
    BY <1>a, <1>1, <1>2, <2>1 DEF BeforeInv
  <2>4. ResolvedIsRead'
    BY <1>a, <1>1, <2>1 DEF ResolvedIsRead
  <2> QED
    BY <1>3, <2>2, <2>3, <2>4 DEF IInv
<1>5. CASE ReadDone(r) \/ ReadMissing(r) \/ ReadError(r)
  <2>1. PICK value \in Writes \cup {None}, failed \in BOOLEAN :
          /\ read[r].status = "sending" /\ Answer(r, value, failed)
          /\ failed => value = None
          /\ failed \/ value = object[read[r].key]
    <3>1. read[r].status = "sending" => read[r].key \in Keys
      BY Called DEF ReadCall
    <3> QED
      BY <1>a, <1>5, <3>1 DEF ReadDone, ReadMissing, ReadError, TypeOK
  <2>2. read[r] \in ReadCall
    BY <2>1, Called
  <2>3. read'[r] = [status |-> "resolved", key |-> read[r].key, before |-> read[r].before,
                    answer |-> value, failed |-> failed]
    BY <1>a, <2>1 DEF Answer, TypeOK
  <2>4. TypeOK'
    <3>1. read'[r] \in ReadCall
      BY <2>2, <2>3 DEF ReadCall
    <3>2. read' \in [Reads -> Idle \cup ReadCall]
      BY <1>a, <2>1, <3>1 DEF Answer, TypeOK
    <3> QED
      BY <1>a, <1>1, <3>2 DEF TypeOK
  <2>5. BeforeInv'
    BY <1>a, <1>1, <1>2, <2>1, <2>3 DEF BeforeInv
  <2>6. ResolvedIsRead'
    <3> DEFINE owed == {w \in read[r].before : write[w].key = read[r].key}
    <3>1. \A w \in owed : w \in Writes /\ write[w].status = "resolved"
      BY <1>a, <2>1 DEF BeforeInv, Resolved
    <3>2. \A w \in owed : /\ object[read[r].key] # None
                           /\ object[read[r].key] \notin write[w].before
      BY <1>a, <3>1 DEF AppliedInv
    <3>3. IF value = None THEN owed = {} \/ failed
                          ELSE \A w \in owed : value \notin write[w].before
      BY <2>1, <3>2
    <3> QED
      BY <1>a, <1>1, <2>3, <3>3 DEF ResolvedIsRead
  <2> QED
    BY <1>3, <2>4, <2>5, <2>6 DEF IInv
<1> QED
  BY <1>4, <1>5

(* Every step keeps the inductive invariant.                                *)
LEMMA IInvStep == IInv /\ [Next]_vars => IInv'
<1> SUFFICES ASSUME IInv, [Next]_vars PROVE IInv'
  OBVIOUS
<1>1. CASE UNCHANGED vars
  BY <1>1
  DEF vars, IInv, TypeOK, SentInv, AppliedInv, BeforeInv, Resolved, ResolvedIsRead
<1> QED
  BY <1>1, WriteStep, PutAppliedStep, WriteEndStep, ReadStep DEF Next

(* A read that begins after a write of its key resolved is not answered     *)
(* with None, unless its request failed, nor with an older write, however   *)
(* many calls overlap, fail, or are applied after they were rejected.       *)
THEOREM ReadsWhatResolved == Spec => []ResolvedIsRead
<1>1. IInv => ResolvedIsRead
  BY DEF IInv
<1> QED
  BY <1>1, IInvInit, IInvStep, PTL DEF Spec
================================================================================
