----------------------------- MODULE S3Storage -----------------------------
(***************************************************************************)
(* S3StorageWriter and S3StorageReader on one bucket.  A write that is     *)
(* rejected may have been applied, or be applied later; a read that fails  *)
(* is answered None, as is one of a key that has no object.                *)
(***************************************************************************)
EXTENDS Naturals

CONSTANTS Keys, Writes, Reads,
          MaxFaults      \* bounds the requests that fail

None == "None"

ASSUME ConstantsAssumption == None \notin Writes

VARIABLES
  object,    \* the bucket: of each key the write it has its object from
  sent,      \* PutObject requests on their way
  write,     \* calls of write: status, key, and the writes resolved before
  read,      \* calls of read: status, key, the writes resolved before, the
             \* answer, and whether the request failed
  faults
vars == <<object, sent, write, read, faults>>

Resolved == {w \in Writes : write[w].status = "resolved"}

Init ==
  /\ object = [k \in Keys |-> None]
  /\ sent = {}
  /\ write = [w \in Writes |-> [status |-> "idle"]]
  /\ read = [r \in Reads |-> [status |-> "idle"]]
  /\ faults = 0

Write(w, k) ==
  /\ write[w].status = "idle"
  /\ write' = [write EXCEPT ![w] = [status |-> "sending", key |-> k, before |-> Resolved]]
  /\ sent' = sent \cup {w}
  /\ UNCHANGED <<object, read, faults>>

\* S3 replaces an object as a whole.
PutApplied(w) ==
  /\ w \in sent
  /\ sent' = sent \ {w}
  /\ object' = [object EXCEPT ![write[w].key] = w]
  /\ write' = [write EXCEPT ![w].status = IF @ = "sending" THEN "applied" ELSE @]
  /\ UNCHANGED <<read, faults>>

\* The answer comes back; finally logs "Uploaded file to S3".
WriteDone(w) ==
  /\ write[w].status = "applied"
  /\ write' = [write EXCEPT ![w].status = "resolved"]
  /\ UNCHANGED <<object, sent, read, faults>>

\* Defect: the error is logged where it is caught, as the reader does.
WriteErrorLogged(w) ==
  /\ write[w].status \in {"sending", "applied"} /\ faults < MaxFaults
  /\ write' = [write EXCEPT ![w].status = "resolved"]
  /\ faults' = faults + 1
  /\ UNCHANGED <<object, sent, read>>

\* The request fails, applied or not; finally logs the same and the promise rejects.
WriteError(w) ==
  /\ write[w].status \in {"sending", "applied"} /\ faults < MaxFaults
  /\ write' = [write EXCEPT ![w].status = "rejected"]
  /\ faults' = faults + 1
  /\ UNCHANGED <<object, sent, read>>

Read(r, k) ==
  /\ read[r].status = "idle"
  /\ read' = [read EXCEPT ![r] = [status |-> "sending", key |-> k, before |-> Resolved]]
  /\ UNCHANGED <<object, sent, write, faults>>

Answer(r, value, failed) ==
  read' = [read EXCEPT ![r] = [status |-> "resolved", key |-> @.key, before |-> @.before,
                               answer |-> value, failed |-> failed]]

ReadDone(r) ==
  /\ read[r].status = "sending" /\ object[read[r].key] # None
  /\ Answer(r, object[read[r].key], FALSE)
  /\ UNCHANGED <<object, sent, write, faults>>

\* NoSuchKey is an error of the client as any other: logged, and None.
ReadMissing(r) ==
  /\ read[r].status = "sending" /\ object[read[r].key] = None
  /\ Answer(r, None, FALSE)
  /\ UNCHANGED <<object, sent, write, faults>>

ReadError(r) ==
  /\ read[r].status = "sending" /\ faults < MaxFaults
  /\ Answer(r, None, TRUE)
  /\ faults' = faults + 1
  /\ UNCHANGED <<object, sent, write>>

Next ==
  \/ \E w \in Writes, k \in Keys : Write(w, k)
  \/ \E w \in Writes : PutApplied(w) \/ WriteDone(w) \/ WriteError(w)
  \/ \E r \in Reads, k \in Keys : Read(r, k)
  \/ \E r \in Reads : ReadDone(r) \/ ReadMissing(r) \/ ReadError(r)

Spec == Init /\ [][Next]_vars

-----------------------------------------------------------------------------
(***************************************************************************)
(* A read that begins after a write of its key has resolved is answered    *)
(* with that write or one that is not older; None it is answered only if   *)
(* its own request failed.  Rejected writes may be read at any time.       *)
(* (s3-storage-writer.ts:20-32, s3-storage-reader.ts:33-42)                *)
(***************************************************************************)
ResolvedIsRead ==
  \A r \in {q \in Reads : read[q].status = "resolved"} :
    LET owed == {w \in read[r].before : write[w].key = read[r].key}
    IN IF read[r].answer = None
         THEN owed = {} \/ read[r].failed
         ELSE \A w \in owed : read[r].answer \notin write[w].before
=============================================================================
