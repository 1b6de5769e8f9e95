--------------------------- MODULE SQSListenerProofs ---------------------------
(***************************************************************************)
(* Proofs about SQSListener, for any commands, listeners, batch size and   *)
(* bounds.                                                                 *)
(***************************************************************************)
EXTENDS SQSListener, TLAPS

(* What SQS hands out keeps its type, and so do the receipts it comes with. *)
LEMMA HandOutType ==
  ASSUME TypeOK, NEW S \in SUBSET Receivable, HandOut(S)
  PROVE  /\ queue' \in [Messages -> {"unsent", "visible", "inflight", "deleted"}]
         /\ receives' \in [Messages -> 0..MaxReceives]
         /\ NewReceipts(S) \subseteq Receipt
<1>1. \A m \in Messages : receives[m] \in 0..MaxReceives
  BY DEF TypeOK
<1>2. \A m \in S : m \in Messages /\ Receives(m) \in 0..MaxReceives
  BY <1>1, ConstantsAssumption DEF Receivable, Receives
<1>3. /\ queue' \in [Messages -> {"unsent", "visible", "inflight", "deleted"}]
      /\ receives' \in [Messages -> 0..MaxReceives]
  BY <1>1, <1>2 DEF HandOut, TypeOK
<1>4. NewReceipts(S) \subseteq Receipt
  BY <1>2 DEF NewReceipts, Receipt
<1> QED
  BY <1>3, <1>4

(* Every variable keeps its type.  LoopInv is needed for the write of the   *)
(* receipt being executed: a listener that stores has one.                  *)
LEMMA TypeStep == TypeOK /\ LoopInv /\ [Next]_vars => TypeOK'
<1> SUFFICES ASSUME TypeOK, LoopInv, [Next]_vars PROVE TypeOK'
  OBVIOUS
<1> USE DEF TypeOK, Alive, Working, Fault, sqsVars, effectVars, loopVars
<1>1. ASSUME NEW c \in Commands,
             Accept(c) \/ SQSAccepts(c) \/ Respond(c) \/ RespondError(c)
      PROVE  TypeOK'
  BY <1>1, ConstantsAssumption DEF Accept, SQSAccepts, Respond, RespondError, Messages
<1>2. ASSUME NEW m \in Foreign, SendForeign(m) PROVE TypeOK'
  BY <1>2 DEF SendForeign, Messages
<1>3. ASSUME NEW m \in Messages, VisibilityTimeout(m) \/ VisibilityTooShort(m)
      PROVE  TypeOK'
  BY <1>3, ConstantsAssumption DEF VisibilityTimeout, VisibilityTooShort
<1>4. ASSUME NEW p \in Listeners, NextMessage(p)
      PROVE  /\ pc' \in [Listeners -> Alive \cup {"ended", "down"}]
             /\ batch' \in [Listeners -> SUBSET Receipt]
             /\ current' \in [Listeners -> Receipt \cup {NoReceipt}]
             /\ subscribed' \in [Listeners -> SUBSET Receipt]
             /\ resolved' \in [Listeners -> BOOLEAN]
  BY <1>4 DEF NextMessage
<1>5. ASSUME NEW p \in Listeners, LoopStep(p) PROVE TypeOK'
  <2>1. CASE Listen(p)
    BY <2>1 DEF Listen
  <2>2. CASE Receive(p)
    <3>1. PICK S \in SUBSET Receivable :
            HandOut(S) /\ batch' = [batch EXCEPT ![p] = NewReceipts(S)]
      BY <2>2 DEF Receive
    <3>2. /\ queue' \in [Messages -> {"unsent", "visible", "inflight", "deleted"}]
          /\ receives' \in [Messages -> 0..MaxReceives]
          /\ batch' \in [Listeners -> SUBSET Receipt]
      BY <3>1, HandOutType
    <3>3. /\ pc' = [pc EXCEPT ![p] = "next"]
          /\ UNCHANGED <<request, stored, published, current, subscribed,
                         resolved, stopped, faults>>
      BY <2>2 DEF Receive
    <3> QED
      BY <3>2, <3>3
  <2>3. CASE EndBatch(p)
    BY <2>3 DEF EndBatch
  <2>4. CASE RejectPayload(p)
    BY <2>4 DEF RejectPayload
  <2>5. CASE StartCommand(p)
    BY <2>5 DEF StartCommand
  <2>6. CASE StoreApplied(p)
    BY <2>6 DEF StoreApplied, LoopInv
  <2>7. CASE StoreDone(p)
    BY <2>7 DEF StoreDone
  <2>8. CASE PublishDone(p)
    BY <2>8, <1>4 DEF PublishDone
  <2>9. CASE DeleteApplied(p)
    BY <2>9 DEF DeleteApplied
  <2>10. CASE DeleteDone(p)
    BY <2>10, <1>4 DEF DeleteDone
  <2> QED
    BY <1>5, <2>1, <2>2, <2>3, <2>4, <2>5, <2>6, <2>7, <2>8, <2>9, <2>10 DEF LoopStep
<1>6. ASSUME NEW p \in Listeners, LoopFault(p) PROVE TypeOK'
  <2>1. CASE ReceiveError(p)
    <3>1. PICK S \in SUBSET Receivable : HandOut(S)
      BY <2>1 DEF ReceiveError
    <3> QED
      BY <2>1, <3>1, HandOutType, ConstantsAssumption DEF ReceiveError
  <2>2. CASE StoreError(p) \/ PublishError(p) \/ DeleteError(p)
    BY <2>2, <1>4, ConstantsAssumption DEF StoreError, PublishError, DeleteError
  <2>3. CASE Crash(p)
    <3>1. PICK S \in SUBSET Receivable : HandOut(S)
      BY <2>3 DEF Crash
    <3> QED
      BY <2>3, <3>1, HandOutType, ConstantsAssumption DEF Crash
  <2> QED
    BY <1>6, <2>1, <2>2, <2>3 DEF LoopFault
<1>7. ASSUME NEW p \in Listeners, Stop(p) \/ Restart(p) PROVE TypeOK'
  BY <1>7 DEF Stop, Restart
<1>8. CASE UNCHANGED vars
  BY <1>8 DEF vars
<1> HIDE DEF TypeOK, Alive, Working, Fault, sqsVars, effectVars, loopVars
<1> QED
  BY <1>1, <1>2, <1>3, <1>5, <1>6, <1>7, <1>8 DEF Next, Messages

(* The effect of handing out S, message by message.                         *)
LEMMA HandOutEffect ==
  ASSUME TypeOK, NEW S \in SUBSET Receivable, HandOut(S), NEW m \in Messages
  PROVE  /\ m \in S => /\ queue[m] = "visible" /\ queue'[m] = "inflight"
                       /\ receives'[m] = Receives(m)
                       /\ m \in Commands => receives'[m] = receives[m] + 1
                       /\ m \notin Commands => receives'[m] = receives[m]
         /\ m \notin S => queue'[m] = queue[m] /\ receives'[m] = receives[m]
<1>1. /\ queue'[m] = IF m \in S THEN "inflight" ELSE queue[m]
      /\ receives'[m] = IF m \in S THEN Receives(m) ELSE receives[m]
  BY DEF HandOut
<1> QED
  BY <1>1 DEF Receivable, Receives

(* What a listener holds when it goes on to its next message.               *)
LEMMA NextMessageEffect ==
  ASSUME TypeOK, NEW p \in Listeners, NextMessage(p)
  PROVE  /\ pc'[p] = "next" /\ current'[p] = NoReceipt
         /\ batch'[p] = batch[p] \ {current[p]}
         /\ subscribed'[p] = subscribed[p] \ {current[p]}
         /\ \A q \in Listeners \ {p} :
              /\ pc'[q] = pc[q] /\ current'[q] = current[q]
              /\ batch'[q] = batch[q] /\ subscribed'[q] = subscribed[q]
              /\ resolved'[q] = resolved[q]
  BY DEF TypeOK, NextMessage

(* Each listener holds what its control point says.                         *)
LEMMA LoopInvStep == TypeOK /\ LoopInv /\ NoCrossMessageEvents /\ [Next]_vars => LoopInv'
<1> SUFFICES ASSUME TypeOK, LoopInv, NoCrossMessageEvents, [Next]_vars,
                    NEW q \in Listeners
             PROVE  LoopInv!(q)'
  BY DEF LoopInv
<1> USE DEF TypeOK, Working, Fault, sqsVars, effectVars, loopVars
<1>1. CASE /\ UNCHANGED loopVars
           /\ stored \subseteq stored'
           /\ published \subseteq published'
  BY <1>1 DEF LoopInv
<1>2. ASSUME NEW c \in Commands,
             Accept(c) \/ SQSAccepts(c) \/ Respond(c) \/ RespondError(c)
      PROVE  LoopInv!(q)'
  BY <1>1, <1>2 DEF Accept, SQSAccepts, Respond, RespondError
<1>3. ASSUME NEW m \in Messages,
             SendForeign(m) \/ VisibilityTimeout(m) \/ VisibilityTooShort(m)
      PROVE  LoopInv!(q)'
  BY <1>1, <1>3 DEF SendForeign, VisibilityTimeout, VisibilityTooShort
<1>4. ASSUME NEW p \in Listeners, NextMessage(p), UNCHANGED effectVars
      PROVE  LoopInv!(q)'
  BY <1>4, NextMessageEffect DEF LoopInv
<1>5. ASSUME NEW p \in Listeners, LoopStep(p) PROVE LoopInv!(q)'
  <2>1. CASE Listen(p)
    BY <2>1 DEF Listen, LoopInv
  <2>2. CASE Receive(p)
    BY <2>2 DEF Receive, LoopInv
  <2>3. CASE EndBatch(p)
    BY <2>3 DEF EndBatch, LoopInv
  <2>4. CASE RejectPayload(p)
    BY <2>4 DEF RejectPayload, LoopInv
  <2>5. CASE StartCommand(p)
    BY <2>5 DEF StartCommand, LoopInv
  <2>6. CASE StoreApplied(p) \/ DeleteApplied(p)
    BY <1>1, <2>6 DEF StoreApplied, DeleteApplied
  <2>7. CASE StoreDone(p)
    BY <2>7 DEF StoreDone, LoopInv, NoCrossMessageEvents
  <2>8. CASE PublishDone(p)
    BY <2>8, <1>4 DEF PublishDone, LoopInv
  <2>9. CASE DeleteDone(p)
    BY <2>9, <1>4 DEF DeleteDone
  <2> QED
    BY <1>5, <2>1, <2>2, <2>3, <2>4, <2>5, <2>6, <2>7, <2>8, <2>9 DEF LoopStep
<1>6. ASSUME NEW p \in Listeners, LoopFault(p) PROVE LoopInv!(q)'
  <2>1. CASE ReceiveError(p)
    BY <2>1 DEF ReceiveError, LoopInv
  <2>2. CASE StoreError(p) \/ PublishError(p) \/ DeleteError(p)
    BY <2>2, <1>4 DEF StoreError, PublishError, DeleteError
  <2>3. CASE Crash(p)
    BY <2>3 DEF Crash, LoopInv
  <2> QED
    BY <1>6, <2>1, <2>2, <2>3 DEF LoopFault
<1>7. ASSUME NEW p \in Listeners, Stop(p) \/ Restart(p) PROVE LoopInv!(q)'
  BY <1>7 DEF Stop, Restart, LoopInv
<1>8. CASE UNCHANGED vars
  BY <1>1, <1>8 DEF vars
<1> HIDE DEF TypeOK, Working, Fault, sqsVars, effectVars, loopVars
<1> QED
  BY <1>2, <1>3, <1>5, <1>6, <1>7, <1>8 DEF Next, Messages

(* The resolver's callbacks are registered for exactly one execution.       *)
LEMMA NoCrossStep ==
  TypeOK /\ LoopInv /\ NoCrossMessageEvents /\ [Next]_vars => NoCrossMessageEvents'
<1> SUFFICES ASSUME TypeOK, LoopInv, NoCrossMessageEvents, [Next]_vars,
                    NEW q \in Listeners
             PROVE  NoCrossMessageEvents!(q)'
  BY DEF NoCrossMessageEvents
<1> USE DEF TypeOK, Working, Fault, sqsVars, effectVars, loopVars
<1>1. CASE UNCHANGED <<pc, current, subscribed>>
  BY <1>1 DEF NoCrossMessageEvents
<1>2. ASSUME NEW c \in Commands,
             Accept(c) \/ SQSAccepts(c) \/ Respond(c) \/ RespondError(c)
      PROVE  NoCrossMessageEvents!(q)'
  BY <1>1, <1>2 DEF Accept, SQSAccepts, Respond, RespondError
<1>3. ASSUME NEW m \in Messages,
             SendForeign(m) \/ VisibilityTimeout(m) \/ VisibilityTooShort(m)
      PROVE  NoCrossMessageEvents!(q)'
  BY <1>1, <1>3 DEF SendForeign, VisibilityTimeout, VisibilityTooShort
<1>4. ASSUME NEW p \in Listeners, pc[p] \in Working, NextMessage(p)
      PROVE  NoCrossMessageEvents!(q)'
  BY <1>4, NextMessageEffect DEF NoCrossMessageEvents
<1>5. ASSUME NEW p \in Listeners, LoopStep(p) PROVE NoCrossMessageEvents!(q)'
  <2>1. CASE Listen(p) \/ Receive(p) \/ EndBatch(p) \/ RejectPayload(p)
    BY <2>1 DEF Listen, Receive, EndBatch, RejectPayload, NoCrossMessageEvents
  <2>2. CASE StartCommand(p)
    BY <2>2 DEF StartCommand, NoCrossMessageEvents
  <2>3. CASE StoreApplied(p) \/ DeleteApplied(p)
    BY <1>1, <2>3 DEF StoreApplied, DeleteApplied
  <2>4. CASE StoreDone(p)
    BY <2>4 DEF StoreDone, NoCrossMessageEvents
  <2>5. CASE PublishDone(p)
    BY <2>5, <1>4 DEF PublishDone, NoCrossMessageEvents
  <2>6. CASE DeleteDone(p)
    BY <2>6, <1>4 DEF DeleteDone
  <2> QED
    BY <1>5, <2>1, <2>2, <2>3, <2>4, <2>5, <2>6 DEF LoopStep
<1>6. ASSUME NEW p \in Listeners, LoopFault(p) PROVE NoCrossMessageEvents!(q)'
  <2>1. CASE ReceiveError(p)
    BY <2>1 DEF ReceiveError, NoCrossMessageEvents
  <2>2. CASE StoreError(p) \/ PublishError(p) \/ DeleteError(p)
    BY <2>2, <1>4 DEF StoreError, PublishError, DeleteError
  <2>3. CASE Crash(p)
    BY <2>3 DEF Crash, NoCrossMessageEvents
  <2> QED
    BY <1>6, <2>1, <2>2, <2>3 DEF LoopFault
<1>7. ASSUME NEW p \in Listeners, Stop(p) \/ Restart(p)
      PROVE  NoCrossMessageEvents!(q)'
  BY <1>7 DEF Stop, Restart, NoCrossMessageEvents
<1>8. CASE UNCHANGED vars
  BY <1>1, <1>8 DEF vars
<1> HIDE DEF TypeOK, Working, Fault, sqsVars, effectVars, loopVars
<1> QED
  BY <1>2, <1>3, <1>5, <1>6, <1>7, <1>8 DEF Next, Messages

(* The steps that may change what SQS holds, and those that cannot.         *)
LEMMA SQSStep ==
  ASSUME TypeOK, [Next]_vars
  PROVE  \/ UNCHANGED sqsVars
         \/ /\ UNCHANGED <<receives, batch, stored, published, request>>
            /\ \/ \E c \in Commands : SQSAccepts(c)
               \/ \E m \in Foreign : SendForeign(m)
               \/ \E m \in Messages : VisibilityTimeout(m) \/ VisibilityTooShort(m)
               \/ \E p \in Listeners : DeleteApplied(p)
         \/ /\ UNCHANGED <<stored, published, request>>
            /\ \E p \in Listeners : Receive(p) \/ ReceiveError(p) \/ Crash(p)
<1> USE DEF sqsVars, effectVars, loopVars, NextMessage
<1>1. ASSUME NEW c \in Commands, Accept(c) \/ Respond(c) \/ RespondError(c)
      PROVE  UNCHANGED sqsVars
  BY <1>1 DEF Accept, Respond, RespondError
<1>2. ASSUME NEW c \in Commands, SQSAccepts(c)
      PROVE  UNCHANGED <<receives, batch, stored, published, request>>
  BY <1>2 DEF SQSAccepts
<1>3. ASSUME NEW m \in Messages,
             SendForeign(m) \/ VisibilityTimeout(m) \/ VisibilityTooShort(m)
      PROVE  UNCHANGED <<receives, batch, stored, published, request>>
  BY <1>3 DEF SendForeign, VisibilityTimeout, VisibilityTooShort
<1>4. ASSUME NEW p \in Listeners, DeleteApplied(p)
      PROVE  UNCHANGED <<receives, batch, stored, published, request>>
  BY <1>4 DEF DeleteApplied
<1>5. ASSUME NEW p \in Listeners, Receive(p) \/ ReceiveError(p) \/ Crash(p)
      PROVE  UNCHANGED <<stored, published, request>>
  BY <1>5 DEF Receive, ReceiveError, Crash
<1>6. ASSUME NEW p \in Listeners,
             \/ Listen(p) \/ EndBatch(p) \/ RejectPayload(p) \/ StartCommand(p)
             \/ StoreApplied(p) \/ StoreDone(p) \/ PublishDone(p) \/ DeleteDone(p)
      PROVE  UNCHANGED sqsVars
  BY <1>6 DEF Listen, EndBatch, RejectPayload, StartCommand, StoreApplied,
              StoreDone, PublishDone, DeleteDone
<1>7. ASSUME NEW p \in Listeners,
             \/ StoreError(p) \/ PublishError(p) \/ DeleteError(p)
             \/ Stop(p) \/ Restart(p)
      PROVE  UNCHANGED sqsVars
  BY <1>7 DEF StoreError, PublishError, DeleteError, Stop, Restart
<1>8. CASE UNCHANGED vars
  BY <1>8 DEF vars
<1> HIDE DEF sqsVars, effectVars, loopVars, NextMessage
<1> QED
  BY <1>1, <1>2, <1>3, <1>4, <1>5, <1>6, <1>7, <1>8
  DEF Next, LoopStep, LoopFault, Messages

(* A listener's batch only shrinks, except by a receive.                    *)
LEMMA BatchStep ==
  ASSUME TypeOK, [Next]_vars, NEW p \in Listeners
  PROVE  batch'[p] \subseteq batch[p] \/ Receive(p)
<1> USE DEF TypeOK, sqsVars, effectVars, loopVars, NextMessage
<1>1. ASSUME NEW c \in Commands,
             Accept(c) \/ SQSAccepts(c) \/ Respond(c) \/ RespondError(c)
      PROVE  batch'[p] \subseteq batch[p]
  BY <1>1 DEF Accept, SQSAccepts, Respond, RespondError
<1>2. ASSUME NEW m \in Messages,
             SendForeign(m) \/ VisibilityTimeout(m) \/ VisibilityTooShort(m)
      PROVE  batch'[p] \subseteq batch[p]
  BY <1>2 DEF SendForeign, VisibilityTimeout, VisibilityTooShort
<1>3. ASSUME NEW q \in Listeners, LoopStep(q) \/ LoopFault(q)
      PROVE  batch'[p] \subseteq batch[p] \/ Receive(p)
  <2>1. CASE \/ Listen(q) \/ EndBatch(q) \/ RejectPayload(q) \/ StartCommand(q)
             \/ StoreApplied(q) \/ StoreDone(q) \/ PublishDone(q)
             \/ DeleteApplied(q) \/ DeleteDone(q)
    BY <2>1 DEF Listen, EndBatch, RejectPayload, StartCommand, StoreApplied,
                StoreDone, PublishDone, DeleteApplied, DeleteDone
  <2>2. CASE Receive(q)
    BY <2>2 DEF Receive
  <2>3. CASE LoopFault(q)
    BY <2>3 DEF LoopFault, ReceiveError, StoreError, PublishError, DeleteError, Crash
  <2> QED
    BY <1>3, <2>1, <2>2, <2>3 DEF LoopStep
<1>4. ASSUME NEW q \in Listeners, Stop(q) \/ Restart(q)
      PROVE  batch'[p] \subseteq batch[p]
  BY <1>4 DEF Stop, Restart
<1>5. CASE UNCHANGED vars
  BY <1>5 DEF vars
<1> HIDE DEF TypeOK, sqsVars, effectVars, loopVars, NextMessage
<1> QED
  BY <1>1, <1>2, <1>3, <1>4, <1>5 DEF Next, Messages

(* SQS counts up, and only a message that was sent is received.             *)
LEMMA SQSMonotone ==
  ASSUME TypeOK, ReceiptsInv, [Next]_vars, NEW m \in Messages
  PROVE  /\ receives'[m] >= receives[m]
         /\ queue[m] # "unsent" => queue'[m] # "unsent"
         /\ queue[m] = "deleted" => queue'[m] = "deleted"
         /\ m \in Commands =>
              /\ queue'[m] = "unsent" => receives'[m] = 0
              /\ queue'[m] = "inflight" => receives'[m] >= 1
<1> USE DEF ReceiptsInv
<1>1. CASE UNCHANGED sqsVars
  BY <1>1 DEF sqsVars, TypeOK
<1>2. CASE /\ UNCHANGED receives
           /\ \/ \E c \in Commands : SQSAccepts(c)
              \/ \E k \in Foreign : SendForeign(k)
              \/ \E k \in Messages : VisibilityTimeout(k) \/ VisibilityTooShort(k)
              \/ \E p \in Listeners : DeleteApplied(p)
  BY <1>2 DEF TypeOK, SQSAccepts, SendForeign, VisibilityTimeout,
              VisibilityTooShort, DeleteApplied, Messages
<1>3. CASE \E p \in Listeners : Receive(p) \/ ReceiveError(p) \/ Crash(p)
  <2>1. PICK S \in SUBSET Receivable : HandOut(S)
    BY <1>3 DEF Receive, ReceiveError, Crash
  <2> QED
    BY <2>1, HandOutEffect DEF TypeOK
<1> QED
  BY <1>1, <1>2, <1>3, SQSStep

(* Receipts stay counted.                                                   *)
LEMMA ReceiptsStep == TypeOK /\ ReceiptsInv /\ [Next]_vars => ReceiptsInv'
<1> SUFFICES ASSUME TypeOK, ReceiptsInv, [Next]_vars PROVE ReceiptsInv'
  OBVIOUS
<1>1. ASSUME NEW p \in Listeners, NEW r \in batch'[p]
      PROVE  r.gen <= receives'[r.msg] /\ (r.msg \in Commands => r.gen >= 1)
  <2>1. CASE batch'[p] \subseteq batch[p]
    <3>1. /\ r \in Receipt /\ r.gen <= receives[r.msg]
          /\ r.msg \in Commands => r.gen >= 1
      BY <1>1, <2>1 DEF TypeOK, ReceiptsInv
    <3>2. /\ r.msg \in Messages /\ r.gen \in Nat
          /\ receives[r.msg] \in Nat /\ receives'[r.msg] >= receives[r.msg]
      BY <3>1, SQSMonotone, ConstantsAssumption DEF Receipt, TypeOK
    <3>3. receives'[r.msg] \in Nat
      <4>1. UNCHANGED receives \/ \E S \in SUBSET Receivable : HandOut(S)
        BY SQSStep DEF sqsVars, Receive, ReceiveError, Crash
      <4> QED
        BY <3>2, <4>1, HandOutEffect
    <3> QED
      BY <3>1, <3>2, <3>3
  <2>2. CASE Receive(p)
    <3>1. PICK S \in SUBSET Receivable :
            HandOut(S) /\ batch' = [batch EXCEPT ![p] = NewReceipts(S)]
      BY <2>2 DEF Receive
    <3>2. PICK m \in S : r = [msg |-> m, gen |-> Receives(m)]
      BY <1>1, <3>1 DEF TypeOK, NewReceipts
    <3>3. m \in Messages
      BY DEF Receivable
    <3>4. r.gen <= receives'[r.msg]
      BY <3>1, <3>2, <3>3, HandOutEffect DEF TypeOK
    <3>5. m \in Commands => Receives(m) >= 1
      BY <3>3, ConstantsAssumption DEF TypeOK, Receives
    <3> QED
      BY <3>2, <3>4, <3>5
  <2> QED
    BY <2>1, <2>2, BatchStep
<1> QED
  BY <1>1, SQSMonotone DEF ReceiptsInv, Messages

(* A listener lets go of the latest delivery of a command that is still in  *)
(* flight only in a fault.                                                  *)
LEMMA HeldStep ==
  ASSUME TypeOK, LoopInv, [Next]_vars, UNCHANGED sqsVars,
         NEW c \in Commands, queue[c] = "inflight", Held(c)
  PROVE  Held(c)' \/ faults' = faults + 1
<1> USE DEF sqsVars, effectVars, loopVars
<1>1. PICK p \in Listeners : LatestReceipt(c) \in batch[p]
  BY DEF Held
<1>2. SUFFICES ASSUME faults' # faults + 1
               PROVE  LatestReceipt(c) \in batch'[p]
  BY <1>1 DEF Held, LatestReceipt
<1>3. CASE UNCHANGED batch
  BY <1>1, <1>3
<1>4. ASSUME NEW q \in Listeners, NextMessage(q), pc[q] \in Working,
             current[q] # LatestReceipt(c)
      PROVE  LatestReceipt(c) \in batch'[p]
  BY <1>1, <1>4 DEF NextMessage, TypeOK
<1>5. ASSUME NEW q \in Listeners, LoopStep(q)
      PROVE  LatestReceipt(c) \in batch'[p]
  <2>1. CASE Receive(q)
    BY <1>1, <2>1 DEF Receive, LoopInv, TypeOK
  <2>2. CASE RejectPayload(q)
    <3>1. PICK r \in batch[q] : /\ r.msg \in Foreign
                                /\ batch' = [batch EXCEPT ![q] = @ \ {r}]
      BY <2>2 DEF RejectPayload
    <3>2. r # LatestReceipt(c)
      BY <3>1, ConstantsAssumption DEF LatestReceipt
    <3> QED
      BY <1>1, <3>1, <3>2 DEF TypeOK
  <2>3. CASE PublishDone(q)
    BY <1>3, <2>3 DEF PublishDone, LoopInv
  <2>4. CASE DeleteDone(q)
    <3>1. current[q] # LatestReceipt(c)
      BY <2>4 DEF DeleteDone, LatestReceipt
    <3> QED
      BY <1>4, <2>4, <3>1 DEF DeleteDone, Working
  <2>5. CASE \/ Listen(q) \/ EndBatch(q) \/ StartCommand(q) \/ StoreApplied(q)
             \/ StoreDone(q) \/ DeleteApplied(q)
    BY <1>3, <2>5 DEF Listen, EndBatch, StartCommand, StoreApplied, StoreDone,
                      DeleteApplied
  <2> QED
    BY <1>5, <2>1, <2>2, <2>3, <2>4, <2>5 DEF LoopStep
<1>6. ASSUME NEW q \in Listeners, LoopFault(q) PROVE FALSE
  BY <1>2, <1>6 DEF LoopFault, ReceiveError, StoreError, PublishError,
                    DeleteError, Crash, Fault
<1>7. ASSUME NEW q \in Listeners, Stop(q) \/ Restart(q) PROVE UNCHANGED batch
  BY <1>7 DEF Stop, Restart
<1>8. ASSUME NEW d \in Commands,
             Accept(d) \/ SQSAccepts(d) \/ Respond(d) \/ RespondError(d)
      PROVE  UNCHANGED batch
  BY <1>8 DEF Accept, SQSAccepts, Respond, RespondError
<1>9. ASSUME NEW m \in Messages,
             SendForeign(m) \/ VisibilityTimeout(m) \/ VisibilityTooShort(m)
      PROVE  UNCHANGED batch
  BY <1>9 DEF SendForeign, VisibilityTimeout, VisibilityTooShort
<1>10. CASE UNCHANGED vars
  BY <1>3, <1>10 DEF vars
<1> HIDE DEF sqsVars, effectVars, loopVars
<1> QED
  BY <1>3, <1>5, <1>6, <1>7, <1>8, <1>9, <1>10 DEF Next, Messages

(* Faults are only counted up.                                              *)
LEMMA FaultsStep ==
  ASSUME TypeOK, [Next]_vars
  PROVE  faults' = faults \/ faults' = faults + 1
<1> USE DEF Fault
<1>1. ASSUME NEW c \in Commands,
             Accept(c) \/ SQSAccepts(c) \/ Respond(c) \/ RespondError(c)
      PROVE  faults' = faults \/ faults' = faults + 1
  BY <1>1 DEF Accept, SQSAccepts, Respond, RespondError
<1>2. ASSUME NEW m \in Messages,
             SendForeign(m) \/ VisibilityTimeout(m) \/ VisibilityTooShort(m)
      PROVE  faults' = faults \/ faults' = faults + 1
  BY <1>2 DEF SendForeign, VisibilityTimeout, VisibilityTooShort
<1>3. ASSUME NEW p \in Listeners, LoopStep(p) \/ Stop(p) \/ Restart(p)
      PROVE  faults' = faults
  BY <1>3 DEF LoopStep, Listen, Receive, EndBatch, RejectPayload, StartCommand,
              StoreApplied, StoreDone, PublishDone, DeleteApplied, DeleteDone,
              Stop, Restart
<1>4. ASSUME NEW p \in Listeners, LoopFault(p) PROVE faults' = faults + 1
  BY <1>4 DEF LoopFault, ReceiveError, StoreError, PublishError, DeleteError, Crash
<1>5. CASE UNCHANGED vars
  BY <1>5 DEF vars
<1> HIDE DEF Fault
<1> QED
  BY <1>1, <1>2, <1>3, <1>4, <1>5 DEF Next, Messages

(* A command is up for redelivery only after a fault of its own.            *)
LEMMA DeliveryStep ==
  TypeOK /\ ReceiptsInv /\ LoopInv /\ DeliveryInv /\ [Next]_vars => DeliveryInv'
<1> SUFFICES ASSUME TypeOK, ReceiptsInv, LoopInv, DeliveryInv, [Next]_vars,
                    NEW c \in Commands
             PROVE  DeliveryInv!(c)'
  BY DEF DeliveryInv
<1>1. /\ c \in Messages /\ receives[c] \in Nat /\ faults \in Nat
      /\ faults' = faults \/ faults' = faults + 1
      /\ queue[c] \in {"unsent", "visible", "inflight", "deleted"}
  BY FaultsStep, ConstantsAssumption DEF TypeOK, Messages
<1>2. CASE UNCHANGED sqsVars
  BY <1>1, <1>2, HeldStep DEF DeliveryInv, sqsVars
<1>3. CASE /\ UNCHANGED <<receives, batch>>
           /\ \/ \E d \in Commands : SQSAccepts(d)
              \/ \E m \in Foreign : SendForeign(m)
              \/ \E m \in Messages : VisibilityTimeout(m) \/ VisibilityTooShort(m)
              \/ \E p \in Listeners : DeleteApplied(p)
  <2>1. Held(c)' <=> Held(c)
    BY <1>3 DEF Held, LatestReceipt
  <2>2. CASE queue'[c] = queue[c]
    BY <1>1, <1>3, <2>1, <2>2 DEF DeliveryInv
  <2>3. CASE \E d \in Commands : SQSAccepts(d)
    BY <1>1, <1>3, <2>1, <2>3 DEF DeliveryInv, ReceiptsInv, SQSAccepts, TypeOK
  <2>4. CASE \E m \in Foreign : SendForeign(m)
    BY <2>2, <2>4, <1>1, ConstantsAssumption DEF SendForeign, TypeOK
  <2>5. CASE \E m \in Messages : VisibilityTimeout(m)
    BY <1>1, <1>3, <2>1, <2>5 DEF DeliveryInv, VisibilityTimeout, TypeOK
  <2>6. CASE \E m \in Messages : VisibilityTooShort(m)
    BY <1>1, <1>3, <2>1, <2>6 DEF DeliveryInv, VisibilityTooShort, Fault, TypeOK
  <2>7. CASE \E p \in Listeners : DeleteApplied(p)
    BY <1>1, <1>3, <2>1, <2>7 DEF DeliveryInv, DeleteApplied, TypeOK
  <2> QED
    BY <1>3, <2>3, <2>4, <2>5, <2>6, <2>7
<1>4. ASSUME NEW p \in Listeners, Receive(p) PROVE DeliveryInv!(c)'
  <2>1. PICK S \in SUBSET Receivable :
          HandOut(S) /\ batch' = [batch EXCEPT ![p] = NewReceipts(S)]
    BY <1>4 DEF Receive
  <2>2. CASE c \in S
    <3>1. Held(c)'
      <4>1. receives'[c] = receives[c] + 1
        BY <1>1, <2>1, <2>2, HandOutEffect
      <4>2. LatestReceipt(c)' \in NewReceipts(S)
        BY <2>2, <4>1 DEF LatestReceipt, NewReceipts, Receives
      <4> QED
        BY <2>1, <4>2 DEF Held, TypeOK
    <3> QED
      BY <1>1, <2>1, <2>2, <3>1, HandOutEffect DEF DeliveryInv
  <2>3. CASE c \notin S
    <3>1. queue'[c] = queue[c] /\ receives'[c] = receives[c]
      BY <1>1, <2>1, <2>3, HandOutEffect
    <3>2. Held(c) => Held(c)'
      BY <1>4, <2>1, <3>1 DEF Held, LatestReceipt, Receive, LoopInv, TypeOK
    <3> QED
      BY <1>1, <3>1, <3>2 DEF DeliveryInv
  <2> QED
    BY <2>2, <2>3
<1>5. ASSUME NEW p \in Listeners, ReceiveError(p) \/ Crash(p)
      PROVE  DeliveryInv!(c)'
  <2>1. PICK S \in SUBSET Receivable : HandOut(S)
    BY <1>5 DEF ReceiveError, Crash
  <2>2. faults' = faults + 1
    BY <1>5 DEF ReceiveError, Crash, Fault
  <2>3. receives'[c] <= faults'
    BY <1>1, <2>1, <2>2, HandOutEffect DEF DeliveryInv
  <2>4. receives'[c] \in Nat
    BY <1>1, <2>1, HandOutEffect
  <2> QED
    BY <1>1, <2>2, <2>3, <2>4
<1> QED
  BY <1>2, <1>3, <1>4, <1>5, SQSStep

(* A created answer needs a message SQS has, and SQS keeps it.              *)
LEMMA AcceptedStep ==
  TypeOK /\ ReceiptsInv /\ AcceptedInv /\ [Next]_vars => AcceptedInv'
<1> SUFFICES ASSUME TypeOK, ReceiptsInv, AcceptedInv, [Next]_vars,
                    NEW c \in Commands, request'[c] = "created"
             PROVE  queue'[c] # "unsent"
  BY DEF AcceptedInv
<1>1. c \in Messages
  BY DEF Messages
<1>2. CASE request[c] = "created"
  BY <1>1, <1>2, SQSMonotone DEF AcceptedInv
<1>3. CASE request'[c] # request[c]
  <2>1. ASSUME NEW d \in Commands, Respond(d) PROVE queue[c] # "unsent"
    BY <1>3, <2>1 DEF Respond, TypeOK
  <2>2. ASSUME NEW d \in Commands, Accept(d) \/ SQSAccepts(d) \/ RespondError(d)
        PROVE  FALSE
    BY <1>3, <2>2 DEF Accept, SQSAccepts, RespondError, TypeOK
  <2>3. ASSUME NEW m \in Messages,
               SendForeign(m) \/ VisibilityTimeout(m) \/ VisibilityTooShort(m)
        PROVE  FALSE
    BY <1>3, <2>3 DEF SendForeign, VisibilityTimeout, VisibilityTooShort
  <2>4. ASSUME NEW p \in Listeners,
               LoopStep(p) \/ LoopFault(p) \/ Stop(p) \/ Restart(p)
        PROVE  FALSE
    BY <1>3, <2>4
    DEF LoopStep, LoopFault, Listen, Receive, EndBatch, RejectPayload,
        StartCommand, StoreApplied, StoreDone, PublishDone, DeleteApplied,
        DeleteDone, ReceiveError, StoreError, PublishError, DeleteError, Crash,
        Stop, Restart
  <2>5. CASE UNCHANGED vars
    BY <1>3, <2>5 DEF vars
  <2> QED
    BY <1>1, <2>1, <2>2, <2>3, <2>4, <2>5, SQSMonotone DEF Next, Messages
<1> QED
  BY <1>2, <1>3

(* Writes and events are never taken back; a write is that of a listener    *)
(* in storing, and an event follows its write.                              *)
LEMMA EffectStep ==
  ASSUME TypeOK, LoopInv, [Next]_vars
  PROVE  \/ UNCHANGED effectVars
         \/ \E p \in Listeners : StoreApplied(p) \/ StoreDone(p)
<1>1. ASSUME NEW c \in Commands,
             Accept(c) \/ SQSAccepts(c) \/ Respond(c) \/ RespondError(c)
      PROVE  UNCHANGED effectVars
  BY <1>1 DEF Accept, SQSAccepts, Respond, RespondError
<1>2. ASSUME NEW m \in Messages,
             SendForeign(m) \/ VisibilityTimeout(m) \/ VisibilityTooShort(m)
      PROVE  UNCHANGED effectVars
  BY <1>2 DEF SendForeign, VisibilityTimeout, VisibilityTooShort
<1>3. ASSUME NEW p \in Listeners,
             LoopStep(p) \/ LoopFault(p) \/ Stop(p) \/ Restart(p)
      PROVE  UNCHANGED effectVars \/ StoreApplied(p) \/ StoreDone(p)
  BY <1>3
  DEF LoopStep, LoopFault, Listen, Receive, EndBatch, RejectPayload,
      StartCommand, PublishDone, DeleteApplied, DeleteDone, ReceiveError,
      StoreError, PublishError, DeleteError, Crash, Stop, Restart
<1>4. CASE UNCHANGED vars
  BY <1>4 DEF vars
<1> QED
  BY <1>1, <1>2, <1>3, <1>4 DEF Next, Messages

(* An event is only emitted for a receipt whose write took effect.          *)
LEMMA WriteStep == TypeOK /\ LoopInv /\ WriteInv /\ [Next]_vars => WriteInv'
  BY EffectStep DEF WriteInv, StoreApplied, StoreDone, effectVars

(* The only step that takes a message off the queue is the delete of a      *)
(* receipt whose example is stored and whose event is out.                  *)
LEMMA NoLostStep ==
  TypeOK /\ LoopInv /\ NoLostCommand /\ [Next]_vars => NoLostCommand'
<1> SUFFICES ASSUME TypeOK, LoopInv, NoLostCommand, [Next]_vars,
                    NEW m \in Messages, queue'[m] = "deleted"
             PROVE  m \in Commands /\ \E r \in (stored \cap published)' : r.msg = m
  BY DEF NoLostCommand
<1>1. stored \cap published \subseteq (stored \cap published)'
  BY EffectStep DEF StoreApplied, StoreDone, effectVars
<1>2. CASE queue[m] = "deleted"
  BY <1>1, <1>2 DEF NoLostCommand
<1>3. CASE queue[m] # "deleted"
  <2>1. CASE UNCHANGED sqsVars
    BY <1>3, <2>1 DEF sqsVars
  <2>2. CASE \/ \E c \in Commands : SQSAccepts(c)
             \/ \E k \in Foreign : SendForeign(k)
             \/ \E k \in Messages : VisibilityTimeout(k) \/ VisibilityTooShort(k)
    BY <1>3, <2>2 DEF SQSAccepts, SendForeign, VisibilityTimeout,
                      VisibilityTooShort, TypeOK
  <2>3. ASSUME NEW p \in Listeners, DeleteApplied(p)
        PROVE  m \in Commands /\ \E r \in stored \cap published : r.msg = m
    <3>1. m = current[p].msg
      BY <1>3, <2>3 DEF DeleteApplied, TypeOK
    <3>2. current[p] \in stored \cap published /\ current[p].msg \in Commands
      BY <2>3 DEF DeleteApplied, LoopInv, Working
    <3> QED
      BY <3>1, <3>2
  <2>4. CASE \E p \in Listeners : Receive(p) \/ ReceiveError(p) \/ Crash(p)
    <3>1. PICK S \in SUBSET Receivable : HandOut(S)
      BY <2>4 DEF Receive, ReceiveError, Crash
    <3> QED
      BY <1>3, <3>1, HandOutEffect
  <2> QED
    BY <1>1, <2>1, <2>2, <2>3, <2>4, SQSStep
<1> QED
  BY <1>2, <1>3

--------------------------------------------------------------------------------
(* The inductive invariant holds initially.                                 *)
LEMMA IInvInit == Init => IInv
<1> SUFFICES ASSUME Init PROVE IInv
  OBVIOUS
<1> USE ConstantsAssumption DEF Init
<1>1. TypeOK
  BY DEF TypeOK, Alive, Working
<1>2. ReceiptsInv /\ AcceptedInv /\ NoLostCommand /\ WriteInv
  BY DEF ReceiptsInv, AcceptedInv, NoLostCommand, WriteInv, Messages
<1>3. LoopInv /\ NoCrossMessageEvents
  BY DEF LoopInv, NoCrossMessageEvents, Working
<1>4. DeliveryInv
  BY DEF DeliveryInv, Messages
<1> QED
  BY <1>1, <1>2, <1>3, <1>4 DEF IInv

(* Every step preserves it.                                                 *)
LEMMA IInvStep == IInv /\ [Next]_vars => IInv'
  BY TypeStep, ReceiptsStep, LoopInvStep, NoCrossStep, DeliveryStep,
     AcceptedStep, NoLostStep, WriteStep
  DEF IInv

(* The invariant that all theorems below rest on.                           *)
THEOREM Invariance == Spec => []IInv
  BY IInvInit, IInvStep, PTL DEF Spec

(* The variables keep their types.                                          *)
THEOREM TypeCorrect == Spec => []TypeOK
<1>1. IInv => TypeOK
  BY DEF IInv
<1> QED
  BY <1>1, Invariance, PTL

(* A message leaves the queue only if one delivery of it stored the example *)
(* and announced it, and never if its payload is invalid.                   *)
THEOREM NoCommandLost == Spec => []NoLostCommand
<1>1. IInv => NoLostCommand
  BY DEF IInv
<1> QED
  BY <1>1, Invariance, PTL

(* What was answered 201 is queued or stored.                               *)
THEOREM AcknowledgedIsDurable == Spec => []AcknowledgedSurvives
<1>1. IInv => AcknowledgedSurvives
  BY DEF IInv, TypeOK, AcceptedInv, NoLostCommand, AcknowledgedSurvives, Did,
         Messages
<1> QED
  BY <1>1, Invariance, PTL

(* The resolver hears events of one message at a time.                      *)
THEOREM SequentialEvents == Spec => []NoCrossMessageEvents
<1>1. IInv => NoCrossMessageEvents
  BY DEF IInv
<1> QED
  BY <1>1, Invariance, PTL

(* Without faults every command is received once; each fault costs one more *)
(* delivery at most.                                                        *)
THEOREM RedeliveriesCounted == Spec => []RedeliveryNeedsFault
<1>1. IInv => RedeliveryNeedsFault
  BY DEF IInv, DeliveryInv, RedeliveryNeedsFault
<1> QED
  BY <1>1, Invariance, PTL

(* Only a listener that waits and is not stopped starts a poll.             *)
LEMMA PollStep ==
  ASSUME TypeOK, [Next]_vars, NEW p \in Listeners, stopped[p], pc[p] # "receiving"
  PROVE  pc'[p] # "receiving"
<1> USE DEF TypeOK
<1>1. ASSUME NEW q \in Listeners, NextMessage(q) PROVE pc'[p] # "receiving"
  BY <1>1 DEF NextMessage
<1>2. ASSUME NEW q \in Listeners, LoopStep(q) PROVE pc'[p] # "receiving"
  BY <1>1, <1>2
  DEF LoopStep, Listen, Receive, EndBatch, RejectPayload, StartCommand,
      StoreApplied, StoreDone, PublishDone, DeleteApplied, DeleteDone, loopVars
<1>3. ASSUME NEW q \in Listeners, LoopFault(q) PROVE pc'[p] # "receiving"
  BY <1>1, <1>3
  DEF LoopFault, ReceiveError, StoreError, PublishError, DeleteError, Crash
<1>4. ASSUME NEW q \in Listeners, Stop(q) \/ Restart(q) PROVE pc'[p] # "receiving"
  BY <1>4 DEF Stop, Restart
<1>5. CASE UNCHANGED pc
  BY <1>5
<1> QED
  BY <1>2, <1>3, <1>4, <1>5
  DEF Next, vars, loopVars, Accept, SQSAccepts, Respond, RespondError,
      SendForeign, VisibilityTimeout, VisibilityTooShort

(* A stopped listener takes no new messages.                                *)
THEOREM StoppedDrains == Spec => StopDrains
<1>1. IInv /\ [Next]_vars =>
        [\A p \in Listeners :
           stopped[p] /\ pc[p] # "receiving" =>
             pc'[p] # "receiving" /\ batch'[p] \subseteq batch[p]]_vars
  BY BatchStep, PollStep DEF IInv, Receive
<1> QED
  BY <1>1, Invariance, PTL DEF Spec, StopDrains

--------------------------------------------------------------------------------
(* The refinement of CommandDelivery. *)

AbstractPhase == [c \in Commands |-> Phase(c)]
AbstractApplied == {c \in Commands : Did(c, stored)}
AbstractAnnounced == {c \in Commands : Did(c, published)}

(* Only these steps are seen by CommandDelivery.                            *)
LEMMA StutterStep ==
  ASSUME IInv, [Next]_vars
  PROVE  \/ \E c \in Commands :
              Accept(c) \/ SQSAccepts(c) \/ Respond(c) \/ RespondError(c)
         \/ \E p \in Listeners : StoreApplied(p) \/ StoreDone(p) \/ DeleteApplied(p)
         \/ UNCHANGED <<request, AbstractPhase, AbstractApplied, AbstractAnnounced>>
<1> USE DEF AbstractPhase, AbstractApplied, AbstractAnnounced, Phase
<1>1. CASE UNCHANGED <<request, queue, stored, published>>
  BY <1>1 DEF Did
<1>2. ASSUME NEW m \in Messages,
             \/ m \in Foreign /\ SendForeign(m)
             \/ VisibilityTimeout(m) \/ VisibilityTooShort(m)
      PROVE  UNCHANGED <<request, AbstractPhase, AbstractApplied, AbstractAnnounced>>
  <2>1. UNCHANGED <<request, stored, published>>
    BY <1>2 DEF SendForeign, VisibilityTimeout, VisibilityTooShort, effectVars
  <2>2. ASSUME NEW c \in Commands PROVE Phase(c)' = Phase(c)
    BY <1>2, ConstantsAssumption
    DEF SendForeign, VisibilityTimeout, VisibilityTooShort, IInv, TypeOK, Messages
  <2> QED
    BY <2>1, <2>2 DEF Did
<1>3. ASSUME NEW p \in Listeners, Receive(p) \/ ReceiveError(p) \/ Crash(p)
      PROVE  UNCHANGED <<request, AbstractPhase, AbstractApplied, AbstractAnnounced>>
  <2>1. UNCHANGED <<request, stored, published>>
    BY <1>3 DEF Receive, ReceiveError, Crash, effectVars
  <2>2. PICK S \in SUBSET Receivable : HandOut(S)
    BY <1>3 DEF Receive, ReceiveError, Crash
  <2>3. ASSUME NEW c \in Commands PROVE Phase(c)' = Phase(c)
    <3>1. c \in Messages
      BY DEF Messages
    <3> QED
      BY <2>2, <3>1, HandOutEffect DEF IInv
  <2> QED
    BY <2>1, <2>3 DEF Did
<1>4. ASSUME NEW p \in Listeners,
             \/ Listen(p) \/ EndBatch(p) \/ RejectPayload(p) \/ StartCommand(p)
             \/ PublishDone(p) \/ DeleteDone(p)
             \/ StoreError(p) \/ PublishError(p) \/ DeleteError(p)
             \/ Stop(p) \/ Restart(p)
      PROVE  UNCHANGED <<request, queue, stored, published>>
  BY <1>4
  DEF Listen, EndBatch, RejectPayload, StartCommand, PublishDone, DeleteDone,
      StoreError, PublishError, DeleteError, Stop, Restart, sqsVars, effectVars
<1>5. CASE UNCHANGED vars
  BY <1>1, <1>5 DEF vars, sqsVars, effectVars
<1> HIDE DEF AbstractPhase, AbstractApplied, AbstractAnnounced, Phase
<1> QED
  BY <1>1, <1>2, <1>3, <1>4, <1>5 DEF Next, LoopStep, LoopFault, Messages

(* A delivery in progress is of a command that is queued, or retired after  *)
(* an earlier delivery did it all.                                          *)
LEMMA InProgress ==
  ASSUME IInv, NEW p \in Listeners, pc[p] \in Working
  PROVE  LET c == current[p].msg IN
         /\ c \in Commands
         /\ queue[c] # "unsent"
         /\ queue[c] = "deleted" => Did(c, stored) /\ Did(c, published)
<1>1. current[p] \in batch[p] /\ current[p] \in Receipt /\ current[p].msg \in Commands
  BY DEF IInv, LoopInv, TypeOK
<1>2. current[p].gen >= 1 /\ current[p].gen <= receives[current[p].msg]
  BY <1>1, ConstantsAssumption DEF IInv, ReceiptsInv, Receipt
<1>3. current[p].msg \in Messages
  BY <1>1 DEF Messages
<1>4. receives[current[p].msg] # 0
  BY <1>1, <1>2, <1>3, ConstantsAssumption DEF IInv, TypeOK, Receipt
<1> QED
  BY <1>1, <1>3, <1>4 DEF IInv, ReceiptsInv, NoLostCommand, Did

(* Every step is one of CommandDelivery or leaves its variables alone.      *)
LEMMA RefinementStep ==
  IInv /\ [Next]_vars => [Delivery!Next]_(Delivery!vars)
<1> SUFFICES ASSUME IInv, [Next]_vars PROVE [Delivery!Next]_(Delivery!vars)
  OBVIOUS
<1>a. TypeOK
  BY DEF IInv
<1>b. Commands \subseteq Messages
  BY DEF Messages
<1>1. ASSUME NEW c \in Commands, Accept(c) PROVE Delivery!Request(c)
  BY <1>1 DEF Accept, Delivery!Request, sqsVars, effectVars, Phase, Did
<1>2. ASSUME NEW c \in Commands, SQSAccepts(c) PROVE Delivery!Enqueue(c)
  BY <1>2, <1>a, <1>b
  DEF SQSAccepts, Delivery!Enqueue, effectVars, Phase, Did, TypeOK
<1>3. ASSUME NEW c \in Commands, Respond(c) PROVE Delivery!AnswerCreated(c)
  BY <1>3, <1>a, <1>b
  DEF Respond, Delivery!AnswerCreated, sqsVars, effectVars, Phase, Did, TypeOK
<1>4. ASSUME NEW c \in Commands, RespondError(c) PROVE Delivery!AnswerError(c)
  BY <1>4 DEF RespondError, Delivery!AnswerError, sqsVars, effectVars, Phase, Did
<1>5. ASSUME NEW p \in Listeners, StoreApplied(p)
      PROVE  [Delivery!Apply(current[p].msg)]_(Delivery!vars)
  <2> DEFINE c == current[p].msg
  <2>1. c \in Commands /\ queue[c] # "unsent" /\ (queue[c] = "deleted" => Did(c, stored))
    BY <1>5, InProgress DEF StoreApplied, Working
  <2>2. UNCHANGED <<request, queue, published>> /\ stored' = stored \cup {current[p]}
    BY <1>5 DEF StoreApplied, sqsVars
  <2>3. {d \in Commands : Did(d, stored')} = {d \in Commands : Did(d, stored)} \cup {c}
    BY <2>1, <2>2 DEF Did
  <2>4. CASE queue[c] = "deleted"
    BY <2>1, <2>2, <2>3, <2>4 DEF Delivery!vars, Phase, Did
  <2>5. CASE queue[c] # "deleted"
    BY <2>1, <2>2, <2>3, <2>5 DEF Delivery!Apply, Phase, Did
  <2> QED
    BY <2>4, <2>5
<1>6. ASSUME NEW p \in Listeners, StoreDone(p)
      PROVE  [Delivery!Announce(current[p].msg)]_(Delivery!vars)
  <2> DEFINE c == current[p].msg
  <2>1. /\ c \in Commands /\ queue[c] # "unsent"
        /\ queue[c] = "deleted" => Did(c, published)
        /\ Did(c, stored)
    BY <1>6, InProgress DEF StoreDone, Working, Did
  <2>2. UNCHANGED <<request, queue, stored>> /\ published' = published \cup {current[p]}
    BY <1>6 DEF StoreDone, sqsVars
  <2>3. {d \in Commands : Did(d, published')} = {d \in Commands : Did(d, published)} \cup {c}
    BY <2>1, <2>2 DEF Did
  <2>4. CASE queue[c] = "deleted"
    BY <2>1, <2>2, <2>3, <2>4 DEF Delivery!vars, Phase, Did
  <2>5. CASE queue[c] # "deleted"
    BY <2>1, <2>2, <2>3, <2>5 DEF Delivery!Announce, Phase, Did
  <2> QED
    BY <2>4, <2>5
<1>7. ASSUME NEW p \in Listeners, DeleteApplied(p)
      PROVE  Delivery!Retire(current[p].msg)
  <2> DEFINE c == current[p].msg
  <2>1. c \in Commands /\ Did(c, published)
    BY <1>7, InProgress DEF DeleteApplied, Working, IInv, LoopInv, Did
  <2>2. /\ UNCHANGED <<request, stored, published>>
        /\ queue[c] \in {"visible", "inflight"}
        /\ queue' = [queue EXCEPT ![c] = "deleted"]
    BY <1>7 DEF DeleteApplied, effectVars
  <2> QED
    BY <2>1, <2>2, <1>a, <1>b DEF Delivery!Retire, Phase, Did, TypeOK
<1>8. CASE UNCHANGED <<request, AbstractPhase, AbstractApplied, AbstractAnnounced>>
  BY <1>8 DEF Delivery!vars, AbstractPhase, AbstractApplied, AbstractAnnounced
<1>9. ASSUME NEW p \in Listeners, pc[p] \in Working PROVE current[p].msg \in Commands
  BY <1>9, InProgress
<1> QED
  BY <1>1, <1>2, <1>3, <1>4, <1>5, <1>6, <1>7, <1>8, <1>9, StutterStep
  DEF Delivery!Next, StoreApplied, StoreDone, DeleteApplied, Working

(* The controller, the queue, the listeners and the handler deliver every   *)
(* command as CommandDelivery promises, with any number of listeners.       *)
THEOREM Refinement == Spec => ImplementsDelivery
<1>1. Init => Delivery!Init
  BY DEF Init, Delivery!Init, Phase, Did, Messages
<1>2. IInv /\ [Next]_vars => [Delivery!Next]_(Delivery!vars)
  BY RefinementStep
<1> QED
  BY <1>1, <1>2, Invariance, PTL DEF Spec, ImplementsDelivery, Delivery!Spec
================================================================================
