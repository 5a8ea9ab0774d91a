--------------------------- MODULE CourierProofs ---------------------------
(***************************************************************************)
(* Safety of the courier for every number of messages and workers, every   *)
(* pull count, retry limit and number of faults.                           *)
(***************************************************************************)
EXTENDS Courier, FiniteSetTheorems, TLAPS

\* A worker that works on messages[k] has such a message.
Active == {"dispatch", "rejected", "markSent", "recordSuccess",
           "recordFailure", "requeue"}
CursorInBatch ==
    \A w \in Workers : pc[w] \in Active => k[w] =< Len(batch[w])

-----------------------------------------------------------------------------
(* Helpers *)

\* The number of rows a poll selects is a natural number.
LEMMA PullSizeNat ==
    ASSUME NEW Q \in SUBSET Messages
    PROVE  PullSize(Q) \in Nat
<1>1. IsFiniteSet(Messages)
    BY CourierAssumption, FS_Interval DEF Messages
<1>2. Cardinality(Q) \in Nat
    BY <1>1, FS_Subset, FS_CardinalityType
<1> QED BY <1>2, CourierAssumption DEF PullSize

\* Every entry of a batch names a message.
LEMMA PulledMessage ==
    ASSUME LocalType, NEW w \in Workers, NEW n \in Nat \ {0}, n =< Len(batch[w])
    PROVE  /\ batch[w][n].id \in Messages
           /\ batch[w][n].sendCount \in Nat
<1>1. batch[w] \in Seq(Pulled)
    BY DEF LocalType
<1>2. n \in 1 .. Len(batch[w])
    BY <1>1
<1>3. batch[w][n] \in Pulled
    BY <1>1, <1>2
<1> QED BY <1>3 DEF Pulled

\* While the cursor is inside the batch, Current is one of the pulled messages.
LEMMA CurrentMessage ==
    ASSUME TypeOK, NEW w \in Workers, k[w] =< Len(batch[w])
    PROVE  /\ Current(w).id \in Messages
           /\ Current(w).sendCount \in Nat
<1>1. k[w] \in Nat \ {0}
    BY DEF TypeOK, LocalType
<1> QED BY <1>1, PulledMessage DEF TypeOK, Current

\* What a worker holds are messages.
LEMMA HoldingMessages ==
    ASSUME TypeOK, NEW w \in Workers
    PROVE  Holding(w) \subseteq Messages
<1>1. Cursor(w) \in Nat \ {0}
    BY DEF TypeOK, LocalType, Cursor
<1>2. Len(batch[w]) \in Nat
    BY DEF TypeOK, LocalType
<1>3. ASSUME NEW n \in Cursor(w) .. Len(batch[w])
      PROVE  batch[w][n].id \in Messages
    BY <1>1, <1>2, PulledMessage DEF TypeOK
<1> QED BY <1>3 DEF Holding, IdsFrom

\* The end of DispatchQueue keeps the types and leaves no cursor behind.
LEMMA ForgetType ==
    ASSUME TypeOK, CursorInBatch, NEW w \in Workers,
           NEW label \in Pcs \ Active, Forget(w, label)
    PROVE  /\ LocalType'
           /\ CursorInBatch'
           /\ orphaned' \in SUBSET Messages
<1>1. Holding(w) \subseteq Messages
    BY HoldingMessages
<1>2. LocalType'
    BY DEF TypeOK, LocalType, Forget, Goto
<1>3. CursorInBatch'
    BY DEF TypeOK, LocalType, Forget, Goto, CursorInBatch
<1>4. orphaned' \in SUBSET Messages
    BY <1>1 DEF TypeOK, HistoryType, Forget
<1> QED BY <1>2, <1>3, <1>4

-----------------------------------------------------------------------------
(* Type correctness *)

\* An empty queue with idle workers has the types, and no cursor is in use.
LEMMA InitType == Init => TypeOK /\ CursorInBatch
<1> SUFFICES ASSUME Init PROVE TypeOK /\ CursorInBatch
    OBVIOUS
<1>1. TableType
    BY DEF Init, TableType, Statuses
<1>2. LocalType
    BY DEF Init, LocalType, Pcs
<1>3. HistoryType
    BY CourierAssumption DEF Init, HistoryType
<1>4. CursorInBatch
    BY DEF Init, CursorInBatch, Active
<1> QED BY <1>1, <1>2, <1>3, <1>4 DEF TypeOK

\* Every step of a worker, of the queue and of time keeps the types and the cursors.
LEMMA NextType ==
    TypeOK /\ CursorInBatch /\ [Next]_vars => TypeOK' /\ CursorInBatch'
<1> SUFFICES ASSUME TypeOK, CursorInBatch, [Next]_vars
             PROVE  TypeOK' /\ CursorInBatch'
    OBVIOUS
<1> USE CourierAssumption
<1> USE DEF Goto, SetMessageStatus, Fault, table, local, history
<1>1. ASSUME NEW m \in Messages, AddMessage(m)
      PROVE  TypeOK' /\ CursorInBatch'
    <2>1. TableType'
        BY <1>1 DEF AddMessage, TypeOK, TableType, Statuses
    <2>2. LocalType' /\ HistoryType' /\ CursorInBatch'
        BY <1>1 DEF AddMessage, TypeOK, LocalType, HistoryType, CursorInBatch
    <2> QED BY <2>1, <2>2 DEF TypeOK
<1>2. ASSUME NEW m \in Messages, Age(m)
      PROVE  TypeOK' /\ CursorInBatch'
    <2>1. TableType'
        BY <1>2 DEF Age, TypeOK, TableType
    <2>2. LocalType' /\ HistoryType' /\ CursorInBatch'
        BY <1>2 DEF Age, TypeOK, LocalType, HistoryType, CursorInBatch
    <2> QED BY <2>1, <2>2 DEF TypeOK
<1>3. CASE UNCHANGED vars
    BY <1>3 DEF vars, TypeOK, TableType, LocalType, HistoryType, CursorInBatch
<1>4. ASSUME NEW w \in Workers, PollEmpty(w)
      PROVE  TypeOK' /\ CursorInBatch'
    BY <1>3, <1>4 DEF PollEmpty
<1>5. ASSUME NEW w \in Workers, Select(w)
      PROVE  TypeOK' /\ CursorInBatch'
    <2>1. PullSize(Visible) \in Nat
        BY PullSizeNat DEF Visible
    <2>2. PICK s \in [1 .. PullSize(Visible) -> Visible] :
            batch' = [batch EXCEPT ![w] =
             [n \in 1 .. PullSize(Visible) |->
                [id |-> s[n], sendCount |-> sendCount[s[n]]]]]
        BY <1>5 DEF Select
    <2>3. ASSUME NEW n \in 1 .. PullSize(Visible)
          PROVE  [id |-> s[n], sendCount |-> sendCount[s[n]]] \in Pulled
        BY DEF Pulled, Visible, TypeOK, TableType
    <2>4. [n \in 1 .. PullSize(Visible) |->
             [id |-> s[n], sendCount |-> sendCount[s[n]]]] \in Seq(Pulled)
        BY <2>1, <2>3
    <2>5. batch' \in [Workers -> Seq(Pulled)]
        BY <2>2, <2>4 DEF TypeOK, LocalType
    <2>6. LocalType'
        BY <1>5, <2>5 DEF Select, TypeOK, LocalType, Pcs
    <2>7. TableType' /\ HistoryType'
        BY <1>5 DEF Select, TypeOK, TableType, HistoryType
    <2>8. CursorInBatch'
        BY <1>5, <2>2 DEF Select, TypeOK, LocalType, CursorInBatch, Active, Pcs
    <2> QED BY <2>6, <2>7, <2>8 DEF TypeOK
<1>6. ASSUME NEW w \in Workers, Claim(w)
      PROVE  TypeOK' /\ CursorInBatch'
    <2>2. TableType'
        BY <1>6 DEF Claim, TypeOK, TableType, Statuses
    <2>3. LocalType'
        BY <1>6 DEF Claim, TypeOK, LocalType, Pcs
    <2>4. HistoryType'
        BY <1>6 DEF Claim, TypeOK, HistoryType
    <2>5. CursorInBatch'
        BY <1>6 DEF Claim, TypeOK, LocalType, CursorInBatch, Active, Pcs
    <2> QED BY <2>2, <2>3, <2>4, <2>5 DEF TypeOK
<1>7. ASSUME NEW w \in Workers, ClaimConflict(w)
      PROVE  TypeOK' /\ CursorInBatch'
    <2>2. TableType'
        BY <1>7 DEF ClaimConflict, TypeOK, TableType, Statuses
    <2>3. LocalType'
        BY <1>7 DEF ClaimConflict, TypeOK, LocalType, Pcs
    <2>4. HistoryType'
        BY <1>7 DEF ClaimConflict, TypeOK, HistoryType
    <2>5. CursorInBatch'
        BY <1>7 DEF ClaimConflict, TypeOK, LocalType, CursorInBatch, Active, Pcs
    <2> QED BY <2>2, <2>3, <2>4, <2>5 DEF TypeOK
<1>8. ASSUME NEW w \in Workers, NextMessagesFails(w)
      PROVE  TypeOK' /\ CursorInBatch'
    <2>1. PICK label \in Pcs \ Active : Forget(w, label)
        BY <1>8 DEF NextMessagesFails, ReturnError, Pcs, Active
    <2>2. TableType'
        BY <1>8 DEF NextMessagesFails, TypeOK, TableType
    <2>3. HistoryType'
        BY <1>8, <2>1, ForgetType DEF NextMessagesFails, TypeOK, HistoryType
    <2> QED BY <2>1, <2>2, <2>3, ForgetType DEF TypeOK
<1>9. ASSUME NEW w \in Workers, LoopDone(w)
      PROVE  TypeOK' /\ CursorInBatch'
    <2>1. PICK label \in Pcs \ Active : Forget(w, label)
        BY <1>9 DEF LoopDone, ReturnError, Pcs, Active
    <2>2. TableType'
        BY <1>9 DEF LoopDone, TypeOK, TableType
    <2>3. HistoryType'
        BY <1>9, <2>1, ForgetType DEF LoopDone, TypeOK, HistoryType
    <2> QED BY <2>1, <2>2, <2>3, ForgetType DEF TypeOK
<1>10. ASSUME NEW w \in Workers, Abandon(w)
      PROVE  TypeOK' /\ CursorInBatch'
    <2>1. Current(w).id \in Messages
        BY <1>10, CurrentMessage DEF Abandon, CursorInBatch, Active
    <2>2. TableType'
        BY <1>10, <2>1 DEF Abandon, TypeOK, TableType, Statuses
    <2>3. LocalType'
        BY <1>10 DEF Abandon, TypeOK, LocalType, Pcs
    <2>4. HistoryType'
        BY <1>10, <2>1 DEF Abandon, TypeOK, HistoryType
    <2>5. CursorInBatch'
        BY <1>10 DEF Abandon, TypeOK, LocalType, CursorInBatch, Active, Pcs
    <2> QED BY <2>2, <2>3, <2>4, <2>5 DEF TypeOK
<1>11. ASSUME NEW w \in Workers, AbandonFails(w)
      PROVE  TypeOK' /\ CursorInBatch'
    <2>1. PICK label \in Pcs \ Active : Forget(w, label)
        BY <1>11 DEF AbandonFails, ReturnError, Pcs, Active
    <2>2. TableType'
        BY <1>11 DEF AbandonFails, TypeOK, TableType
    <2>3. HistoryType'
        BY <1>11, <2>1, ForgetType DEF AbandonFails, TypeOK, HistoryType
    <2> QED BY <2>1, <2>2, <2>3, ForgetType DEF TypeOK
<1>12. ASSUME NEW w \in Workers, IncrementMessageSendCount(w)
      PROVE  TypeOK' /\ CursorInBatch'
    <2>1. Current(w).id \in Messages
        BY <1>12, CurrentMessage DEF IncrementMessageSendCount, CursorInBatch, Active
    <2>2. TableType'
        BY <1>12, <2>1 DEF IncrementMessageSendCount, TypeOK, TableType, Statuses
    <2>3. LocalType'
        BY <1>12 DEF IncrementMessageSendCount, TypeOK, LocalType, Pcs
    <2>4. HistoryType'
        BY <1>12, <2>1 DEF IncrementMessageSendCount, TypeOK, HistoryType
    <2>5. CursorInBatch'
        BY <1>12 DEF IncrementMessageSendCount, TypeOK, LocalType, CursorInBatch, Active, Pcs
    <2> QED BY <2>2, <2>3, <2>4, <2>5 DEF TypeOK
<1>13. ASSUME NEW w \in Workers, IncrementFails(w)
      PROVE  TypeOK' /\ CursorInBatch'
    <2>2. TableType'
        BY <1>13 DEF IncrementFails, TypeOK, TableType, Statuses
    <2>3. LocalType'
        BY <1>13 DEF IncrementFails, TypeOK, LocalType, Pcs
    <2>4. HistoryType'
        BY <1>13 DEF IncrementFails, TypeOK, HistoryType
    <2>5. CursorInBatch'
        BY <1>13 DEF IncrementFails, TypeOK, LocalType, CursorInBatch, Active, Pcs
    <2> QED BY <2>2, <2>3, <2>4, <2>5 DEF TypeOK
<1>14. ASSUME NEW w \in Workers, DispatchError(w)
      PROVE  TypeOK' /\ CursorInBatch'
    <2>2. TableType'
        BY <1>14 DEF DispatchError, TypeOK, TableType, Statuses
    <2>3. LocalType'
        BY <1>14 DEF DispatchError, TypeOK, LocalType, Pcs
    <2>4. HistoryType'
        BY <1>14 DEF DispatchError, TypeOK, HistoryType
    <2>5. CursorInBatch'
        BY <1>14 DEF DispatchError, TypeOK, LocalType, CursorInBatch, Active, Pcs
    <2> QED BY <2>2, <2>3, <2>4, <2>5 DEF TypeOK
<1>15. ASSUME NEW w \in Workers, InvalidRecipient(w)
      PROVE  TypeOK' /\ CursorInBatch'
    <2>1. Current(w).id \in Messages
        BY <1>15, CurrentMessage DEF InvalidRecipient, CursorInBatch, Active
    <2>2. TableType'
        BY <1>15, <2>1 DEF InvalidRecipient, TypeOK, TableType, Statuses
    <2>3. LocalType'
        BY <1>15 DEF InvalidRecipient, TypeOK, LocalType, Pcs
    <2>4. HistoryType'
        BY <1>15, <2>1 DEF InvalidRecipient, TypeOK, HistoryType
    <2>5. CursorInBatch'
        BY <1>15 DEF InvalidRecipient, TypeOK, LocalType, CursorInBatch, Active, Pcs
    <2> QED BY <2>2, <2>3, <2>4, <2>5 DEF TypeOK
<1>16. ASSUME NEW w \in Workers, Deliver(w)
      PROVE  TypeOK' /\ CursorInBatch'
    <2>1. Current(w).id \in Messages
        BY <1>16, CurrentMessage DEF Deliver, CursorInBatch, Active
    <2>2. TableType'
        BY <1>16, <2>1 DEF Deliver, TypeOK, TableType, Statuses
    <2>3. LocalType'
        BY <1>16 DEF Deliver, TypeOK, LocalType, Pcs
    <2>4. HistoryType'
        BY <1>16, <2>1 DEF Deliver, TypeOK, HistoryType
    <2>5. CursorInBatch'
        BY <1>16 DEF Deliver, TypeOK, LocalType, CursorInBatch, Active, Pcs
    <2> QED BY <2>2, <2>3, <2>4, <2>5 DEF TypeOK
<1>17. ASSUME NEW w \in Workers, DeliverAnswerLost(w)
      PROVE  TypeOK' /\ CursorInBatch'
    <2>1. Current(w).id \in Messages
        BY <1>17, CurrentMessage DEF DeliverAnswerLost, CursorInBatch, Active
    <2>2. TableType'
        BY <1>17, <2>1 DEF DeliverAnswerLost, TypeOK, TableType, Statuses
    <2>3. LocalType'
        BY <1>17 DEF DeliverAnswerLost, TypeOK, LocalType, Pcs
    <2>4. HistoryType'
        BY <1>17, <2>1 DEF DeliverAnswerLost, TypeOK, HistoryType
    <2>5. CursorInBatch'
        BY <1>17 DEF DeliverAnswerLost, TypeOK, LocalType, CursorInBatch, Active, Pcs
    <2> QED BY <2>2, <2>3, <2>4, <2>5 DEF TypeOK
<1>18. ASSUME NEW w \in Workers, Reject(w)
      PROVE  TypeOK' /\ CursorInBatch'
    <2>1. Current(w).id \in Messages
        BY <1>18, CurrentMessage DEF Reject, CursorInBatch, Active
    <2>2. TableType'
        BY <1>18, <2>1 DEF Reject, TypeOK, TableType, Statuses
    <2>3. LocalType'
        BY <1>18 DEF Reject, TypeOK, LocalType, Pcs
    <2>4. HistoryType'
        BY <1>18, <2>1 DEF Reject, TypeOK, HistoryType
    <2>5. CursorInBatch'
        BY <1>18 DEF Reject, TypeOK, LocalType, CursorInBatch, Active, Pcs
    <2> QED BY <2>2, <2>3, <2>4, <2>5 DEF TypeOK
<1>19. ASSUME NEW w \in Workers, AbandonRejected(w)
      PROVE  TypeOK' /\ CursorInBatch'
    <2>1. Current(w).id \in Messages
        BY <1>19, CurrentMessage DEF AbandonRejected, CursorInBatch, Active
    <2>2. TableType'
        BY <1>19, <2>1 DEF AbandonRejected, TypeOK, TableType, Statuses
    <2>3. LocalType'
        BY <1>19 DEF AbandonRejected, TypeOK, LocalType, Pcs
    <2>4. HistoryType'
        BY <1>19, <2>1 DEF AbandonRejected, TypeOK, HistoryType
    <2>5. CursorInBatch'
        BY <1>19 DEF AbandonRejected, TypeOK, LocalType, CursorInBatch, Active, Pcs
    <2> QED BY <2>2, <2>3, <2>4, <2>5 DEF TypeOK
<1>20. ASSUME NEW w \in Workers, MarkSent(w)
      PROVE  TypeOK' /\ CursorInBatch'
    <2>1. Current(w).id \in Messages
        BY <1>20, CurrentMessage DEF MarkSent, CursorInBatch, Active
    <2>2. TableType'
        BY <1>20, <2>1 DEF MarkSent, TypeOK, TableType, Statuses
    <2>3. LocalType'
        BY <1>20 DEF MarkSent, TypeOK, LocalType, Pcs
    <2>4. HistoryType'
        BY <1>20, <2>1 DEF MarkSent, TypeOK, HistoryType
    <2>5. CursorInBatch'
        BY <1>20 DEF MarkSent, TypeOK, LocalType, CursorInBatch, Active, Pcs
    <2> QED BY <2>2, <2>3, <2>4, <2>5 DEF TypeOK
<1>21. ASSUME NEW w \in Workers, RecordSuccess(w)
      PROVE  TypeOK' /\ CursorInBatch'
    <2>1. Current(w).id \in Messages
        BY <1>21, CurrentMessage DEF RecordSuccess, CursorInBatch, Active
    <2>2. TableType'
        BY <1>21, <2>1 DEF RecordSuccess, TypeOK, TableType, Statuses
    <2>3. LocalType'
        BY <1>21 DEF RecordSuccess, TypeOK, LocalType, Pcs
    <2>4. HistoryType'
        BY <1>21, <2>1 DEF RecordSuccess, TypeOK, HistoryType
    <2>5. CursorInBatch'
        BY <1>21 DEF RecordSuccess, TypeOK, LocalType, CursorInBatch, Active, Pcs
    <2> QED BY <2>2, <2>3, <2>4, <2>5 DEF TypeOK
<1>22. ASSUME NEW w \in Workers, RecordFailure(w)
      PROVE  TypeOK' /\ CursorInBatch'
    <2>1. Current(w).id \in Messages
        BY <1>22, CurrentMessage DEF RecordFailure, CursorInBatch, Active
    <2>2. TableType'
        BY <1>22, <2>1 DEF RecordFailure, TypeOK, TableType, Statuses
    <2>3. LocalType'
        BY <1>22 DEF RecordFailure, TypeOK, LocalType, Pcs
    <2>4. HistoryType'
        BY <1>22, <2>1 DEF RecordFailure, TypeOK, HistoryType
    <2>5. CursorInBatch'
        BY <1>22 DEF RecordFailure, TypeOK, LocalType, CursorInBatch, Active, Pcs
    <2> QED BY <2>2, <2>3, <2>4, <2>5 DEF TypeOK
<1>23. ASSUME NEW w \in Workers, RecordFailureFails(w)
      PROVE  TypeOK' /\ CursorInBatch'
    <2>1. TableType'
        BY <1>23 DEF RecordFailureFails, TypeOK, TableType
    <2>2. CASE FailOnDispatchError
        <3>1. Forget(w, "backoff")
            BY <1>23, <2>2 DEF RecordFailureFails, ReturnError
        <3>2. "backoff" \in Pcs \ Active
            BY DEF Pcs, Active
        <3>3. HistoryType'
            BY <1>23, <3>1, <3>2, ForgetType DEF RecordFailureFails, TypeOK, HistoryType
        <3> QED BY <2>1, <3>1, <3>2, <3>3, ForgetType DEF TypeOK
    <2>3. CASE ~FailOnDispatchError
        <3>1. LocalType'
            BY <1>23, <2>3 DEF RecordFailureFails, TypeOK, LocalType, Pcs
        <3>2. Current(w).id \in Messages
            BY <1>23, CurrentMessage DEF RecordFailureFails, CursorInBatch, Active
        <3>3. HistoryType'
            BY <1>23, <2>3, <3>2 DEF RecordFailureFails, TypeOK, HistoryType
        <3>4. CursorInBatch'
            BY <1>23, <2>3 DEF RecordFailureFails, TypeOK, LocalType, CursorInBatch, Active, Pcs
        <3> QED BY <2>1, <3>1, <3>3, <3>4 DEF TypeOK
    <2> QED BY <2>2, <2>3
<1>24. ASSUME NEW w \in Workers, Requeue(w)
      PROVE  TypeOK' /\ CursorInBatch'
    <2>1. batch[w][j[w]].id \in Messages
        BY <1>24, PulledMessage DEF Requeue, TypeOK, LocalType
    <2>2. TableType'
        BY <1>24, <2>1 DEF Requeue, TypeOK, TableType, Statuses
    <2>3. LocalType'
        BY <1>24 DEF Requeue, TypeOK, LocalType, Pcs
    <2>4. HistoryType'
        BY <1>24, <2>1 DEF Requeue, TypeOK, HistoryType
    <2>5. CursorInBatch'
        BY <1>24 DEF Requeue, TypeOK, LocalType, CursorInBatch, Active, Pcs
    <2> QED BY <2>2, <2>3, <2>4, <2>5 DEF TypeOK
<1>25. ASSUME NEW w \in Workers, RequeueFails(w)
      PROVE  TypeOK' /\ CursorInBatch'
    <2>1. TableType'
        BY <1>25 DEF RequeueFails, TypeOK, TableType
    <2>2. CASE FailOnDispatchError
        <3>1. Forget(w, "backoff")
            BY <1>25, <2>2 DEF RequeueFails, ReturnError
        <3>2. "backoff" \in Pcs \ Active
            BY DEF Pcs, Active
        <3>3. HistoryType'
            BY <1>25, <3>1, <3>2, ForgetType DEF RequeueFails, TypeOK, HistoryType
        <3> QED BY <2>1, <3>1, <3>2, <3>3, ForgetType DEF TypeOK
    <2>3. CASE ~FailOnDispatchError
        <3>0. j' = [j EXCEPT ![w] = j[w] + 1] /\ UNCHANGED <<pc, batch, k>>
            BY <1>25, <2>3 DEF RequeueFails
        <3>1. LocalType'
            BY <3>0 DEF TypeOK, LocalType, Pcs
        <3>2. Current(w).id \in Messages
            BY <1>25, CurrentMessage DEF RequeueFails, CursorInBatch, Active
        <3>3. HistoryType'
            BY <1>25, <2>3, <3>2 DEF RequeueFails, TypeOK, HistoryType
        <3>4. CursorInBatch'
            BY <1>25, <2>3 DEF RequeueFails, TypeOK, LocalType, CursorInBatch, Active, Pcs
        <3> QED BY <2>1, <3>1, <3>3, <3>4 DEF TypeOK
    <2> QED BY <2>2, <2>3
<1>26. ASSUME NEW w \in Workers, RequeueDone(w)
      PROVE  TypeOK' /\ CursorInBatch'
    <2>1. TableType'
        BY <1>26 DEF RequeueDone, TypeOK, TableType
    <2>2. CASE FailOnDispatchError
        <3>1. Forget(w, "backoff")
            BY <1>26, <2>2 DEF RequeueDone, ReturnError
        <3>2. "backoff" \in Pcs \ Active
            BY DEF Pcs, Active
        <3>3. HistoryType'
            BY <1>26, <3>1, <3>2, ForgetType DEF RequeueDone, TypeOK, HistoryType
        <3> QED BY <2>1, <3>1, <3>2, <3>3, ForgetType DEF TypeOK
    <2>3. CASE ~FailOnDispatchError
        <3>0. /\ pc' = [pc EXCEPT ![w] = "next"]
              /\ k' = [k EXCEPT ![w] = k[w] + 1]
              /\ UNCHANGED <<batch, j>>
            BY <1>26, <2>3 DEF RequeueDone
        <3>1. LocalType'
            BY <3>0 DEF TypeOK, LocalType, Pcs
        <3>2. Current(w).id \in Messages
            BY <1>26, CurrentMessage DEF RequeueDone, CursorInBatch, Active
        <3>3. HistoryType'
            BY <1>26, <2>3, <3>2 DEF RequeueDone, TypeOK, HistoryType
        <3>4. CursorInBatch'
            BY <1>26, <2>3 DEF RequeueDone, TypeOK, LocalType, CursorInBatch, Active, Pcs
        <3> QED BY <2>1, <3>1, <3>3, <3>4 DEF TypeOK
    <2> QED BY <2>2, <2>3
<1>27. ASSUME NEW w \in Workers, Retry(w)
      PROVE  TypeOK' /\ CursorInBatch'
    <2>2. TableType'
        BY <1>27 DEF Retry, TypeOK, TableType, Statuses
    <2>3. LocalType'
        BY <1>27 DEF Retry, TypeOK, LocalType, Pcs
    <2>4. HistoryType'
        BY <1>27 DEF Retry, TypeOK, HistoryType
    <2>5. CursorInBatch'
        BY <1>27 DEF Retry, TypeOK, LocalType, CursorInBatch, Active, Pcs
    <2> QED BY <2>2, <2>3, <2>4, <2>5 DEF TypeOK
<1>28. ASSUME NEW w \in Workers, GiveUp(w)
      PROVE  TypeOK' /\ CursorInBatch'
    <2>2. TableType'
        BY <1>28 DEF GiveUp, TypeOK, TableType, Statuses
    <2>3. LocalType'
        BY <1>28 DEF GiveUp, TypeOK, LocalType, Pcs
    <2>4. HistoryType'
        BY <1>28 DEF GiveUp, TypeOK, HistoryType
    <2>5. CursorInBatch'
        BY <1>28 DEF GiveUp, TypeOK, LocalType, CursorInBatch, Active, Pcs
    <2> QED BY <2>2, <2>3, <2>4, <2>5 DEF TypeOK
<1>29. ASSUME NEW w \in Workers, Crash(w)
      PROVE  TypeOK' /\ CursorInBatch'
    <2>1. PICK label \in Pcs \ Active : Forget(w, label)
        BY <1>29 DEF Crash, ReturnError, Pcs, Active
    <2>2. TableType'
        BY <1>29 DEF Crash, TypeOK, TableType
    <2>3. HistoryType'
        BY <1>29, <2>1, ForgetType DEF Crash, TypeOK, HistoryType
    <2> QED BY <2>1, <2>2, <2>3, ForgetType DEF TypeOK
<1>30. ASSUME NEW w \in Workers, Start(w)
      PROVE  TypeOK' /\ CursorInBatch'
    <2>2. TableType'
        BY <1>30 DEF Start, TypeOK, TableType, Statuses
    <2>3. LocalType'
        BY <1>30 DEF Start, TypeOK, LocalType, Pcs
    <2>4. HistoryType'
        BY <1>30 DEF Start, TypeOK, HistoryType
    <2>5. CursorInBatch'
        BY <1>30 DEF Start, TypeOK, LocalType, CursorInBatch, Active, Pcs
    <2> QED BY <2>2, <2>3, <2>4, <2>5 DEF TypeOK
<1> QED
    BY <1>1, <1>2, <1>3, <1>4, <1>5, <1>6, <1>7, <1>8, <1>9, <1>10, <1>11,
       <1>12, <1>13, <1>14, <1>15, <1>16, <1>17, <1>18, <1>19, <1>20, <1>21,
       <1>22, <1>23, <1>24, <1>25, <1>26, <1>27, <1>28, <1>29, <1>30 DEF
       Next, Step, Failure

\* The table, the workers' local state and the history variables keep their
\* types along every behaviour.
THEOREM TypeCorrect == Spec => []TypeOK
<1>1. TypeOK /\ CursorInBatch /\ [Next]_vars => (TypeOK /\ CursorInBatch)'
    BY NextType
<1> QED BY <1>1, InitType, PTL DEF Spec

-----------------------------------------------------------------------------
(***************************************************************************)
(* The bound on attempts.  DispatchQueue compares MaxRetries with the count *)
(* it read at pull time, so the bound is not inductive by itself: the       *)
(* workers that still have an attempt in hand have to be counted with the   *)
(* attempts made.  Pulling a row whose count is at most MaxRetries adds a   *)
(* worker to that set but leaves room for all of them, and an attempt moves *)
(* one worker out of the set for the one it adds to the count, because a    *)
(* batch names a message only once.                                         *)
(***************************************************************************)

\* The first index of batch[w] whose attempt w has not counted yet.
DueFrom(w) ==
    CASE pc[w] = "claim" -> 1
      [] pc[w] = "next"  -> k[w]
      [] OTHER           -> k[w] + 1

\* The workers that will still attempt m.
Due(m) ==
    {w \in Workers : \E n \in DueFrom(w) .. Len(batch[w]) :
        batch[w][n].id = m /\ batch[w][n].sendCount =< MaxRetries}

\* A batch is in the order of created_at, so no message is in it twice.
BatchAscends ==
    \A w \in Workers : \A a, b \in 1 .. Len(batch[w]) :
        a < b => batch[w][a].id < batch[w][b].id

AttemptsBounded ==
    \A m \in Messages :
        sendCount[m] + Cardinality(Due(m)) =< MaxRetries + Cardinality(Workers)


\* Arithmetic of sets of workers.
LEMMA WorkerSets ==
    ASSUME NEW D \in SUBSET Workers, NEW E \in SUBSET D
    PROVE  /\ Cardinality(Workers) \in Nat
           /\ IsFiniteSet(D) /\ Cardinality(D) \in Nat
           /\ Cardinality(E) \in Nat
           /\ Cardinality(E) =< Cardinality(D)
           /\ Cardinality(D) =< Cardinality(Workers)
<1>1. IsFiniteSet(Workers) /\ IsFiniteSet(D)
    BY CourierAssumption, FS_Subset
<1>2. IsFiniteSet(E)
    BY <1>1, FS_Subset
<1>3. Cardinality(E) =< Cardinality(D)
    BY <1>1, FS_Subset
<1>4. Cardinality(D) =< Cardinality(Workers)
    BY <1>1, FS_Subset
<1> QED BY <1>1, <1>2, <1>3, <1>4, FS_CardinalityType

\* A step of w that counts no attempt, pulls nothing and goes no way back.
NoNewAttempt(w) ==
    /\ sendCount' = sendCount
    /\ \A v \in Workers \ {w} :
         batch'[v] = batch[v] /\ k'[v] = k[v] /\ pc'[v] = pc[v]
    /\ \/ batch'[w] = <<>>
       \/ batch'[w] = batch[w] /\ DueFrom(w)' >= DueFrom(w)

\* Every step of a worker is such a step, but for pulling and counting.
LEMMA MostStepsAreQuiet ==
    ASSUME TypeOK, NEW w \in Workers, Step(w) \/ Failure(w),
           ~Select(w), ~IncrementMessageSendCount(w)
    PROVE  NoNewAttempt(w)
<1> USE CourierAssumption
<1> USE DEF Goto, SetMessageStatus, table, local, history
<1>1. CASE Claim(w)
    BY <1>1 DEF Claim, NoNewAttempt, DueFrom, TypeOK, LocalType
<1>2. CASE Abandon(w)
    BY <1>2 DEF Abandon, NoNewAttempt, DueFrom, TypeOK, LocalType
<1>3. CASE IncrementFails(w)
    BY <1>3 DEF IncrementFails, NoNewAttempt, DueFrom, TypeOK, LocalType
<1>4. CASE DispatchError(w)
    BY <1>4 DEF DispatchError, NoNewAttempt, DueFrom, TypeOK, LocalType
<1>5. CASE InvalidRecipient(w)
    BY <1>5 DEF InvalidRecipient, NoNewAttempt, DueFrom, TypeOK, LocalType
<1>6. CASE Deliver(w)
    BY <1>6 DEF Deliver, NoNewAttempt, DueFrom, TypeOK, LocalType
<1>7. CASE DeliverAnswerLost(w)
    BY <1>7 DEF DeliverAnswerLost, NoNewAttempt, DueFrom, TypeOK, LocalType
<1>8. CASE Reject(w)
    BY <1>8 DEF Reject, NoNewAttempt, DueFrom, TypeOK, LocalType
<1>9. CASE AbandonRejected(w)
    BY <1>9 DEF AbandonRejected, NoNewAttempt, DueFrom, TypeOK, LocalType
<1>10. CASE MarkSent(w)
    BY <1>10 DEF MarkSent, NoNewAttempt, DueFrom, TypeOK, LocalType
<1>11. CASE RecordSuccess(w)
    BY <1>11 DEF RecordSuccess, NoNewAttempt, DueFrom, TypeOK, LocalType
<1>12. CASE RecordFailure(w)
    BY <1>12 DEF RecordFailure, NoNewAttempt, DueFrom, TypeOK, LocalType
<1>13. CASE Requeue(w)
    BY <1>13 DEF Requeue, NoNewAttempt, DueFrom, TypeOK, LocalType
<1>14. CASE Retry(w)
    BY <1>14 DEF Retry, NoNewAttempt, DueFrom, TypeOK, LocalType
<1>15. CASE GiveUp(w)
    BY <1>15 DEF GiveUp, NoNewAttempt, DueFrom, TypeOK, LocalType
<1>16. CASE Start(w)
    BY <1>16 DEF Start, NoNewAttempt, DueFrom, TypeOK, LocalType
<1>17. CASE ClaimConflict(w)
    BY <1>17 DEF ClaimConflict, NoNewAttempt, TypeOK, LocalType
<1>18. CASE NextMessagesFails(w)
    <2>1. PICK label : Forget(w, label)
        BY <1>18 DEF NextMessagesFails, ReturnError
    <2> QED BY <1>18, <2>1 DEF NextMessagesFails, Forget, NoNewAttempt, TypeOK, LocalType
<1>19. CASE LoopDone(w)
    <2>1. PICK label : Forget(w, label)
        BY <1>19 DEF LoopDone, ReturnError
    <2> QED BY <1>19, <2>1 DEF LoopDone, Forget, NoNewAttempt, TypeOK, LocalType
<1>20. CASE AbandonFails(w)
    <2>1. PICK label : Forget(w, label)
        BY <1>20 DEF AbandonFails, ReturnError
    <2> QED BY <1>20, <2>1 DEF AbandonFails, Forget, NoNewAttempt, TypeOK, LocalType
<1>21. CASE Crash(w)
    <2>1. PICK label : Forget(w, label)
        BY <1>21 DEF Crash, ReturnError
    <2> QED BY <1>21, <2>1 DEF Crash, Forget, NoNewAttempt, TypeOK, LocalType
<1>22. CASE RecordFailureFails(w)
    <2>1. CASE FailOnDispatchError
        BY <1>22, <2>1 DEF RecordFailureFails, ReturnError, Forget, NoNewAttempt, TypeOK, LocalType
    <2>2. CASE ~FailOnDispatchError
        BY <1>22, <2>2 DEF RecordFailureFails, NoNewAttempt, DueFrom, TypeOK, LocalType
    <2> QED BY <2>1, <2>2
<1>23. CASE RequeueFails(w)
    <2>1. CASE FailOnDispatchError
        BY <1>23, <2>1 DEF RequeueFails, ReturnError, Forget, NoNewAttempt, TypeOK, LocalType
    <2>2. CASE ~FailOnDispatchError
        BY <1>23, <2>2 DEF RequeueFails, NoNewAttempt, DueFrom, TypeOK, LocalType
    <2> QED BY <2>1, <2>2
<1>24. CASE RequeueDone(w)
    <2>1. CASE FailOnDispatchError
        BY <1>24, <2>1 DEF RequeueDone, ReturnError, Forget, NoNewAttempt, TypeOK, LocalType
    <2>2. CASE ~FailOnDispatchError
        BY <1>24, <2>2 DEF RequeueDone, NoNewAttempt, DueFrom, TypeOK, LocalType
    <2> QED BY <2>1, <2>2
<1> QED
    BY <1>1, <1>2, <1>3, <1>4, <1>5, <1>6, <1>7, <1>8, <1>9, <1>10, <1>11,
       <1>12, <1>13, <1>14, <1>15, <1>16, <1>17, <1>18, <1>19, <1>20, <1>21,
       <1>22, <1>23, <1>24 DEF Step, Failure

\* Such a step only takes workers out of Due and keeps batches in order.
LEMMA QuietKeepsBound ==
    ASSUME TypeOK, TypeOK', BatchAscends, AttemptsBounded,
           NEW w \in Workers, NoNewAttempt(w)
    PROVE  BatchAscends' /\ AttemptsBounded'
<1>1. BatchAscends'
    <2> SUFFICES ASSUME NEW v \in Workers,
                        NEW a \in 1 .. Len(batch'[v]), NEW b \in 1 .. Len(batch'[v]),
                        a < b
                 PROVE  batch'[v][a].id < batch'[v][b].id
        BY DEF BatchAscends
    <2>1. batch'[v] # <<>>
        OBVIOUS
    <2>2. batch'[v] = batch[v]
        BY <2>1 DEF NoNewAttempt
    <2> QED BY <2>2 DEF BatchAscends
<1>2. ASSUME NEW m \in Messages
      PROVE  Due(m)' \subseteq Due(m)
    <2> SUFFICES ASSUME NEW v \in Due(m)'
                 PROVE  v \in Due(m)
        OBVIOUS
    <2>1. v \in Workers
        BY DEF Due
    <2>2. PICK n \in DueFrom(v)' .. Len(batch'[v]) :
             batch'[v][n].id = m /\ batch'[v][n].sendCount =< MaxRetries
        BY DEF Due
    <2>3. DueFrom(v) \in Nat \ {0} /\ DueFrom(v)' \in Nat \ {0}
        BY <2>1 DEF DueFrom, TypeOK, LocalType
    <2>4. batch'[v] # <<>>
        BY <2>2, <2>3
    <2>5. batch'[v] = batch[v] /\ DueFrom(v)' >= DueFrom(v)
        <3>1. CASE v = w
            BY <2>4, <3>1 DEF NoNewAttempt
        <3>2. CASE v # w
            BY <2>1, <2>3, <3>2 DEF NoNewAttempt, DueFrom
        <3> QED BY <3>1, <3>2
    <2>6. Len(batch[v]) \in Nat
        BY <2>1 DEF TypeOK, LocalType
    <2>7. n \in DueFrom(v) .. Len(batch[v])
        BY <2>2, <2>3, <2>5, <2>6
    <2> QED BY <2>1, <2>2, <2>5, <2>7 DEF Due
<1>3. AttemptsBounded'
    <2> SUFFICES ASSUME NEW m \in Messages
                 PROVE  sendCount'[m] + Cardinality(Due(m)')
                            =< MaxRetries + Cardinality(Workers)
        BY DEF AttemptsBounded
    <2>1. Due(m) \in SUBSET Workers /\ Due(m)' \in SUBSET Due(m)
        BY <1>2 DEF Due
    <2>2. sendCount'[m] = sendCount[m] /\ sendCount[m] \in Nat
        BY DEF NoNewAttempt, TypeOK, TableType
    <2>3. sendCount[m] + Cardinality(Due(m)) =< MaxRetries + Cardinality(Workers)
        BY DEF AttemptsBounded
    <2> QED BY <2>1, <2>2, <2>3, WorkerSets, CourierAssumption
<1> QED BY <1>1, <1>3

\* A poll adds a worker to Due only where the count read leaves it room.
LEMMA SelectKeepsBound ==
    ASSUME TypeOK, TypeOK', BatchAscends, AttemptsBounded,
           NEW w \in Workers, Select(w)
    PROVE  BatchAscends' /\ AttemptsBounded'
<1> DEFINE N == PullSize(Visible)
<1>1. PICK s \in [1 .. N -> Visible] :
        /\ OldestFirst(s, Visible)
        /\ batch' = [batch EXCEPT ![w] =
             [n \in 1 .. N |-> [id |-> s[n], sendCount |-> sendCount[s[n]]]]]
    BY DEF Select
<1>2. N \in Nat
    BY PullSizeNat DEF Visible
<1>3. /\ batch'[w] = [n \in 1 .. N |-> [id |-> s[n], sendCount |-> sendCount[s[n]]]]
      /\ Len(batch'[w]) = N
    BY <1>1, <1>2 DEF TypeOK, LocalType
<1>4. \A v \in Workers \ {w} : batch'[v] = batch[v] /\ DueFrom(v)' = DueFrom(v)
    BY <1>1 DEF Select, Goto, DueFrom, TypeOK, LocalType
<1>5. sendCount' = sendCount
    BY DEF Select, table
<1>6. BatchAscends'
    <2> SUFFICES ASSUME NEW v \in Workers,
                        NEW a \in 1 .. Len(batch'[v]), NEW b \in 1 .. Len(batch'[v]),
                        a < b
                 PROVE  batch'[v][a].id < batch'[v][b].id
        BY DEF BatchAscends
    <2>1. CASE v = w
        <3>1. a \in 1 .. N /\ b \in 1 .. N
            BY <1>3, <2>1
        <3>2. s[a] < s[b]
            BY <1>1, <3>1 DEF OldestFirst
        <3> QED BY <1>3, <2>1, <3>1, <3>2
    <2>2. CASE v # w
        BY <1>4, <2>2 DEF BatchAscends
    <2> QED BY <2>1, <2>2
<1>7. ASSUME NEW m \in Messages, sendCount[m] > MaxRetries
      PROVE  Due(m)' \subseteq Due(m)
    <2> SUFFICES ASSUME NEW v \in Due(m)'
                 PROVE  v \in Due(m)
        OBVIOUS
    <2>1. v \in Workers
        BY DEF Due
    <2>2. PICK n \in DueFrom(v)' .. Len(batch'[v]) :
             batch'[v][n].id = m /\ batch'[v][n].sendCount =< MaxRetries
        BY DEF Due
    <2>3. v # w
        <3> SUFFICES ASSUME v = w PROVE FALSE
            OBVIOUS
        <3>1. DueFrom(w)' \in Nat \ {0}
            BY DEF DueFrom, TypeOK, LocalType
        <3>2. n \in 1 .. N
            BY <1>2, <1>3, <2>2, <3>1
        <3>3. sendCount[m] =< MaxRetries
            BY <1>3, <2>2, <3>2
        <3>4. sendCount[m] \in Nat
            BY DEF TypeOK, TableType
        <3> QED BY <1>7, <3>3, <3>4, CourierAssumption
    <2> QED BY <1>4, <2>1, <2>2, <2>3 DEF Due
<1>8. AttemptsBounded'
    <2> SUFFICES ASSUME NEW m \in Messages
                 PROVE  sendCount'[m] + Cardinality(Due(m)')
                            =< MaxRetries + Cardinality(Workers)
        BY DEF AttemptsBounded
    <2>1. Due(m) \in SUBSET Workers /\ Due(m)' \in SUBSET Workers
        BY DEF Due
    <2>2. sendCount'[m] = sendCount[m] /\ sendCount[m] \in Nat
        BY <1>5 DEF TypeOK, TableType
    <2>3. sendCount[m] + Cardinality(Due(m)) =< MaxRetries + Cardinality(Workers)
        BY DEF AttemptsBounded
    <2>4. CASE sendCount[m] =< MaxRetries
        <3>1. /\ Cardinality(Due(m)') \in Nat /\ Cardinality(Workers) \in Nat
              /\ Cardinality(Due(m)') =< Cardinality(Workers)
            BY <2>1, WorkerSets
        <3> QED BY <2>2, <2>4, <3>1, CourierAssumption
    <2>5. CASE sendCount[m] > MaxRetries
        <3>1. Due(m)' \in SUBSET Due(m)
            BY <1>7, <2>5
        <3> QED BY <2>1, <2>2, <2>3, <3>1, WorkerSets, CourierAssumption
    <2> QED BY <2>2, <2>4, <2>5, CourierAssumption
<1> QED BY <1>6, <1>8

\* Counting an attempt takes its worker out of Due for that message.
LEMMA IncrementKeepsBound ==
    ASSUME TypeOK, TypeOK', BatchAscends, AttemptsBounded,
           NEW w \in Workers, IncrementMessageSendCount(w)
    PROVE  BatchAscends' /\ AttemptsBounded'
<1> DEFINE c == Current(w).id
<1>1. /\ k[w] \in 1 .. Len(batch[w])
      /\ c \in Messages
      /\ batch[w][k[w]].sendCount =< MaxRetries
      /\ Len(batch[w]) \in Nat
    <2>1. k[w] \in Nat \ {0} /\ Len(batch[w]) \in Nat
        BY DEF TypeOK, LocalType
    <2>2. k[w] =< Len(batch[w]) /\ ~RetriesExhausted(w)
        BY DEF IncrementMessageSendCount
    <2>3. Current(w).id \in Messages /\ Current(w).sendCount \in Nat
        BY <2>2, CurrentMessage
    <2> QED BY <2>1, <2>2, <2>3, CourierAssumption DEF RetriesExhausted, Current
<1>2. /\ batch' = batch /\ k' = k
      /\ pc' = [pc EXCEPT ![w] = "dispatch"] /\ pc[w] = "next"
      /\ sendCount' = [sendCount EXCEPT ![c] = sendCount[c] + 1]
    BY DEF IncrementMessageSendCount, Goto
<1>3. /\ DueFrom(w) = k[w] /\ DueFrom(w)' = k[w] + 1
      /\ \A v \in Workers \ {w} : DueFrom(v)' = DueFrom(v)
    BY <1>2 DEF DueFrom, TypeOK, LocalType
<1>4. BatchAscends'
    BY <1>2 DEF BatchAscends
<1>5. ASSUME NEW m \in Messages
      PROVE  Due(m)' \subseteq Due(m)
    BY <1>1, <1>2, <1>3 DEF Due
<1>6. w \in Due(c)
    BY <1>1, <1>3 DEF Due, Current
<1>7. ASSUME NEW m \in Messages, m = c
      PROVE  w \notin Due(m)'
    <2> SUFFICES ASSUME w \in Due(m)' PROVE FALSE
        OBVIOUS
    <2>1. PICK n \in k[w] + 1 .. Len(batch[w]) : batch[w][n].id = c
        BY <1>2, <1>3, <1>7 DEF Due
    <2>2. n \in 1 .. Len(batch[w]) /\ k[w] < n
        BY <1>1, <2>1
    <2>3. batch[w][k[w]].id < batch[w][n].id
        BY <1>1, <2>2 DEF BatchAscends
    <2>4. c \in Int
        BY <1>1, CourierAssumption DEF Messages
    <2> QED BY <2>1, <2>3, <2>4 DEF Current
<1>8. AttemptsBounded'
    <2> SUFFICES ASSUME NEW m \in Messages
                 PROVE  sendCount'[m] + Cardinality(Due(m)')
                            =< MaxRetries + Cardinality(Workers)
        BY DEF AttemptsBounded
    <2>1. Due(m) \in SUBSET Workers /\ Due(m)' \in SUBSET Due(m)
        BY <1>5 DEF Due
    <2>2. sendCount[m] \in Nat
        BY DEF TypeOK, TableType
    <2>3. sendCount[m] + Cardinality(Due(m)) =< MaxRetries + Cardinality(Workers)
        BY DEF AttemptsBounded
    <2>4. CASE m = c
        <3>1. Due(m)' \in SUBSET (Due(m) \ {w})
            BY <1>7, <2>1, <2>4
        <3>2. IsFiniteSet(Due(m)) /\ Cardinality(Due(m)) \in Nat
            BY <2>1, WorkerSets
        <3>3. Cardinality(Due(m) \ {w}) = Cardinality(Due(m)) - 1
            BY <1>6, <2>4, <3>2, FS_RemoveElement
        <3>4. /\ Cardinality(Due(m)') \in Nat /\ Cardinality(Workers) \in Nat
              /\ Cardinality(Due(m)') =< Cardinality(Due(m) \ {w})
            BY <2>1, <3>1, WorkerSets
        <3>5. sendCount'[m] = sendCount[m] + 1
            BY <1>2, <2>4 DEF TypeOK, TableType
        <3> QED BY <2>2, <2>3, <3>2, <3>3, <3>4, <3>5, CourierAssumption
    <2>5. CASE m # c
        <3>1. sendCount'[m] = sendCount[m]
            BY <1>2, <2>5 DEF TypeOK, TableType
        <3> QED BY <2>1, <2>2, <2>3, <3>1, WorkerSets, CourierAssumption
    <2> QED BY <2>4, <2>5
<1> QED BY <1>4, <1>8

\* The inductive invariant of the bound.
AttemptsInv == TypeOK /\ CursorInBatch /\ BatchAscends /\ AttemptsBounded

\* It holds at first and is preserved.
LEMMA AttemptsInductive ==
    /\ Init => AttemptsInv
    /\ AttemptsInv /\ [Next]_vars => AttemptsInv'
<1> USE DEF AttemptsInv
<1>1. Init => AttemptsInv
    <2> SUFFICES ASSUME Init PROVE BatchAscends /\ AttemptsBounded
        BY InitType
    <2>1. BatchAscends
        BY DEF Init, BatchAscends
    <2>2. ASSUME NEW m \in Messages
          PROVE  sendCount[m] + Cardinality(Due(m)) =< MaxRetries + Cardinality(Workers)
        <3>1. Due(m) \in SUBSET Workers
            BY DEF Due
        <3>2. sendCount[m] = 0
            BY DEF Init
        <3>3. /\ Cardinality(Due(m)) \in Nat /\ Cardinality(Workers) \in Nat
              /\ Cardinality(Due(m)) =< Cardinality(Workers)
            BY <3>1, WorkerSets
        <3> QED BY <3>2, <3>3, CourierAssumption
    <2> QED BY <2>1, <2>2 DEF AttemptsBounded
<1>2. AttemptsInv /\ [Next]_vars => AttemptsInv'
    <2> SUFFICES ASSUME AttemptsInv, [Next]_vars
                 PROVE  BatchAscends' /\ AttemptsBounded'
        BY NextType
    <2>0. TypeOK'
        BY NextType
    <2>1. CASE UNCHANGED <<sendCount, pc, batch, k>>
        <3>1. PICK w \in Workers : TRUE
            BY CourierAssumption
        <3>2. NoNewAttempt(w)
            BY <2>1, <3>1 DEF NoNewAttempt, DueFrom, TypeOK, LocalType
        <3> QED BY <2>0, <3>2, QuietKeepsBound
    <2>2. ASSUME NEW w \in Workers, Step(w) \/ Failure(w)
          PROVE  BatchAscends' /\ AttemptsBounded'
        BY <2>0, <2>2, MostStepsAreQuiet, QuietKeepsBound, SelectKeepsBound,
           IncrementKeepsBound
    <2>3. ASSUME NEW m \in Messages, AddMessage(m) \/ Age(m)
          PROVE  UNCHANGED <<sendCount, pc, batch, k>>
        BY <2>3 DEF AddMessage, Age, table, local
    <2>4. ASSUME NEW w \in Workers, PollEmpty(w)
          PROVE  UNCHANGED <<sendCount, pc, batch, k>>
        BY <2>4 DEF PollEmpty, vars, table, local
    <2>5. CASE UNCHANGED vars
        BY <2>1, <2>5 DEF vars, table, local
    <2> QED BY <2>1, <2>2, <2>3, <2>4, <2>5 DEF Next
<1> QED BY <1>1, <1>2

\* courier.message_retries bounds the attempts at every message: whatever the
\* number of workers, their interleaving, failing statements and crashes,
\* send_count never exceeds MaxRetries by more than the number of workers.
THEOREM SendCountBounded == Spec => []SendCountBound
<1>1. AttemptsInv => SendCountBound
    <2> SUFFICES ASSUME AttemptsInv, NEW m \in Messages
                 PROVE  sendCount[m] =< MaxRetries + Cardinality(Workers)
        BY DEF SendCountBound
    <2>1. Due(m) \in SUBSET Workers
        BY DEF Due
    <2>2. sendCount[m] + Cardinality(Due(m)) =< MaxRetries + Cardinality(Workers)
        BY DEF AttemptsInv, AttemptsBounded
    <2>3. sendCount[m] \in Nat
        BY DEF AttemptsInv, TypeOK, TableType
    <2>4. Cardinality(Due(m)) \in Nat /\ Cardinality(Workers) \in Nat
        BY <2>1, WorkerSets
    <2> QED BY <2>2, <2>3, <2>4, CourierAssumption
<1> QED BY <1>1, AttemptsInductive, PTL DEF Spec
-----------------------------------------------------------------------------
(* What a step of a worker leaves alone *)

\* A step of w leaves the other workers where they are, and a counter is touched by
\* no more than one or two statements of the loop.
LEMMA StepFrames ==
    ASSUME TypeOK, NEW w \in Workers, Step(w) \/ Failure(w)
    PROVE  /\ \A v \in Workers \ {w} :
                  pc'[v] = pc[v] /\ batch'[v] = batch[v] /\ k'[v] = k[v] /\ j'[v] = j[v]
           /\ Deliver(w) \/ DeliverAnswerLost(w) \/ delivered' = delivered
           /\ IncrementMessageSendCount(w) \/ (sendCount' = sendCount /\ pc'[w] # "dispatch")
           /\ RecordSuccess(w) \/ RecordFailure(w) \/ dispatches' = dispatches
           /\ Reject(w) \/ (rejections' = rejections /\ pc'[w] # "rejected")
           /\ Select(w) \/ batch'[w] \in {<<>>, batch[w]}
           /\ faults' \in {faults, faults + 1}
<1> USE DEF Step, Failure, Select, Claim, ClaimConflict, LoopDone, Abandon,
            IncrementMessageSendCount, DispatchError, InvalidRecipient, Deliver, Reject,
            AbandonRejected, MarkSent, RecordSuccess, RecordFailure, Requeue, RequeueDone,
            Retry, Start, NextMessagesFails, AbandonFails, IncrementFails, DeliverAnswerLost,
            RecordFailureFails, RequeueFails, GiveUp, Crash, ReturnError, Forget, Goto,
            Fault, table, local, history, TypeOK, LocalType, TableType, HistoryType
<1>1. \A v \in Workers \ {w} :
         pc'[v] = pc[v] /\ batch'[v] = batch[v] /\ k'[v] = k[v] /\ j'[v] = j[v]
    OBVIOUS
<1>2. Deliver(w) \/ DeliverAnswerLost(w) \/ delivered' = delivered
    OBVIOUS
<1>3. IncrementMessageSendCount(w) \/ (sendCount' = sendCount /\ pc'[w] # "dispatch")
    OBVIOUS
<1>4. RecordSuccess(w) \/ RecordFailure(w) \/ dispatches' = dispatches
    OBVIOUS
<1>5. Reject(w) \/ (rejections' = rejections /\ pc'[w] # "rejected")
    OBVIOUS
<1>6. Select(w) \/ batch'[w] \in {<<>>, batch[w]}
    OBVIOUS
<1>7. faults' \in {faults, faults + 1}
    OBVIOUS
<1> QED BY ONLY <1>1, <1>2, <1>3, <1>4, <1>5, <1>6, <1>7
-----------------------------------------------------------------------------
(***************************************************************************)
(* The counters.  What was delivered is covered by send_count only together *)
(* with the attempts that were counted and not made yet.                    *)
(***************************************************************************)

\* The workers that counted an attempt at m and have not made it.
Dispatching(m) == {w \in Workers : pc[w] = "dispatch" /\ Current(w).id = m}

CountInv ==
    \A m \in Messages : delivered[m] + Cardinality(Dispatching(m)) =< sendCount[m]

\* A step that sets pc[w] to or from "dispatch" adds or removes w, and only for the
\* message it works on.
LEMMA CountStep ==
    ASSUME TypeOK, CursorInBatch, CountInv, NEW w \in Workers, Step(w) \/ Failure(w)
    PROVE  CountInv'
<1> SUFFICES ASSUME NEW m \in Messages
             PROVE  delivered'[m] + Cardinality(Dispatching(m)') =< sendCount'[m]
    BY DEF CountInv
<1> DEFINE D == Dispatching(m)
           E == Dispatching(m)'
           c == Current(w).id
<1>1. /\ delivered[m] \in Nat /\ sendCount[m] \in Nat
      /\ delivered[m] + Cardinality(D) =< sendCount[m]
    BY DEF TypeOK, TableType, HistoryType, CountInv
<1>2. /\ D \in SUBSET Workers /\ E \in SUBSET Workers
      /\ IsFiniteSet(D) /\ Cardinality(D) \in Nat
    <2>1. D \in SUBSET Workers /\ E \in SUBSET Workers
        BY DEF Dispatching
    <2> QED BY <2>1, WorkerSets
<1>3. \A v \in Workers \ {w} : v \in E <=> v \in D
    BY StepFrames DEF Dispatching, Current
<1>4. CASE IncrementMessageSendCount(w)
    <2>1. /\ pc[w] = "next" /\ pc'[w] = "dispatch" /\ batch' = batch /\ k' = k
          /\ sendCount' = [sendCount EXCEPT ![c] = sendCount[c] + 1]
          /\ delivered' = delivered
        BY <1>4 DEF IncrementMessageSendCount, Goto, history, TypeOK, LocalType
    <2>2. w \notin D /\ (w \in E <=> c = m)
        BY <2>1 DEF Dispatching, Current
    <2>3. CASE m = c
        <3>1. E = D \cup {w}
            BY <1>2, <1>3, <2>2, <2>3
        <3>2. Cardinality(E) = Cardinality(D) + 1
            BY <1>2, <2>2, <3>1, FS_AddElement
        <3>3. sendCount'[m] = sendCount[m] + 1
            BY <2>1, <2>3 DEF TypeOK, TableType
        <3> QED BY <1>1, <1>2, <2>1, <3>2, <3>3
    <2>4. CASE m # c
        <3>1. E = D
            BY <1>2, <1>3, <2>2, <2>4
        <3>2. sendCount'[m] = sendCount[m]
            BY <2>1, <2>4 DEF TypeOK, TableType
        <3> QED BY <1>1, <2>1, <3>1, <3>2
    <2> QED BY <2>3, <2>4
<1>5. CASE Deliver(w) \/ DeliverAnswerLost(w)
    <2>1. /\ pc[w] = "dispatch" /\ pc'[w] # "dispatch"
          /\ delivered' = [delivered EXCEPT ![c] = delivered[c] + 1]
          /\ sendCount' = sendCount
        BY <1>5 DEF Deliver, DeliverAnswerLost, Goto, table, TypeOK, LocalType
    <2>2. w \notin E /\ (w \in D <=> c = m)
        BY <2>1 DEF Dispatching
    <2>3. CASE m = c
        <3>1. E = D \ {w}
            BY <1>2, <1>3, <2>2, <2>3
        <3>2. Cardinality(E) = Cardinality(D) - 1
            BY <1>2, <2>2, <2>3, <3>1, FS_RemoveElement
        <3>3. delivered'[m] = delivered[m] + 1
            BY <2>1, <2>3 DEF TypeOK, HistoryType
        <3> QED BY <1>1, <1>2, <2>1, <3>2, <3>3
    <2>4. CASE m # c
        <3>1. E = D
            BY <1>2, <1>3, <2>2, <2>4
        <3>2. delivered'[m] = delivered[m]
            BY <2>1, <2>4 DEF TypeOK, HistoryType
        <3> QED BY <1>1, <2>1, <3>1, <3>2
    <2> QED BY <2>3, <2>4
<1>6. CASE ~IncrementMessageSendCount(w) /\ ~Deliver(w) /\ ~DeliverAnswerLost(w)
    <2>1. sendCount' = sendCount /\ delivered' = delivered /\ pc'[w] # "dispatch"
        BY <1>6, StepFrames
    <2>2. E \in SUBSET D
        BY <1>2, <1>3, <2>1 DEF Dispatching
    <2>3. Cardinality(E) \in Nat /\ Cardinality(E) =< Cardinality(D)
        BY <1>2, <2>2, WorkerSets
    <2> QED BY <1>1, <1>2, <2>1, <2>3
<1> QED BY <1>4, <1>5, <1>6

\* The attempts in flight, and the rows that record the others, when no statement
\* has failed.
LEMMA RecordStep ==
    ASSUME TypeOK, CursorInBatch, EveryAttemptIsRecorded,
           NEW w \in Workers, Step(w) \/ Failure(w)
    PROVE  EveryAttemptIsRecorded'
<1> SUFFICES ASSUME NEW m \in Messages, faults' = 0
             PROVE  dispatches'[m].success + dispatches'[m].failed
                        + Cardinality(InFlight(m)') = sendCount'[m]
    BY DEF EveryAttemptIsRecorded
<1> DEFINE F == InFlight(m)
           G == InFlight(m)'
           c == Current(w).id
           d == dispatches[m]
           Flight == {"dispatch", "rejected", "markSent", "recordSuccess", "recordFailure"}
<1>1. faults = 0 /\ faults' = faults
    BY StepFrames DEF TypeOK, HistoryType
<1>2. /\ F \in SUBSET Workers /\ G \in SUBSET Workers
      /\ IsFiniteSet(F) /\ Cardinality(F) \in Nat
    <2>1. F \in SUBSET Workers /\ G \in SUBSET Workers
        BY DEF InFlight
    <2> QED BY <2>1, WorkerSets
<1>3. \A v \in Workers \ {w} : v \in G <=> v \in F
    BY StepFrames DEF InFlight, Current
<1>4. /\ d.success \in Nat /\ d.failed \in Nat /\ sendCount[m] \in Nat
      /\ d.success + d.failed + Cardinality(F) = sendCount[m]
    BY <1>1 DEF TypeOK, TableType, EveryAttemptIsRecorded
<1>5. CASE IncrementMessageSendCount(w)
    <2>1. /\ pc[w] = "next" /\ pc'[w] = "dispatch" /\ batch' = batch /\ k' = k
          /\ sendCount' = [sendCount EXCEPT ![c] = sendCount[c] + 1]
          /\ dispatches' = dispatches
        BY <1>5 DEF IncrementMessageSendCount, Goto, history, TypeOK, LocalType
    <2>2. w \notin F /\ (w \in G <=> c = m)
        BY <2>1 DEF InFlight, Current
    <2>3. CASE m = c
        <3>1. G = F \cup {w}
            BY <1>2, <1>3, <2>2, <2>3
        <3>2. Cardinality(G) = Cardinality(F) + 1
            BY <1>2, <2>2, <3>1, FS_AddElement
        <3>3. sendCount'[m] = sendCount[m] + 1
            BY <2>1, <2>3 DEF TypeOK, TableType
        <3> QED BY <1>2, <1>4, <2>1, <3>2, <3>3
    <2>4. CASE m # c
        <3>1. G = F
            BY <1>2, <1>3, <2>2, <2>4
        <3>2. sendCount'[m] = sendCount[m]
            BY <2>1, <2>4 DEF TypeOK, TableType
        <3> QED BY <1>4, <2>1, <3>1, <3>2
    <2> QED BY <2>3, <2>4
<1>6. CASE RecordSuccess(w) \/ RecordFailure(w)
    <2>1. /\ pc[w] \in Flight /\ pc'[w] \notin Flight /\ sendCount' = sendCount
          /\ \/ dispatches' = [dispatches EXCEPT ![c].success = @ + 1]
             \/ dispatches' = [dispatches EXCEPT ![c].failed = @ + 1]
        BY <1>1, <1>6 DEF RecordSuccess, RecordFailure, Goto, Fault, TypeOK, LocalType, HistoryType
    <2>2. w \notin G /\ (w \in F <=> c = m)
        BY <2>1 DEF InFlight
    <2>3. CASE m = c
        <3>1. G = F \ {w}
            BY <1>2, <1>3, <2>2, <2>3
        <3>2. Cardinality(G) = Cardinality(F) - 1
            BY <1>2, <2>2, <2>3, <3>1, FS_RemoveElement
        <3>3. \/ dispatches'[m].success = d.success + 1 /\ dispatches'[m].failed = d.failed
              \/ dispatches'[m].success = d.success /\ dispatches'[m].failed = d.failed + 1
            BY <2>1, <2>3 DEF TypeOK, TableType
        <3> QED BY <1>2, <1>4, <2>1, <3>2, <3>3
    <2>4. CASE m # c
        <3>1. G = F
            BY <1>2, <1>3, <2>2, <2>4
        <3>2. dispatches'[m] = d
            BY <2>1, <2>4 DEF TypeOK, TableType
        <3> QED BY <1>4, <2>1, <3>1, <3>2
    <2> QED BY <2>3, <2>4
<1>7. CASE ~IncrementMessageSendCount(w) /\ ~RecordSuccess(w) /\ ~RecordFailure(w)
    <2>1. sendCount' = sendCount /\ dispatches' = dispatches
        BY <1>7, StepFrames
    <2>2. /\ pc[w] \in Flight <=> pc'[w] \in Flight
          /\ pc[w] \in Flight => batch'[w] = batch[w] /\ k'[w] = k[w]
        <3>1. faults' # faults + 1
            BY <1>1
        <3> QED BY <1>7, <3>1
               DEF Step, Failure, Select, Claim, ClaimConflict, LoopDone, Abandon,
                   DispatchError, InvalidRecipient, Deliver, Reject, AbandonRejected, MarkSent,
                   Requeue, RequeueDone, Retry, Start, NextMessagesFails, AbandonFails,
                   IncrementFails, DeliverAnswerLost, RecordFailureFails, RequeueFails, GiveUp,
                   Crash, ReturnError, Forget, Goto, Fault, local, TypeOK, LocalType
    <2>3. G = F
        <3>1. w \in G <=> w \in F
            BY <2>2 DEF InFlight, Current
        <3> QED BY <1>2, <1>3, <3>1
    <2> QED BY <1>4, <2>1, <2>3
<1> QED BY <1>5, <1>6, <1>7
-----------------------------------------------------------------------------
(***************************************************************************)
(* Giving up.  The count that a worker compares was read at pull time; the  *)
(* row's own count has only grown since.                                    *)
(***************************************************************************)

\* A pulled count is one the row once had, and whoever saw a 5xx answer counted it.
CauseInv ==
    /\ \A w \in Workers : \A n \in 1 .. Len(batch[w]) :
           batch[w][n].sendCount =< sendCount[batch[w][n].id]
    /\ \A w \in Workers : pc[w] = "rejected" => rejections[Current(w).id] > 0
    /\ AbandonedForCause

\* Counters only grow.
LEMMA CountersGrow ==
    ASSUME TypeOK, CursorInBatch, NEW w \in Workers, Step(w) \/ Failure(w), NEW m \in Messages
    PROVE  sendCount[m] =< sendCount'[m] /\ rejections[m] =< rejections'[m]
<1>1. sendCount[m] \in Nat /\ rejections[m] \in Nat
    BY DEF TypeOK, TableType, HistoryType
<1>2. sendCount'[m] \in {sendCount[m], sendCount[m] + 1}
    BY StepFrames DEF IncrementMessageSendCount, TypeOK, TableType
<1>3. rejections'[m] \in {rejections[m], rejections[m] + 1}
    BY StepFrames DEF Reject, TypeOK, HistoryType
<1> QED BY <1>1, <1>2, <1>3

\* The three places that write "abandoned".
LEMMA AbandonCases ==
    ASSUME TypeOK, CursorInBatch, NEW w \in Workers, Step(w) \/ Failure(w), NEW m \in Messages,
           status'[m] = "abandoned", status[m] # "abandoned"
    PROVE  Current(w).id = m /\ (Abandon(w) \/ InvalidRecipient(w) \/ AbandonRejected(w))
BY DEF Step, Failure, Select, Claim, ClaimConflict, LoopDone, Abandon, IncrementMessageSendCount,
       DispatchError, InvalidRecipient, Deliver, Reject, AbandonRejected, MarkSent,
       RecordSuccess, RecordFailure, Requeue, RequeueDone, Retry, Start, NextMessagesFails,
       AbandonFails, IncrementFails, DeliverAnswerLost, RecordFailureFails, RequeueFails,
       GiveUp, Crash, SetMessageStatus, table, TypeOK, TableType

\* CauseInv is preserved.
LEMMA CauseStep ==
    ASSUME TypeOK, TypeOK', CursorInBatch, CauseInv, NEW w \in Workers, Step(w) \/ Failure(w)
    PROVE  CauseInv'
<1> USE CourierAssumption
<1>1. ASSUME NEW v \in Workers, NEW n \in 1 .. Len(batch'[v])
      PROVE  batch'[v][n].sendCount =< sendCount'[batch'[v][n].id]
    <2>1. CASE v = w /\ Select(w)
        <3> DEFINE N == PullSize(Visible)
        <3>1. PICK s \in [1 .. N -> Visible] :
                batch' = [batch EXCEPT ![w] =
                    [i \in 1 .. N |-> [id |-> s[i], sendCount |-> sendCount[s[i]]]]]
            BY <2>1 DEF Select
        <3>2. N \in Nat
            BY PullSizeNat DEF Visible
        <3>3. n \in 1 .. N /\ batch'[w][n] = [id |-> s[n], sendCount |-> sendCount[s[n]]]
            BY <1>1, <2>1, <3>1, <3>2 DEF TypeOK, LocalType
        <3>4. sendCount' = sendCount /\ s[n] \in Messages
            BY <2>1, <3>3 DEF Select, table, Visible
        <3>5. sendCount[s[n]] \in Nat
            BY <3>4 DEF TypeOK, TableType
        <3> QED BY <2>1, <3>3, <3>4, <3>5
    <2>2. CASE v # w \/ ~Select(w)
        <3>1. batch'[v] \in {<<>>, batch[v]}
            BY <2>2, StepFrames
        <3>2. batch'[v] = batch[v] /\ n \in 1 .. Len(batch[v])
            BY <1>1, <3>1
        <3>3. batch[v][n].id \in Messages /\ batch[v][n].sendCount \in Nat
            BY <3>2, PulledMessage DEF TypeOK
        <3>4. /\ sendCount[batch[v][n].id] \in Nat /\ sendCount'[batch[v][n].id] \in Nat
              /\ sendCount[batch[v][n].id] =< sendCount'[batch[v][n].id]
              /\ batch[v][n].sendCount =< sendCount[batch[v][n].id]
            BY <3>2, <3>3, CountersGrow DEF TypeOK, TableType, CauseInv
        <3> QED BY <3>2, <3>3, <3>4
    <2> QED BY <2>1, <2>2
<1>2. ASSUME NEW v \in Workers, pc'[v] = "rejected"
      PROVE  rejections'[Current(v).id'] > 0
    <2>1. CASE v = w
        <3>1. Reject(w)
            BY <1>2, <2>1, StepFrames
        <3>2. Current(w).id \in Messages
            BY <3>1, CurrentMessage DEF Reject, CursorInBatch, Active
        <3>3. /\ Current(v)' = Current(w)
              /\ rejections'[Current(w).id] = rejections[Current(w).id] + 1
            BY <2>1, <3>1, <3>2 DEF Reject, Current, TypeOK, HistoryType
        <3>4. rejections[Current(w).id] \in Nat
            BY <3>2 DEF TypeOK, HistoryType
        <3> QED BY <3>3, <3>4
    <2>2. CASE v # w
        <3>1. pc[v] = "rejected" /\ Current(v)' = Current(v)
            BY <1>2, <2>2, StepFrames DEF Current
        <3>2. Current(v).id \in Messages
            BY <3>1, CurrentMessage DEF CursorInBatch, Active
        <3>3. /\ rejections[Current(v).id] \in Nat /\ rejections'[Current(v).id] \in Nat
              /\ rejections[Current(v).id] > 0
              /\ rejections[Current(v).id] =< rejections'[Current(v).id]
            BY <3>1, <3>2, CountersGrow DEF TypeOK, HistoryType, CauseInv
        <3> QED BY <3>1, <3>3
    <2> QED BY <2>1, <2>2
<1>3. ASSUME NEW m \in Messages, status'[m] = "abandoned"
      PROVE  sendCount'[m] > MaxRetries \/ rejections'[m] > 0 \/ m \in BadRecipients
    <2>1. /\ sendCount[m] \in Nat /\ sendCount'[m] \in Nat /\ sendCount[m] =< sendCount'[m]
          /\ rejections[m] \in Nat /\ rejections'[m] \in Nat /\ rejections[m] =< rejections'[m]
        BY CountersGrow DEF TypeOK, TableType, HistoryType
    <2>2. sendCount[m] > MaxRetries \/ rejections[m] > 0 \/ m \in BadRecipients
        <3>1. CASE status[m] = "abandoned"
            BY <3>1 DEF CauseInv, AbandonedForCause
        <3>2. CASE status[m] # "abandoned"
            <4>1. Current(w).id = m /\ (Abandon(w) \/ InvalidRecipient(w) \/ AbandonRejected(w))
                BY <1>3, <3>2, AbandonCases
            <4>2. CASE Abandon(w)
                <5>1. k[w] \in 1 .. Len(batch[w]) /\ Current(w).sendCount > MaxRetries
                    BY <4>2 DEF Abandon, RetriesExhausted, TypeOK, LocalType
                <5>2. Current(w).sendCount \in Nat
                    BY <4>2, CurrentMessage DEF Abandon
                <5>3. Current(w).sendCount =< sendCount[m]
                    BY <4>1, <5>1 DEF CauseInv, Current
                <5> QED BY <2>1, <5>1, <5>2, <5>3
            <4>3. CASE InvalidRecipient(w)
                BY <4>1, <4>3 DEF InvalidRecipient
            <4>4. CASE AbandonRejected(w)
                BY <4>1, <4>4 DEF AbandonRejected, CauseInv
            <4> QED BY <4>1, <4>2, <4>3, <4>4
        <3> QED BY <3>1, <3>2
    <2> QED BY <2>1, <2>2
<1> QED BY <1>1, <1>2, <1>3 DEF CauseInv, AbandonedForCause
-----------------------------------------------------------------------------
(* The theorems on counters *)

\* What happens outside the workers: an insert, a clock tick, an empty poll.
OutsideStep ==
    /\ UNCHANGED <<sendCount, dispatches, local, history>>
    /\ \/ status' = status
       \/ \E m \in Messages : status[m] = "absent" /\ status' = [status EXCEPT ![m] = "queued"]

\* Every step is a worker's or outside the workers.
LEMMA StepOrOutside ==
    ASSUME [Next]_vars
    PROVE  OutsideStep \/ \E w \in Workers : Step(w) \/ Failure(w)
<1>1. ASSUME NEW m \in Messages, AddMessage(m) \/ Age(m)
      PROVE  OutsideStep
    BY <1>1 DEF AddMessage, Age, SetMessageStatus, OutsideStep
<1>2. ASSUME NEW w \in Workers, PollEmpty(w)
      PROVE  OutsideStep
    BY <1>2 DEF PollEmpty, vars, table, OutsideStep
<1>3. CASE UNCHANGED vars
    BY <1>3 DEF vars, table, OutsideStep
<1> QED BY <1>1, <1>2, <1>3 DEF Next

CounterInv ==
    TypeOK /\ CursorInBatch /\ CountInv /\ EveryAttemptIsRecorded /\ CauseInv

\* The counter invariants hold along every behaviour.
LEMMA CounterInductive ==
    /\ Init => CounterInv
    /\ CounterInv /\ [Next]_vars => CounterInv'
<1>1. ASSUME Init PROVE CounterInv
    <2>1. TypeOK /\ CursorInBatch
        BY <1>1, InitType
    <2>2. ASSUME NEW m \in Messages
          PROVE  /\ delivered[m] + Cardinality(Dispatching(m)) =< sendCount[m]
                 /\ dispatches[m].success + dispatches[m].failed
                        + Cardinality(InFlight(m)) = sendCount[m]
        <3>1. Dispatching(m) = {} /\ InFlight(m) = {}
            BY <1>1 DEF Init, Dispatching, InFlight
        <3>2. Cardinality(Dispatching(m)) = 0 /\ Cardinality(InFlight(m)) = 0
            BY <3>1, FS_EmptySet
        <3>3. /\ delivered[m] = 0 /\ sendCount[m] = 0
              /\ dispatches[m].success = 0 /\ dispatches[m].failed = 0
            BY <1>1 DEF Init
        <3> QED BY <3>2, <3>3
    <2>3. CountInv /\ EveryAttemptIsRecorded
        BY <2>2 DEF CountInv, EveryAttemptIsRecorded
    <2>4. CauseInv
        BY <1>1 DEF Init, CauseInv, AbandonedForCause
    <2> QED BY <2>1, <2>3, <2>4 DEF CounterInv
<1>2. ASSUME CounterInv, [Next]_vars PROVE CounterInv'
    <2>1. TypeOK' /\ CursorInBatch'
        BY <1>2, NextType DEF CounterInv
    <2>2. CASE OutsideStep
        <3>1. \A m \in Messages :
                Dispatching(m)' = Dispatching(m) /\ InFlight(m)' = InFlight(m)
            BY <2>2 DEF OutsideStep, local, Dispatching, InFlight, Current
        <3>2. CountInv' /\ EveryAttemptIsRecorded'
            BY <1>2, <2>2, <3>1
               DEF CounterInv, OutsideStep, history, CountInv, EveryAttemptIsRecorded
        <3>3. \A m \in Messages : status'[m] = "abandoned" => status[m] = "abandoned"
            BY <1>2, <2>2 DEF CounterInv, OutsideStep, TypeOK, TableType
        <3>4. CauseInv'
            BY <1>2, <2>2, <3>3
               DEF CounterInv, OutsideStep, history, local, CauseInv, AbandonedForCause, Current
        <3> QED BY <2>1, <3>2, <3>4 DEF CounterInv
    <2>3. ASSUME NEW w \in Workers, Step(w) \/ Failure(w)
          PROVE  CounterInv'
        BY <1>2, <2>1, <2>3, CountStep, RecordStep, CauseStep DEF CounterInv
    <2> QED BY <1>2, <2>2, <2>3, StepOrOutside
<1> QED BY <1>1, <1>2

\* No crash, failing statement or lost answer lets the upstream accept a message more
\* often than its send_count says, whatever the number of workers.
THEOREM DeliveriesCounted == Spec => []DeliveriesAreCounted
<1>1. CounterInv => DeliveriesAreCounted
    <2> SUFFICES ASSUME CounterInv, NEW m \in Messages
                 PROVE  delivered[m] =< sendCount[m]
        BY DEF DeliveriesAreCounted
    <2>1. Dispatching(m) \in SUBSET Workers
        BY DEF Dispatching
    <2>2. Cardinality(Dispatching(m)) \in Nat
        BY <2>1, WorkerSets
    <2>3. delivered[m] \in Nat /\ sendCount[m] \in Nat
        BY DEF CounterInv, TypeOK, TableType, HistoryType
    <2>4. delivered[m] + Cardinality(Dispatching(m)) =< sendCount[m]
        BY DEF CounterInv, CountInv
    <2> QED BY <2>2, <2>3, <2>4
<1> QED BY <1>1, CounterInductive, PTL DEF Spec

\* As long as no statement failed, every counted attempt has its dispatch row once its
\* worker has moved on.
THEOREM AttemptsRecorded == Spec => []EveryAttemptIsRecorded
<1>1. CounterInv => EveryAttemptIsRecorded
    BY DEF CounterInv
<1> QED BY <1>1, CounterInductive, PTL DEF Spec

\* A message is given up only after its retries, a 5xx answer or for a bad recipient,
\* although the count that is compared may be stale.
THEOREM GivenUpForCause == Spec => []AbandonedForCause
<1>1. CounterInv => AbandonedForCause
    BY DEF CounterInv, CauseInv
<1> QED BY <1>1, CounterInductive, PTL DEF Spec
-----------------------------------------------------------------------------
(***************************************************************************)
(* Who holds what.  A step of a worker claims a batch, keeps what it holds, *)
(* writes one message it holds, or drops messages because of a fault.       *)
(***************************************************************************)

\* The ids of a batch from index i on.
Ids(b, i) == {b[n].id : n \in i .. Len(b)}

\* A worker outside its loop has no batch, and the reset never runs behind the loop.
LoopInv ==
    \A w \in Workers :
        /\ pc[w] \in {"idle", "backoff", "stopped"} => batch[w] = <<>>
        /\ pc[w] = "requeue" => k[w] =< j[w]

\* What is held is cut off the batch at the cursor.
LEMMA IdsFacts ==
    ASSUME NEW b \in Seq(Pulled), NEW i \in Nat \ {0}
    PROVE  /\ i > Len(b) => Ids(b, i) = {}
           /\ i =< Len(b) => Ids(b, i) = Ids(b, i + 1) \cup {b[i].id}
           /\ \A n \in i .. Len(b) : b[n].id \in Ids(b, i)
<1>1. Len(b) \in Nat
    OBVIOUS
<1>2. i > Len(b) => Ids(b, i) = {}
    BY <1>1 DEF Ids
<1>3. i =< Len(b) => i .. Len(b) = (i + 1) .. Len(b) \cup {i}
    BY <1>1
<1>4. i =< Len(b) => Ids(b, i) = Ids(b, i + 1) \cup {b[i].id}
    BY <1>3 DEF Ids
<1>5. \A n \in i .. Len(b) : b[n].id \in Ids(b, i)
    BY DEF Ids
<1> QED BY <1>2, <1>4, <1>5

\* Holding in terms of a batch and a cursor, before and after a step.
LEMMA HoldingIs ==
    ASSUME NEW w \in Workers
    PROVE  /\ Holding(w) = IF pc[w] = "claim" THEN {} ELSE Ids(batch[w], Cursor(w))
           /\ Holding(w)' = IF pc'[w] = "claim" THEN {} ELSE Ids(batch'[w], Cursor(w)')
BY DEF Holding, IdsFrom, Ids

\* An empty batch holds nothing.
LEMMA NothingHeld ==
    ASSUME TypeOK, TypeOK', NEW w \in Workers
    PROVE  /\ batch[w] = <<>> => Holding(w) = {}
           /\ batch'[w] = <<>> => Holding(w)' = {}
<1>1. Cursor(w) \in Nat \ {0} /\ Cursor(w)' \in Nat \ {0}
    BY DEF Cursor, TypeOK, LocalType
<1>2. \A i \in Nat \ {0} : Ids(<<>>, i) = {}
    BY DEF Ids
<1> QED BY <1>1, <1>2, HoldingIs

Keeps(w) ==
    status' = status /\ orphaned' = orphaned /\ Holding(w)' = Holding(w) /\ faults' = faults

Writes(w) ==
    \E m \in Holding(w), s \in {"queued", "sent", "abandoned"} :
        /\ status' = [status EXCEPT ![m] = s]
        /\ orphaned' = orphaned /\ faults' = faults
        /\ Holding(w) \ {m} \subseteq Holding(w)'
        /\ Holding(w)' \subseteq Holding(w)
        /\ s = "queued" => pc[w] = "requeue"
        /\ s = "sent" => /\ pc[w] = "markSent" /\ m = batch[w][k[w]].id
                         /\ k[w] =< Len(batch[w])
                         /\ Holding(w)' = Ids(batch[w], k[w] + 1)

Drops(w) ==
    /\ status' = status /\ faults' = faults + 1
    /\ Holding(w)' \subseteq Holding(w)
    /\ orphaned \cup (Holding(w) \ Holding(w)') \subseteq orphaned'

\* LoopInv is inductive.
LEMMA LoopStep ==
    ASSUME TypeOK, LoopInv, NEW w \in Workers, Step(w) \/ Failure(w)
    PROVE  LoopInv'
<1>1. /\ pc'[w] \in {"idle", "backoff", "stopped"} => batch'[w] = <<>>
      /\ pc'[w] = "requeue" => k'[w] =< j'[w]
    BY DEF LoopInv, Step, Failure, Select, Claim, ClaimConflict, LoopDone, Abandon,
           IncrementMessageSendCount, DispatchError, InvalidRecipient, Deliver, Reject,
           AbandonRejected, MarkSent, RecordSuccess, RecordFailure, Requeue, RequeueDone,
           Retry, Start, NextMessagesFails, AbandonFails, IncrementFails, DeliverAnswerLost,
           RecordFailureFails, RequeueFails, GiveUp, Crash, ReturnError, Forget, Goto,
           Fault, TypeOK, LocalType
<1> QED BY <1>1, StepFrames DEF LoopInv

\* The end of DispatchQueue drops what was held.
LEMMA ForgetDrops ==
    ASSUME TypeOK, TypeOK', NEW w \in Workers, NEW label, Forget(w, label), status' = status
    PROVE  /\ Holding(w)' = {}
           /\ Holding(w) = {} => orphaned' = orphaned
           /\ faults' = faults + 1 => Drops(w)
<1>1. batch'[w] = <<>> /\ orphaned' = orphaned \cup Holding(w)
    BY DEF Forget, TypeOK, LocalType
<1>2. Holding(w)' = {}
    BY <1>1, NothingHeld
<1> QED BY <1>1, <1>2 DEF Drops

\* The message a worker is at, and a cursor one further.
LEMMA AtCursor ==
    ASSUME TypeOK, CursorInBatch, NEW w \in Workers, k[w] =< Len(batch[w])
    PROVE  /\ batch[w] \in Seq(Pulled) /\ k[w] \in Nat \ {0} /\ j[w] \in Nat \ {0}
           /\ Current(w).id = batch[w][k[w]].id
           /\ Ids(batch[w], k[w]) = Ids(batch[w], k[w] + 1) \cup {Current(w).id}
<1>1. batch[w] \in Seq(Pulled) /\ k[w] \in Nat \ {0} /\ j[w] \in Nat \ {0}
    BY DEF TypeOK, LocalType
<1> QED BY <1>1, IdsFacts DEF Current

\* Every step of a worker is one of the four kinds.
LEMMA HoldingStep ==
    ASSUME TypeOK, TypeOK', CursorInBatch, LoopInv, NEW w \in Workers, Step(w) \/ Failure(w)
    PROVE  Claim(w) \/ Keeps(w) \/ Writes(w) \/ Drops(w)
<1> USE DEF Goto, table, local, history
<1>a. /\ batch[w] \in Seq(Pulled) /\ k[w] \in Nat \ {0} /\ j[w] \in Nat \ {0}
      /\ pc \in [Workers -> Pcs] /\ k \in [Workers -> Nat \ {0}]
      /\ j \in [Workers -> Nat \ {0}] /\ batch \in [Workers -> Seq(Pulled)]
      /\ Len(batch[w]) \in Nat
    BY DEF TypeOK, LocalType
<1>1. CASE Select(w) \/ ClaimConflict(w) \/ Retry(w) \/ GiveUp(w) \/ Start(w)
    <2>1. /\ pc[w] \in {"idle", "claim", "backoff", "stopped"}
          /\ pc'[w] = "claim" \/ batch'[w] = <<>>
          /\ status' = status /\ orphaned' = orphaned /\ faults' = faults
        BY <1>1, <1>a DEF Select, ClaimConflict, Retry, GiveUp, Start, LoopInv
    <2>2. Holding(w) = {} /\ Holding(w)' = {}
        BY <2>1, HoldingIs, NothingHeld DEF LoopInv
    <2> QED BY <2>1, <2>2 DEF Keeps
<1>2. CASE NextMessagesFails(w) \/ AbandonFails(w) \/ Crash(w)
    <2>1. PICK label \in Pcs : Forget(w, label)
        BY <1>2 DEF NextMessagesFails, AbandonFails, Crash, ReturnError, Pcs
    <2>2. status' = status /\ faults' = faults + 1
        BY <1>2 DEF NextMessagesFails, AbandonFails, Crash, Fault
    <2> QED BY <2>1, <2>2, ForgetDrops
<1>3. CASE LoopDone(w)
    <2>1. /\ Forget(w, "idle") /\ status' = status /\ faults' = faults
          /\ pc[w] = "next" /\ k[w] > Len(batch[w])
        BY <1>3 DEF LoopDone
    <2>2. Cursor(w) = k[w]
        BY <2>1 DEF Cursor
    <2>3. Holding(w) = {}
        BY <1>a, <2>1, <2>2, HoldingIs, IdsFacts
    <2> QED BY <2>1, <2>3, ForgetDrops DEF Keeps
<1>4. CASE Abandon(w)
    <2>1. /\ pc[w] = "next" /\ pc'[w] = "next" /\ k[w] =< Len(batch[w])
          /\ batch'[w] = batch[w] /\ k'[w] = k[w] + 1
          /\ status' = [status EXCEPT ![Current(w).id] = "abandoned"]
          /\ orphaned' = orphaned /\ faults' = faults
        BY <1>4, <1>a DEF Abandon, SetMessageStatus
    <2>2. Cursor(w) = k[w] /\ Cursor(w)' = k[w] + 1
        BY <2>1 DEF Cursor
    <2>3. /\ Holding(w) = Ids(batch[w], k[w] + 1) \cup {Current(w).id}
          /\ Holding(w)' = Ids(batch[w], k[w] + 1)
        BY <2>1, <2>2, HoldingIs, AtCursor
    <2> QED BY <2>1, <2>3 DEF Writes
<1>5. CASE IncrementMessageSendCount(w) \/ DispatchError(w) \/ Deliver(w) \/ Reject(w)
    <2>1. /\ pc[w] \in {"next", "dispatch"}
          /\ pc'[w] \in {"dispatch", "recordFailure", "markSent", "rejected"}
          /\ batch'[w] = batch[w] /\ k'[w] = k[w]
          /\ status' = status /\ orphaned' = orphaned /\ faults' = faults
        BY <1>5, <1>a DEF IncrementMessageSendCount, DispatchError, Deliver, Reject
    <2>2. Cursor(w) = k[w] /\ Cursor(w)' = k[w]
        BY <2>1 DEF Cursor
    <2> QED BY <2>1, <2>2, HoldingIs DEF Keeps
<1>6. CASE IncrementFails(w) \/ DeliverAnswerLost(w)
    <2>1. /\ pc[w] \in {"next", "dispatch"} /\ pc'[w] = "recordFailure"
          /\ batch'[w] = batch[w] /\ k'[w] = k[w]
          /\ status' = status /\ orphaned' = orphaned /\ faults' = faults + 1
        BY <1>6, <1>a DEF IncrementFails, DeliverAnswerLost, Fault
    <2>2. Cursor(w) = k[w] /\ Cursor(w)' = k[w]
        BY <2>1 DEF Cursor
    <2>3. Holding(w)' = Holding(w)
        BY <2>1, <2>2, HoldingIs
    <2> QED BY <2>1, <2>3 DEF Drops
<1>7. CASE InvalidRecipient(w) \/ AbandonRejected(w)
    <2>1. /\ pc[w] \in {"dispatch", "rejected"} /\ pc'[w] = "recordFailure"
          /\ k[w] =< Len(batch[w])
          /\ batch'[w] = batch[w] /\ k'[w] = k[w] /\ orphaned' = orphaned
          /\ \/ /\ status' = [status EXCEPT ![Current(w).id] = "abandoned"]
                /\ faults' = faults
             \/ status' = status /\ faults' = faults + 1
        BY <1>7, <1>a DEF InvalidRecipient, AbandonRejected, Fault, SetMessageStatus,
                          CursorInBatch, Active
    <2>2. Cursor(w) = k[w] /\ Cursor(w)' = k[w]
        BY <2>1 DEF Cursor
    <2>3. Holding(w)' = Holding(w) /\ Current(w).id \in Holding(w)
        BY <2>1, <2>2, HoldingIs, AtCursor
    <2> QED BY <2>1, <2>3 DEF Drops, Writes
<1>8. CASE MarkSent(w)
    <2>1. /\ pc[w] = "markSent" /\ k[w] =< Len(batch[w])
          /\ batch'[w] = batch[w] /\ k'[w] = k[w] /\ orphaned' = orphaned
          /\ \/ /\ status' = [status EXCEPT ![Current(w).id] = "sent"]
                /\ faults' = faults /\ pc'[w] = "recordSuccess"
             \/ /\ status' = status /\ faults' = faults + 1
                /\ pc'[w] = "recordFailure"
        BY <1>8, <1>a DEF MarkSent, Fault, SetMessageStatus, CursorInBatch, Active
    <2>2. /\ Cursor(w) = k[w]
          /\ Cursor(w)' = IF pc'[w] = "recordSuccess" THEN k[w] + 1 ELSE k[w]
        BY <2>1 DEF Cursor
    <2>3. CASE pc'[w] = "recordSuccess"
        <3>1. /\ Holding(w) = Ids(batch[w], k[w] + 1) \cup {Current(w).id}
              /\ Holding(w)' = Ids(batch[w], k[w] + 1)
            BY <2>1, <2>2, <2>3, HoldingIs, AtCursor
        <3> QED BY <2>1, <2>3, <3>1, AtCursor DEF Writes
    <2>4. CASE pc'[w] # "recordSuccess"
        <3>1. Holding(w)' = Holding(w)
            BY <2>1, <2>2, <2>4, HoldingIs
        <3> QED BY <2>1, <2>4, <3>1 DEF Drops
    <2> QED BY <2>3, <2>4
<1>9. CASE RecordSuccess(w)
    <2>1. /\ pc[w] = "recordSuccess" /\ pc'[w] = "next"
          /\ batch'[w] = batch[w] /\ k'[w] = k[w] + 1
          /\ status' = status /\ orphaned' = orphaned
          /\ faults' = faults \/ faults' = faults + 1
        BY <1>9, <1>a DEF RecordSuccess, Fault
    <2>2. Cursor(w) = k[w] + 1 /\ Cursor(w)' = k[w] + 1
        BY <2>1 DEF Cursor
    <2>3. Holding(w)' = Holding(w)
        BY <2>1, <2>2, HoldingIs
    <2> QED BY <2>1, <2>3 DEF Keeps, Drops
<1>10. CASE RecordFailure(w)
    <2>1. /\ pc[w] = "recordFailure" /\ pc'[w] = "requeue"
          /\ batch'[w] = batch[w] /\ k'[w] = k[w] /\ j'[w] = k[w]
          /\ status' = status /\ orphaned' = orphaned /\ faults' = faults
        BY <1>10, <1>a DEF RecordFailure
    <2>2. Cursor(w) = k[w] /\ Cursor(w)' = k[w]
        BY <1>a, <2>1 DEF Cursor
    <2> QED BY <2>1, <2>2, HoldingIs DEF Keeps
<1>11. CASE RecordFailureFails(w)
    <2>1. CASE FailOnDispatchError
        BY <1>11, <2>1, ForgetDrops DEF RecordFailureFails, ReturnError, Fault
    <2>2. CASE ~FailOnDispatchError
        <3>1. /\ pc[w] = "recordFailure" /\ pc'[w] = "requeue"
              /\ batch'[w] = batch[w] /\ k'[w] = k[w] /\ j'[w] = k[w]
              /\ status' = status /\ orphaned' = orphaned /\ faults' = faults + 1
            BY <1>11, <1>a, <2>2 DEF RecordFailureFails, Fault
        <3>2. Cursor(w) = k[w] /\ Cursor(w)' = k[w]
            BY <1>a, <3>1 DEF Cursor
        <3>3. Holding(w)' = Holding(w)
            BY <3>1, <3>2, HoldingIs
        <3> QED BY <3>1, <3>3 DEF Drops
    <2> QED BY <2>1, <2>2
<1>12. CASE Requeue(w)
    <2> DEFINE m == batch[w][j[w]].id
    <2>1. /\ pc[w] = "requeue" /\ pc'[w] = "requeue" /\ j[w] =< Len(batch[w])
          /\ batch'[w] = batch[w] /\ k'[w] = k[w] /\ j'[w] = j[w] + 1
          /\ status' = [status EXCEPT ![m] = "queued"]
          /\ orphaned' = orphaned /\ faults' = faults /\ k[w] =< j[w]
        BY <1>12, <1>a DEF Requeue, SetMessageStatus, LoopInv
    <2>2. /\ Holding(w) = Ids(batch[w], Cursor(w))
          /\ Holding(w)' = Ids(batch[w], Cursor(w)')
        BY <2>1, HoldingIs
    <2>3. /\ m \in Holding(w)
          /\ Holding(w) \ {m} \subseteq Holding(w)'
          /\ Holding(w)' \subseteq Holding(w)
        <3>1. CASE FailOnDispatchError \/ j[w] = k[w]
            <4>1. Cursor(w) = j[w] /\ Cursor(w)' = j[w] + 1
                BY <1>a, <2>1, <3>1 DEF Cursor
            <4> QED BY <1>a, <2>1, <2>2, <4>1, IdsFacts
        <3>2. CASE ~FailOnDispatchError /\ j[w] > k[w]
            <4>1. Cursor(w) = k[w] + 1 /\ Cursor(w)' = k[w] + 1
                BY <1>a, <2>1, <3>2 DEF Cursor
            <4>2. j[w] \in k[w] + 1 .. Len(batch[w])
                BY <1>a, <2>1, <3>2
            <4> QED BY <1>a, <2>2, <4>1, <4>2, IdsFacts
        <3> QED BY <1>a, <2>1, <3>1, <3>2
    <2> QED BY <2>1, <2>3 DEF Writes
<1>13. CASE RequeueFails(w)
    <2>1. CASE FailOnDispatchError
        BY <1>13, <2>1, ForgetDrops DEF RequeueFails, ReturnError, Fault
    <2>2. CASE ~FailOnDispatchError
        <3>1. /\ pc[w] = "requeue" /\ pc'[w] = "requeue" /\ j[w] =< Len(batch[w])
              /\ batch'[w] = batch[w] /\ k'[w] = k[w] /\ j'[w] = j[w] + 1
              /\ orphaned' = IF j[w] = k[w] THEN orphaned \cup {Current(w).id} ELSE orphaned
              /\ status' = status /\ faults' = faults + 1 /\ k[w] =< j[w]
              /\ k[w] =< Len(batch[w])
            BY <1>13, <1>a, <2>2 DEF RequeueFails, Fault, LoopInv, CursorInBatch, Active
        <3>2. /\ Holding(w) = Ids(batch[w], Cursor(w))
              /\ Holding(w)' = Ids(batch[w], Cursor(w)')
            BY <3>1, HoldingIs
        <3>3. CASE j[w] = k[w]
            <4>1. Cursor(w) = k[w] /\ Cursor(w)' = k[w] + 1
                BY <1>a, <2>2, <3>1, <3>3 DEF Cursor
            <4>2. Holding(w) = Holding(w)' \cup {Current(w).id}
                BY <3>1, <3>2, <4>1, AtCursor
            <4> QED BY <3>1, <3>3, <4>2 DEF Drops
        <3>4. CASE j[w] # k[w]
            <4>1. Cursor(w) = k[w] + 1 /\ Cursor(w)' = k[w] + 1
                BY <1>a, <2>2, <3>1, <3>4 DEF Cursor
            <4> QED BY <3>1, <3>2, <3>4, <4>1 DEF Drops
        <3> QED BY <3>3, <3>4
    <2> QED BY <2>1, <2>2
<1>14. CASE RequeueDone(w)
    <2>1. /\ pc[w] = "requeue" /\ j[w] > Len(batch[w]) /\ k[w] =< Len(batch[w])
          /\ status' = status /\ faults' = faults
        BY <1>14 DEF RequeueDone, CursorInBatch, Active
    <2>2. CASE FailOnDispatchError
        <3>1. Cursor(w) = j[w] /\ Forget(w, "backoff")
            BY <1>14, <2>1, <2>2 DEF Cursor, RequeueDone, ReturnError
        <3>2. Holding(w) = {}
            BY <1>a, <2>1, <3>1, HoldingIs, IdsFacts
        <3> QED BY <2>1, <3>1, <3>2, ForgetDrops DEF Keeps
    <2>3. CASE ~FailOnDispatchError
        <3>1. /\ pc'[w] = "next" /\ batch'[w] = batch[w] /\ k'[w] = k[w] + 1
              /\ orphaned' = orphaned
            BY <1>14, <1>a, <2>3 DEF RequeueDone
        <3>2. Cursor(w) = k[w] + 1 /\ Cursor(w)' = k[w] + 1
            BY <1>a, <2>1, <2>3, <3>1 DEF Cursor
        <3> QED BY <2>1, <3>1, <3>2, HoldingIs DEF Keeps
    <2> QED BY <2>2, <2>3
<1> QED BY <1>1, <1>2, <1>3, <1>4, <1>5, <1>6, <1>7, <1>8, <1>9, <1>10, <1>11, <1>12, <1>13,
           <1>14 DEF Step, Failure

\* What the other workers hold, and what all hold in a step outside the workers.
LEMMA OthersHold ==
    ASSUME TypeOK
    PROVE  /\ \A w \in Workers : (Step(w) \/ Failure(w)) =>
                  \A v \in Workers \ {w} : Holding(v)' = Holding(v)
           /\ OutsideStep => \A v \in Workers : Holding(v)' = Holding(v)
<1>1. ASSUME NEW v \in Workers, pc'[v] = pc[v], batch'[v] = batch[v], k'[v] = k[v], j'[v] = j[v]
      PROVE  Holding(v)' = Holding(v)
    <2>1. Cursor(v)' = Cursor(v)
        BY <1>1 DEF Cursor
    <2> QED BY <1>1, <2>1, HoldingIs
<1> QED BY <1>1, StepFrames DEF OutsideStep, local

\* Claiming: the whole batch is held afterwards, and nothing was before.
LEMMA ClaimHolds ==
    ASSUME TypeOK, NEW w \in Workers, Claim(w)
    PROVE  /\ Holding(w) = {} /\ Holding(w)' = Ids(batch[w], 1)
           /\ Ids(batch[w], 1) \subseteq Messages
           /\ orphaned' = orphaned /\ faults' = faults
           /\ Cockroach => \A m \in Ids(batch[w], 1) : status[m] = "queued"
           /\ \A m \in Messages :
                status'[m] = IF m \in Ids(batch[w], 1) THEN "processing" ELSE status[m]
<1>1. /\ pc[w] = "claim" /\ pc'[w] = "next" /\ k'[w] = 1 /\ batch'[w] = batch[w]
      /\ orphaned' = orphaned /\ faults' = faults
    BY DEF Claim, Goto, history, TypeOK, LocalType
<1>2. IdsFrom(w, 1) = Ids(batch[w], 1)
    BY DEF IdsFrom, Ids
<1>3. Cursor(w)' = 1
    BY <1>1 DEF Cursor
<1>4. Cockroach => \A m \in Ids(batch[w], 1) : status[m] = "queued"
    BY DEF Claim, ReadsStillValid, Ids, TypeOK, LocalType
<1>5. Ids(batch[w], 1) \subseteq Messages
    <2>1. \A n \in 1 .. Len(batch[w]) : batch[w][n].id \in Messages
        BY PulledMessage DEF TypeOK
    <2> QED BY <2>1 DEF Ids
<1> QED BY <1>1, <1>2, <1>3, <1>4, <1>5, HoldingIs DEF Claim

LoopType == TypeOK /\ CursorInBatch /\ LoopInv

\* The first three invariants together.
LEMMA LoopInductive ==
    /\ Init => LoopType
    /\ LoopType /\ [Next]_vars => LoopType'
<1>1. ASSUME Init PROVE LoopInv
    BY <1>1 DEF Init, LoopInv
<1>2. ASSUME LoopType, [Next]_vars PROVE LoopInv'
    <2>1. CASE OutsideStep
        BY <1>2, <2>1 DEF LoopType, LoopInv, OutsideStep, local
    <2> QED BY <1>2, <2>1, StepOrOutside, LoopStep DEF LoopType
<1> QED BY <1>1, <1>2, InitType, NextType DEF LoopType

-----------------------------------------------------------------------------
(* Nothing is left behind *)

HeldInv ==
    /\ \A m \in Messages : status[m] = "processing" =>
          m \in orphaned \/ \E w \in Workers : m \in Holding(w)
    /\ orphaned # {} => faults > 0

\* A message in status "processing" is one that some worker will still change, unless
\* a fault made its worker drop it.
THEOREM ProcessingHeld == Spec => []ProcessingIsHeld
<1>1. Init => HeldInv
    BY DEF Init, HeldInv
<1>2. LoopType /\ HeldInv /\ [Next]_vars => HeldInv'
    <2> SUFFICES ASSUME LoopType, HeldInv, [Next]_vars PROVE HeldInv'
        OBVIOUS
    <2>0. TypeOK /\ TypeOK' /\ CursorInBatch /\ LoopInv
        BY LoopInductive DEF LoopType
    <2>1. CASE OutsideStep
        <3>1. \A m \in Messages : status'[m] = "processing" => status[m] = "processing"
            BY <2>0, <2>1 DEF OutsideStep, TypeOK, TableType
        <3> QED BY <2>0, <2>1, <3>1, OthersHold DEF HeldInv, OutsideStep, history
    <2>2. ASSUME NEW w \in Workers, Step(w) \/ Failure(w)
          PROVE  HeldInv'
        <3>1. \A v \in Workers \ {w} : Holding(v)' = Holding(v)
            BY <2>0, <2>2, OthersHold
        <3>2. faults \in Nat
            BY <2>0, CourierAssumption DEF TypeOK, HistoryType
        <3>3. CASE Claim(w)
            <4>1. ASSUME NEW m \in Messages, status'[m] = "processing"
                  PROVE  m \in orphaned' \/ \E v \in Workers : m \in Holding(v)'
                <5>1. CASE m \in Ids(batch[w], 1)
                    BY <2>0, <3>3, <5>1, ClaimHolds
                <5>2. CASE m \notin Ids(batch[w], 1)
                    <6>1. status[m] = "processing" /\ orphaned' = orphaned /\ Holding(w) = {}
                        BY <2>0, <3>3, <4>1, <5>2, ClaimHolds
                    <6> QED BY <3>1, <6>1 DEF HeldInv
                <5> QED BY <5>1, <5>2
            <4>2. orphaned' = orphaned /\ faults' = faults
                BY <2>0, <3>3, ClaimHolds
            <4> QED BY <4>1, <4>2 DEF HeldInv
        <3>4. CASE Keeps(w)
            BY <3>1, <3>4 DEF HeldInv, Keeps
        <3>5. CASE Writes(w)
            <4>1. PICK m \in Holding(w), s \in {"queued", "sent", "abandoned"} :
                    /\ status' = [status EXCEPT ![m] = s]
                    /\ orphaned' = orphaned /\ faults' = faults
                    /\ Holding(w) \ {m} \subseteq Holding(w)'
                BY <3>5 DEF Writes
            <4>2. \A x \in Messages : status'[x] = "processing" => status[x] = "processing" /\ x # m
                BY <2>0, <4>1 DEF TypeOK, TableType
            <4> QED BY <3>1, <4>1, <4>2 DEF HeldInv
        <3>6. CASE Drops(w)
            BY <3>1, <3>2, <3>6 DEF HeldInv, Drops
        <3> QED BY <2>0, <2>2, <3>3, <3>4, <3>5, <3>6, HoldingStep
    <2> QED BY <2>1, <2>2, StepOrOutside
<1>3. HeldInv => ProcessingIsHeld
    BY DEF HeldInv, ProcessingIsHeld
<1> QED BY <1>1, <1>2, <1>3, LoopInductive, PTL DEF Spec

-----------------------------------------------------------------------------
(***************************************************************************)
(* The serializable claim.  As long as nothing failed, what is held is not  *)
(* "queued"; the claim only takes what is; so nothing is held twice.        *)
(***************************************************************************)

Untroubled == faults = 0 /\ \A m \in Messages : dispatches[m].failed = 0

ExclusiveInv ==
    Untroubled =>
        /\ \A w \in Workers : pc[w] # "requeue"
        /\ \A w \in Workers : \A m \in Holding(w) : status[m] \notin {"absent", "queued"}
        /\ \A v, w \in Workers : v # w => Holding(v) \cap Holding(w) = {}

\* Trouble stays, and only trouble leads to the reset of messages[k:].
LEMMA TroubleStays ==
    ASSUME LoopType, NEW w \in Workers, Step(w) \/ Failure(w), Untroubled'
    PROVE  /\ Untroubled /\ faults' = faults
           /\ pc'[w] = "requeue" => pc[w] = "requeue"
<1>1. faults \in Nat /\ faults' = faults /\ faults = 0
    <2>1. faults \in Nat /\ faults' = 0
        BY CourierAssumption DEF Untroubled, LoopType, TypeOK, HistoryType
    <2>2. faults' \in {faults, faults + 1}
        BY StepFrames DEF LoopType
    <2> QED BY <2>1, <2>2
<1>2. ASSUME NEW m \in Messages
      PROVE  dispatches[m].failed = 0 /\ (RecordFailure(w) => m # Current(w).id)
    <2>1. /\ dispatches'[m].failed = 0
          /\ dispatches[m].failed \in Nat /\ dispatches[m].success \in Nat
          /\ dispatches \in [Messages -> [success : Nat, failed : Nat]]
        BY DEF Untroubled, LoopType, TypeOK, TableType
    <2>2. CASE RecordSuccess(w)
        <3>1. dispatches'[m].failed = dispatches[m].failed
            BY <2>1, <2>2 DEF RecordSuccess
        <3>2. ~RecordFailure(w)
            BY <2>2 DEF RecordSuccess, RecordFailure
        <3> QED BY <2>1, <3>1, <3>2
    <2>3. CASE RecordFailure(w)
        <3>1. dispatches' = [dispatches EXCEPT ![Current(w).id].failed = @ + 1]
            BY <2>3 DEF RecordFailure
        <3>2. m # Current(w).id
            BY <2>1, <3>1
        <3>3. dispatches'[m] = dispatches[m]
            BY <2>1, <3>1, <3>2
        <3> QED BY <2>1, <3>2, <3>3
    <2>4. CASE ~RecordSuccess(w) /\ ~RecordFailure(w)
        <3>1. dispatches' = dispatches
            BY <2>4, StepFrames DEF LoopType
        <3> QED BY <2>1, <2>4, <3>1
    <2> QED BY <2>2, <2>3, <2>4
<1>3. ~RecordFailure(w)
    <2> SUFFICES ASSUME RecordFailure(w) PROVE FALSE
        OBVIOUS
    <2>1. Current(w).id \in Messages
        BY CurrentMessage DEF RecordFailure, LoopType, CursorInBatch, Active
    <2> QED BY <1>2, <2>1
<1>4. faults' # faults + 1
    BY <1>1
<1>5. pc'[w] = "requeue" => pc[w] = "requeue"
    BY <1>3, <1>4
       DEF Step, Failure, Select, Claim, ClaimConflict, LoopDone, Abandon,
           IncrementMessageSendCount, DispatchError, InvalidRecipient, Deliver, Reject,
           AbandonRejected, MarkSent, RecordSuccess, Requeue, RequeueDone,
           Retry, Start, NextMessagesFails, AbandonFails, IncrementFails, DeliverAnswerLost,
           RecordFailureFails, RequeueFails, GiveUp, Crash, ReturnError, Forget, Goto,
           Fault, LoopType, TypeOK, LocalType
<1> QED BY <1>1, <1>2, <1>5 DEF Untroubled

\* On CockroachDB no two workers hold the same message before a dispatch or a statement
\* has failed, for every number of workers and every interleaving of their claims.
THEOREM ClaimsExclusive ==
    ASSUME Cockroach
    PROVE  Spec => []ExclusiveUntilFailure
<1>1. Init => ExclusiveInv
    <2> SUFFICES ASSUME Init PROVE ExclusiveInv
        OBVIOUS
    <2>1. \A w \in Workers : pc[w] = "idle" /\ Holding(w) = {}
        BY DEF Init, Holding, IdsFrom, Cursor
    <2> QED BY <2>1 DEF ExclusiveInv
<1>2. LoopType /\ ExclusiveInv /\ [Next]_vars => ExclusiveInv'
    <2> SUFFICES ASSUME LoopType, ExclusiveInv, [Next]_vars, Untroubled'
                 PROVE  /\ \A v \in Workers : pc'[v] # "requeue"
                        /\ \A v \in Workers : \A m \in Holding(v)' :
                               status'[m] \notin {"absent", "queued"}
                        /\ \A u, v \in Workers : u # v => Holding(u)' \cap Holding(v)' = {}
        BY DEF ExclusiveInv
    <2>0. TypeOK /\ TypeOK' /\ CursorInBatch /\ LoopInv
        BY LoopInductive DEF LoopType
    <2>1. CASE OutsideStep
        <3>1. /\ Untroubled /\ pc' = pc
              /\ \A v \in Workers : Holding(v)' = Holding(v)
              /\ \A v \in Workers : Holding(v) \subseteq Messages
            BY <2>0, <2>1, OthersHold, HoldingMessages DEF OutsideStep, Untroubled, history, local
        <3>2. \A m \in Messages : status[m] \notin {"absent", "queued"} => status'[m] = status[m]
            BY <2>0, <2>1 DEF OutsideStep, TypeOK, TableType
        <3> QED BY <3>1, <3>2 DEF ExclusiveInv
    <2>2. ASSUME NEW w \in Workers, Step(w) \/ Failure(w)
          PROVE  /\ \A v \in Workers : pc'[v] # "requeue"
                 /\ \A v \in Workers : \A m \in Holding(v)' :
                        status'[m] \notin {"absent", "queued"}
                 /\ \A u, v \in Workers : u # v => Holding(u)' \cap Holding(v)' = {}
        <3>1. /\ \A v \in Workers \ {w} : Holding(v)' = Holding(v) /\ pc'[v] = pc[v]
              /\ \A v \in Workers : Holding(v) \subseteq Messages
            BY <2>0, <2>2, OthersHold, StepFrames, HoldingMessages
        <3>2. /\ Untroubled /\ faults' = faults /\ faults \in Nat
              /\ pc'[w] = "requeue" => pc[w] = "requeue"
            BY <2>0, <2>2, TroubleStays, CourierAssumption DEF TypeOK, HistoryType
        <3>3. /\ \A v \in Workers : pc[v] # "requeue"
              /\ \A v \in Workers : \A m \in Holding(v) : status[m] \notin {"absent", "queued"}
              /\ \A u, v \in Workers : u # v => Holding(u) \cap Holding(v) = {}
            BY <3>2 DEF ExclusiveInv
        <3>4. \A v \in Workers : pc'[v] # "requeue"
            BY <3>1, <3>2, <3>3
        <3>5. CASE Claim(w)
            <4>1. /\ Holding(w)' = Ids(batch[w], 1) /\ Ids(batch[w], 1) \subseteq Messages
                  /\ \A m \in Ids(batch[w], 1) : status[m] = "queued"
                  /\ \A m \in Messages :
                       status'[m] = IF m \in Ids(batch[w], 1) THEN "processing" ELSE status[m]
                BY <2>0, <3>5, ClaimHolds
            <4>2. \A v \in Workers : \A m \in Holding(v)' : status'[m] \notin {"absent", "queued"}
                BY <3>1, <3>3, <4>1
            <4>3. \A v \in Workers \ {w} : Holding(v)' \cap Holding(w)' = {}
                BY <3>1, <3>3, <4>1
            <4> QED BY <3>1, <3>3, <3>4, <4>2, <4>3
        <3>6. CASE Keeps(w)
            BY <3>1, <3>3, <3>4, <3>6 DEF Keeps
        <3>7. CASE Writes(w)
            <4>1. PICK m \in Holding(w), s \in {"queued", "sent", "abandoned"} :
                    /\ status' = [status EXCEPT ![m] = s]
                    /\ Holding(w)' \subseteq Holding(w)
                    /\ s = "queued" => pc[w] = "requeue"
                BY <3>7 DEF Writes
            <4>2. s \notin {"absent", "queued"}
                BY <3>3, <4>1
            <4>3. \A x \in Messages : status'[x] = IF x = m THEN s ELSE status[x]
                BY <2>0, <4>1 DEF TypeOK, TableType
            <4> QED BY <3>1, <3>3, <3>4, <4>1, <4>2, <4>3
        <3>8. CASE Drops(w)
            BY <3>2, <3>8 DEF Drops
        <3> QED BY <2>0, <2>2, <3>5, <3>6, <3>7, <3>8, HoldingStep
    <2> QED BY <2>1, <2>2, StepOrOutside
<1>3. LoopType /\ ExclusiveInv => ExclusiveUntilFailure
    <2> SUFFICES ASSUME LoopType, ExclusiveInv, NEW w \in Workers, NEW v \in Workers,
                        w # v, Holding(w) \cap Holding(v) # {}
                 PROVE  faults > 0 \/ \E m \in Messages : dispatches[m].failed > 0
        BY DEF ExclusiveUntilFailure
    <2>1. /\ faults \in Nat
          /\ \A m \in Messages : dispatches[m].failed \in Nat
        BY CourierAssumption DEF LoopType, TypeOK, HistoryType, TableType
    <2> QED BY <2>1 DEF ExclusiveInv, Untroubled
<1> QED BY <1>1, <1>2, <1>3, LoopInductive, PTL DEF Spec

-----------------------------------------------------------------------------
(***************************************************************************)
(* One worker.  What it selected is still "queued" when it claims it, and   *)
(* what it holds is not "sent", since a batch names a message only once; so *)
(* the reset of messages[k:] reverts nothing that was sent.                 *)
(***************************************************************************)

OneWorkerOnly == \A v, w \in Workers : v = w

UnsentInv ==
    /\ \A w \in Workers : \A m \in Holding(w) : status[m] # "sent"
    /\ \A w \in Workers : pc[w] = "claim" =>
           \A m \in Ids(batch[w], 1) : status[m] = "queued"

SingleInv == AttemptsInv /\ LoopInv /\ UnsentInv

\* Only Select leads to the claim, and what it selects is queued.
LEMMA SelectedQueued ==
    ASSUME TypeOK, NEW w \in Workers, Step(w) \/ Failure(w), pc'[w] = "claim"
    PROVE  /\ status' = status
           /\ \A m \in Ids(batch'[w], 1) : status[m] = "queued"
<1>1. Select(w)
    BY DEF Step, Failure, Select, Claim, ClaimConflict, LoopDone, Abandon,
           IncrementMessageSendCount, DispatchError, InvalidRecipient, Deliver, Reject,
           AbandonRejected, MarkSent, RecordSuccess, RecordFailure, Requeue, RequeueDone,
           Retry, Start, NextMessagesFails, AbandonFails, IncrementFails, DeliverAnswerLost,
           RecordFailureFails, RequeueFails, GiveUp, Crash, ReturnError, Forget, Goto,
           TypeOK, LocalType
<1> DEFINE N == PullSize(Visible)
<1>2. PICK s \in [1 .. N -> Visible] :
        batch' = [batch EXCEPT ![w] =
            [n \in 1 .. N |-> [id |-> s[n], sendCount |-> sendCount[s[n]]]]]
    BY <1>1 DEF Select
<1>3. N \in Nat
    BY PullSizeNat DEF Visible
<1>4. batch'[w] = [n \in 1 .. N |-> [id |-> s[n], sendCount |-> sendCount[s[n]]]]
    BY <1>2 DEF TypeOK, LocalType
<1>5. Len(batch'[w]) = N
    BY <1>3, <1>4
<1>6. \A n \in 1 .. N : batch'[w][n].id \in Visible
    BY <1>4
<1> QED BY <1>1, <1>5, <1>6 DEF Ids, Visible, Select, table

\* A single worker overwrites no "sent", and goes on holding nothing that is sent.
LEMMA SingleStep ==
    ASSUME OneWorkerOnly, SingleInv, [Next]_vars
    PROVE  /\ UnsentInv'
           /\ \A m \in Messages : status[m] = "sent" => status'[m] = "sent"
<1>0. TypeOK /\ TypeOK' /\ CursorInBatch /\ LoopInv /\ BatchAscends /\ UnsentInv
    BY NextType DEF SingleInv, AttemptsInv
<1>1. CASE OutsideStep
    <2>1. \A m \in Messages : status[m] # "absent" => status'[m] = status[m]
        BY <1>0, <1>1 DEF OutsideStep, TypeOK, TableType
    <2>2. \A m \in Messages : status[m] = "absent" => status'[m] \in {"absent", "queued"}
        BY <1>0, <1>1 DEF OutsideStep, TypeOK, TableType
    <2>3. \A v \in Workers : Holding(v)' = Holding(v) /\ Holding(v) \subseteq Messages
        BY <1>0, <1>1, OthersHold, HoldingMessages
    <2>4. \A v \in Workers : Ids(batch[v], 1) \subseteq Messages
        BY <1>0, PulledMessage DEF Ids, TypeOK
    <2>5. pc' = pc /\ batch' = batch
        BY <1>1 DEF OutsideStep, local
    <2> QED BY <1>0, <2>1, <2>2, <2>3, <2>4, <2>5 DEF UnsentInv
<1>2. ASSUME NEW w \in Workers, Step(w) \/ Failure(w)
      PROVE  /\ UnsentInv'
             /\ \A m \in Messages : status[m] = "sent" => status'[m] = "sent"
    <2>1. pc'[w] = "claim" => \A m \in Ids(batch'[w], 1) : status'[m] = "queued"
        BY <1>0, <1>2, SelectedQueued
    <2>2. /\ \A m \in Holding(w)' : status'[m] # "sent"
          /\ \A m \in Messages : status[m] = "sent" => status'[m] = "sent"
        <3>1. CASE Claim(w)
            <4>1. \A m \in Ids(batch[w], 1) : status[m] = "queued"
                BY <1>0, <3>1 DEF UnsentInv, Claim
            <4> QED BY <1>0, <3>1, <4>1, ClaimHolds
        <3>2. CASE Keeps(w)
            BY <1>0, <3>2 DEF Keeps, UnsentInv
        <3>3. CASE Writes(w)
            <4>1. PICK m \in Holding(w), s \in {"queued", "sent", "abandoned"} :
                    /\ status' = [status EXCEPT ![m] = s]
                    /\ Holding(w)' \subseteq Holding(w)
                    /\ s = "sent" => /\ m = batch[w][k[w]].id /\ k[w] =< Len(batch[w])
                                     /\ Holding(w)' = Ids(batch[w], k[w] + 1)
                BY <3>3 DEF Writes
            <4>2. Holding(w) \subseteq Messages
                BY <1>0, HoldingMessages
            <4>3. \A x \in Messages : status'[x] = IF x = m THEN s ELSE status[x]
                BY <1>0, <4>1 DEF TypeOK, TableType
            <4>4. s = "sent" => m \notin Holding(w)'
                <5> SUFFICES ASSUME s = "sent", NEW n \in k[w] + 1 .. Len(batch[w]),
                                    batch[w][n].id = m
                             PROVE  FALSE
                    BY <4>1 DEF Ids
                <5>1. k[w] \in 1 .. Len(batch[w]) /\ n \in 1 .. Len(batch[w]) /\ k[w] < n
                    BY <1>0, <4>1 DEF TypeOK, LocalType
                <5>2. batch[w][k[w]].id < batch[w][n].id
                    BY <1>0, <5>1 DEF BatchAscends
                <5>3. m \in Int
                    BY <4>2 DEF Messages
                <5> QED BY <4>1, <5>2, <5>3
            <4> QED BY <1>0, <4>1, <4>2, <4>3, <4>4 DEF UnsentInv
        <3>4. CASE Drops(w)
            BY <1>0, <3>4 DEF Drops, UnsentInv
        <3> QED BY <1>0, <1>2, <3>1, <3>2, <3>3, <3>4, HoldingStep
    <2> QED BY <2>1, <2>2 DEF UnsentInv, OneWorkerOnly
<1> QED BY <1>1, <1>2, StepOrOutside

\* SingleInv holds along every behaviour of a single worker.
LEMMA SingleInductive ==
    ASSUME OneWorkerOnly
    PROVE  /\ Init => SingleInv
           /\ SingleInv /\ [Next]_vars => SingleInv'
<1>1. Init => UnsentInv
    <2> SUFFICES ASSUME Init PROVE UnsentInv
        OBVIOUS
    <2>1. \A w \in Workers : pc[w] = "idle" /\ Holding(w) = {}
        BY DEF Init, Holding, IdsFrom, Cursor
    <2> QED BY <2>1 DEF UnsentInv
<1>2. Init => AttemptsInv /\ LoopInv
    BY AttemptsInductive, LoopInductive DEF LoopType
<1>3. ASSUME SingleInv, [Next]_vars PROVE SingleInv'
    <2>1. AttemptsInv' /\ UnsentInv'
        BY <1>3, AttemptsInductive, SingleStep DEF SingleInv
    <2>2. LoopInv'
        BY <1>3, LoopInductive DEF SingleInv, AttemptsInv, LoopType
    <2> QED BY <2>1, <2>2 DEF SingleInv
<1> QED BY <1>1, <1>2, <1>3 DEF SingleInv

\* With one worker a sent message stays sent: neither the reset of messages[k:], nor a
\* retry, a crash or a restart takes a "sent" row back.
THEOREM SentStays ==
    ASSUME OneWorkerOnly
    PROVE  Spec => SentIsFinal
<1>1. ASSUME SingleInv, [Next]_vars
      PROVE  [\A m \in Messages : status[m] = "sent" => status'[m] = "sent"]_vars
    BY <1>1, SingleStep
<1>2. SingleInv /\ [Next]_vars
        => [\A m \in Messages : status[m] = "sent" => status'[m] = "sent"]_vars
    BY <1>1
<1>3. Spec => [][\A m \in Messages : status[m] = "sent" => status'[m] = "sent"]_vars
    BY <1>2, SingleInductive, PTL DEF Spec
<1> QED BY <1>3 DEF SentIsFinal

\* What the upstream accepted is sent, or about to be marked so.
OnceInv ==
    faults = 0 => \A m \in Messages :
        \/ delivered[m] = 0
        \/ /\ delivered[m] = 1
           /\ \/ status[m] = "sent"
              \/ \E w \in Workers : pc[w] = "markSent" /\ Current(w).id = m

\* With one worker and no fault the upstream accepts every message at most once, however
\* often other messages of its batch fail and put it back.
THEOREM DeliveredAtMostOnce ==
    ASSUME OneWorkerOnly
    PROVE  Spec => []DeliveredOnce
<1>1. Init => OnceInv
    BY DEF Init, OnceInv
<1>2. SingleInv /\ OnceInv /\ [Next]_vars => OnceInv'
    <2> SUFFICES ASSUME SingleInv, OnceInv, [Next]_vars, faults' = 0, NEW m \in Messages
                 PROVE  \/ delivered'[m] = 0
                        \/ /\ delivered'[m] = 1
                           /\ \/ status'[m] = "sent"
                              \/ \E v \in Workers : pc'[v] = "markSent" /\ Current(v)'.id = m
        BY DEF OnceInv
    <2>0. TypeOK /\ CursorInBatch /\ LoopInv /\ UnsentInv
        BY DEF SingleInv, AttemptsInv
    <2>1. status[m] = "sent" => status'[m] = "sent"
        BY SingleStep
    <2>2. CASE OutsideStep
        <3>1. /\ faults = 0 /\ delivered' = delivered
              /\ pc' = pc /\ \A v \in Workers : Current(v)' = Current(v)
            BY <2>2 DEF OutsideStep, history, local, Current
        <3> QED BY <2>1, <3>1 DEF OnceInv
    <2>3. ASSUME NEW w \in Workers, Step(w) \/ Failure(w)
          PROVE  \/ delivered'[m] = 0
                 \/ /\ delivered'[m] = 1
                    /\ \/ status'[m] = "sent"
                       \/ \E v \in Workers : pc'[v] = "markSent" /\ Current(v)'.id = m
        <3>1. faults \in Nat /\ faults = 0 /\ faults' = faults
            <4>1. faults \in Nat
                BY <2>0, CourierAssumption DEF TypeOK, HistoryType
            <4>2. faults' \in {faults, faults + 1}
                BY <2>0, <2>3, StepFrames
            <4> QED BY <4>1, <4>2
        <3>2. \/ delivered[m] = 0
              \/ /\ delivered[m] = 1
                 /\ \/ status[m] = "sent"
                    \/ pc[w] = "markSent" /\ Current(w).id = m
            BY <3>1 DEF OnceInv, OneWorkerOnly
        <3>3. CASE Deliver(w)
            <4>1. /\ pc[w] = "dispatch" /\ pc'[w] = "markSent" /\ Current(w)' = Current(w)
                  /\ delivered' = [delivered EXCEPT ![Current(w).id] = delivered[Current(w).id] + 1]
                  /\ k[w] =< Len(batch[w])
                BY <2>0, <3>3 DEF Deliver, Goto, Current, CursorInBatch, Active, TypeOK, LocalType
            <4>2. CASE m = Current(w).id
                <5>1. Cursor(w) = k[w]
                    BY <4>1 DEF Cursor
                <5>2. m \in Holding(w)
                    BY <2>0, <4>1, <4>2, <5>1, HoldingIs, AtCursor
                <5>3. status[m] # "sent"
                    BY <2>0, <5>2 DEF UnsentInv
                <5>4. delivered[m] = 0
                    BY <3>2, <4>1, <5>3
                <5>5. delivered'[m] = 1
                    BY <2>0, <4>1, <4>2, <5>4 DEF TypeOK, HistoryType
                <5> QED BY <4>1, <4>2, <5>5
            <4>3. CASE m # Current(w).id
                <5>1. delivered'[m] = delivered[m]
                    BY <2>0, <4>1, <4>3 DEF TypeOK, HistoryType
                <5> QED BY <2>1, <3>2, <4>1, <5>1
            <4> QED BY <4>2, <4>3
        <3>4. CASE ~Deliver(w)
            <4>1. delivered' = delivered
                BY <2>0, <2>3, <3>1, <3>4, StepFrames DEF DeliverAnswerLost, Fault
            <4>2. CASE pc[w] = "markSent" /\ Current(w).id = m
                <5>1. MarkSent(w)
                    BY <2>3, <3>1, <4>2
                       DEF Step, Failure, Select, Claim, ClaimConflict, LoopDone, Abandon,
                           IncrementMessageSendCount, DispatchError, InvalidRecipient, Deliver,
                           Reject, AbandonRejected, RecordSuccess, RecordFailure, Requeue,
                           RequeueDone, Retry, Start, NextMessagesFails, AbandonFails,
                           IncrementFails, DeliverAnswerLost, RecordFailureFails, RequeueFails,
                           GiveUp, Crash, Fault
                <5>2. status'[m] = "sent"
                    BY <2>0, <3>1, <4>2, <5>1
                       DEF MarkSent, SetMessageStatus, Fault, TypeOK, TableType
                <5> QED BY <3>2, <4>1, <5>2
            <4>3. CASE ~(pc[w] = "markSent" /\ Current(w).id = m)
                BY <2>1, <3>2, <4>1, <4>3
            <4> QED BY <4>2, <4>3
        <3> QED BY <3>3, <3>4
    <2> QED BY <2>2, <2>3, StepOrOutside
<1>3. OnceInv => DeliveredOnce
    BY DEF OnceInv, DeliveredOnce
<1> QED BY <1>1, <1>2, <1>3, SingleInductive, PTL DEF Spec
=============================================================================
