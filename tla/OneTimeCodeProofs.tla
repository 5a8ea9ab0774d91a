------------------------- MODULE OneTimeCodeProofs -------------------------
(***************************************************************************)
(* Proofs about OneTimeCode, for every number of requests, codes and       *)
(* addresses, every limit and both ways of counting.                       *)
(***************************************************************************)
EXTENDS OneTimeCode, FiniteSetTheorems, TLAPS

\* TypeOK alone is not inductive: a request that creates a code still has one to
\* create.
SendingHasCodes == \A r \in Requests : pc[r] = "create" => toSend[r] # 0

-----------------------------------------------------------------------------
(* Types *)

\* The initial state of a flow's codes is well typed.
LEMMA InitType == Init => TypeOK
  BY CodeAssumption DEF Init, TypeOK, Pcs, Rows

\* Counting a submission, with or without RETURNING, keeps the types.
LEMMA CountType ==
    ASSUME NEW r \in Requests, TypeOK,
           \/ \E g \in Codes \cup {None} : Increment(r, g) \/ IncrementMySQL(r, g)
           \/ SelectCount(r)
           \/ FlowMissing(r)
    PROVE  TypeOK'
  <1>1. ASSUME NEW g \in Codes \cup {None}, Increment(r, g) PROVE TypeOK'
    BY <1>1 DEF TypeOK, Increment, Gate, Goto, Pcs, Answers
  <1>2. ASSUME NEW g \in Codes \cup {None}, IncrementMySQL(r, g) PROVE TypeOK'
    BY <1>2 DEF TypeOK, IncrementMySQL, Goto, Pcs, Answers
  <1>3. CASE SelectCount(r)
    BY <1>3 DEF TypeOK, SelectCount, Gate, Goto, Pcs, Answers, database
  <1>4. CASE FlowMissing(r)
    BY <1>4 DEF TypeOK, FlowMissing, Goto, Pcs, Answers, database
  <1> QED
    BY <1>1, <1>2, <1>3, <1>4

\* The transaction that consumes a code keeps the types.
LEMMA ConsumeType ==
    ASSUME NEW r \in Requests, TypeOK,
           Lookup(r) \/ Consume(r) \/ ConsumeNothing(r) \/ RetryTransaction(r)
           \/ Revalidate(r) \/ Fail(r)
    PROVE  TypeOK'
  <1>1. CASE Lookup(r)
    <2>1. guess[r] \in Codes \cup {None} /\ target[r] \in Codes \cup {None}
      BY DEF TypeOK
    <2> QED
      BY <1>1, <2>1 DEF TypeOK, Lookup, Present, Goto, Pcs, Answers, database
  <1>2. CASE Consume(r)
    BY <1>2 DEF TypeOK, Consume, Goto, Pcs, Answers, Rows
  <1>3. CASE ConsumeNothing(r)
    BY <1>3 DEF TypeOK, ConsumeNothing, Goto, Pcs, Answers, database
  <1>4. CASE RetryTransaction(r)
    BY <1>4 DEF TypeOK, RetryTransaction, Goto, Pcs, Answers, database
  <1>5. CASE Revalidate(r)
    BY <1>5 DEF TypeOK, Revalidate, Goto, Pcs, Answers, database
  <1>6. CASE Fail(r)
    BY <1>6 DEF TypeOK, Fail, Goto, Pcs, Answers, database
  <1> QED
    BY <1>1, <1>2, <1>3, <1>4, <1>5, <1>6

\* Deleting leaves every code's row in a state a row can have.
LEMMA DeletedType ==
    ASSUME TypeOK, NEW c \in Codes
    PROVE  Deleted(c) \in Rows
  BY DEF TypeOK, Deleted, Rows

\* Replacing codes, expiry and the cleanup keep the types.
LEMMA ReplaceType ==
    ASSUME TypeOK, SendingHasCodes,
           \/ \E r \in Requests : SendCodes(r)
           \/ \E c \in Codes : Expire(c)
           \/ DeleteExpiredFlow
    PROVE  TypeOK'
  <1>1. ASSUME NEW r \in Requests, NEW n \in 0 .. MaxAddresses, DeleteCodesOfFlow(r, n)
        PROVE  TypeOK'
    <2>1. row' \in [Codes -> Rows]
      BY <1>1, DeletedType DEF DeleteCodesOfFlow
    <2> QED
      BY <1>1, <2>1 DEF TypeOK, DeleteCodesOfFlow, Goto, Pcs, Answers
  <1>2. ASSUME NEW r \in Requests, NEW c \in Codes, CreateCode(r, c)
        PROVE  TypeOK'
    <2>1. toSend[r] - 1 \in 0 .. MaxAddresses
      BY <1>2, CodeAssumption DEF TypeOK, SendingHasCodes, CreateCode
    <2> QED
      BY <1>2, <2>1 DEF TypeOK, CreateCode, Goto, Pcs, Answers, Rows
  <1>3. ASSUME NEW c \in Codes, Expire(c) PROVE TypeOK'
    BY <1>3 DEF TypeOK, Expire, request
  <1>4. CASE DeleteExpiredFlow
    <2>1. row' \in [Codes -> Rows]
      BY <1>4, DeletedType DEF DeleteExpiredFlow
    <2> QED
      BY <1>4, <2>1 DEF TypeOK, DeleteExpiredFlow, request
  <1> QED
    BY <1>1, <1>2, <1>3, <1>4 DEF SendCodes

\* Every step keeps the types.
LEMMA NextType == TypeOK /\ SendingHasCodes /\ [Next]_codeVars => TypeOK'
  <1> SUFFICES ASSUME TypeOK, SendingHasCodes, [Next]_codeVars PROVE TypeOK'
    OBVIOUS
  <1>1. CASE UNCHANGED codeVars
    BY <1>1 DEF TypeOK, codeVars, database, request
  <1>2. ASSUME NEW r \in Requests, UseCode(r) \/ Fail(r) PROVE TypeOK'
    BY <1>2, CountType, ConsumeType DEF UseCode
  <1> QED
    BY <1>1, <1>2, ReplaceType DEF Next

\* Every step keeps the number of codes yet to be created in line with pc.
LEMMA NextSending == TypeOK /\ SendingHasCodes /\ [Next]_codeVars => SendingHasCodes'
  <1> SUFFICES ASSUME TypeOK, SendingHasCodes, [Next]_codeVars,
                      NEW q \in Requests, pc'[q] = "create"
               PROVE  toSend'[q] # 0
    BY DEF SendingHasCodes
  <1> USE DEF SendingHasCodes
  <1>1. CASE UNCHANGED codeVars
    BY <1>1 DEF codeVars, request
  <1>2. ASSUME NEW r \in Requests, NEW g \in Codes \cup {None}, Increment(r, g)
        PROVE  toSend'[q] # 0
    BY <1>2 DEF TypeOK, Increment, Gate, Goto
  <1>3. ASSUME NEW r \in Requests, NEW g \in Codes \cup {None}, IncrementMySQL(r, g)
        PROVE  toSend'[q] # 0
    BY <1>3 DEF TypeOK, IncrementMySQL, Goto
  <1>4. ASSUME NEW r \in Requests, SelectCount(r) PROVE toSend'[q] # 0
    BY <1>4 DEF TypeOK, SelectCount, Gate, Goto
  <1>5. ASSUME NEW r \in Requests, FlowMissing(r) PROVE toSend'[q] # 0
    BY <1>5 DEF TypeOK, FlowMissing, Goto
  <1>6. ASSUME NEW r \in Requests, Lookup(r) PROVE toSend'[q] # 0
    BY <1>6 DEF TypeOK, Lookup, Goto
  <1>7. ASSUME NEW r \in Requests, Consume(r) PROVE toSend'[q] # 0
    BY <1>7 DEF TypeOK, Consume, Goto
  <1>8. ASSUME NEW r \in Requests, ConsumeNothing(r) \/ RetryTransaction(r) \/ Fail(r)
        PROVE  toSend'[q] # 0
    BY <1>8 DEF TypeOK, ConsumeNothing, RetryTransaction, Fail, Goto
  <1>9. ASSUME NEW r \in Requests, Revalidate(r) PROVE toSend'[q] # 0
    BY <1>9 DEF TypeOK, Revalidate, Goto
  <1>10. ASSUME NEW r \in Requests, NEW n \in 0 .. MaxAddresses, DeleteCodesOfFlow(r, n)
         PROVE  toSend'[q] # 0
    BY <1>10 DEF TypeOK, DeleteCodesOfFlow, Goto
  <1>11. ASSUME NEW r \in Requests, NEW c \in Codes, CreateCode(r, c)
         PROVE  toSend'[q] # 0
    BY <1>11, CodeAssumption DEF TypeOK, CreateCode, Goto
  <1>12. ASSUME NEW c \in Codes, Expire(c) PROVE toSend'[q] # 0
    BY <1>12 DEF Expire, request
  <1>13. CASE DeleteExpiredFlow
    BY <1>13 DEF DeleteExpiredFlow, request
  <1> QED
    BY <1>1, <1>2, <1>3, <1>4, <1>5, <1>6, <1>7, <1>8, <1>9, <1>10, <1>11, <1>12,
       <1>13 DEF Next, UseCode, SendCodes

\* No request is sending codes at first.
LEMMA InitSending == Init => SendingHasCodes
  BY DEF Init, SendingHasCodes

\* In every reachable state the flow's row, its codes and the requests that use
\* or replace them are well typed.
THEOREM TypeCorrect == Spec => []TypeOK
  <1>1. Init => TypeOK /\ SendingHasCodes
    BY InitType, InitSending
  <1>2. TypeOK /\ SendingHasCodes /\ [Next]_codeVars => (TypeOK /\ SendingHasCodes)'
    BY NextType, NextSending
  <1> QED
    BY <1>1, <1>2, PTL DEF Spec

-----------------------------------------------------------------------------
(* At most max_submissions guesses *)

\* Requests that were counted and may still be admitted, or were.
Pending == {r \in Requests : pc[r] = "select"}

\* A request that has not been through the gate is not admitted, and while the
\* flow exists, submit_count has counted every request that was admitted or is
\* about to read it.
Counted ==
    /\ \A r \in admitted : pc[r] \notin {"idle", "select"}
    /\ exists => Cardinality(admitted \cup Pending) =< submitCount

SubmissionInv == Counted /\ SubmissionBound

\* No request is counted at first.
LEMMA InitSubmission == Init => SubmissionInv
  <1> SUFFICES ASSUME Init PROVE SubmissionInv
    OBVIOUS
  <1>1. admitted \cup Pending = {}
    BY DEF Init, Pending
  <1>2. Cardinality({}) = 0
    BY FS_EmptySet
  <1> QED
    BY <1>1, <1>2, CodeAssumption DEF Init, SubmissionInv, Counted, SubmissionBound

\* The sets that are counted are finite.
LEMMA CountedFinite ==
    ASSUME TypeOK, NEW S \in SUBSET (admitted \cup Pending)
    PROVE  /\ IsFiniteSet(S)
           /\ Cardinality(S) \in Nat
           /\ Cardinality(S) =< Cardinality(admitted \cup Pending)
           /\ Cardinality(admitted \cup Pending) \in Nat
  <1>1. IsFiniteSet(admitted \cup Pending)
    BY CodeAssumption, FS_Subset DEF TypeOK, Pending
  <1> QED
    BY <1>1, FS_Subset, FS_CardinalityType

\* Adding a request to the counted ones adds at most one.
LEMMA OneMore ==
    ASSUME TypeOK, NEW r \in Requests
    PROVE  /\ IsFiniteSet(admitted \cup Pending \cup {r})
           /\ Cardinality(admitted \cup Pending \cup {r}) \in Nat
           /\ Cardinality(admitted \cup Pending \cup {r})
                =< Cardinality(admitted \cup Pending) + 1
  <1> DEFINE S == admitted \cup Pending
  <1>1. IsFiniteSet(S) /\ Cardinality(S) \in Nat
    BY CountedFinite
  <1>2. /\ IsFiniteSet(S \cup {r})
        /\ \/ Cardinality(S \cup {r}) = Cardinality(S)
           \/ Cardinality(S \cup {r}) = Cardinality(S) + 1
    BY <1>1, FS_AddElement
  <1> QED
    BY <1>1, <1>2

\* A step that admits nobody and counts nobody keeps the invariant.
LEMMA SubmissionStutter ==
    ASSUME TypeOK, SubmissionInv,
           admitted' = admitted, submitCount' = submitCount,
           exists' => exists,
           Pending' \subseteq Pending,
           \A q \in admitted : pc'[q] \notin {"idle", "select"}
    PROVE  SubmissionInv'
  <1>1. (admitted \cup Pending)' \subseteq admitted \cup Pending
    OBVIOUS
  <1>2. /\ Cardinality((admitted \cup Pending)') \in Nat
        /\ Cardinality((admitted \cup Pending)') =< Cardinality(admitted \cup Pending)
        /\ Cardinality(admitted \cup Pending) \in Nat
    BY <1>1, CountedFinite
  <1>3. Counted'
    BY <1>2 DEF SubmissionInv, Counted, TypeOK
  <1> QED
    BY <1>3 DEF SubmissionInv, SubmissionBound

\* The increment with RETURNING.
LEMMA IncrementSubmission ==
    ASSUME TypeOK, SubmissionInv, NEW r \in Requests, NEW g \in Codes \cup {None},
           Increment(r, g)
    PROVE  SubmissionInv'
  <1> USE DEF SubmissionInv
  <1>1. Pending' \subseteq Pending
    BY DEF Increment, Gate, Goto, TypeOK, Pending
  <1>2. admitted' \subseteq admitted \cup {r}
    BY DEF Increment, Gate
  <1>3. (admitted \cup Pending)' \subseteq admitted \cup Pending \cup {r}
    BY <1>1, <1>2
  <1>4. /\ Cardinality((admitted \cup Pending)') \in Nat
        /\ Cardinality((admitted \cup Pending)') =< submitCount + 1
    <2>1. Cardinality((admitted \cup Pending)')
            =< Cardinality(admitted \cup Pending \cup {r})
      BY <1>3, OneMore, FS_Subset
    <2>2. Cardinality((admitted \cup Pending)') \in Nat
      BY <1>3, OneMore, FS_Subset, FS_CardinalityType
    <2>3. Cardinality(admitted \cup Pending) =< submitCount
      BY DEF Increment, Counted
    <2>4. Cardinality(admitted \cup Pending) \in Nat
      BY CountedFinite
    <2>5. /\ Cardinality(admitted \cup Pending \cup {r}) \in Nat
          /\ Cardinality(admitted \cup Pending \cup {r})
                =< Cardinality(admitted \cup Pending) + 1
      BY OneMore
    <2>6. submitCount \in Nat
      BY DEF TypeOK
    <2> QED
      BY <2>1, <2>2, <2>3, <2>4, <2>5, <2>6
  <1>5. \A q \in admitted' : pc'[q] \notin {"idle", "select"}
    BY DEF Increment, Gate, Goto, TypeOK, Counted
  <1>6. Counted'
    BY <1>4, <1>5 DEF Counted, Increment
  <1>7. SubmissionBound'
    <2>1. CASE TooOften(submitCount + 1)
      BY <2>1 DEF Increment, Gate, SubmissionBound, Goto, TypeOK
    <2>2. CASE ~TooOften(submitCount + 1)
      <3>1. submitCount + 1 =< MaxSubmissions
        BY <2>2, CodeAssumption DEF TooOften, TypeOK
      <3>2. admitted' \subseteq (admitted \cup Pending)'
        OBVIOUS
      <3>3. IsFiniteSet((admitted \cup Pending)')
        BY <1>3, OneMore, FS_Subset
      <3>4. Cardinality(admitted') \in Nat
            /\ Cardinality(admitted') =< Cardinality((admitted \cup Pending)')
        BY <3>2, <3>3, FS_Subset, FS_CardinalityType
      <3> QED
        BY <3>1, <3>4, <1>4, CodeAssumption DEF SubmissionBound, TypeOK
    <2> QED
      BY <2>1, <2>2
  <1> QED
    BY <1>6, <1>7

\* The UPDATE of MySQL: the request is counted before it reads the count.
LEMMA MySQLSubmission ==
    ASSUME TypeOK, SubmissionInv, NEW r \in Requests, NEW g \in Codes \cup {None},
           IncrementMySQL(r, g)
    PROVE  SubmissionInv'
  <1> USE DEF SubmissionInv
  <1>1. (admitted \cup Pending)' = admitted \cup Pending \cup {r}
    BY DEF IncrementMySQL, Goto, TypeOK, Pending, Pcs
  <1>2. \A q \in admitted' : pc'[q] \notin {"idle", "select"}
    BY DEF IncrementMySQL, Goto, TypeOK, Counted
  <1>3. exists' => Cardinality((admitted \cup Pending)') =< submitCount'
    <2>1. Cardinality(admitted \cup Pending) \in Nat
      BY CountedFinite
    <2>2. /\ Cardinality((admitted \cup Pending)') \in Nat
          /\ Cardinality((admitted \cup Pending)')
                =< Cardinality(admitted \cup Pending) + 1
      BY <1>1, OneMore
    <2>3. submitCount \in Nat
      BY DEF TypeOK
    <2>4. exists' => /\ submitCount' = submitCount + 1
                     /\ Cardinality(admitted \cup Pending) =< submitCount
      BY DEF IncrementMySQL, Counted
    <2> QED
      BY <2>1, <2>2, <2>3, <2>4
  <1>4. Counted'
    BY <1>2, <1>3 DEF Counted
  <1> QED
    BY <1>4 DEF IncrementMySQL, SubmissionBound

\* The SELECT of MySQL: the count that is read covers the request itself, so
\* whoever is admitted by it is one of at most max_submissions.
LEMMA SelectSubmission ==
    ASSUME TypeOK, SubmissionInv, NEW r \in Requests, SelectCount(r)
    PROVE  SubmissionInv'
  <1> USE DEF SubmissionInv
  <1>1. r \in Pending
    BY DEF SelectCount, Pending
  <1>2. Pending' \subseteq Pending /\ admitted' \subseteq admitted \cup {r}
    BY DEF SelectCount, Gate, Goto, TypeOK, Pending
  <1>3. (admitted \cup Pending)' \subseteq admitted \cup Pending
    BY <1>1, <1>2
  <1>4. /\ Cardinality((admitted \cup Pending)') \in Nat
        /\ Cardinality((admitted \cup Pending)') =< submitCount
    <2>1. /\ Cardinality((admitted \cup Pending)') \in Nat
          /\ Cardinality((admitted \cup Pending)') =< Cardinality(admitted \cup Pending)
          /\ Cardinality(admitted \cup Pending) \in Nat
      BY <1>3, CountedFinite
    <2>2. Cardinality(admitted \cup Pending) =< submitCount
      BY DEF SelectCount, Counted
    <2>3. submitCount \in Nat
      BY DEF TypeOK
    <2> QED
      BY <2>1, <2>2, <2>3
  <1>5. \A q \in admitted' : pc'[q] \notin {"idle", "select"}
    BY DEF SelectCount, Gate, Goto, TypeOK, Counted
  <1>6. Counted'
    BY <1>4, <1>5 DEF Counted, SelectCount, database
  <1>7. SubmissionBound'
    <2>1. CASE TooOften(submitCount)
      BY <2>1 DEF SelectCount, Gate, SubmissionBound, Goto, TypeOK
    <2>2. CASE ~TooOften(submitCount)
      <3>1. submitCount =< MaxSubmissions
        BY <2>2, CodeAssumption DEF TooOften, TypeOK
      <3>2. admitted' \subseteq admitted \cup Pending
        BY <1>3
      <3>3. /\ Cardinality(admitted') \in Nat
            /\ Cardinality(admitted') =< Cardinality(admitted \cup Pending)
            /\ Cardinality(admitted \cup Pending) \in Nat
        BY <3>2, CountedFinite
      <3>4. Cardinality(admitted \cup Pending) =< submitCount
        BY DEF SelectCount, Counted
      <3> QED
        BY <3>1, <3>3, <3>4, CodeAssumption DEF SubmissionBound, TypeOK
    <2> QED
      BY <2>1, <2>2
  <1> QED
    BY <1>6, <1>7

\* A step of request r that moves it to a place other than idle and select, and
\* leaves the counting alone.
LEMMA MoveSubmission ==
    ASSUME TypeOK, SubmissionInv, NEW r \in Requests, NEW label \in Pcs,
           label \notin {"idle", "select"}, Goto(r, label),
           UNCHANGED <<admitted, submitCount, exists>>
    PROVE  SubmissionInv'
  <1>1. Pending' \subseteq Pending
    BY DEF Goto, TypeOK, Pending
  <1>2. \A q \in admitted : pc'[q] \notin {"idle", "select"}
    BY DEF Goto, TypeOK, SubmissionInv, Counted
  <1> QED
    BY <1>1, <1>2, SubmissionStutter

\* Every statement of every request keeps submit_count ahead of the admitted requests.
LEMMA NextSubmission == TypeOK /\ SubmissionInv /\ [Next]_codeVars => SubmissionInv'
  <1> SUFFICES ASSUME TypeOK, SubmissionInv, [Next]_codeVars PROVE SubmissionInv'
    OBVIOUS
  <1> USE DEF Pcs, Answers
  <1>1. CASE UNCHANGED codeVars
    BY <1>1 DEF codeVars, database, request, SubmissionInv, Counted, Pending, SubmissionBound
  <1>2. ASSUME NEW r \in Requests, NEW g \in Codes \cup {None},
               Increment(r, g) \/ IncrementMySQL(r, g)
        PROVE  SubmissionInv'
    BY <1>2, IncrementSubmission, MySQLSubmission
  <1>3. ASSUME NEW r \in Requests, SelectCount(r) PROVE SubmissionInv'
    BY <1>3, SelectSubmission
  <1>4. ASSUME NEW r \in Requests, FlowMissing(r) PROVE SubmissionInv'
    BY <1>4, MoveSubmission DEF FlowMissing, database
  <1>5. ASSUME NEW r \in Requests, Lookup(r) PROVE SubmissionInv'
    <2>1. \E l \in {"consume", "validate"} : Goto(r, l)
      BY <1>5 DEF Lookup
    <2> QED
      BY <1>5, <2>1, MoveSubmission DEF Lookup, database
  <1>6. ASSUME NEW r \in Requests, Consume(r) PROVE SubmissionInv'
    BY <1>6, MoveSubmission DEF Consume
  <1>7. ASSUME NEW r \in Requests, ConsumeNothing(r) PROVE SubmissionInv'
    BY <1>7, MoveSubmission DEF ConsumeNothing, database
  <1>8. ASSUME NEW r \in Requests, RetryTransaction(r) PROVE SubmissionInv'
    BY <1>8, MoveSubmission DEF RetryTransaction, database
  <1>9. ASSUME NEW r \in Requests, Revalidate(r) PROVE SubmissionInv'
    <2>1. \E l \in {"notFound", "alreadyUsed", "accepted"} : Goto(r, l)
      BY <1>9 DEF Revalidate
    <2> QED
      BY <1>9, <2>1, MoveSubmission DEF Revalidate, database
  <1>10. ASSUME NEW r \in Requests, NEW n \in 0 .. MaxAddresses, DeleteCodesOfFlow(r, n)
         PROVE  SubmissionInv'
    <2>1. \E l \in {"sent", "create"} : Goto(r, l)
      BY <1>10 DEF DeleteCodesOfFlow
    <2> QED
      BY <1>10, <2>1, MoveSubmission DEF DeleteCodesOfFlow
  <1>11. ASSUME NEW r \in Requests, NEW c \in Codes, CreateCode(r, c)
         PROVE  SubmissionInv'
    <2>1. \E l \in {"sent", "create"} : Goto(r, l)
      BY <1>11 DEF CreateCode
    <2> QED
      BY <1>11, <2>1, MoveSubmission DEF CreateCode
  <1>12. ASSUME NEW r \in Requests, Fail(r) PROVE SubmissionInv'
    BY <1>12, MoveSubmission DEF Fail, database
  <1>13. ASSUME NEW c \in Codes, Expire(c) PROVE SubmissionInv'
    BY <1>13 DEF Expire, request, SubmissionInv, Counted, Pending, SubmissionBound
  <1>14. CASE DeleteExpiredFlow
    BY <1>14 DEF DeleteExpiredFlow, request, SubmissionInv, Counted, SubmissionBound
  <1> QED
    BY <1>1, <1>2, <1>3, <1>4, <1>5, <1>6, <1>7, <1>8, <1>9, <1>10, <1>11, <1>12,
       <1>13, <1>14 DEF Next, UseCode, SendCodes

\* For every number of concurrent requests, with or without RETURNING, and
\* however often codes are replaced: at most max_submissions guesses are
\* compared with the codes of a flow.
THEOREM SubmissionsBounded == Spec => []SubmissionBound
  <1>1. TypeOK /\ SubmissionInv /\ [Next]_codeVars => SubmissionInv'
    BY NextSubmission
  <1>2. SubmissionInv => SubmissionBound
    BY DEF SubmissionInv
  <1> QED
    BY <1>1, <1>2, InitSubmission, TypeCorrect, PTL DEF Spec

-----------------------------------------------------------------------------
(* A code is used once *)

\* used_at is set exactly for the codes that a request consumed, one each.
RowInv ==
    /\ \A c \in Codes : row[c] \in {"used", "purged"} <=> consumer[c] # {}
    /\ \A c \in Codes : \A p, q \in consumer[c] : p = q

\* The target is the submitted code, and a code that was issued.
TargetInv ==
    \A r \in Requests :
        /\ pc[r] = "idle" => target[r] = None
        /\ target[r] # None => target[r] = guess[r] /\ row[target[r]] # "unissued"

\* Who consumed a code had read it unused, and is past the transaction.
ConsumerInv ==
    \A c \in Codes : \A r \in consumer[c] :
        /\ target[r] = c
        /\ ~seenUsed[r]
        /\ pc[r] \in {"validate", "accepted", "notFound", "failed"}

\* Who read a code as used did so after another request had consumed it.
SeenInv ==
    \A r \in Requests :
        seenUsed[r] => target[r] # None /\ consumer[target[r]] # {}

\* What each place of the handler knows about its target.
PlaceInv ==
    \A r \in Requests :
        /\ pc[r] = "consume" => target[r] # None /\ ~seenUsed[r]
        /\ pc[r] = "validate" /\ Usable(target[r], seenUsed[r]) => r \in consumer[target[r]]
        /\ pc[r] = "accepted" => target[r] # None /\ r \in consumer[target[r]]
        /\ pc[r] = "alreadyUsed" =>
               target[r] # None /\ (consumer[target[r]] # {} \/ ~Present(target[r]))

UseInv == RowInv /\ TargetInv /\ ConsumerInv /\ SeenInv /\ PlaceInv

\* No code is issued, read or consumed at first.
LEMMA InitUse == Init => UseInv
  BY DEF Init, UseInv, RowInv, TargetInv, ConsumerInv, SeenInv, PlaceInv, Usable

\* The rows and the requests that consumed them stay consistent.
LEMMA NextRowInv == TypeOK /\ UseInv /\ [Next]_codeVars => RowInv'
  <1> SUFFICES ASSUME TypeOK, UseInv, [Next]_codeVars PROVE RowInv'
    OBVIOUS
  <1> USE CodeAssumption DEF TypeOK, UseInv, RowInv, TargetInv, ConsumerInv, SeenInv, PlaceInv
  <1>0. CASE UNCHANGED codeVars
    BY <1>0 DEF codeVars, database, request, Usable, Present
  <1>1. ASSUME NEW r \in Requests, NEW g \in Codes \cup {None}, Increment(r, g) PROVE RowInv'
    BY <1>1 DEF Increment, Gate, Goto, Usable, Present
  <1>2. ASSUME NEW r \in Requests, NEW g \in Codes \cup {None}, IncrementMySQL(r, g) PROVE RowInv'
    BY <1>2 DEF IncrementMySQL, Goto, Usable, Present
  <1>3. ASSUME NEW r \in Requests, SelectCount(r) PROVE RowInv'
    BY <1>3 DEF SelectCount, Gate, Goto, database, Usable, Present
  <1>4. ASSUME NEW r \in Requests, FlowMissing(r) PROVE RowInv'
    BY <1>4 DEF FlowMissing, Goto, database, Usable, Present
  <1>5. ASSUME NEW r \in Requests, Lookup(r) PROVE RowInv'
    BY <1>5 DEF Lookup, Goto, database, Usable, Present
  <1>6. ASSUME NEW r \in Requests, Consume(r) PROVE RowInv'
    BY <1>6 DEF Consume, Goto, Usable, Present
  <1>7. ASSUME NEW r \in Requests, ConsumeNothing(r) PROVE RowInv'
    BY <1>7 DEF ConsumeNothing, Goto, database, Usable, Present
  <1>8. ASSUME NEW r \in Requests, RetryTransaction(r) PROVE RowInv'
    BY <1>8 DEF RetryTransaction, Goto, database, Usable, Present
  <1>9. ASSUME NEW r \in Requests, Revalidate(r) PROVE RowInv'
    BY <1>9 DEF Revalidate, Goto, database, Usable, Present
  <1>10. ASSUME NEW r \in Requests, NEW n \in 0 .. MaxAddresses, DeleteCodesOfFlow(r, n) PROVE RowInv'
    BY <1>10 DEF DeleteCodesOfFlow, Goto, Usable, Present, Deleted
  <1>11. ASSUME NEW r \in Requests, NEW c \in Codes, CreateCode(r, c) PROVE RowInv'
    BY <1>11 DEF CreateCode, Goto, Usable, Present
  <1>12. ASSUME NEW r \in Requests, Fail(r) PROVE RowInv'
    BY <1>12 DEF Fail, Goto, database, Usable, Present
  <1>13. ASSUME NEW c \in Codes, Expire(c) PROVE RowInv'
    BY <1>13 DEF Expire, request, Usable, Present
  <1>14. CASE DeleteExpiredFlow
    BY <1>14 DEF DeleteExpiredFlow, Deleted, request, Usable, Present
  <1> QED
    BY <1>0, <1>1, <1>2, <1>3, <1>4, <1>5, <1>6, <1>7, <1>8, <1>9, <1>10, <1>11, <1>12, <1>13, <1>14 DEF Next, UseCode, SendCodes

\* The captured target stays the submitted code, or nil.
LEMMA NextTargetInv == TypeOK /\ UseInv /\ [Next]_codeVars => TargetInv'
  <1> SUFFICES ASSUME TypeOK, UseInv, [Next]_codeVars PROVE TargetInv'
    OBVIOUS
  <1> USE CodeAssumption DEF TypeOK, UseInv, RowInv, TargetInv, ConsumerInv, SeenInv, PlaceInv
  <1>0. CASE UNCHANGED codeVars
    BY <1>0 DEF codeVars, database, request, Usable, Present
  <1>1. ASSUME NEW r \in Requests, NEW g \in Codes \cup {None}, Increment(r, g) PROVE TargetInv'
    BY <1>1 DEF Increment, Gate, Goto, Usable, Present
  <1>2. ASSUME NEW r \in Requests, NEW g \in Codes \cup {None}, IncrementMySQL(r, g) PROVE TargetInv'
    BY <1>2 DEF IncrementMySQL, Goto, Usable, Present
  <1>3. ASSUME NEW r \in Requests, SelectCount(r) PROVE TargetInv'
    BY <1>3 DEF SelectCount, Gate, Goto, database, Usable, Present
  <1>4. ASSUME NEW r \in Requests, FlowMissing(r) PROVE TargetInv'
    BY <1>4 DEF FlowMissing, Goto, database, Usable, Present
  <1>5. ASSUME NEW r \in Requests, Lookup(r) PROVE TargetInv'
    BY <1>5 DEF Lookup, Goto, database, Usable, Present
  <1>6. ASSUME NEW r \in Requests, Consume(r) PROVE TargetInv'
    BY <1>6 DEF Consume, Goto, Usable, Present
  <1>7. ASSUME NEW r \in Requests, ConsumeNothing(r) PROVE TargetInv'
    BY <1>7 DEF ConsumeNothing, Goto, database, Usable, Present
  <1>8. ASSUME NEW r \in Requests, RetryTransaction(r) PROVE TargetInv'
    BY <1>8 DEF RetryTransaction, Goto, database, Usable, Present
  <1>9. ASSUME NEW r \in Requests, Revalidate(r) PROVE TargetInv'
    BY <1>9 DEF Revalidate, Goto, database, Usable, Present
  <1>10. ASSUME NEW r \in Requests, NEW n \in 0 .. MaxAddresses, DeleteCodesOfFlow(r, n) PROVE TargetInv'
    BY <1>10 DEF DeleteCodesOfFlow, Goto, Usable, Present, Deleted
  <1>11. ASSUME NEW r \in Requests, NEW c \in Codes, CreateCode(r, c) PROVE TargetInv'
    BY <1>11 DEF CreateCode, Goto, Usable, Present
  <1>12. ASSUME NEW r \in Requests, Fail(r) PROVE TargetInv'
    BY <1>12 DEF Fail, Goto, database, Usable, Present
  <1>13. ASSUME NEW c \in Codes, Expire(c) PROVE TargetInv'
    BY <1>13 DEF Expire, request, Usable, Present
  <1>14. CASE DeleteExpiredFlow
    BY <1>14 DEF DeleteExpiredFlow, Deleted, request, Usable, Present
  <1> QED
    BY <1>0, <1>1, <1>2, <1>3, <1>4, <1>5, <1>6, <1>7, <1>8, <1>9, <1>10, <1>11, <1>12, <1>13, <1>14 DEF Next, UseCode, SendCodes

\* A request consumes only its target, after which it no longer looks it up.
LEMMA NextConsumerInv == TypeOK /\ UseInv /\ [Next]_codeVars => ConsumerInv'
  <1> SUFFICES ASSUME TypeOK, UseInv, [Next]_codeVars PROVE ConsumerInv'
    OBVIOUS
  <1> USE CodeAssumption DEF TypeOK, UseInv, RowInv, TargetInv, ConsumerInv, SeenInv, PlaceInv
  <1>0. CASE UNCHANGED codeVars
    BY <1>0 DEF codeVars, database, request, Usable, Present
  <1>1. ASSUME NEW r \in Requests, NEW g \in Codes \cup {None}, Increment(r, g) PROVE ConsumerInv'
    BY <1>1 DEF Increment, Gate, Goto, Usable, Present
  <1>2. ASSUME NEW r \in Requests, NEW g \in Codes \cup {None}, IncrementMySQL(r, g) PROVE ConsumerInv'
    BY <1>2 DEF IncrementMySQL, Goto, Usable, Present
  <1>3. ASSUME NEW r \in Requests, SelectCount(r) PROVE ConsumerInv'
    BY <1>3 DEF SelectCount, Gate, Goto, database, Usable, Present
  <1>4. ASSUME NEW r \in Requests, FlowMissing(r) PROVE ConsumerInv'
    BY <1>4 DEF FlowMissing, Goto, database, Usable, Present
  <1>5. ASSUME NEW r \in Requests, Lookup(r) PROVE ConsumerInv'
    BY <1>5 DEF Lookup, Goto, database, Usable, Present
  <1>6. ASSUME NEW r \in Requests, Consume(r) PROVE ConsumerInv'
    BY <1>6 DEF Consume, Goto, Usable, Present
  <1>7. ASSUME NEW r \in Requests, ConsumeNothing(r) PROVE ConsumerInv'
    BY <1>7 DEF ConsumeNothing, Goto, database, Usable, Present
  <1>8. ASSUME NEW r \in Requests, RetryTransaction(r) PROVE ConsumerInv'
    BY <1>8 DEF RetryTransaction, Goto, database, Usable, Present
  <1>9. ASSUME NEW r \in Requests, Revalidate(r) PROVE ConsumerInv'
    BY <1>9 DEF Revalidate, Goto, database, Usable, Present
  <1>10. ASSUME NEW r \in Requests, NEW n \in 0 .. MaxAddresses, DeleteCodesOfFlow(r, n) PROVE ConsumerInv'
    BY <1>10 DEF DeleteCodesOfFlow, Goto, Usable, Present, Deleted
  <1>11. ASSUME NEW r \in Requests, NEW c \in Codes, CreateCode(r, c) PROVE ConsumerInv'
    BY <1>11 DEF CreateCode, Goto, Usable, Present
  <1>12. ASSUME NEW r \in Requests, Fail(r) PROVE ConsumerInv'
    BY <1>12 DEF Fail, Goto, database, Usable, Present
  <1>13. ASSUME NEW c \in Codes, Expire(c) PROVE ConsumerInv'
    BY <1>13 DEF Expire, request, Usable, Present
  <1>14. CASE DeleteExpiredFlow
    BY <1>14 DEF DeleteExpiredFlow, Deleted, request, Usable, Present
  <1> QED
    BY <1>0, <1>1, <1>2, <1>3, <1>4, <1>5, <1>6, <1>7, <1>8, <1>9, <1>10, <1>11, <1>12, <1>13, <1>14 DEF Next, UseCode, SendCodes

\* A copy that shows used_at stays evidence that the code was consumed by another request.
LEMMA NextSeenInv == TypeOK /\ UseInv /\ [Next]_codeVars => SeenInv'
  <1> SUFFICES ASSUME TypeOK, UseInv, [Next]_codeVars PROVE SeenInv'
    OBVIOUS
  <1> USE CodeAssumption DEF TypeOK, UseInv, RowInv, TargetInv, ConsumerInv, SeenInv, PlaceInv
  <1>0. CASE UNCHANGED codeVars
    BY <1>0 DEF codeVars, database, request, Usable, Present
  <1>1. ASSUME NEW r \in Requests, NEW g \in Codes \cup {None}, Increment(r, g) PROVE SeenInv'
    BY <1>1 DEF Increment, Gate, Goto, Usable, Present
  <1>2. ASSUME NEW r \in Requests, NEW g \in Codes \cup {None}, IncrementMySQL(r, g) PROVE SeenInv'
    BY <1>2 DEF IncrementMySQL, Goto, Usable, Present
  <1>3. ASSUME NEW r \in Requests, SelectCount(r) PROVE SeenInv'
    BY <1>3 DEF SelectCount, Gate, Goto, database, Usable, Present
  <1>4. ASSUME NEW r \in Requests, FlowMissing(r) PROVE SeenInv'
    BY <1>4 DEF FlowMissing, Goto, database, Usable, Present
  <1>5. ASSUME NEW r \in Requests, Lookup(r) PROVE SeenInv'
    BY <1>5 DEF Lookup, Goto, database, Usable, Present
  <1>6. ASSUME NEW r \in Requests, Consume(r) PROVE SeenInv'
    BY <1>6 DEF Consume, Goto, Usable, Present
  <1>7. ASSUME NEW r \in Requests, ConsumeNothing(r) PROVE SeenInv'
    BY <1>7 DEF ConsumeNothing, Goto, database, Usable, Present
  <1>8. ASSUME NEW r \in Requests, RetryTransaction(r) PROVE SeenInv'
    BY <1>8 DEF RetryTransaction, Goto, database, Usable, Present
  <1>9. ASSUME NEW r \in Requests, Revalidate(r) PROVE SeenInv'
    BY <1>9 DEF Revalidate, Goto, database, Usable, Present
  <1>10. ASSUME NEW r \in Requests, NEW n \in 0 .. MaxAddresses, DeleteCodesOfFlow(r, n) PROVE SeenInv'
    BY <1>10 DEF DeleteCodesOfFlow, Goto, Usable, Present, Deleted
  <1>11. ASSUME NEW r \in Requests, NEW c \in Codes, CreateCode(r, c) PROVE SeenInv'
    BY <1>11 DEF CreateCode, Goto, Usable, Present
  <1>12. ASSUME NEW r \in Requests, Fail(r) PROVE SeenInv'
    BY <1>12 DEF Fail, Goto, database, Usable, Present
  <1>13. ASSUME NEW c \in Codes, Expire(c) PROVE SeenInv'
    BY <1>13 DEF Expire, request, Usable, Present
  <1>14. CASE DeleteExpiredFlow
    BY <1>14 DEF DeleteExpiredFlow, Deleted, request, Usable, Present
  <1> QED
    BY <1>0, <1>1, <1>2, <1>3, <1>4, <1>5, <1>6, <1>7, <1>8, <1>9, <1>10, <1>11, <1>12, <1>13, <1>14 DEF Next, UseCode, SendCodes

\* What each answer of useOneTimeCode implies is kept by the steps of all others.
LEMMA NextPlaceInv == TypeOK /\ UseInv /\ [Next]_codeVars => PlaceInv'
  <1> SUFFICES ASSUME TypeOK, UseInv, [Next]_codeVars PROVE PlaceInv'
    OBVIOUS
  <1> USE CodeAssumption DEF TypeOK, UseInv, RowInv, TargetInv, ConsumerInv, SeenInv, PlaceInv
  <1>0. CASE UNCHANGED codeVars
    BY <1>0 DEF codeVars, database, request, Usable, Present
  <1>1. ASSUME NEW r \in Requests, NEW g \in Codes \cup {None}, Increment(r, g) PROVE PlaceInv'
    BY <1>1 DEF Increment, Gate, Goto, Usable, Present
  <1>2. ASSUME NEW r \in Requests, NEW g \in Codes \cup {None}, IncrementMySQL(r, g) PROVE PlaceInv'
    BY <1>2 DEF IncrementMySQL, Goto, Usable, Present
  <1>3. ASSUME NEW r \in Requests, SelectCount(r) PROVE PlaceInv'
    BY <1>3 DEF SelectCount, Gate, Goto, database, Usable, Present
  <1>4. ASSUME NEW r \in Requests, FlowMissing(r) PROVE PlaceInv'
    BY <1>4 DEF FlowMissing, Goto, database, Usable, Present
  <1>5. ASSUME NEW r \in Requests, Lookup(r) PROVE PlaceInv'
    <2>1. /\ UNCHANGED <<row, expired, consumer>>
          /\ \A q \in Requests \ {r} :
                 pc'[q] = pc[q] /\ target'[q] = target[q] /\ seenUsed'[q] = seenUsed[q]
      BY <1>5 DEF Lookup, Goto, database
    <2>2. pc'[r] = IF Usable(target'[r], seenUsed'[r]) THEN "consume" ELSE "validate"
      <3> DEFINE found == guess[r] # None /\ Present(guess[r])
                 c     == IF found THEN guess[r] ELSE target[r]
                 used  == IF found THEN row[guess[r]] = "used" ELSE seenUsed[r]
      <3>1. target' = [target EXCEPT ![r] = c] /\ seenUsed' = [seenUsed EXCEPT ![r] = used]
        BY <1>5 DEF Lookup
      <3>2. pc' = [pc EXCEPT ![r] = IF Usable(c, used) THEN "consume" ELSE "validate"]
        BY <1>5 DEF Lookup, Goto
      <3>3. target'[r] = c /\ seenUsed'[r] = used
        BY <3>1
      <3> HIDE DEF c, used
      <3> QED
        BY <3>2, <3>3
    <2> QED
      BY <2>1, <2>2 DEF Usable, Present
  <1>6. ASSUME NEW r \in Requests, Consume(r) PROVE PlaceInv'
    BY <1>6 DEF Consume, Goto, Usable, Present
  <1>7. ASSUME NEW r \in Requests, ConsumeNothing(r) PROVE PlaceInv'
    BY <1>7 DEF ConsumeNothing, Goto, database, Usable, Present
  <1>8. ASSUME NEW r \in Requests, RetryTransaction(r) PROVE PlaceInv'
    BY <1>8 DEF RetryTransaction, Goto, database, Usable, Present
  <1>9. ASSUME NEW r \in Requests, Revalidate(r) PROVE PlaceInv'
    BY <1>9 DEF Revalidate, Goto, database, Usable, Present
  <1>10. ASSUME NEW r \in Requests, NEW n \in 0 .. MaxAddresses, DeleteCodesOfFlow(r, n) PROVE PlaceInv'
    BY <1>10 DEF DeleteCodesOfFlow, Goto, Usable, Present, Deleted
  <1>11. ASSUME NEW r \in Requests, NEW c \in Codes, CreateCode(r, c) PROVE PlaceInv'
    BY <1>11 DEF CreateCode, Goto, Usable, Present
  <1>12. ASSUME NEW r \in Requests, Fail(r) PROVE PlaceInv'
    BY <1>12 DEF Fail, Goto, database, Usable, Present
  <1>13. ASSUME NEW c \in Codes, Expire(c) PROVE PlaceInv'
    BY <1>13 DEF Expire, request, Usable, Present
  <1>14. CASE DeleteExpiredFlow
    BY <1>14 DEF DeleteExpiredFlow, Deleted, request, Usable, Present
  <1> QED
    BY <1>0, <1>1, <1>2, <1>3, <1>4, <1>5, <1>6, <1>7, <1>8, <1>9, <1>10, <1>11, <1>12, <1>13, <1>14 DEF Next, UseCode, SendCodes

\* The five parts together are inductive.
LEMMA NextUse == TypeOK /\ UseInv /\ [Next]_codeVars => UseInv'
  BY NextRowInv, NextTargetInv, NextConsumerInv, NextSeenInv, NextPlaceInv DEF UseInv

\* In every reachable state the invariant about the use of codes holds.
LEMMA UseInvariant == Spec => []UseInv
  BY InitUse, NextUse, TypeCorrect, PTL DEF Spec

\* A code is consumed by one request at most, and only that request is accepted,
\* for any number of concurrent submissions, resends and transaction retries.
THEOREM CodesUsedOnce == Spec => []SingleUse
  <1>1. TypeOK /\ UseInv => SingleUse
    <2> SUFFICES ASSUME TypeOK, UseInv PROVE SingleUse
      OBVIOUS
    <2>1. ASSUME NEW c \in Codes PROVE Cardinality(consumer[c]) <= 1
      <3>1. CASE consumer[c] = {}
        BY <3>1, FS_EmptySet
      <3>2. CASE consumer[c] # {}
        <4>1. PICK p \in consumer[c] : consumer[c] = {p}
          BY <3>2 DEF UseInv, RowInv
        <4>2. Cardinality({p}) = 1
          BY FS_Singleton
        <4> QED
          BY <4>1, <4>2
      <3> QED
        BY <3>1, <3>2
    <2>2. ASSUME NEW r \in Requests, pc[r] = "accepted"
          PROVE  guess[r] \in Codes /\ consumer[guess[r]] = {r}
      <3>1. target[r] = guess[r] /\ guess[r] \in Codes /\ r \in consumer[guess[r]]
        BY <2>2 DEF TypeOK, UseInv, TargetInv, PlaceInv
      <3> QED
        BY <3>1 DEF UseInv, RowInv
    <2> QED
      BY <2>1, <2>2 DEF SingleUse
  <1> QED
    BY <1>1, UseInvariant, TypeCorrect, PTL

\* A code that a resend or the cleanup deleted unused stays unused.
THEOREM ReplacedCodesDead == Spec => []ReplacedNeverUsed
  <1>1. UseInv => ReplacedNeverUsed
    BY DEF UseInv, RowInv, ReplacedNeverUsed
  <1> QED
    BY <1>1, UseInvariant, PTL

\* "The code was already used" is never the answer to a request because of its
\* own UPDATE: another request consumed the code, or it was deleted.
THEOREM AlreadyUsedTruthful == Spec => []AlreadyUsedIsTrue
  <1>1. TypeOK /\ UseInv => AlreadyUsedIsTrue
    BY DEF TypeOK, UseInv, TargetInv, ConsumerInv, PlaceInv, AlreadyUsedIsTrue
  <1> QED
    BY <1>1, UseInvariant, TypeCorrect, PTL
=============================================================================
