------------------------- MODULE RecoveryFlowProofs -------------------------
(***************************************************************************)
(* Proofs about RecoveryFlow, for every number of requests and codes,      *)
(* every set of payloads and every limit.  The codes of the flow are       *)
(* those of OneTimeCode: once the refinement is proved, the theorems of    *)
(* OneTimeCodeProofs hold of a recovery flow.                              *)
(***************************************************************************)
EXTENDS RecoveryFlow, FiniteSetTheorems, TLAPS

CodeProofs == INSTANCE OneTimeCodeProofs WITH MaxAddresses <- 1

\* What TypeOK says of the flow, without the codes and the version of its states.
FlowType ==
    /\ version \in 1 .. 2
    /\ state \in States
    /\ lapsed \in BOOLEAN /\ reopened \in BOOLEAN
    /\ request \in [Requests -> Handlers]
    /\ verified \in SUBSET Requests
    /\ sessions \in SUBSET Requests
    /\ overlap \in BOOLEAN

\* The states a flow of version v can be in: all of them, but for those of version 1
\* when it is of version 2.
StatesOf(v) == IF v = 2 THEN States \ V1States ELSE States

\* What a request h holds of a flow of version v, and what it will write to it, are
\* such states.
OfVersion(h, v) ==
    /\ h.step \notin {"idle", "done"} => h.handler \in StatesOf(v)
    /\ h.step \notin {"idle", "done", "error"} => h.copy \in StatesOf(v)

\* The states of the flow and of every copy of it are those of its version.
VersionInv ==
    /\ state \in StatesOf(version)
    /\ \A r \in Requests : OfVersion(request[r], version)

\* The code of some request was accepted.
SomeAccepted == \E q \in Requests : pc[q] = "accepted"

\* The request r that holds h saw or will write passed_challenge only after a code
\* was accepted, and goes on to a session only after its own was.
Earned(r, h) ==
    /\ "passed_challenge" \in {h.handler, h.copy} => SomeAccepted
    /\ h.step \in {"verify", "pass", "session"} => pc[r] = "accepted"

\* PassedIsEarned and SessionNeedsCode are not inductive: a copy of the flow may be
\* saved long after it was read, and a session is issued steps after the code was
\* accepted.
EarnedInv ==
    /\ state = "passed_challenge" => SomeAccepted
    /\ \A r \in Requests : Earned(r, request[r])
    /\ \A r \in sessions \cup verified : pc[r] = "accepted"

\* The request's UPDATE consumed a code; no code can be consumed any more.
Consumed(r) == \E c \in Codes : r \in consumer[c]
NoneLive == \A c \in Codes : row[c] # "live"

\* A request that has not used a code has not consumed one.
StartInv ==
    \A r \in Requests :
        /\ request[r].step \in {"idle", "reread", "saveThenSend"} => pc[r] = "idle"
        /\ pc[r] \in {"idle", "select", "create", "sent"} => ~Consumed(r)

\* While requests come one after the other, at most one code is live: there is none
\* between the DELETE and the INSERT of a resend, and none once it was consumed.
AloneInv ==
    ~overlap =>
        /\ \A q, r \in InFlight : q = r
        /\ \A c, d \in Codes : row[c] = "live" /\ row[d] = "live" => c = d
        /\ \A r \in Requests :
               \/ request[r].step = "send" /\ pc[r] = "create"
               \/ request[r].step \in {"use", "verify", "pass", "session"} /\ Consumed(r)
               => NoneLive

\* In such a flow a session is preceded by passed_challenge and leaves no code for
\* another one: until a write takes the flow out of passed_challenge, a request that
\* comes later can only have its code refused, or be about to make that write.
OnceInv ==
    ~overlap /\ ~reopened =>
        /\ \A q, r \in sessions : q = r
        /\ \A r \in Requests : request[r].step = "session" => state = "passed_challenge"
        /\ sessions # {} =>
               /\ NoneLive
               /\ state = "passed_challenge"
               /\ \A r \in InFlight :
                      /\ request[r].step \in {"reread", "use", "saveMessage", "save", "error"}
                      /\ request[r].step = "use" => ~Consumed(r)

-----------------------------------------------------------------------------
(* Types of the flow *)

\* The payload of a request that is not handled is one of Payloads.
LEMMA NoPayloadType == NoPayload \in Payloads
  BY DEF NoPayload, Payloads, Addresses

\* A request that is not handled has the type of one that is.
LEMMA NoRequestType == ASSUME NEW label \in Steps PROVE NoRequest(label) \in Handlers
  BY NoPayloadType DEF NoRequest, Handlers, States, V1States, V2States

\* A new flow, which no request has seen yet, is well typed.
LEMMA InitFlow == Init => FlowType
  <1> SUFFICES ASSUME Init PROVE FlowType
    OBVIOUS
  <1>1. version \in 1 .. 2
    BY RecoveryAssumption DEF Init
  <1>2. request \in [Requests -> Handlers]
    BY NoRequestType DEF Init, Steps
  <1> QED
    BY <1>1, <1>2 DEF Init, FlowType, States, V1States, V2States

\* The ways a request ends, or goes on, keep the type of the requests.
LEMMA RequestType ==
    ASSUME FlowType, NEW r \in Requests
    PROVE  /\ Finish(r) => request' \in [Requests -> Handlers]
           /\ \A s \in States : ReturnError(r, s) => request' \in [Requests -> Handlers]
           /\ \A label \in Steps : Continue(r, label) => request' \in [Requests -> Handlers]
           /\ \A s \in States, label \in Steps :
                  SetState(r, s, label) => request' \in [Requests -> Handlers]
           /\ \A k \in BOOLEAN : SendTo(r, k) => request' \in [Requests -> Handlers]
  <1> USE DEF FlowType
  <1>1. Finish(r) => request' \in [Requests -> Handlers]
    BY NoRequestType DEF Finish, Steps
  <1>2. ASSUME NEW s \in States, ReturnError(r, s) PROVE request' \in [Requests -> Handlers]
    <2>1. [NoRequest("error") EXCEPT !.handler = s] \in Handlers
      BY NoPayloadType DEF NoRequest, Steps, Handlers, States, V1States, V2States
    <2> QED
      BY <1>2, <2>1 DEF ReturnError
  <1>3. ASSUME NEW label \in Steps, Continue(r, label)
        PROVE  request' \in [Requests -> Handlers]
    BY <1>3 DEF Continue, Handlers
  <1>4. ASSUME NEW s \in States, NEW label \in Steps, SetState(r, s, label)
        PROVE  request' \in [Requests -> Handlers]
    <2>1. [request[r] EXCEPT !.copy = s, !.step = label, !.body = NoPayload] \in Handlers
      BY NoPayloadType DEF Handlers
    <2>2. request' = [request EXCEPT ![r] =
              [request[r] EXCEPT !.copy = s, !.step = label, !.body = NoPayload]]
      BY <1>4 DEF SetState
    <2> QED
      BY <2>1, <2>2
  <1>5. ASSUME NEW k \in BOOLEAN, SendTo(r, k) PROVE request' \in [Requests -> Handlers]
    <2>1. [request[r] EXCEPT !.step = "send", !.copy = state, !.known = k,
                             !.body = NoPayload] \in Handlers
      BY NoPayloadType DEF Handlers, Steps
    <2>2. request' = [request EXCEPT ![r] =
              [request[r] EXCEPT !.step = "send", !.copy = state, !.known = k,
                                 !.body = NoPayload]]
      BY <1>5 DEF SendTo
    <2> QED
      BY <2>1, <2>2
  <1> QED
    BY <1>1, <1>2, <1>3, <1>4, <1>5

\* What Submit and Recover do to a request keeps its type.
LEMMA SubmitFlow ==
    ASSUME FlowType, NEW r \in Requests,
           (\E b \in Bodies : Submit(r, b)) \/ Refuse(r) \/ Recover(r)
    PROVE  FlowType'
  <1> USE RequestType
  <1>1. ASSUME NEW b \in Bodies, Submit(r, b) PROVE FlowType'
    <2>1. b \in Payloads
      BY RecoveryAssumption DEF FlowType
    <2>2. [step |-> IF AsksToUseCode(state, b) THEN "use" ELSE "reread", body |-> b,
           handler |-> state, copy |-> state, known |-> FALSE] \in Handlers
      BY <2>1 DEF FlowType, Handlers, Steps
    <2>3. request' \in [Requests -> Handlers]
      BY <1>1, <2>2 DEF FlowType, Submit
    <2> QED
      BY <1>1, <2>3 DEF FlowType, Submit, flow
  <1>2. CASE Refuse(r)
    BY <1>2 DEF FlowType, Refuse, flow, history
  <1>3. CASE Recover(r)
    <2>0. UNCHANGED <<flow, history>>
      BY <1>3 DEF Recover, HandleFormSubmission, HandlePassedChallenge,
                  HandleStateAwaitingAddress, HandleStateAwaitingAddressChoice,
                  HandleStateConfirmingAddress, HandleStateAwaitingCode, GoBack,
                  Forward, Reread
    <2>1. request[r].handler \in States
      BY DEF FlowType, Handlers
    <2>2. Reject(r) => request' \in [Requests -> Handlers]
      BY <2>1 DEF Reject
    <2>3. \A s \in States : SaveAs(r, s) => request' \in [Requests -> Handlers]
      BY DEF SaveAs, Steps
    <2>4. request' \in [Requests -> Handlers]
      <3>1. CASE HandleFormSubmission(r)
        BY <2>2, <3>1 DEF HandleFormSubmission
      <3>2. CASE HandlePassedChallenge(r)
        BY <3>2 DEF HandlePassedChallenge
      <3>3. CASE HandleStateAwaitingAddress(r)
        <4>1. ASSUME NEW k \in BOOLEAN,
                     request' = [request EXCEPT ![r].step = "saveThenSend",
                                   ![r].copy = "recovery_confirming_address",
                                   ![r].known = k, ![r].body = NoPayload]
              PROVE  request' \in [Requests -> Handlers]
          <5>1. [request[r] EXCEPT !.step = "saveThenSend",
                                   !.copy = "recovery_confirming_address",
                                   !.known = k, !.body = NoPayload] \in Handlers
            BY NoPayloadType DEF FlowType, Handlers, Steps, States, V2States
          <5>2. request' = [request EXCEPT ![r] =
                  [request[r] EXCEPT !.step = "saveThenSend",
                                     !.copy = "recovery_confirming_address",
                                     !.known = k, !.body = NoPayload]]
            BY <4>1
          <5> QED
            BY <5>1, <5>2 DEF FlowType
        <4> QED
          BY <2>2, <2>3, <3>3, <4>1 DEF HandleStateAwaitingAddress, States, V2States
      <3>4. CASE HandleStateAwaitingAddressChoice(r)
        BY <2>2, <2>3, <3>4 DEF HandleStateAwaitingAddressChoice, States, V2States
      <3>5. CASE HandleStateConfirmingAddress(r)
        BY <2>2, <3>5 DEF HandleStateConfirmingAddress
      <3>6. CASE HandleStateAwaitingCode(r)
        <4>1. CASE request' = [request EXCEPT ![r].copy = state, ![r].step = "use"]
          BY <4>1 DEF FlowType, Handlers, Steps
        <4> QED
          BY <2>2, <3>6, <4>1 DEF HandleStateAwaitingCode
      <3>7. CASE GoBack(r)
        <4>1. ASSUME NEW s \in States,
                     request' = [request EXCEPT ![r] =
                                   [NoRequest("save") EXCEPT !.handler = s, !.copy = s]]
              PROVE  request' \in [Requests -> Handlers]
          <5>1. [NoRequest("save") EXCEPT !.handler = s, !.copy = s] \in Handlers
            BY NoPayloadType DEF NoRequest, Handlers, Steps
          <5> QED
            BY <4>1, <5>1 DEF FlowType
        <4> QED
          BY <3>7, <4>1 DEF GoBack, States, V2States
      <3> QED
        BY <1>3, <3>1, <3>2, <3>3, <3>4, <3>5, <3>6, <3>7 DEF Recover
    <2> QED
      BY <2>0, <2>4 DEF FlowType, flow, history
  <1> QED
    BY <1>1, <1>2, <1>3

\* Sending a code, using one and saving the flow keep its type.
LEMMA HandleFlow ==
    ASSUME FlowType, NEW r \in Requests,
           \/ DeleteRecoveryCodesOfFlow(r) \/ (\E c \in Codes : SendRecoveryCode(r, c))
           \/ Save(r) \/ WriteFlowError(r)
           \/ UseRecoveryCode(r) \/ CodeAnswer(r)
           \/ MarkRecoveryAddressVerified(r) \/ PassChallenge(r) \/ IssueSession(r)
           \/ StatementFails(r) \/ Abort(r)
    PROVE  FlowType'
  <1> USE RequestType
  <1>0. /\ request[r].handler \in States
        /\ request[r].copy \in States
        /\ PassedCopy(r) \in States
        /\ SentState(request[r].copy) \in States
        /\ "passed_challenge" \in States
    BY DEF FlowType, Handlers, PassedCopy, SentState, States, V1States, V2States
  <1>1. AfterSend(r) => request' \in [Requests -> Handlers]
    BY <1>0 DEF AfterSend, Steps
  <1>2. CASE DeleteRecoveryCodesOfFlow(r)
    BY <1>1, <1>2 DEF DeleteRecoveryCodesOfFlow, FlowType, flow, history
  <1>3. ASSUME NEW c \in Codes, SendRecoveryCode(r, c) PROVE FlowType'
    BY <1>1, <1>3 DEF SendRecoveryCode, FlowType, flow, history
  <1>4. CASE Save(r)
    BY <1>0, <1>4 DEF Save, UpdateRecoveryFlow, FlowType, history, Steps
  <1>5. CASE WriteFlowError(r)
    BY <1>0, <1>5 DEF WriteFlowError, UpdateRecoveryFlow, FlowType, history
  <1>6. CASE UseRecoveryCode(r)
    BY <1>6 DEF UseRecoveryCode, FlowType, flowVars, flow, history
  <1>7. CASE CodeAnswer(r)
    BY <1>0, <1>7 DEF CodeAnswer, RetryRecoveryFlow, FlowType, flow, history, Steps
  <1>8. CASE MarkRecoveryAddressVerified(r)
    BY <1>8 DEF MarkRecoveryAddressVerified, FlowType, flow, Steps
  <1>9. CASE PassChallenge(r)
    <2>1. CASE UpdateRecoveryFlow("passed_challenge")
               /\ request' = [request EXCEPT ![r].handler = PassedCopy(r),
                                             ![r].step = "session"]
      <3>1. request' \in [Requests -> Handlers]
        BY <1>0, <2>1 DEF FlowType, Handlers, Steps
      <3>2. state' \in States /\ reopened' \in BOOLEAN
        BY <1>0, <2>1 DEF UpdateRecoveryFlow, FlowType
      <3> QED
        BY <1>9, <3>1, <3>2 DEF PassChallenge, FlowType, history
    <2>2. CASE RetryRecoveryFlow(r, PassedCopy(r)) /\ UNCHANGED <<codeVars, state, reopened>>
      BY <1>0, <1>9, <2>2 DEF PassChallenge, RetryRecoveryFlow, FlowType, history
    <2> QED
      BY <1>9, <2>1, <2>2 DEF PassChallenge
  <1>10. CASE IssueSession(r)
    BY <1>0, <1>10 DEF IssueSession, RetryRecoveryFlow, FlowType, flow
  <1>11. CASE StatementFails(r)
    BY <1>0, <1>11 DEF StatementFails, FlowType, flow, history
  <1>12. CASE Abort(r)
    BY <1>12 DEF Abort, FlowType, flow, history
  <1> QED
    BY <1>2, <1>3, <1>4, <1>5, <1>6, <1>7, <1>8, <1>9, <1>10, <1>11, <1>12

\* Every step keeps the types of the flow.
LEMMA NextFlow == FlowType /\ [Next]_vars => FlowType'
  <1> SUFFICES ASSUME FlowType, [Next]_vars PROVE FlowType'
    OBVIOUS
  <1>1. CASE UNCHANGED vars
    BY <1>1 DEF FlowType, vars, flowVars, flow, history
  <1>2. ASSUME NEW r \in Requests, Step(r) PROVE FlowType'
    BY <1>2, SubmitFlow, HandleFlow DEF Step
  <1>3. CASE (\E c \in Codes : Expire(c)) \/ DeleteExpiredRecoveryFlow
    BY <1>3 DEF Expire, DeleteExpiredRecoveryFlow, FlowType, flowVars, flow, history
  <1>4. CASE Lapse
    BY <1>4 DEF Lapse, FlowType, history
  <1> QED
    BY <1>1, <1>2, <1>3, <1>4 DEF Next

\* In every reachable state the flow's row and the requests are well typed.
LEMMA FlowTyped == Spec => []FlowType
  BY InitFlow, NextFlow, PTL DEF Spec

-----------------------------------------------------------------------------
(* The refinement *)

\* One step of a recovery flow leaves its codes alone, or is a step of OneTimeCode.
LEMMA NextImplements ==
    FlowType /\ [Next]_vars => UNCHANGED codeVars \/ Code!Next
  <1> SUFFICES ASSUME FlowType, [Next]_vars PROVE UNCHANGED codeVars \/ Code!Next
    OBVIOUS
  <1>1. CASE UNCHANGED vars
    BY <1>1 DEF vars
  <1>2. ASSUME NEW r \in Requests, Step(r) PROVE UNCHANGED codeVars \/ Code!Next
    <2>1. CASE (\E b \in Bodies : Submit(r, b)) \/ Refuse(r) \/ Recover(r)
      BY <2>1 DEF Submit, Refuse, Recover, HandleFormSubmission, HandlePassedChallenge,
                  HandleStateAwaitingAddress, HandleStateAwaitingAddressChoice,
                  HandleStateConfirmingAddress, HandleStateAwaitingCode, GoBack,
                  Forward, Reread
    <2>2. CASE DeleteRecoveryCodesOfFlow(r)
      BY <2>2 DEF DeleteRecoveryCodesOfFlow, Code!Next, Code!SendCodes
    <2>3. ASSUME NEW c \in Codes, SendRecoveryCode(r, c) PROVE Code!Next
      BY <2>3 DEF SendRecoveryCode, Code!Next, Code!SendCodes
    <2>4. CASE UseRecoveryCode(r)
      <3>1. Guess(request[r].body) \in Codes \cup {None}
        BY DEF FlowType, Handlers, Payloads, Guess
      <3> QED
        BY <2>4, <3>1 DEF UseRecoveryCode, Code!Next, Code!UseCode
    <2>5. CASE \/ Save(r) \/ WriteFlowError(r) \/ CodeAnswer(r)
               \/ MarkRecoveryAddressVerified(r) \/ PassChallenge(r) \/ IssueSession(r)
               \/ StatementFails(r) \/ Abort(r)
      BY <2>5 DEF Save, WriteFlowError, CodeAnswer, MarkRecoveryAddressVerified,
                  PassChallenge, IssueSession, StatementFails, Abort, UpdateRecoveryFlow,
                  codeVars
    <2> QED
      BY <1>2, <2>1, <2>2, <2>3, <2>4, <2>5 DEF Step
  <1>3. ASSUME NEW c \in Codes, Expire(c) PROVE Code!Next
    BY <1>3 DEF Expire, Code!Next
  <1>4. CASE Lapse
    BY <1>4 DEF Lapse
  <1>5. CASE DeleteExpiredRecoveryFlow
    BY <1>5 DEF DeleteExpiredRecoveryFlow, Code!Next
  <1> QED
    BY <1>1, <1>2, <1>3, <1>4, <1>5 DEF Next

\* A recovery flow implements OneTimeCode: whatever the handlers, their stale copies
\* and their failures do, its codes and its submit_count only take the steps of
\* useOneTimeCode, of a resend and of the cleanup.
THEOREM RefinesCodes == Spec => CodeSpec
  <1>1. Init => Code!Init
    BY DEF Init
  <1>2. FlowType /\ [Next]_vars => [UNCHANGED codeVars \/ Code!Next]_codeVars
    BY NextImplements
  <1> QED
    BY <1>1, <1>2, FlowTyped, PTL DEF Spec, CodeSpec

\* The assumptions of OneTimeCode hold of the constants of a recovery flow.
LEMMA CodeAssumptionHolds == CodeProofs!CodeAssumption
  BY RecoveryAssumption DEF CodeProofs!CodeAssumption, CodeProofs!IsFiniteSet, IsFiniteSet

\* OneTimeCode is the same specification where it is proved about.
LEMMA SameNext == Code!Next <=> CodeProofs!Next
  BY DEF Code!Goto, CodeProofs!Goto, Code!Present, CodeProofs!Present, Code!TooOften,
         CodeProofs!TooOften, Code!Gate, CodeProofs!Gate, Code!Increment,
         CodeProofs!Increment, Code!IncrementMySQL, CodeProofs!IncrementMySQL,
         Code!SelectCount, CodeProofs!SelectCount, Code!FlowMissing,
         CodeProofs!FlowMissing, Code!Usable, CodeProofs!Usable, Code!Lookup,
         CodeProofs!Lookup, Code!Consume, CodeProofs!Consume, Code!ConsumeNothing,
         CodeProofs!ConsumeNothing, Code!RetryTransaction, CodeProofs!RetryTransaction,
         Code!Revalidate, CodeProofs!Revalidate, Code!Deleted, CodeProofs!Deleted,
         Code!DeleteCodesOfFlow, CodeProofs!DeleteCodesOfFlow, Code!CreateCode,
         CodeProofs!CreateCode, Code!Fail, CodeProofs!Fail, Code!Expire,
         CodeProofs!Expire, Code!DeleteExpiredFlow, CodeProofs!DeleteExpiredFlow,
         Code!UseCode, CodeProofs!UseCode, Code!SendCodes, CodeProofs!SendCodes,
         Code!Next, CodeProofs!Next, Code!database, CodeProofs!database, Code!request,
         CodeProofs!request, Code!codeVars, CodeProofs!codeVars

\* What a behaviour of the recovery flow is to OneTimeCodeProofs.
LEMMA ImplementsCodes == Spec => CodeProofs!Spec
  <1>1. Code!Init => CodeProofs!Init
    BY DEF Code!Init, CodeProofs!Init
  <1>2. [UNCHANGED codeVars \/ Code!Next]_codeVars => [CodeProofs!Next]_(CodeProofs!codeVars)
    BY SameNext DEF codeVars, CodeProofs!codeVars, CodeProofs!database, CodeProofs!request
  <1> QED
    BY <1>1, <1>2, RefinesCodes, PTL DEF CodeSpec, CodeProofs!Spec

\* A code of a recovery flow is consumed by one request at most, and only the
\* request that consumed it is accepted, whatever else happens to the flow.
THEOREM RecoveryCodesUsedOnce == Spec => []Code!SingleUse
  <1>1. CodeProofs!SingleUse => Code!SingleUse
    BY DEF CodeProofs!SingleUse, Code!SingleUse, CodeProofs!Cardinality, Code!Cardinality
  <1>2. CodeProofs!Spec => []CodeProofs!SingleUse
    BY CodeAssumptionHolds, CodeProofs!CodesUsedOnce
  <1> QED
    BY <1>1, <1>2, ImplementsCodes, PTL

\* At most max_submissions guesses are compared with the codes of a recovery flow,
\* however often it is saved from a stale copy, and whatever is resent or retried.
THEOREM RecoverySubmissionsBounded == Spec => []Code!SubmissionBound
  <1>1. CodeProofs!SubmissionBound => Code!SubmissionBound
    BY DEF CodeProofs!SubmissionBound, Code!SubmissionBound, CodeProofs!Cardinality,
           Code!Cardinality
  <1>2. CodeProofs!Spec => []CodeProofs!SubmissionBound
    BY CodeAssumptionHolds, CodeProofs!SubmissionsBounded
  <1> QED
    BY <1>1, <1>2, ImplementsCodes, PTL

\* In every reachable state the codes of the flow are well typed.
LEMMA CodeTyped == Spec => []Code!TypeOK
  <1>1. CodeProofs!TypeOK => Code!TypeOK
    BY DEF CodeProofs!TypeOK, Code!TypeOK, CodeProofs!Pcs, Code!Pcs, CodeProofs!Rows,
           Code!Rows, CodeProofs!Answers, Code!Answers
  <1>2. CodeProofs!Spec => []CodeProofs!TypeOK
    BY CodeAssumptionHolds, CodeProofs!TypeCorrect
  <1> QED
    BY <1>1, <1>2, ImplementsCodes, PTL

-----------------------------------------------------------------------------
(* The version of the states *)

\* The fields of a request after each of the ways it ends or goes on.
LEMMA RequestAfter ==
    ASSUME FlowType, NEW r \in Requests
    PROVE  /\ Finish(r) => request'[r] = NoRequest("done")
           /\ \A s : ReturnError(r, s) =>
                  /\ request'[r].step = "error" /\ request'[r].handler = s
                  /\ request'[r].body = NoPayload /\ request'[r].copy = "choose_method"
           /\ \A label : Continue(r, label) =>
                  /\ request'[r].step = label /\ request'[r].handler = request[r].handler
                  /\ request'[r].body = request[r].body /\ request'[r].copy = request[r].copy
           /\ \A s, label : SetState(r, s, label) =>
                  /\ request'[r].step = label /\ request'[r].handler = request[r].handler
                  /\ request'[r].body = NoPayload /\ request'[r].copy = s
           /\ \A k : SendTo(r, k) =>
                  /\ request'[r].step = "send" /\ request'[r].handler = request[r].handler
                  /\ request'[r].body = NoPayload /\ request'[r].copy = state
  <1> USE DEF FlowType, Handlers
  <1>1. Finish(r) => request'[r] = NoRequest("done")
    BY DEF Finish
  <1>2. ASSUME NEW s, ReturnError(r, s)
        PROVE  /\ request'[r].step = "error" /\ request'[r].handler = s
               /\ request'[r].body = NoPayload /\ request'[r].copy = "choose_method"
    BY <1>2 DEF ReturnError, NoRequest
  <1>3. ASSUME NEW label, Continue(r, label)
        PROVE  /\ request'[r].step = label /\ request'[r].handler = request[r].handler
               /\ request'[r].body = request[r].body /\ request'[r].copy = request[r].copy
    BY <1>3 DEF Continue
  <1>4. ASSUME NEW s, NEW label, SetState(r, s, label)
        PROVE  /\ request'[r].step = label /\ request'[r].handler = request[r].handler
               /\ request'[r].body = NoPayload /\ request'[r].copy = s
    <2>1. request'[r] = [request[r] EXCEPT !.copy = s, !.step = label, !.body = NoPayload]
      BY <1>4 DEF SetState
    <2> QED
      BY <2>1
  <1>5. ASSUME NEW k, SendTo(r, k)
        PROVE  /\ request'[r].step = "send" /\ request'[r].handler = request[r].handler
               /\ request'[r].body = NoPayload /\ request'[r].copy = state
    <2>1. request'[r] = [request[r] EXCEPT !.step = "send", !.copy = state, !.known = k,
                                           !.body = NoPayload]
      BY <1>5 DEF SendTo
    <2> QED
      BY <2>1
  <1> QED
    BY <1>1, <1>2, <1>3, <1>4, <1>5

\* A step of one request changes no other request.
LEMMA Frame ==
    ASSUME FlowType, NEW r \in Requests, Step(r)
    PROVE  /\ version' = version
           /\ \A q \in Requests \ {r} : request'[q] = request[q]
  <1> USE DEF FlowType, Finish, ReturnError, Continue, SetState, SendTo
  <1>1. ASSUME NEW b \in Bodies, Submit(r, b)
        PROVE  version' = version /\ \A q \in Requests \ {r} : request'[q] = request[q]
    BY <1>1 DEF Submit, flow
  <1>2. CASE Refuse(r)
    BY <1>2 DEF Refuse, flow
  <1>3. CASE Recover(r)
    <2>1. version' = version
      BY <1>3 DEF Recover, HandleFormSubmission, HandlePassedChallenge,
                  HandleStateAwaitingAddress, HandleStateAwaitingAddressChoice,
                  HandleStateConfirmingAddress, HandleStateAwaitingCode, GoBack,
                  Forward, Reread, flow
    <2>2. CASE HandleFormSubmission(r) \/ HandlePassedChallenge(r)
               \/ HandleStateConfirmingAddress(r)
      BY <2>1, <2>2 DEF HandleFormSubmission, HandlePassedChallenge,
                        HandleStateConfirmingAddress, Reject
    <2>3. CASE HandleStateAwaitingAddress(r)
      BY <2>1, <2>3 DEF HandleStateAwaitingAddress, Reject, SaveAs
    <2>4. CASE HandleStateAwaitingAddressChoice(r)
      BY <2>1, <2>4 DEF HandleStateAwaitingAddressChoice, Reject, SaveAs
    <2>5. CASE HandleStateAwaitingCode(r)
      BY <2>1, <2>5 DEF HandleStateAwaitingCode, Reject
    <2>6. CASE GoBack(r)
      BY <2>1, <2>6 DEF GoBack
    <2> QED
      BY <1>3, <2>2, <2>3, <2>4, <2>5, <2>6 DEF Recover
  <1>4. CASE DeleteRecoveryCodesOfFlow(r) \/ (\E c \in Codes : SendRecoveryCode(r, c))
    BY <1>4 DEF DeleteRecoveryCodesOfFlow, SendRecoveryCode, AfterSend, flow
  <1>5. CASE Save(r) \/ WriteFlowError(r)
    BY <1>5 DEF Save, WriteFlowError
  <1>6. CASE UseRecoveryCode(r)
    BY <1>6 DEF UseRecoveryCode, flowVars, flow
  <1>7. CASE CodeAnswer(r) \/ MarkRecoveryAddressVerified(r)
    BY <1>7 DEF CodeAnswer, RetryRecoveryFlow, MarkRecoveryAddressVerified, flow
  <1>8. CASE PassChallenge(r) \/ IssueSession(r)
    BY <1>8 DEF PassChallenge, IssueSession, RetryRecoveryFlow, flow
  <1>9. CASE StatementFails(r) \/ Abort(r)
    BY <1>9 DEF StatementFails, Abort, flow
  <1> QED
    BY <1>1, <1>2, <1>3, <1>4, <1>5, <1>6, <1>7, <1>8, <1>9 DEF Step

\* A new flow starts in a state of its version.
LEMMA InitVersion == Init => VersionInv
  BY DEF Init, VersionInv, OfVersion, StatesOf, States, NoRequest, V1States, V2States

\* A request that ended holds nothing, and one that goes on, or will write the
\* state s, is as good as s.
LEMMA VersionAfter ==
    ASSUME FlowType, VersionInv, NEW r \in Requests
    PROVE  /\ Finish(r) => OfVersion(request'[r], version)
           /\ \A s \in StatesOf(version) : ReturnError(r, s) => OfVersion(request'[r], version)
           /\ \A s \in StatesOf(version), label \in {"save", "saveMessage", "verify"} :
                  ~At(r, "idle") /\ ~At(r, "done") /\ SetState(r, s, label)
                      => OfVersion(request'[r], version)
           /\ \A k : ~At(r, "idle") /\ ~At(r, "done") /\ SendTo(r, k)
                      => OfVersion(request'[r], version)
  <1> USE RequestAfter DEF OfVersion
  <1>1. Finish(r) => OfVersion(request'[r], version)
    BY DEF NoRequest
  <1>2. ASSUME NEW s \in StatesOf(version), ReturnError(r, s)
        PROVE  OfVersion(request'[r], version)
    BY <1>2
  <1>3. ASSUME NEW s \in StatesOf(version), NEW label \in {"save", "saveMessage", "verify"},
               ~At(r, "idle"), ~At(r, "done"), SetState(r, s, label)
        PROVE  OfVersion(request'[r], version)
    BY <1>3 DEF VersionInv, At
  <1>4. ASSUME NEW k, ~At(r, "idle"), ~At(r, "done"), SendTo(r, k)
        PROVE  OfVersion(request'[r], version)
    BY <1>4 DEF VersionInv, At
  <1> QED
    BY <1>1, <1>2, <1>3, <1>4

\* Submit and Recover hand on states the flow's version can have: only a flow of
\* version 1 is handled as one, and going back leads to a state any flow can have.
LEMMA SubmitVersion ==
    ASSUME FlowType, VersionInv, NEW r \in Requests,
           (\E b \in Bodies : Submit(r, b)) \/ Recover(r)
    PROVE  state' \in StatesOf(version) /\ OfVersion(request'[r], version)
  <1> USE VersionAfter
  <1>0. state \in StatesOf(version) /\ OfVersion(request[r], version)
    BY DEF VersionInv
  <1>1. ASSUME NEW b \in Bodies, Submit(r, b)
        PROVE  state' \in StatesOf(version) /\ OfVersion(request'[r], version)
    <2>1. request'[r] = [step |-> IF AsksToUseCode(state, b) THEN "use" ELSE "reread",
                         body |-> b, handler |-> state, copy |-> state, known |-> FALSE]
      BY <1>1 DEF Submit, FlowType
    <2> QED
      BY <1>0, <1>1, <2>1 DEF OfVersion, Submit, flow
  <1>2. CASE Recover(r)
    <2>0. /\ At(r, "reread") /\ state' = state
          /\ ~At(r, "idle") /\ ~At(r, "done")
          /\ request[r].handler \in StatesOf(version)
      BY <1>0, <1>2 DEF Recover, HandleFormSubmission, HandlePassedChallenge,
                  HandleStateAwaitingAddress, HandleStateAwaitingAddressChoice,
                  HandleStateConfirmingAddress, HandleStateAwaitingCode, GoBack,
                  Forward, Reread, At, flow, OfVersion
    <2>1. Reject(r) => OfVersion(request'[r], version)
      BY <2>0 DEF Reject
    <2>2. \A s \in StatesOf(version) : SaveAs(r, s) => OfVersion(request'[r], version)
      BY <2>0 DEF SaveAs
    <2>3. V2States \subseteq StatesOf(version)
      BY DEF StatesOf, States, V1States, V2States
    <2>4. OfVersion(request'[r], version)
      <3>1. CASE HandleFormSubmission(r)
        BY <2>0, <2>1, <3>1 DEF HandleFormSubmission, V1States
      <3>2. CASE HandlePassedChallenge(r)
        BY <3>2 DEF HandlePassedChallenge
      <3>3. CASE HandleStateAwaitingAddress(r)
        <4>1. ASSUME NEW k, request' = [request EXCEPT ![r].step = "saveThenSend",
                                          ![r].copy = "recovery_confirming_address",
                                          ![r].known = k, ![r].body = NoPayload]
              PROVE  OfVersion(request'[r], version)
          <5>1. request'[r] = [request[r] EXCEPT !.step = "saveThenSend",
                                 !.copy = "recovery_confirming_address",
                                 !.known = k, !.body = NoPayload]
            BY <4>1 DEF FlowType
          <5>2. /\ request'[r].step = "saveThenSend" /\ request'[r].body = NoPayload
                /\ request'[r].copy = "recovery_confirming_address"
                /\ request'[r].handler = request[r].handler
            BY <5>1 DEF FlowType, Handlers
          <5> QED
            BY <2>0, <2>3, <3>3, <5>2
               DEF HandleStateAwaitingAddress, OfVersion, V2States
        <4> QED
          BY <2>1, <2>2, <2>3, <3>3, <4>1 DEF HandleStateAwaitingAddress, V2States
      <3>4. CASE HandleStateAwaitingAddressChoice(r)
        BY <2>0, <2>1, <2>2, <2>3, <3>4 DEF HandleStateAwaitingAddressChoice, V2States
      <3>5. CASE HandleStateConfirmingAddress(r)
        BY <2>0, <2>1, <3>5 DEF HandleStateConfirmingAddress
      <3>6. CASE HandleStateAwaitingCode(r)
        <4>1. CASE request' = [request EXCEPT ![r].copy = state, ![r].step = "use"]
          BY <1>0, <2>0, <4>1 DEF FlowType, Handlers, OfVersion
        <4> QED
          BY <2>0, <2>1, <3>6, <4>1 DEF HandleStateAwaitingCode
      <3>7. CASE GoBack(r)
        <4>1. ASSUME NEW s \in V2States,
                     request' = [request EXCEPT ![r] =
                                   [NoRequest("save") EXCEPT !.handler = s, !.copy = s]]
              PROVE  OfVersion(request'[r], version)
          BY <2>3, <4>1 DEF FlowType, NoRequest, OfVersion
        <4> QED
          BY <3>7, <4>1 DEF GoBack, V2States
      <3> QED
        BY <1>2, <3>1, <3>2, <3>3, <3>4, <3>5, <3>6, <3>7 DEF Recover
    <2> QED
      BY <1>0, <2>0, <2>4
  <1> QED
    BY <1>1, <1>2

\* So do the steps that send a code, use one, or save the flow.
LEMMA HandleVersion ==
    ASSUME FlowType, VersionInv, NEW r \in Requests,
           \/ Refuse(r)
           \/ DeleteRecoveryCodesOfFlow(r) \/ (\E c \in Codes : SendRecoveryCode(r, c))
           \/ Save(r) \/ WriteFlowError(r)
           \/ UseRecoveryCode(r) \/ CodeAnswer(r)
           \/ MarkRecoveryAddressVerified(r) \/ PassChallenge(r) \/ IssueSession(r)
           \/ StatementFails(r) \/ Abort(r)
    PROVE  state' \in StatesOf(version) /\ OfVersion(request'[r], version)
  <1> USE VersionAfter
  <1>0. /\ state \in StatesOf(version) /\ OfVersion(request[r], version)
        /\ "passed_challenge" \in StatesOf(version)
    BY DEF VersionInv, StatesOf, States, V1States
  <1>1. At(r, "send") /\ AfterSend(r) => OfVersion(request'[r], version)
    BY <1>0 DEF AfterSend, At, OfVersion, SentState, StatesOf, States, V1States, V2States
  <1>2. CASE Refuse(r) \/ Abort(r)
    BY <1>0, <1>2 DEF Refuse, Abort, flow
  <1>3. CASE DeleteRecoveryCodesOfFlow(r) \/ (\E c \in Codes : SendRecoveryCode(r, c))
    BY <1>0, <1>1, <1>3 DEF DeleteRecoveryCodesOfFlow, SendRecoveryCode, flow
  <1>4. CASE Save(r)
    BY <1>0, <1>4, RequestAfter DEF Save, UpdateRecoveryFlow, OfVersion, At
  <1>5. CASE WriteFlowError(r)
    BY <1>0, <1>5 DEF WriteFlowError, UpdateRecoveryFlow, OfVersion, At
  <1>6. CASE UseRecoveryCode(r)
    BY <1>0, <1>6 DEF UseRecoveryCode, flowVars, flow
  <1>7. CASE CodeAnswer(r)
    BY <1>0, <1>7 DEF CodeAnswer, RetryRecoveryFlow, OfVersion, At, flow
  <1>8. CASE MarkRecoveryAddressVerified(r)
    BY <1>0, <1>8, RequestAfter DEF MarkRecoveryAddressVerified, OfVersion, At, flow
  <1>9. CASE PassChallenge(r)
    <2>1. PassedCopy(r) \in StatesOf(version)
      BY <1>0, <1>9 DEF PassChallenge, PassedCopy, OfVersion, At
    <2>2. CASE UpdateRecoveryFlow("passed_challenge")
               /\ request' = [request EXCEPT ![r].handler = PassedCopy(r),
                                             ![r].step = "session"]
      BY <1>0, <1>9, <2>1, <2>2
         DEF PassChallenge, UpdateRecoveryFlow, OfVersion, At, FlowType, Handlers
    <2>3. CASE RetryRecoveryFlow(r, PassedCopy(r)) /\ UNCHANGED <<codeVars, state, reopened>>
      BY <1>0, <2>1, <2>3 DEF RetryRecoveryFlow
    <2> QED
      BY <1>9, <2>2, <2>3 DEF PassChallenge
  <1>10. CASE IssueSession(r)
    BY <1>0, <1>10 DEF IssueSession, RetryRecoveryFlow, OfVersion, At, flow
  <1>11. CASE StatementFails(r)
    BY <1>0, <1>11 DEF StatementFails, OfVersion, flow
  <1> QED
    BY <1>2, <1>3, <1>4, <1>5, <1>6, <1>7, <1>8, <1>9, <1>10, <1>11

\* No step takes a flow of version 2 to a state of version 1.
LEMMA NextVersion == FlowType /\ VersionInv /\ [Next]_vars => VersionInv'
  <1> SUFFICES ASSUME FlowType, VersionInv, [Next]_vars PROVE VersionInv'
    OBVIOUS
  <1>1. CASE UNCHANGED vars
    BY <1>1 DEF VersionInv, vars, flowVars, flow
  <1>2. ASSUME NEW r \in Requests, Step(r) PROVE VersionInv'
    <2>1. state' \in StatesOf(version) /\ OfVersion(request'[r], version)
      BY <1>2, SubmitVersion, HandleVersion DEF Step
    <2> QED
      BY <1>2, <2>1, Frame DEF VersionInv
  <1>3. CASE (\E c \in Codes : Expire(c)) \/ DeleteExpiredRecoveryFlow \/ Lapse
    BY <1>3 DEF Expire, DeleteExpiredRecoveryFlow, Lapse, VersionInv, flowVars, flow
  <1> QED
    BY <1>1, <1>2, <1>3 DEF Next

\* In every reachable state the flow, its requests and its codes are well typed, and
\* a flow of version 2 is in none of the states of version 1, whatever is submitted to
\* it and whatever is saved from stale copies.
THEOREM RecoveryTypeCorrect == Spec => []TypeOK
  <1> DEFINE Setup == [dialect |-> dialect, version |-> version] \in Setups
  <1>1. Init => Setup
    <2> SUFFICES ASSUME Init PROVE Setup
      OBVIOUS
    <2>1. PICK s \in Setups : dialect = s.dialect /\ version = s.version
      BY DEF Init
    <2>2. s = [dialect |-> s.dialect, version |-> s.version]
      BY RecoveryAssumption
    <2> QED
      BY <2>1, <2>2
  <1>2. Setup /\ FlowType /\ [Next]_vars => Setup'
    <2> SUFFICES ASSUME Setup, FlowType, [Next]_vars PROVE Setup'
      OBVIOUS
    <2>1. dialect' = dialect
      <3>1. Code!Next => dialect' = dialect
        BY DEF Code!Next, Code!UseCode, Code!SendCodes, Code!Increment,
               Code!IncrementMySQL, Code!SelectCount, Code!FlowMissing, Code!Lookup,
               Code!Consume, Code!ConsumeNothing, Code!RetryTransaction,
               Code!Revalidate, Code!DeleteCodesOfFlow, Code!CreateCode, Code!Fail,
               Code!Expire, Code!DeleteExpiredFlow, Code!database
      <3> QED
        BY <3>1, NextImplements DEF codeVars
    <2>2. version' = version
      <3>1. CASE UNCHANGED vars
        BY <3>1 DEF vars, flowVars, flow
      <3>2. CASE Next
        BY <3>2, Frame DEF Next, Expire, DeleteExpiredRecoveryFlow, Lapse, flowVars, flow
      <3> QED
        BY <3>1, <3>2
    <2> QED
      BY <2>1, <2>2
  <1>3. FlowType /\ Code!TypeOK /\ VersionInv /\ Setup => TypeOK
    BY DEF FlowType, VersionInv, StatesOf, TypeOK
  <1> QED
    BY <1>1, <1>2, <1>3, InitVersion, NextVersion, FlowTyped, CodeTyped, PTL DEF Spec

-----------------------------------------------------------------------------
(* What passed_challenge and a session rest on *)

\* Nothing takes back that a request's code was accepted.
LEMMA AcceptedStays ==
    ASSUME FlowType, Code!TypeOK, [Next]_vars, NEW q \in Requests, pc[q] = "accepted"
    PROVE  pc'[q] = "accepted"
  <1>1. CASE UNCHANGED codeVars
    BY <1>1 DEF codeVars
  <1>2. CASE Code!Next
    <2> USE DEF Code!TypeOK, Code!Goto
    <2>1. ASSUME NEW r \in Requests, Code!UseCode(r) PROVE pc'[q] = "accepted"
      BY <2>1 DEF Code!UseCode, Code!Increment, Code!IncrementMySQL, Code!Gate,
                  Code!SelectCount, Code!FlowMissing, Code!Lookup, Code!Consume,
                  Code!ConsumeNothing, Code!RetryTransaction, Code!Revalidate
    <2>2. ASSUME NEW r \in Requests, Code!SendCodes(r) \/ Code!Fail(r)
          PROVE  pc'[q] = "accepted"
      BY <2>2 DEF Code!SendCodes, Code!DeleteCodesOfFlow, Code!CreateCode, Code!Fail
    <2>3. CASE (\E c \in Codes : Code!Expire(c)) \/ Code!DeleteExpiredFlow
      BY <2>3 DEF Code!Expire, Code!DeleteExpiredFlow, Code!request
    <2> QED
      BY <1>2, <2>1, <2>2, <2>3 DEF Code!Next
  <1> QED
    BY <1>1, <1>2, NextImplements

\* A request that ends, or gets an error or a code to send, has earned what it holds.
LEMMA EarnedAfter ==
    ASSUME FlowType, EarnedInv, NEW r \in Requests
    PROVE  /\ Finish(r) => Earned(r, request'[r])
           /\ \A s : ReturnError(r, s) /\ (s = "passed_challenge" => SomeAccepted)
                  => Earned(r, request'[r])
           /\ \A s, label : SetState(r, s, label) /\ (s = "passed_challenge" => SomeAccepted)
                            /\ label \notin {"verify", "pass", "session"}
                  => Earned(r, request'[r])
           /\ \A k : SendTo(r, k) => Earned(r, request'[r])
  BY RequestAfter DEF EarnedInv, Earned, NoRequest

\* Submit and Recover put nothing into a request that was not earned.
LEMMA SubmitEarned ==
    ASSUME FlowType, EarnedInv, NEW r \in Requests,
           (\E b \in Bodies : Submit(r, b)) \/ Recover(r)
    PROVE  Earned(r, request'[r]) /\ UNCHANGED <<state, sessions, verified>>
  <1> USE EarnedAfter
  <1>0. Earned(r, request[r])
    BY DEF EarnedInv
  <1>1. ASSUME NEW b \in Bodies, Submit(r, b)
        PROVE  Earned(r, request'[r]) /\ UNCHANGED <<state, sessions, verified>>
    <2>1. request'[r] = [step |-> IF AsksToUseCode(state, b) THEN "use" ELSE "reread",
                         body |-> b, handler |-> state, copy |-> state, known |-> FALSE]
      BY <1>1 DEF Submit, FlowType
    <2> QED
      BY <1>1, <2>1 DEF EarnedInv, Earned, Submit, flow
  <1>2. CASE Recover(r)
    <2>0. UNCHANGED <<state, sessions, verified>>
      BY <1>2 DEF Recover, HandleFormSubmission, HandlePassedChallenge,
                  HandleStateAwaitingAddress, HandleStateAwaitingAddressChoice,
                  HandleStateConfirmingAddress, HandleStateAwaitingCode, GoBack,
                  Forward, Reread, flow, history
    <2>1. Reject(r) => Earned(r, request'[r])
      BY <1>0 DEF Reject, Earned
    <2>2. \A s \in V2States : SaveAs(r, s) => Earned(r, request'[r])
      BY DEF SaveAs, V2States
    <2>3. Earned(r, request'[r])
      <3>1. CASE HandleFormSubmission(r) \/ HandlePassedChallenge(r)
                 \/ HandleStateConfirmingAddress(r)
        BY <2>1, <3>1 DEF HandleFormSubmission, HandlePassedChallenge,
                          HandleStateConfirmingAddress
      <3>2. CASE HandleStateAwaitingAddress(r)
        <4>1. ASSUME NEW k, request' = [request EXCEPT ![r].step = "saveThenSend",
                                          ![r].copy = "recovery_confirming_address",
                                          ![r].known = k, ![r].body = NoPayload]
              PROVE  Earned(r, request'[r])
          <5>1. request'[r] = [request[r] EXCEPT !.step = "saveThenSend",
                                 !.copy = "recovery_confirming_address",
                                 !.known = k, !.body = NoPayload]
            BY <4>1 DEF FlowType
          <5>2. /\ request'[r].step = "saveThenSend"
                /\ request'[r].copy = "recovery_confirming_address"
                /\ request'[r].handler = request[r].handler
            BY <5>1 DEF FlowType, Handlers
          <5> QED
            BY <1>0, <5>2 DEF Earned
        <4> QED
          BY <2>1, <2>2, <3>2, <4>1 DEF HandleStateAwaitingAddress, V2States
      <3>3. CASE HandleStateAwaitingAddressChoice(r)
        BY <2>1, <2>2, <3>3 DEF HandleStateAwaitingAddressChoice, V2States
      <3>4. CASE HandleStateAwaitingCode(r)
        <4>1. CASE request' = [request EXCEPT ![r].copy = state, ![r].step = "use"]
          BY <1>0, <4>1 DEF FlowType, Handlers, EarnedInv, Earned
        <4> QED
          BY <2>1, <3>4, <4>1 DEF HandleStateAwaitingCode
      <3>5. CASE GoBack(r)
        <4>1. ASSUME NEW s \in V2States,
                     request' = [request EXCEPT ![r] =
                                   [NoRequest("save") EXCEPT !.handler = s, !.copy = s]]
              PROVE  Earned(r, request'[r])
          BY <4>1 DEF FlowType, NoRequest, Earned, V2States
        <4> QED
          BY <3>5, <4>1 DEF GoBack, V2States
      <3> QED
        BY <1>2, <3>1, <3>2, <3>3, <3>4, <3>5 DEF Recover
    <2> QED
      BY <2>0, <2>3
  <1> QED
    BY <1>1, <1>2

\* Neither do the other steps; and only a request whose code was accepted writes
\* passed_challenge, marks the address verified or gets a session.
LEMMA HandleEarned ==
    ASSUME FlowType, EarnedInv, NEW r \in Requests,
           \/ Refuse(r)
           \/ DeleteRecoveryCodesOfFlow(r) \/ (\E c \in Codes : SendRecoveryCode(r, c))
           \/ Save(r) \/ WriteFlowError(r)
           \/ UseRecoveryCode(r) \/ CodeAnswer(r)
           \/ MarkRecoveryAddressVerified(r) \/ PassChallenge(r) \/ IssueSession(r)
           \/ StatementFails(r) \/ Abort(r)
    PROVE  /\ Earned(r, request'[r])
           /\ state' = "passed_challenge" => SomeAccepted
           /\ \A q \in sessions' \cup verified' : pc[q] = "accepted"
  <1> USE EarnedAfter
  <1>0. /\ Earned(r, request[r])
        /\ state = "passed_challenge" => SomeAccepted
        /\ \A q \in sessions \cup verified : pc[q] = "accepted"
    BY DEF EarnedInv
  <1>1. AfterSend(r) => Earned(r, request'[r])
    <2>1. SentState(request[r].copy) # "passed_challenge"
      BY DEF SentState
    <2> QED
      BY <2>1 DEF AfterSend
  <1>2. CASE Refuse(r) \/ Abort(r)
    BY <1>0, <1>2 DEF Refuse, Abort, flow, history
  <1>3. CASE DeleteRecoveryCodesOfFlow(r) \/ (\E c \in Codes : SendRecoveryCode(r, c))
    BY <1>0, <1>1, <1>3 DEF DeleteRecoveryCodesOfFlow, SendRecoveryCode, flow, history
  <1>4. CASE Save(r)
    BY <1>0, <1>4, RequestAfter DEF Save, UpdateRecoveryFlow, Earned, At, history
  <1>5. CASE WriteFlowError(r)
    BY <1>0, <1>5 DEF WriteFlowError, UpdateRecoveryFlow, Earned, history
  <1>6. CASE UseRecoveryCode(r)
    BY <1>0, <1>6 DEF UseRecoveryCode, flowVars, flow, history
  <1>7. CASE CodeAnswer(r)
    <2>1. CASE pc[r] = "accepted" /\ SetState(r, request[r].copy, "verify")
      BY <1>0, <1>7, <2>1, RequestAfter DEF CodeAnswer, Earned, flow, history
    <2>2. CASE pc[r] = "notFound" /\ SetState(r, request[r].copy, "saveMessage")
      BY <1>0, <1>7, <2>2 DEF CodeAnswer, Earned, flow, history
    <2>3. CASE RetryRecoveryFlow(r, request[r].handler)
      BY <1>0, <1>7, <2>3 DEF CodeAnswer, RetryRecoveryFlow, Earned, flow, history
    <2> QED
      BY <1>7, <2>1, <2>2, <2>3 DEF CodeAnswer
  <1>8. CASE MarkRecoveryAddressVerified(r)
    BY <1>0, <1>8, RequestAfter DEF MarkRecoveryAddressVerified, Earned, At, flow
  <1>9. CASE PassChallenge(r)
    <2>1. pc[r] = "accepted" /\ SomeAccepted
      BY <1>0, <1>9 DEF PassChallenge, Earned, At, SomeAccepted
    <2>2. CASE UpdateRecoveryFlow("passed_challenge")
               /\ request' = [request EXCEPT ![r].handler = PassedCopy(r),
                                             ![r].step = "session"]
      BY <1>0, <1>9, <2>1, <2>2 DEF PassChallenge, UpdateRecoveryFlow, Earned, FlowType,
                                    Handlers, history
    <2>3. CASE RetryRecoveryFlow(r, PassedCopy(r)) /\ UNCHANGED <<codeVars, state, reopened>>
      BY <1>0, <1>9, <2>1, <2>3 DEF PassChallenge, RetryRecoveryFlow, history
    <2> QED
      BY <1>9, <2>2, <2>3 DEF PassChallenge
  <1>10. CASE IssueSession(r)
    BY <1>0, <1>10 DEF IssueSession, RetryRecoveryFlow, Earned, At, flow
  <1>11. CASE StatementFails(r)
    BY <1>0, <1>11 DEF StatementFails, Earned, flow, history
  <1> QED
    BY <1>2, <1>3, <1>4, <1>5, <1>6, <1>7, <1>8, <1>9, <1>10, <1>11

\* What passed_challenge and the sessions rest on is kept by every step.
LEMMA NextEarned == FlowType /\ Code!TypeOK /\ EarnedInv /\ [Next]_vars => EarnedInv'
  <1> SUFFICES ASSUME FlowType, Code!TypeOK, EarnedInv, [Next]_vars PROVE EarnedInv'
    OBVIOUS
  <1>0. /\ \A q \in Requests : pc[q] = "accepted" => pc'[q] = "accepted"
        /\ SomeAccepted => SomeAccepted'
    BY AcceptedStays DEF SomeAccepted
  <1>1. CASE UNCHANGED flowVars
    BY <1>0, <1>1 DEF EarnedInv, Earned, FlowType, flowVars, flow, history
  <1>2. ASSUME NEW r \in Requests, Step(r) PROVE EarnedInv'
    <2>1. /\ Earned(r, request'[r])
          /\ state' = "passed_challenge" => SomeAccepted
          /\ \A q \in sessions' \cup verified' : pc[q] = "accepted"
      BY <1>2, SubmitEarned, HandleEarned DEF Step, EarnedInv
    <2>2. sessions' \cup verified' \subseteq Requests
      BY NextFlow DEF FlowType
    <2>3. ASSUME NEW q \in Requests PROVE Earned(q, request[q])'
      BY <1>0, <1>2, <2>1, Frame DEF EarnedInv, Earned
    <2> QED
      BY <1>0, <2>1, <2>2, <2>3 DEF EarnedInv
  <1>3. CASE (\E c \in Codes : Expire(c)) \/ DeleteExpiredRecoveryFlow \/ Lapse
    BY <1>0, <1>3 DEF Expire, DeleteExpiredRecoveryFlow, Lapse, EarnedInv, Earned, FlowType,
                      flowVars, flow, history
  <1> QED
    BY <1>1, <1>2, <1>3 DEF Next, vars

\* In every reachable state passed_challenge and the sessions are earned.
LEMMA EarnedInvariant == Spec => []EarnedInv
  <1>1. Init => EarnedInv
    BY DEF Init, EarnedInv, Earned, NoRequest
  <1> QED
    BY <1>1, NextEarned, FlowTyped, CodeTyped, PTL DEF Spec

\* Every session and every verified address of a recovery flow goes back to a code
\* that this request, and no other, consumed.
THEOREM SessionsNeedCodes == Spec => []SessionNeedsCode
  <1>1. FlowType /\ EarnedInv /\ Code!SingleUse => SessionNeedsCode
    BY DEF FlowType, EarnedInv, Code!SingleUse, SessionNeedsCode, Accepted
  <1> QED
    BY <1>1, FlowTyped, EarnedInvariant, RecoveryCodesUsedOnce, PTL

\* A recovery flow is in passed_challenge only after one of its codes was accepted.
THEOREM PassedAfterCode == Spec => []PassedIsEarned
  <1>1. EarnedInv /\ Code!SingleUse => PassedIsEarned
    BY DEF EarnedInv, SomeAccepted, Code!SingleUse, PassedIsEarned, Accepted
  <1> QED
    BY <1>1, EarnedInvariant, RecoveryCodesUsedOnce, PTL

-----------------------------------------------------------------------------
(* Requests that come one after the other *)

\* What a step of a request that leaves the codes and the sessions alone has to do,
\* for the invariants to hold after it.
LEMMA QuietStep ==
    ASSUME FlowType, StartInv, AloneInv, OnceInv, NEW r \in Requests,
           request[r].step \notin {"idle", "done"},
           \A q \in Requests \ {r} : request'[q] = request[q],
           UNCHANGED <<codeVars, sessions, overlap>>,
           reopened \/ Reopens(state') => reopened',
           request'[r].step \notin {"idle", "reread"},
           request'[r].step = "saveThenSend" => request[r].step = "reread",
           request'[r].step = "send" => request[r].step \in {"reread", "saveThenSend"},
           request'[r].step \in {"use", "verify", "pass", "session"} =>
               request[r].step \in {"reread", "use", "verify", "pass", "session"},
           request'[r].step = "session" => state' = "passed_challenge",
           ~overlap /\ ~reopened /\ sessions # {} =>
               request'[r].step \in {"done", "saveMessage", "save", "error"}
    PROVE  StartInv' /\ AloneInv' /\ OnceInv'
  <1>0. /\ \A q \in Requests : pc'[q] = pc[q] /\ (Consumed(q)' <=> Consumed(q))
        /\ row' = row /\ (NoneLive' <=> NoneLive)
    BY DEF codeVars, Consumed, NoneLive
  <1>1. InFlight' \subseteq InFlight /\ r \in InFlight
    BY DEF InFlight
  <1>2. StartInv'
    BY <1>0 DEF StartInv
  <1>3. AloneInv'
    <2> SUFFICES ASSUME ~overlap PROVE AloneInv'
      BY DEF AloneInv
    <2>1. \A q, p \in InFlight' : q = p
      BY <1>1 DEF AloneInv
    <2>2. ASSUME NEW q \in Requests,
                 \/ request'[q].step = "send" /\ pc'[q] = "create"
                 \/ request'[q].step \in {"use", "verify", "pass", "session"} /\ Consumed(q)'
          PROVE  NoneLive'
      BY <1>0, <2>2 DEF AloneInv, StartInv
    <2> QED
      BY <1>0, <2>1, <2>2 DEF AloneInv
  <1>4. OnceInv'
    <2> SUFFICES ASSUME ~overlap, ~reopened, ~reopened' PROVE OnceInv'
      BY DEF OnceInv
    <2>0. state = "passed_challenge" => state' = "passed_challenge"
      BY DEF Reopens
    <2>1. ASSUME NEW q \in Requests, request'[q].step = "session"
          PROVE  state' = "passed_challenge"
      BY <2>0, <2>1 DEF OnceInv
    <2>2. ASSUME sessions # {}, NEW q \in InFlight'
          PROVE  request'[q].step \in {"saveMessage", "save", "error"}
      <3>1. q = r
        BY <1>1 DEF AloneInv
      <3> QED
        BY <2>2, <3>1 DEF InFlight
    <2> QED
      BY <1>0, <2>0, <2>1, <2>2 DEF OnceInv
  <1> QED
    BY <1>2, <1>3, <1>4

\* The strategy goes on from "reread": once a session was issued, it ends, or goes
\* back.
LEMMA RecoverQuiet ==
    ASSUME FlowType, StartInv, AloneInv, OnceInv, NEW r \in Requests, Recover(r),
           \A q \in Requests \ {r} : request'[q] = request[q]
    PROVE  StartInv' /\ AloneInv' /\ OnceInv'
  <1> USE RequestAfter
  <1>1. At(r, "reread") /\ UNCHANGED <<codeVars, state, reopened, sessions, overlap>>
    BY DEF Recover, HandleFormSubmission, HandlePassedChallenge,
           HandleStateAwaitingAddress, HandleStateAwaitingAddressChoice,
           HandleStateConfirmingAddress, HandleStateAwaitingCode, GoBack,
           Forward, Reread, flow, history
  <1>0. GoBack(r) => request'[r].step \in {"save", "done"}
    <2>1. ASSUME NEW s, request' = [request EXCEPT ![r] =
                           [NoRequest("save") EXCEPT !.handler = s, !.copy = s]]
          PROVE  request'[r].step = "save"
      BY <2>1 DEF NoRequest, FlowType
    <2>2. Finish(r) => request'[r].step = "done"
      BY DEF NoRequest
    <2> QED
      BY <2>1, <2>2 DEF GoBack
  <1>2. request'[r].step \in {"error", "save", "send", "saveThenSend", "use", "done"}
    <2>1. CASE HandleFormSubmission(r) \/ HandlePassedChallenge(r)
               \/ HandleStateConfirmingAddress(r)
      BY <2>1 DEF HandleFormSubmission, HandlePassedChallenge,
                  HandleStateConfirmingAddress, Reject, NoRequest
    <2>2. CASE HandleStateAwaitingAddress(r)
      BY <2>2 DEF HandleStateAwaitingAddress, Reject, SaveAs, FlowType, Handlers
    <2>3. CASE HandleStateAwaitingAddressChoice(r)
      BY <2>3 DEF HandleStateAwaitingAddressChoice, Reject, SaveAs
    <2>4. CASE HandleStateAwaitingCode(r)
      BY <2>4 DEF HandleStateAwaitingCode, Reject, FlowType, Handlers
    <2>5. CASE GoBack(r)
      BY <1>0, <2>5
    <2> QED
      BY <2>1, <2>2, <2>3, <2>4, <2>5 DEF Recover
  <1>3. ~overlap /\ ~reopened /\ sessions # {} => request'[r].step \in {"save", "done"}
    <2> SUFFICES ASSUME ~overlap, ~reopened, sessions # {}, ~GoBack(r)
                 PROVE  request'[r].step = "done"
      BY <1>0
    <2>1. state = "passed_challenge"
      BY DEF OnceInv
    <2>2. Finish(r)
      BY <2>1 DEF Recover, HandleFormSubmission, HandlePassedChallenge,
           HandleStateAwaitingAddress, HandleStateAwaitingAddressChoice,
           HandleStateConfirmingAddress, HandleStateAwaitingCode, Forward, Reread, V1States
    <2> QED
      BY <2>2 DEF NoRequest
  <1> QED
    BY <1>1, <1>2, <1>3, QuietStep DEF At, Reopens

\* Answering, saving and failing: no code is accepted after a session was issued, and
\* a copy that is saved then is of a flow that passed, or reopens it.
LEMMA AnswerQuiet ==
    ASSUME FlowType, EarnedInv, Code!SingleUse, StartInv, AloneInv, OnceInv, NEW r \in Requests,
           \A q \in Requests \ {r} : request'[q] = request[q],
           \/ Save(r) \/ WriteFlowError(r) \/ CodeAnswer(r)
           \/ MarkRecoveryAddressVerified(r) \/ PassChallenge(r)
           \/ StatementFails(r) \/ Abort(r) \/ (At(r, "reread") /\ Refuse(r))
    PROVE  StartInv' /\ AloneInv' /\ OnceInv'
  <1> USE RequestAfter DEF Reopens
  <1> DEFINE After == ~overlap /\ ~reopened /\ sessions # {}
  <1>0. ASSUME After, request[r].step \notin {"idle", "done"}
        PROVE  /\ request[r].step \in {"reread", "use", "saveMessage", "save", "error"}
               /\ request[r].step = "use" => ~Consumed(r)
    BY <1>0 DEF OnceInv, InFlight
  <1>1. CASE Save(r)
    <2>1. /\ request[r].step \in {"save", "saveMessage", "saveThenSend"}
          /\ UNCHANGED <<codeVars, sessions, overlap>>
          /\ reopened \/ Reopens(state') => reopened'
      BY <1>1 DEF Save, UpdateRecoveryFlow, history
    <2>2. CASE At(r, "saveThenSend")
      BY <1>0, <1>1, <2>1, <2>2, QuietStep DEF Save, At
    <2>3. CASE ~At(r, "saveThenSend")
      <3>1. request'[r].step = "done"
        BY <1>1, <2>3 DEF Save, NoRequest
      <3> QED
        BY <1>0, <2>1, <3>1, QuietStep
    <2> QED
      BY <2>2, <2>3
  <1>2. CASE WriteFlowError(r)
    <2>1. /\ request[r].step = "error"
          /\ UNCHANGED <<codeVars, sessions, overlap>>
          /\ reopened \/ Reopens(state') => reopened'
      BY <1>2 DEF WriteFlowError, UpdateRecoveryFlow, At, history
    <2>2. request'[r].step = "done"
      BY <1>2 DEF WriteFlowError, NoRequest
    <2> QED
      BY <2>1, <2>2, QuietStep
  <1>3. CASE CodeAnswer(r)
    <2>1. UNCHANGED <<codeVars, state, reopened, sessions, overlap>> /\ At(r, "use")
      BY <1>3 DEF CodeAnswer, flow, history
    <2>2. CASE pc[r] = "notFound" /\ SetState(r, request[r].copy, "saveMessage")
      BY <1>0, <2>1, <2>2, QuietStep DEF At
    <2>3. CASE RetryRecoveryFlow(r, request[r].handler)
      BY <1>0, <2>1, <2>3, QuietStep DEF RetryRecoveryFlow, At, NoRequest
    <2>4. CASE pc[r] = "accepted" /\ SetState(r, request[r].copy, "verify")
      <3>1. Consumed(r)
        BY <2>4 DEF Code!SingleUse, Consumed
      <3>2. ~After
        BY <1>0, <2>1, <3>1 DEF At
      <3> QED
        BY <2>1, <2>4, <3>2, QuietStep DEF At
    <2> QED
      BY <1>3, <2>2, <2>3, <2>4 DEF CodeAnswer
  <1>4. CASE MarkRecoveryAddressVerified(r)
    BY <1>0, <1>4, QuietStep DEF MarkRecoveryAddressVerified, At, flow
  <1>5. CASE PassChallenge(r)
    <2>1. At(r, "pass") /\ ~After /\ UNCHANGED <<sessions, overlap>>
      BY <1>0, <1>5 DEF PassChallenge, At, history
    <2>2. CASE UpdateRecoveryFlow("passed_challenge")
               /\ request' = [request EXCEPT ![r].handler = PassedCopy(r),
                                             ![r].step = "session"]
      <3>1. request'[r].step = "session"
        BY <2>2 DEF FlowType, Handlers
      <3>2. /\ UNCHANGED <<codeVars, sessions, overlap>> /\ state' = "passed_challenge"
            /\ reopened => reopened'
        BY <2>1, <2>2 DEF UpdateRecoveryFlow
      <3> QED
        BY <2>1, <3>1, <3>2, QuietStep DEF At
    <2>3. CASE RetryRecoveryFlow(r, PassedCopy(r)) /\ UNCHANGED <<codeVars, state, reopened>>
      BY <2>1, <2>3, QuietStep DEF RetryRecoveryFlow, At, NoRequest
    <2> QED
      BY <1>5, <2>2, <2>3 DEF PassChallenge
  <1>6. CASE StatementFails(r)
    BY <1>0, <1>6, QuietStep DEF StatementFails, flow, history
  <1>7. CASE Abort(r) \/ (At(r, "reread") /\ Refuse(r))
    BY <1>0, <1>7, QuietStep DEF Abort, Refuse, At, NoRequest, flow, history
  <1> QED
    BY <1>1, <1>2, <1>3, <1>4, <1>5, <1>6, <1>7

\* A new request finds the flow as the last one left it, and has consumed nothing.
LEMMA ArriveOnce ==
    ASSUME FlowType, StartInv, AloneInv, OnceInv, NEW r \in Requests,
           \A q \in Requests \ {r} : request'[q] = request[q],
           (\E b \in Bodies : Submit(r, b)) \/ (Arrives(r) /\ Refuse(r))
    PROVE  StartInv' /\ AloneInv' /\ OnceInv'
  <1>0. /\ pc[r] = "idle" /\ ~Consumed(r) /\ request[r].step = "idle"
        /\ UNCHANGED <<codeVars, state, reopened, sessions>>
    BY DEF Submit, Refuse, Arrives, At, StartInv, flow, history
  <1>1. /\ \A q \in Requests : pc'[q] = pc[q] /\ (Consumed(q)' <=> Consumed(q))
        /\ row' = row /\ (NoneLive' <=> NoneLive)
    BY <1>0 DEF codeVars, Consumed, NoneLive
  <1>2. ASSUME NEW b \in Bodies, Submit(r, b)
        PROVE  StartInv' /\ AloneInv' /\ OnceInv'
    <2>1. /\ request'[r].step \in {"use", "reread"}
          /\ request'[r].handler = state /\ request'[r].copy = state
      BY <1>2 DEF Submit, FlowType
    <2>2. ~overlap' => ~overlap /\ InFlight = {} /\ InFlight' \subseteq {r}
      BY <1>2 DEF Submit, FlowType, InFlight
    <2>3. StartInv'
      BY <1>0, <1>1, <2>1 DEF StartInv
    <2>4. AloneInv'
      BY <1>0, <1>1, <2>1, <2>2 DEF AloneInv
    <2>5. OnceInv'
      BY <1>0, <1>1, <2>1, <2>2 DEF OnceInv
    <2> QED
      BY <2>3, <2>4, <2>5
  <1>3. CASE Arrives(r) /\ Refuse(r)
    <2>1. request'[r].step = "done" /\ overlap' = overlap
      BY <1>3, RequestAfter DEF Refuse, NoRequest, history
    <2>2. InFlight' \subseteq InFlight
      BY <2>1 DEF InFlight
    <2>3. StartInv'
      BY <1>1, <2>1 DEF StartInv
    <2>4. AloneInv'
      BY <1>1, <2>1, <2>2 DEF AloneInv
    <2>5. OnceInv'
      <3> SUFFICES ASSUME ~overlap, ~reopened PROVE OnceInv'
        BY <1>0, <2>1 DEF OnceInv
      <3>1. \A q \in InFlight' : request'[q] = request[q]
        BY <2>1 DEF InFlight
      <3>2. \A q \in InFlight' : Consumed(q)' <=> Consumed(q)
        BY <1>1 DEF InFlight
      <3>3. \A q \in Requests : request'[q].step = "session" => state' = "passed_challenge"
        BY <1>0, <2>1 DEF OnceInv
      <3> QED
        BY <1>0, <1>1, <2>1, <2>2, <3>1, <3>2, <3>3 DEF OnceInv
    <2> QED
      BY <2>3, <2>4, <2>5
  <1> QED
    BY <1>2, <1>3

\* A session of a request that was alone is the first one of the flow.
LEMMA SessionOnce ==
    ASSUME FlowType, EarnedInv, Code!SingleUse, StartInv, AloneInv, OnceInv,
           NEW r \in Requests,
           \A q \in Requests \ {r} : request'[q] = request[q],
           IssueSession(r)
    PROVE  StartInv' /\ AloneInv' /\ OnceInv'
  <1>0. /\ request[r].step = "session" /\ r \in InFlight
        /\ UNCHANGED <<codeVars, state, reopened, overlap>>
        /\ sessions' = sessions \cup {r}
    BY DEF IssueSession, At, InFlight, flow
  <1>1. /\ \A q \in Requests : pc'[q] = pc[q] /\ (Consumed(q)' <=> Consumed(q))
        /\ row' = row /\ (NoneLive' <=> NoneLive)
    BY <1>0 DEF codeVars, Consumed, NoneLive
  <1>2. \/ request'[r].step = "done"
        \/ request'[r].step = "error" /\ request'[r].handler = request[r].handler
    BY RequestAfter DEF IssueSession, RetryRecoveryFlow, NoRequest
  <1>3. InFlight' \subseteq InFlight
    BY <1>0, <1>2 DEF InFlight
  <1>4. StartInv'
    BY <1>1, <1>2 DEF StartInv
  <1>5. AloneInv'
    BY <1>0, <1>1, <1>2, <1>3 DEF AloneInv
  <1>6. OnceInv'
    <2> SUFFICES ASSUME ~overlap, ~reopened PROVE OnceInv'
      BY <1>0 DEF OnceInv
    <2>1. Consumed(r)
      BY <1>0 DEF EarnedInv, Earned, Code!SingleUse, Consumed
    <2>2. NoneLive
      BY <1>0, <2>1 DEF AloneInv
    <2>3. sessions = {}
      BY <1>0 DEF OnceInv
    <2>4. state = "passed_challenge"
      BY <1>0 DEF OnceInv
    <2>5. \A q \in InFlight' : q = r
      BY <1>0, <1>3 DEF AloneInv
    <2>6. \A q \in Requests : request'[q].step # "session"
      <3> SUFFICES ASSUME NEW q \in Requests, q # r, request[q].step = "session" PROVE FALSE
        BY <1>2
      <3> QED
        BY <1>0 DEF AloneInv, InFlight
    <2> QED
      BY <1>0, <1>1, <1>2, <2>2, <2>3, <2>4, <2>5, <2>6 DEF OnceInv, InFlight
  <1> QED
    BY <1>4, <1>5, <1>6

\* Deleting and creating codes: the INSERT of a request that is alone finds no live
\* code, and there is none to send once a session was issued.
LEMMA SendOnce ==
    ASSUME FlowType, Code!TypeOK, StartInv, AloneInv, OnceInv, NEW r \in Requests,
           \A q \in Requests \ {r} : request'[q] = request[q],
           DeleteRecoveryCodesOfFlow(r) \/ (\E c \in Codes : SendRecoveryCode(r, c))
    PROVE  StartInv' /\ AloneInv' /\ OnceInv'
  <1>0. /\ request[r].step = "send" /\ r \in InFlight
        /\ UNCHANGED <<state, reopened, sessions, overlap, consumer>>
        /\ \A q \in Requests : Consumed(q)' <=> Consumed(q)
    BY DEF DeleteRecoveryCodesOfFlow, SendRecoveryCode, Code!DeleteCodesOfFlow,
           Code!CreateCode, At, InFlight, flow, history, Consumed
  <1>1. /\ \A q \in Requests \ {r} : pc'[q] = pc[q]
        /\ pc[r] \in {"idle", "create"} /\ pc'[r] \in {"create", "sent"}
    BY DEF DeleteRecoveryCodesOfFlow, SendRecoveryCode, Code!DeleteCodesOfFlow,
           Code!CreateCode, Code!Goto, Code!TypeOK
  <1>2. \/ NoneLive' /\ request'[r].step \in {"send", "save"}
        \/ /\ pc[r] = "create" /\ request'[r].step = "save"
           /\ \E c \in Codes : \A d \in Codes \ {c} : row'[d] = row[d]
    <2>0. AfterSend(r) => request'[r].step = "save"
      BY RequestAfter DEF AfterSend
    <2>1. CASE DeleteRecoveryCodesOfFlow(r)
      <3>1. row' = [c \in Codes |-> Code!Deleted(c)]
        BY <2>1 DEF DeleteRecoveryCodesOfFlow, Code!DeleteCodesOfFlow
      <3>2. NoneLive'
        BY <3>1 DEF NoneLive, Code!Deleted
      <3>3. request'[r].step \in {"send", "save"}
        BY <1>0, <2>0, <2>1 DEF DeleteRecoveryCodesOfFlow
      <3> QED
        BY <3>2, <3>3
    <2>2. ASSUME NEW c \in Codes, SendRecoveryCode(r, c)
          PROVE  /\ pc[r] = "create" /\ request'[r].step = "save"
                 /\ \A d \in Codes \ {c} : row'[d] = row[d]
      BY <2>0, <2>2 DEF SendRecoveryCode, Code!CreateCode, Code!TypeOK
    <2> QED
      BY <2>1, <2>2
  <1>3. InFlight' \subseteq InFlight
    BY <1>0 DEF InFlight
  <1>4. StartInv'
    BY <1>0, <1>1, <1>2 DEF StartInv
  <1>5. AloneInv'
    <2> SUFFICES ASSUME ~overlap PROVE AloneInv'
      BY <1>0 DEF AloneInv
    <2>1. \A q, p \in InFlight' : q = p
      BY <1>3 DEF AloneInv
    <2>2. \A c, d \in Codes : row'[c] = "live" /\ row'[d] = "live" => c = d
      BY <1>0, <1>2 DEF AloneInv, NoneLive
    <2>3. ASSUME NEW q \in Requests,
                 \/ request'[q].step = "send" /\ pc'[q] = "create"
                 \/ request'[q].step \in {"use", "verify", "pass", "session"} /\ Consumed(q)'
          PROVE  NoneLive'
      <3>1. q = r
        <4> SUFFICES ASSUME q # r PROVE FALSE
          OBVIOUS
        <4>1. q \in InFlight
          BY <2>3 DEF InFlight
        <4> QED
          BY <1>0, <4>1 DEF AloneInv
      <3> QED
        BY <1>2, <2>3, <3>1
    <2> QED
      BY <2>1, <2>2, <2>3 DEF AloneInv
  <1>6. OnceInv'
    <2> SUFFICES ASSUME ~overlap, ~reopened PROVE OnceInv'
      BY <1>0 DEF OnceInv
    <2>1. sessions = {}
      BY <1>0 DEF OnceInv
    <2>2. \A q \in Requests : request'[q].step # "session"
      <3> SUFFICES ASSUME NEW q \in Requests, q # r, request[q].step = "session" PROVE FALSE
        BY <1>2
      <3> QED
        BY <1>0 DEF AloneInv, InFlight
    <2> QED
      BY <1>0, <2>1, <2>2 DEF OnceInv
  <1> QED
    BY <1>4, <1>5, <1>6

\* Using a code: the one that is consumed was the only live one.
LEMMA UseOnce ==
    ASSUME FlowType, Code!TypeOK, StartInv, AloneInv, OnceInv, NEW r \in Requests,
           UseRecoveryCode(r)
    PROVE  StartInv' /\ AloneInv' /\ OnceInv'
  <1>0. /\ request[r].step = "use" /\ r \in InFlight
        /\ UNCHANGED <<state, reopened, sessions, overlap, request>> /\ InFlight' = InFlight
    BY DEF UseRecoveryCode, At, InFlight, flowVars, flow, history
  <1>1. \A q \in Requests \ {r} : pc'[q] = pc[q] /\ (Consumed(q)' => Consumed(q))
    BY DEF UseRecoveryCode, Code!Increment, Code!IncrementMySQL, Code!Gate,
           Code!SelectCount, Code!FlowMissing, Code!Lookup, Code!Consume,
           Code!ConsumeNothing, Code!RetryTransaction, Code!Revalidate, Code!Fail,
           Code!Goto, Code!TypeOK, Consumed
  <1>2. \/ /\ UNCHANGED <<row, consumer>>
           /\ pc'[r] \in {"idle", "select", "create", "sent"} => pc[r] = "idle"
        \/ /\ pc'[r] = "validate" /\ Code!Consume(r)
    BY DEF UseRecoveryCode, Code!Increment, Code!IncrementMySQL, Code!Gate,
           Code!SelectCount, Code!FlowMissing, Code!Lookup, Code!Consume,
           Code!ConsumeNothing, Code!RetryTransaction, Code!Revalidate, Code!Fail,
           Code!Goto, Code!TypeOK, Code!database
  <1>3. CASE /\ UNCHANGED <<row, consumer>>
             /\ pc'[r] \in {"idle", "select", "create", "sent"} => pc[r] = "idle"
    <2>1. (NoneLive' <=> NoneLive) /\ \A q \in Requests : Consumed(q)' <=> Consumed(q)
      BY <1>3 DEF NoneLive, Consumed
    <2>2. StartInv'
      BY <1>0, <1>1, <1>3, <2>1 DEF StartInv
    <2>3. AloneInv'
      BY <1>0, <1>1, <1>3, <2>1 DEF AloneInv
    <2>4. OnceInv'
      BY <1>0, <2>1 DEF OnceInv, InFlight
    <2> QED
      BY <2>2, <2>3, <2>4
  <1>4. CASE pc'[r] = "validate" /\ Code!Consume(r)
    <2>1. /\ row[target[r]] = "live"
          /\ target[r] \in Codes => row' = [row EXCEPT ![target[r]] = "used"]
          /\ \A c \in Codes : row'[c] = "live" => row[c] = "live" /\ c # target[r]
      BY <1>4 DEF Code!Consume, Code!TypeOK
    <2>2. ~overlap /\ target[r] \in Codes => NoneLive'
      BY <2>1 DEF AloneInv, NoneLive
    <2>3. target[r] \notin Codes => UNCHANGED <<row, consumer>>
      BY <1>4 DEF Code!Consume, Code!TypeOK
    <2>4. StartInv'
      BY <1>0, <1>1, <1>4 DEF StartInv
    <2>5. NoneLive => NoneLive'
      BY <2>1 DEF NoneLive
    <2>6. AloneInv'
      <3> SUFFICES ASSUME ~overlap PROVE AloneInv'
        BY <1>0 DEF AloneInv
      <3>1. \A c, d \in Codes : row'[c] = "live" /\ row'[d] = "live" => c = d
        BY <2>1 DEF AloneInv
      <3>2. ASSUME NEW q \in Requests,
                   \/ request[q].step = "send" /\ pc'[q] = "create"
                   \/ request[q].step \in {"use", "verify", "pass", "session"} /\ Consumed(q)'
            PROVE  NoneLive'
        <4>1. CASE target[r] \in Codes
          BY <2>2, <4>1
        <4>2. CASE target[r] \notin Codes
          BY <1>0, <1>1, <1>4, <2>3, <2>5, <3>2, <4>2 DEF AloneInv, Consumed
        <4> QED
          BY <4>1, <4>2
      <3> QED
        BY <1>0, <3>1, <3>2 DEF AloneInv
    <2>7. OnceInv'
      <3> SUFFICES ASSUME ~overlap, ~reopened PROVE OnceInv'
        BY <1>0 DEF OnceInv
      <3>1. CASE target[r] \in Codes
        <4>1. sessions = {}
          BY <2>1, <3>1 DEF OnceInv, NoneLive
        <4> QED
          BY <1>0, <4>1 DEF OnceInv
      <3>2. CASE target[r] \notin Codes
        BY <1>0, <2>3, <2>5, <3>2 DEF OnceInv, Consumed
      <3> QED
        BY <3>1, <3>2
    <2> QED
      BY <2>4, <2>6, <2>7
  <1> QED
    BY <1>2, <1>3, <1>4

\* The expiry of a code, the expiry of the flow and the cleanup leave the requests and
\* the sessions alone, and make no code live.
LEMMA TimeOnce ==
    ASSUME StartInv, AloneInv, OnceInv,
           UNCHANGED vars \/ (\E c \in Codes : Expire(c)) \/ Lapse
           \/ DeleteExpiredRecoveryFlow
    PROVE  StartInv' /\ AloneInv' /\ OnceInv'
  <1>0. UNCHANGED <<state, reopened, sessions, overlap, request, pc, consumer>>
    BY DEF vars, codeVars, flowVars, flow, history, Expire, Lapse,
           DeleteExpiredRecoveryFlow, Code!Expire, Code!DeleteExpiredFlow, Code!request
  <1>1. \A c \in Codes : row'[c] = "live" => row[c] = "live"
    BY DEF vars, codeVars, Expire, Lapse, DeleteExpiredRecoveryFlow, Code!Expire,
           Code!DeleteExpiredFlow, Code!Deleted
  <1>2. /\ NoneLive => NoneLive'
        /\ InFlight' = InFlight
        /\ \A q : Consumed(q)' <=> Consumed(q)
    BY <1>0, <1>1 DEF NoneLive, InFlight, Consumed
  <1>3. StartInv'
    BY <1>0, <1>2 DEF StartInv
  <1>4. AloneInv'
    BY <1>0, <1>1, <1>2 DEF AloneInv
  <1>5. OnceInv'
    BY <1>0, <1>2 DEF OnceInv
  <1> QED
    BY <1>3, <1>4, <1>5

\* Every step keeps what holds of requests that come one after the other.
LEMMA NextOnce ==
    /\ FlowType /\ Code!TypeOK /\ EarnedInv /\ Code!SingleUse
    /\ StartInv /\ AloneInv /\ OnceInv
    /\ [Next]_vars
    => StartInv' /\ AloneInv' /\ OnceInv'
  <1> SUFFICES ASSUME FlowType, Code!TypeOK, EarnedInv, Code!SingleUse,
                      StartInv, AloneInv, OnceInv, [Next]_vars
               PROVE  StartInv' /\ AloneInv' /\ OnceInv'
    OBVIOUS
  <1>1. ASSUME NEW r \in Requests, Step(r) PROVE StartInv' /\ AloneInv' /\ OnceInv'
    <2>1. \A q \in Requests \ {r} : request'[q] = request[q]
      BY <1>1, Frame
    <2>2. CASE (\E b \in Bodies : Submit(r, b)) \/ (Arrives(r) /\ Refuse(r))
      BY <2>1, <2>2, ArriveOnce
    <2>3. CASE Recover(r)
      BY <2>1, <2>3, RecoverQuiet
    <2>4. CASE \/ Save(r) \/ WriteFlowError(r) \/ CodeAnswer(r)
               \/ MarkRecoveryAddressVerified(r) \/ PassChallenge(r)
               \/ StatementFails(r) \/ Abort(r) \/ (At(r, "reread") /\ Refuse(r))
      BY <2>1, <2>4, AnswerQuiet
    <2>5. CASE DeleteRecoveryCodesOfFlow(r) \/ (\E c \in Codes : SendRecoveryCode(r, c))
      BY <2>1, <2>5, SendOnce
    <2>6. CASE UseRecoveryCode(r)
      BY <2>6, UseOnce
    <2>7. CASE IssueSession(r)
      BY <2>1, <2>7, SessionOnce
    <2>8. Refuse(r) => (Arrives(r) /\ Refuse(r)) \/ (At(r, "reread") /\ Refuse(r))
      BY DEF Refuse
    <2> QED
      BY <1>1, <2>2, <2>3, <2>4, <2>5, <2>6, <2>7, <2>8 DEF Step
  <1> QED
    BY <1>1, TimeOnce DEF Next

\* In every reachable state what holds of requests one after the other holds.
LEMMA OnceInvariant == Spec => [](StartInv /\ AloneInv /\ OnceInv)
  <1>1. Init => StartInv /\ AloneInv /\ OnceInv
    <2> SUFFICES ASSUME Init PROVE StartInv /\ AloneInv /\ OnceInv
      OBVIOUS
    <2>1. /\ \A r \in Requests : request[r].step = "idle" /\ pc[r] = "idle" /\ ~Consumed(r)
          /\ NoneLive /\ InFlight = {} /\ sessions = {}
      BY DEF Init, Code!Init, NoRequest, Consumed, NoneLive, InFlight
    <2> QED
      BY <2>1 DEF StartInv, AloneInv, OnceInv, NoneLive
  <1>2. /\ FlowType /\ Code!TypeOK /\ EarnedInv /\ Code!SingleUse
        /\ StartInv /\ AloneInv /\ OnceInv
        /\ [Next]_vars
        => (StartInv /\ AloneInv /\ OnceInv)'
    BY NextOnce
  <1> QED
    BY <1>1, <1>2, FlowTyped, CodeTyped, EarnedInvariant, RecoveryCodesUsedOnce, PTL
       DEF Spec

\* A set whose elements are all equal has at most one.
LEMMA AtMostOne ==
    ASSUME NEW S, \A x, y \in S : x = y
    PROVE  Cardinality(S) <= 1
  <1>1. CASE S = {}
    BY <1>1, FS_EmptySet
  <1>2. CASE S # {}
    <2>1. PICK x \in S : S = {x}
      BY <1>2
    <2>2. Cardinality({x}) = 1
      BY FS_Singleton
    <2> QED
      BY <2>1, <2>2
  <1> QED
    BY <1>1, <1>2

\* Requests that come one after the other, whatever they submit and whatever fails in
\* between, recover an account at most once with one flow of either version, until a
\* write takes it out of passed_challenge.
THEOREM RecoversOnce == Spec => []OneRecovery
  <1>1. OnceInv => OneRecovery
    BY AtMostOne DEF OnceInv, OneRecovery
  <1> QED
    BY <1>1, OnceInvariant, PTL

\* Unless two requests overlap, a flow has at most one live code: a resend replaced
\* the others.
THEOREM ResendReplaces == Spec => []OneLiveCode
  <1>1. AloneInv => OneLiveCode
    BY AtMostOne DEF AloneInv, OneLiveCode
  <1> QED
    BY <1>1, OnceInvariant, PTL
=============================================================================
