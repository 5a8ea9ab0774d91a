---------------------------- MODULE RecoveryFlow ----------------------------
(***************************************************************************)
(* A recovery flow with the code method, versions 1 and 2: the handler     *)
(* updateRecoveryFlow (selfservice/flow/recovery/handler.go), the code     *)
(* strategy (selfservice/strategy/code/strategy_recovery.go) and the row   *)
(* of the flow, on top of the one-time codes of OneTimeCode.               *)
(*                                                                         *)
(* A request reads the flow when it arrives, most requests read it again   *)
(* in the strategy, and UpdateRecoveryFlow writes every column of such a   *)
(* copy back.  Nothing locks the row, so the model keeps both copies.      *)
(***************************************************************************)
EXTENDS Integers, FiniteSets

CONSTANTS
    Requests,     \* HTTP requests, numbered as they arrive
    Codes, None, MaxSubmissions, Dialects,   \* as in OneTimeCode
    Setups,       \* the database, and the version of the flow: 2 with the feature
                  \* flag choose_recovery_address
    Bodies,       \* the payloads that are submitted, to a flow of either version
    MaxInFlight,  \* bound: requests that are being handled at the same time
    MaxConcurrent \* bound: the last request before the first session, and after an overlap

VARIABLES
    dialect, exists, submitCount, row, expired, pc, guess, target, seenUsed, toSend,
    admitted, consumer,   \* as in OneTimeCode
    version,   \* of the flow when it was created
    state,     \* the flow's state column
    lapsed,    \* its expires_at has passed
    reopened,  \* history: a write took the flow out of passed_challenge
    request,   \* what each request's handler holds
    verified,  \* history: requests that marked the recovery address verified
    sessions,  \* history: requests that were given a session
    overlap    \* history: two requests have been handled at the same time

codeVars == <<dialect, exists, submitCount, row, expired, pc, guess, target, seenUsed,
              toSend, admitted, consumer>>
flow     == <<version, state, lapsed, reopened>>
history  == <<verified, sessions, overlap>>
flowVars == <<flow, request, history>>
vars     == <<codeVars, flowVars>>

\* SendRecoveryCode creates one code, for one address.
Code == INSTANCE OneTimeCode WITH MaxAddresses <- 1

V1States == {"choose_method", "sent_email"}
V2States == {"recovery_awaiting_address", "recovery_awaiting_address_choice",
             "recovery_confirming_address", "recovery_awaiting_code"}
States   == V1States \cup V2States \cup {"passed_challenge"}

\* "empty" is a field that was not sent.  An address is the only one of its
\* identity, one of several, or unknown; the selected address is the one given
\* first, another of the identity, or none of them.
Addresses == {"only", "several", "unknown"}
Payloads ==
    [email   : {"empty", "known", "unknown"},
     code    : {"empty", None} \cup Codes,
     address : {"empty"} \cup Addresses,
     select  : {"empty", "same", "other", "none"},
     confirm : {"empty", "known", "unknown"},
     back    : BOOLEAN]

ASSUME RecoveryAssumption ==
    /\ Requests \subseteq Nat /\ IsFiniteSet(Requests)
    /\ None \notin Codes
    /\ MaxSubmissions \in Nat
    /\ Dialects \subseteq {"mysql", "returning"}
    /\ Setups \subseteq [dialect : Dialects, version : 1 .. 2]
    /\ Bodies \subseteq Payloads
    /\ MaxInFlight \in Nat /\ MaxConcurrent \in Nat

Steps == {"idle", "reread", "use", "verify", "pass", "session", "saveThenSend",
          "send", "save", "saveMessage", "error", "done"}

\* What a request holds: its payload, the state in the handler's copy of the flow
\* and in the copy the strategy works on, and whether the address a code goes to
\* belongs to an identity.
Handlers ==
    [step : Steps, body : Payloads, handler : States, copy : States, known : BOOLEAN]

\* The code's variables, the flow's row and every request's copies and step
\* have their types, and a flow of version 2 is never handled by the rules of
\* version 1 (flow/state.go: "avoids the issue of the feature flag being toggled
\* while some recovery flows are on-going").  The other way is open: going back
\* leads to a state of version 2 from any state.
TypeOK ==
    /\ Code!TypeOK
    /\ [dialect |-> dialect, version |-> version] \in Setups
    /\ state \in States /\ (version = 2 => state \notin V1States)
    /\ lapsed \in BOOLEAN /\ reopened \in BOOLEAN
    /\ request \in [Requests -> Handlers]
    /\ verified \in SUBSET Requests
    /\ sessions \in SUBSET Requests
    /\ overlap \in BOOLEAN

NoPayload == [email |-> "empty", code |-> "empty", address |-> "empty",
              select |-> "empty", confirm |-> "empty", back |-> FALSE]

\* A request that is not, or no longer, being handled.
NoRequest(label) ==
    [step |-> label, body |-> NoPayload, handler |-> "choose_method",
     copy |-> "choose_method", known |-> FALSE]

Init ==
    /\ Code!Init
    /\ \E s \in Setups : dialect = s.dialect /\ version = s.version
    /\ state = IF version = 2 THEN "recovery_awaiting_address" ELSE "choose_method"
    /\ lapsed = FALSE /\ reopened = FALSE
    /\ request = [r \in Requests |-> NoRequest("idle")]
    /\ verified = {}
    /\ sessions = {}
    /\ overlap = FALSE

At(r, label) == request[r].step = label
Continue(r, label) == request' = [request EXCEPT ![r].step = label]
Finish(r) == request' = [request EXCEPT ![r] = NoRequest("done")]

\* The strategy's copy of the flow gets state s; the payload is not read again.
SetState(r, s, label) ==
    request' = [request EXCEPT ![r].copy = s, ![r].step = label, ![r].body = NoPayload]

\* The strategy's error is returned with the handler's copy of the flow.
ReturnError(r, s) ==
    request' = [request EXCEPT ![r] = [NoRequest("error") EXCEPT !.handler = s]]

\* A write that takes the flow out of passed_challenge.
Reopens(s) == state = "passed_challenge" /\ s # "passed_challenge"

\* Mutant: submit_count is a column of the copy.
MutUpdateResetsCount(s) ==
    /\ exists
    /\ state' = s /\ reopened' = (reopened \/ Reopens(s))
    /\ submitCount' = 0
    /\ UNCHANGED <<dialect, exists, row, expired, pc, guess, target, seenUsed, toSend,
                   admitted, consumer>>

\* update.Generic writes the copy's columns; submit_count is none of them.
UpdateRecoveryFlow(s) ==
    /\ exists
    /\ state' = s /\ reopened' = (reopened \/ Reopens(s))
    /\ UNCHANGED codeVars

-----------------------------------------------------------------------------
(* updateRecoveryFlow and Recover *)

\* The next request.
Arrives(r) == At(r, "idle") /\ \A q \in Requests : q < r => ~At(q, "idle")

InFlight == {r \in Requests : request[r].step \notin {"idle", "done"}}

\* GetRecoveryFlow and Valid, of the handler and again of the strategy.
Readable == exists /\ ~lapsed

IsStateRecoveryV2(s) == s \in V2States

\* The payload has no email, and the flow is past choose_method (version 1).
AsksToUseCode(s, b) ==
    /\ ~IsStateRecoveryV2(s)
    /\ s # "choose_method"
    /\ b.email = "empty"

Submit(r, b) ==
    /\ Arrives(r)
    /\ Cardinality(InFlight) < MaxInFlight
    /\ Readable
    /\ request' = [request EXCEPT ![r] =
           [step |-> IF AsksToUseCode(state, b) THEN "use" ELSE "reread",
            body |-> b, handler |-> state, copy |-> state, known |-> FALSE]]
    /\ overlap' = (overlap \/ InFlight # {})
    /\ overlap' \/ sessions = {} => r <= MaxConcurrent
    /\ UNCHANGED <<codeVars, flow, verified, sessions>>

\* The flow is missing or expired (a new one is created), the anti-CSRF token
\* is wrong (the same), or the user has a session already.
Refuse(r) ==
    /\ \/ Arrives(r) /\ ~Readable
       \/ At(r, "reread")
    /\ Finish(r)
    /\ UNCHANGED <<codeVars, flow, history>>

\* The strategy reads the flow again and finds it in state s.
Reread(r, s) ==
    /\ At(r, "reread")
    /\ Readable
    /\ state = s
    /\ UNCHANGED <<codeVars, flow, history>>

Forward(r) == Reread(r, state) /\ ~request[r].body.back

\* Recover returns an error, which WriteFlowError answers.
Reject(r) == ReturnError(r, request[r].handler)

\* A code goes to the given address.
SendTo(r, isKnown) ==
    request' = [request EXCEPT ![r].step = "send", ![r].copy = state, ![r].known = isKnown,
                               ![r].body = NoPayload]

SaveAs(r, s) == SetState(r, s, "save")

\* Mutant: passed_challenge falls through to the form submission.
MutFormAlwaysHandled(r) ==
    /\ Forward(r) /\ state \notin V2States
    /\ LET b == request[r].body IN
       \/ b.email = "empty" /\ Reject(r)
       \/ b.email # "empty" /\ SendTo(r, b.email = "known")

HandleFormSubmission(r) ==
    /\ Forward(r) /\ state \in V1States
    /\ LET b == request[r].body IN
       \/ b.email = "empty" /\ Reject(r)
       \/ b.email # "empty" /\ SendTo(r, b.email = "known")

\* Already handled: the user is given a new flow.
HandlePassedChallenge(r) ==
    /\ Forward(r) /\ state = "passed_challenge"
    /\ Finish(r)

HandleStateAwaitingAddress(r) ==
    /\ Forward(r) /\ state = "recovery_awaiting_address"
    /\ LET b == request[r].body IN
       \/ b.address = "empty" /\ Reject(r)
       \/ b.address = "several" /\ SaveAs(r, "recovery_awaiting_address_choice")
       \/ /\ b.address \in {"only", "unknown"}
          /\ request' = [request EXCEPT ![r].step = "saveThenSend",
                                        ![r].copy = "recovery_confirming_address",
                                        ![r].known = b.address = "only",
                                        ![r].body = NoPayload]

HandleStateAwaitingAddressChoice(r) ==
    /\ Forward(r) /\ state = "recovery_awaiting_address_choice"
    /\ LET b == request[r].body IN
       \/ /\ b.select \in {"empty", "none"} \/ b.address = "empty"
          /\ Reject(r)
       \/ /\ b.select = "same" /\ b.address # "empty"
          /\ SendTo(r, b.address # "unknown")
       \/ /\ b.select = "other" /\ b.address # "empty"
          /\ SaveAs(r, "recovery_confirming_address")

HandleStateConfirmingAddress(r) ==
    /\ Forward(r) /\ state = "recovery_confirming_address"
    /\ LET b == request[r].body IN
       \/ b.confirm = "empty" /\ Reject(r)
       \/ b.confirm # "empty" /\ SendTo(r, b.confirm = "known")

\* Without a code this is the resend button.
HandleStateAwaitingCode(r) ==
    /\ Forward(r) /\ state = "recovery_awaiting_code"
    /\ LET b == request[r].body IN
       \/ /\ b.code = "empty" /\ b.confirm = "empty"
          /\ Reject(r)
       \/ /\ b.code = "empty" /\ b.confirm # "empty"
          /\ SendTo(r, b.confirm = "known")
       \/ /\ b.code # "empty"
          /\ request' = [request EXCEPT ![r].copy = state, ![r].step = "use"]

\* HandleGoBack works on the handler's copy, not on the one just read, whatever
\* state and version that is of.
GoBack(r) ==
    /\ Reread(r, state) /\ request[r].body.back
    /\ LET several == request[r].body.address = "several"
           past    == request[r].handler \in {"recovery_awaiting_code",
                                              "recovery_confirming_address"}
           BackTo(s) == request' = [request EXCEPT ![r] =
                            [NoRequest("save") EXCEPT !.handler = s, !.copy = s]]
       IN \/ ~several /\ BackTo("recovery_awaiting_address")
          \/ several /\ past /\ BackTo("recovery_awaiting_address_choice")
          \/ several /\ ~past /\ Finish(r)

-----------------------------------------------------------------------------
(* Sending a code *)

\* Mutants: flow.NextState, which steps on from sent_email; the state of version
\* 1 only.
MutNextState(s) ==
    IF s = "choose_method" THEN "sent_email" ELSE "passed_challenge"
MutSentStateV1(s) == "sent_email"

\* The state the copy gets once the code was sent.
SentState(s) == IF s \in V1States THEN "sent_email" ELSE "recovery_awaiting_code"

AfterSend(r) == SetState(r, SentState(request[r].copy), "save")

\* Mutant: the codes that were sent before are kept.
MutResendKeepsCodes(r) ==
    /\ At(r, "send") /\ request[r].known /\ pc[r] = "idle"
    /\ toSend' = [toSend EXCEPT ![r] = 1]
    /\ pc' = [pc EXCEPT ![r] = "create"]
    /\ UNCHANGED <<dialect, exists, submitCount, row, expired, guess, target, seenUsed,
                   admitted, consumer, flowVars>>

\* DeleteRecoveryCodesOfFlow; an unknown address gets no code.
DeleteRecoveryCodesOfFlow(r) ==
    /\ At(r, "send")
    /\ \/ request[r].known /\ Code!DeleteCodesOfFlow(r, 1) /\ UNCHANGED request
       \/ ~request[r].known /\ Code!DeleteCodesOfFlow(r, 0) /\ AfterSend(r)
    /\ UNCHANGED <<flow, history>>

\* CreateRecoveryCode, and the message is queued with the courier.
SendRecoveryCode(r, c) ==
    /\ At(r, "send")
    /\ Code!CreateCode(r, c)
    /\ AfterSend(r)
    /\ UNCHANGED <<flow, history>>

Save(r) ==
    /\ request[r].step \in {"save", "saveMessage", "saveThenSend"}
    /\ UpdateRecoveryFlow(request[r].copy)
    /\ IF At(r, "saveThenSend") THEN Continue(r, "send") ELSE Finish(r)
    /\ UNCHANGED <<version, lapsed, history>>

\* WriteFlowError adds the message to the handler's copy and saves that.
WriteFlowError(r) ==
    /\ At(r, "error")
    /\ UpdateRecoveryFlow(request[r].handler)
    /\ Finish(r)
    /\ UNCHANGED <<version, lapsed, history>>

-----------------------------------------------------------------------------
(* recoveryUseCode and recoveryIssueSession *)

\* An empty code is as good as a wrong one.
Guess(b) == IF b.code = "empty" THEN None ELSE b.code

UseRecoveryCode(r) ==
    /\ At(r, "use")
    /\ LET g == Guess(request[r].body) IN
       \/ Code!Increment(r, g)
       \/ Code!IncrementMySQL(r, g)
       \/ Code!SelectCount(r)
       \/ Code!FlowMissing(r)
       \/ Code!Lookup(r)
       \/ Code!Consume(r)
       \/ Code!ConsumeNothing(r)
       \/ Code!RetryTransaction(r)
       \/ Code!Revalidate(r)
       \/ Code!Fail(r)
    /\ UNCHANGED flowVars

\* Mutant: any answer but not found is taken for success.
MutOnlyNotFoundFails(r) ==
    /\ At(r, "use")
    /\ \/ pc[r] = "notFound" /\ Continue(r, "saveMessage")
       \/ pc[r] \in {"alreadyUsed", "tooOften", "failed", "accepted"} /\ Continue(r, "verify")
    /\ UNCHANGED <<codeVars, flow, history>>

\* retryRecoveryFlow abandons the flow for a new one.  When that cannot be made
\* (a return_to that is not allowed), its error is shown in the old flow.
RetryRecoveryFlow(r, s) == Finish(r) \/ ReturnError(r, s)

\* ErrCodeNotFound is shown in the flow, any other error in a new flow.
CodeAnswer(r) ==
    /\ At(r, "use")
    /\ LET s == request[r].copy IN
       \/ pc[r] = "notFound" /\ SetState(r, s, "saveMessage")
       \/ /\ pc[r] \in {"alreadyUsed", "tooOften", "failed"}
          /\ RetryRecoveryFlow(r, request[r].handler)
       \/ pc[r] = "accepted" /\ SetState(r, s, "verify")
    /\ UNCHANGED <<codeVars, flow, history>>

MarkRecoveryAddressVerified(r) ==
    /\ At(r, "verify")
    /\ verified' = verified \cup {r}
    /\ Continue(r, "pass")
    /\ UNCHANGED <<codeVars, flow, sessions, overlap>>

\* Version 1 works on the handler's copy itself.
PassedCopy(r) ==
    IF request[r].copy \in V2States THEN request[r].handler ELSE "passed_challenge"

\* The flow is saved, or that fails and retryRecoveryFlow answers.
PassChallenge(r) ==
    /\ At(r, "pass")
    /\ \/ /\ UpdateRecoveryFlow("passed_challenge")
          /\ request' = [request EXCEPT ![r].handler = PassedCopy(r), ![r].step = "session"]
       \/ RetryRecoveryFlow(r, PassedCopy(r)) /\ UNCHANGED <<codeVars, state, reopened>>
    /\ UNCHANGED <<version, lapsed, history>>

\* The session is stored; the settings flow it continues with may fail.
IssueSession(r) ==
    /\ At(r, "session")
    /\ sessions' = sessions \cup {r}
    /\ RetryRecoveryFlow(r, request[r].handler)
    /\ UNCHANGED <<codeVars, flow, verified, overlap>>

-----------------------------------------------------------------------------
(* Failures and time *)

\* A statement fails, and the strategy returns its error to the handler; or
\* retryRecoveryFlow does.
StatementFails(r) ==
    /\ request[r].step \in {"reread", "saveThenSend", "send", "save", "saveMessage", "verify",
                            "session"}
    /\ ReturnError(r, request[r].handler)
    /\ UNCHANGED <<codeVars, flow, history>>

\* The process dies; or a statement fails whose error only leads to a new flow
\* (retryRecoveryFlow) or to the error page.
Abort(r) ==
    /\ request[r].step \notin {"idle", "done"}
    /\ Finish(r)
    /\ UNCHANGED <<codeVars, flow, history>>

Lapse ==
    /\ ~lapsed
    /\ lapsed' = TRUE
    /\ UNCHANGED <<codeVars, version, state, reopened, request, history>>

Expire(c) == Code!Expire(c) /\ UNCHANGED flowVars

DeleteExpiredRecoveryFlow ==
    /\ lapsed
    /\ Code!DeleteExpiredFlow
    /\ UNCHANGED flowVars

-----------------------------------------------------------------------------

Recover(r) ==
    \/ HandleFormSubmission(r) \/ HandlePassedChallenge(r)
    \/ HandleStateAwaitingAddress(r) \/ HandleStateAwaitingAddressChoice(r)
    \/ HandleStateConfirmingAddress(r) \/ HandleStateAwaitingCode(r)
    \/ GoBack(r)

Step(r) ==
    \/ \E b \in Bodies : Submit(r, b)
    \/ Refuse(r) \/ Recover(r)
    \/ DeleteRecoveryCodesOfFlow(r) \/ (\E c \in Codes : SendRecoveryCode(r, c))
    \/ Save(r) \/ WriteFlowError(r)
    \/ UseRecoveryCode(r) \/ CodeAnswer(r)
    \/ MarkRecoveryAddressVerified(r) \/ PassChallenge(r) \/ IssueSession(r)
    \/ StatementFails(r) \/ Abort(r)

Next ==
    \/ \E r \in Requests : Step(r)
    \/ \E c \in Codes : Expire(c)
    \/ Lapse \/ DeleteExpiredRecoveryFlow

Spec == Init /\ [][Next]_vars

-----------------------------------------------------------------------------
(* Properties *)

Accepted(r) == pc[r] = "accepted" /\ guess[r] \in Codes /\ consumer[guess[r]] = {r}

\* Every session, and every address marked verified, goes back to a code that
\* this very request consumed and no other did: no interleaving of resends,
\* retries and failures makes one code worth two sessions.
SessionNeedsCode == \A r \in sessions \cup verified : Accepted(r)

\* The flow is in passed_challenge only after a code was accepted: stale copies,
\* error handling and going back never put it there.
PassedIsEarned == state = "passed_challenge" => \E r \in Requests : Accepted(r)

\* Whatever the handlers do to a recovery flow, its codes only ever take the
\* steps of OneTimeCode: UpdateRecoveryFlow writes a whole copy back, but never the
\* submit_count, so that what holds of the codes, the limit and single use, holds
\* here.  (Code!Spec, with the steps that leave the codes alone tested first.)
CodeSpec == Code!Init /\ [][UNCHANGED codeVars \/ Code!Next]_codeVars

\* passed_challenge is the terminal state (flow/state.go), "was already handled,
\* do not allow retry" (Recover).
PassedIsFinal ==
    [][state = "passed_challenge" => state' = "passed_challenge"]_vars

\* Requests that come one after the other, whatever fails in between, recover the
\* account once with one flow, as long as nothing takes the flow out of
\* passed_challenge: a form or a code for a flow that passed leads to no second
\* session.  Going back and, in version 2, an error after the session was stored do
\* take it out, and then the next code does.
OneRecovery == ~overlap /\ ~reopened => Cardinality(sessions) <= 1

\* A resend replaces the code that was sent before ("will invalidate the sent
\* code and re-send a new code"), unless two resends overlap.
OneLiveCode == ~overlap => Cardinality({c \in Codes : row[c] = "live"}) <= 1
=============================================================================
