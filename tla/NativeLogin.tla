----------------------------- MODULE NativeLogin -----------------------------
(***************************************************************************)
(* Social sign-in of a native app (selfservice/strategy/oidc).  The app    *)
(* submits a login or registration flow and opens the provider's page in a *)
(* browser; the provider sends the browser to the callback, which logs in  *)
(* or registers the user; the app then exchanges its init code and the     *)
(* return code from the callback's redirect for the session                *)
(* (persistence/sql/persister_sessiontokenexchanger.go).  What was         *)
(* submitted waits in a continuity container (continuity/manager.go).      *)
(*                                                                         *)
(* One app, its exchanger, and one user of the provider are modelled.  A   *)
(* callback that finds the wrong kind of flow for the user converts it and *)
(* moves the exchanger along.  The browser has no session of its own.      *)
(***************************************************************************)
EXTENDS Integers, FiniteSets

CONSTANTS
    Requests,     \* HTTP requests, numbered as they arrive
    MaxEvents,    \* bound: failures, rows that expire or are removed, sign-ups elsewhere
    MaxInFlight   \* bound: requests that are being handled at the same time

ASSUME NativeAssumption ==
    /\ Requests \subseteq Nat \ {0}
    /\ MaxEvents \in Nat /\ MaxInFlight \in Nat

VARIABLES
    flows,       \* the rows of login and registration flows
    exchanger,   \* the row of the session token exchanger
    container,   \* the continuity container each submission paused in
    registered,  \* an identity has the provider's subject
    states,      \* state parameters that were sent to the provider
    known,       \* flows the app was told of
    request,     \* what each request's handler holds
    answer,      \* what each request was answered
    events,      \* see MaxEvents
    stale        \* history: flows whose error was overwritten by a submission

rows    == <<flows, exchanger, container, registered>>
outside == <<states, known>>
vars    == <<rows, outside, request, answer, events, stale>>

Kinds == {"login", "registration"}
Flow  == Kinds \X (Requests \cup {0})

\* The flow of the other kind that request r creates.
Converted(f, r) == <<IF f[1] = "login" THEN "registration" ELSE "login", r>>

\* A flow's row: its container in the internal context (0 without), whether its
\* UI shows an error.
NoFlow  == [status |-> "none", ref |-> 0, message |-> FALSE]
NewFlow == [NoFlow EXCEPT !.status = "open"]
FlowRow == [status : {"none", "open", "expired"}, ref : Requests \cup {0}, message : BOOLEAN]

Steps == {"idle", "state", "save", "codes", "continue", "touch", "find", "convert", "create",
          "session", "update", "error", "errorCodes", "pending", "done"}

\* A request: the flow it works on, the one an error is shown in and the copy of
\* its row, whether its state parameter has the exchanger's code, whether a
\* duplicate identity makes it convert; and as history whether the callback was
\* let in, whether a later look-up of the codes failed, and whether another
\* request moved the exchanger meanwhile.
Handler ==
    [step : Steps, flow : Flow, back : Flow, copy : FlowRow, good : BOOLEAN,
     duplicate : BOOLEAN, opened : BOOLEAN, blind : BOOLEAN, displaced : BOOLEAN]

\* To the app: the redirect of a login, of an error or to link an account.  In
\* the browser: the session token, the flow with an error, an error page.
Answers == {"none", "location", "redirect", "errorRedirect", "link", "token", "errorBody",
            "page", "session", "pending", "notFound"}

\* The rows, requests and answers have their types: what is written to a flow
\* goes to a row that exists, and session r, that request r stored, comes from a
\* callback that was let in.
TypeOK ==
    /\ flows \in [Flow -> FlowRow]
    /\ \A f \in Flow : flows[f].status = "none" => flows[f] = NoFlow
    /\ exchanger \in [exists : BOOLEAN, flow : Flow, session : Requests \cup {0}]
    /\ \A r \in Requests : exchanger.session = r => request[r].opened
    /\ container \in [Requests -> {"none", "valid", "expired"}]
    /\ registered \in BOOLEAN
    /\ states \in SUBSET [flow : Flow, good : BOOLEAN]
    /\ known \in SUBSET Flow
    /\ request \in [Requests -> Handler]
    /\ answer \in [Requests -> Answers]
    /\ events \in 0 .. MaxEvents
    /\ stale \in SUBSET Flow

NoRequest ==
    [step |-> "idle", flow |-> <<"login", 0>>, back |-> <<"login", 0>>, copy |-> NoFlow,
     good |-> FALSE, duplicate |-> FALSE, opened |-> FALSE, blind |-> FALSE,
     displaced |-> FALSE]

\* CreateSessionTokenExchanger, with an API flow that asks for it.
Init ==
    /\ \E k \in Kinds :
           /\ flows = [f \in Flow |-> IF f = <<k, 0>> THEN NewFlow ELSE NoFlow]
           /\ exchanger = [exists |-> TRUE, flow |-> <<k, 0>>, session |-> 0]
           /\ known = {<<k, 0>>}
    /\ container = [r \in Requests |-> "none"]
    /\ registered \in BOOLEAN
    /\ states = {}
    /\ request = [r \in Requests |-> NoRequest]
    /\ answer = [r \in Requests |-> "none"]
    /\ events = 0
    /\ stale = {}

At(r, label) == request[r].step = label
Continue(r, label) == request' = [request EXCEPT ![r].step = label]

\* The answer is written; the flow of an error and the history are kept.
Ended(r) ==
    [request[r] EXCEPT !.step = "done", !.copy = NoFlow, !.good = FALSE, !.duplicate = FALSE]

Finish(r, a) ==
    /\ request' = [request EXCEPT ![r] = Ended(r)]
    /\ answer' = [answer EXCEPT ![r] = a]

\* The codes were not found because their look-up failed.
FinishBlind(r, a) ==
    /\ request' = [request EXCEPT ![r] = [Ended(r) EXCEPT !.blind = TRUE]]
    /\ answer' = [answer EXCEPT ![r] = a]

InFlight == {r \in Requests : request[r].step \notin {"idle", "done"}}

\* The next request begins, with flow f.
Arrives(r, f, label, good) ==
    /\ At(r, "idle") /\ \A q \in Requests : q < r => ~At(q, "idle")
    /\ Cardinality(InFlight) < MaxInFlight
    /\ request' = [request EXCEPT ![r].step = label, ![r].flow = f, ![r].back = f,
                                  ![r].copy = flows[f], ![r].good = good]

Event == events < MaxEvents /\ events' = events + 1

\* CodeForFlow finds the exchanger's codes.
CodeForFlow(f) == exchanger.exists /\ exchanger.flow = f

-----------------------------------------------------------------------------
(* Login and Register: the app submits the flow *)

Submit(r, f) ==
    /\ f \in known
    /\ flows[f].status = "open"
    /\ Arrives(r, f, "state", FALSE)
    /\ UNCHANGED <<rows, outside, answer, events, stale>>

\* GenerateState: without a code, or when the look-up fails, the state has a random
\* one.  Pause stores the container, which nobody else sees before the flow is
\* saved, and puts its id into the copy of the flow.
GenerateStateAndPause(r) ==
    /\ At(r, "state")
    /\ \E good \in {CodeForFlow(request[r].flow), FALSE} :
           /\ request' = [request EXCEPT ![r].step = "save", ![r].copy.ref = r, ![r].good = good]
           /\ IF good = CodeForFlow(request[r].flow) THEN UNCHANGED events ELSE Event
    /\ container' = [container EXCEPT ![r] = "valid"]
    /\ UNCHANGED <<flows, exchanger, registered, outside, answer, stale>>

\* Mutant: no error when there is no row.
MutUpdateNothing(f, copy) ==
    flows' = [flows EXCEPT ![f] = [copy EXCEPT !.status = flows[f].status]]

\* UpdateLoginFlow and UpdateRegistrationFlow write the whole copy; a row that is
\* gone is an error.
Update(f, copy) ==
    /\ flows[f].status # "none"
    /\ flows' = [flows EXCEPT ![f] = [copy EXCEPT !.status = flows[f].status]]

\* The flow is saved, the app sent to the provider.
SaveFlow(r) ==
    LET f == request[r].flow IN
    /\ At(r, "save")
    /\ Update(f, request[r].copy)
    /\ stale' = IF flows[f].message /\ ~request[r].copy.message THEN stale \cup {f} ELSE stale
    /\ states' = states \cup {[flow |-> f, good |-> request[r].good]}
    /\ Finish(r, "location")
    /\ UNCHANGED <<exchanger, container, registered, known, events>>

\* The flow is gone.
CannotSave(r) ==
    /\ At(r, "save")
    /\ flows[request[r].flow].status = "none"
    /\ Continue(r, "error")
    /\ UNCHANGED <<rows, outside, answer, events, stale>>

-----------------------------------------------------------------------------
(* HandleCallback: the provider sends the browser back *)

\* ValidateCallback reads the flow of the state.
Callback(r, s) ==
    /\ s \in states
    /\ Arrives(r, s.flow, "codes", s.good)
    /\ UNCHANGED <<rows, outside, answer, events, stale>>

\* A flow that is not open, a state without the code, and a flow whose exchanger is
\* gone, for which only a cookie would do, end on the error page.
ValidateCallback(r) ==
    /\ At(r, "codes")
    /\ LET open == /\ request[r].copy.status = "open" /\ request[r].good
                   /\ CodeForFlow(request[r].flow)
       IN \/ /\ open
             /\ request' = [request EXCEPT ![r].step = "continue", ![r].opened = TRUE]
             /\ UNCHANGED answer
          \/ ~open /\ Finish(r, "page")
    /\ UNCHANGED <<rows, outside, events, stale>>

\* The container the copy of the flow refers to must be there and not expired.
ContinueContainer(r) ==
    /\ At(r, "continue")
    /\ LET resumable == request[r].copy.ref \in {k \in Requests : container[k] = "valid"} IN
       \/ resumable /\ Continue(r, "touch") /\ UNCHANGED answer
       \/ ~resumable /\ Finish(r, "page")
    /\ UNCHANGED <<rows, outside, events, stale>>

\* The provider is asked for the user's claims; that may fail.
ExchangeProviderCode(r) == Continue(r, "find") \/ Continue(r, "error")

\* It can be continued for another minute, also when it expired since it was
\* read; a row that is gone is ignored.
SetContinuitySessionExpiry(r) ==
    /\ At(r, "touch")
    /\ container' = [container EXCEPT ![request[r].copy.ref] =
                         IF @ = "none" THEN "none" ELSE "valid"]
    /\ ExchangeProviderCode(r)
    /\ UNCHANGED <<flows, exchanger, registered, outside, answer, events, stale>>

\* FindByCredentialsIdentifier of ProcessLogin and of processRegistration.
FindIdentity(r) ==
    /\ At(r, "find")
    /\ LET login == request[r].flow[1] = "login" IN
       Continue(r, IF login # registered THEN "convert"
                   ELSE IF login THEN "session" ELSE "create")
    /\ UNCHANGED <<rows, outside, answer, events, stale>>

\* NewRegistrationFlow, or NewLoginFlow with what registrationToLogin copies.
NewFlowFor(r) ==
    IF request[r].flow[1] = "login" THEN NewFlow
    ELSE [request[r].copy EXCEPT !.status = "open", !.message = @ \/ request[r].duplicate]

\* Mutant: the exchanger stays with the old flow.
MutNoMove(f, g) == exchanger

\* MoveToNewFlow: UPDATE ... SET flow_id WHERE flow_id
Moved(f, g) == IF CodeForFlow(f) THEN [exchanger EXCEPT !.flow = g] ELSE exchanger

\* The new flow, which nobody else knows, is created and gets the exchanger; the
\* request goes on as mine.
ConvertTo(r, g, mine) ==
    LET f == request[r].flow IN
    /\ At(r, "convert")
    /\ flows' = [flows EXCEPT ![g] = NewFlowFor(r)]
    /\ exchanger' = Moved(f, g)
    /\ request' = [q \in Requests |-> IF q = r THEN mine
           ELSE [request[q] EXCEPT !.displaced = @ \/ (q \in InFlight /\ CodeForFlow(f))]]
    /\ UNCHANGED <<container, registered, states, stale>>

\* Errors from now on are shown in the first flow a callback converted to.
Convert(r) ==
    LET g == Converted(request[r].flow, r)
        first == request[r].flow[2] # r
    IN
    /\ ~request[r].duplicate
    /\ ConvertTo(r, g, [request[r] EXCEPT !.flow = g, !.step = "find",
                           !.back = IF first THEN g ELSE @,
                           !.copy = IF first THEN NewFlowFor(r) ELSE @])
    /\ UNCHANGED <<answer, known, events>>

\* A duplicate identity: the app is told to link the account in the new login flow.
\* When that cannot be saved, the error is shown in the flow that was left.
LinkAccount(r) ==
    LET g == Converted(request[r].flow, r) IN
    /\ request[r].duplicate
    /\ \/ /\ ConvertTo(r, g, Ended(r))
          /\ answer' = [answer EXCEPT ![r] = "link"]
          /\ known' = known \cup {g}
          /\ UNCHANGED events
       \/ /\ ConvertTo(r, g, [request[r] EXCEPT !.flow = g, !.step = "error"])
          /\ Event
          /\ UNCHANGED <<answer, known>>

\* PostRegistrationHook creates the identity.  Another one with the subject, or with
\* an identifier from the claims such as the email, makes it a duplicate.
CreateIdentity(r) ==
    /\ At(r, "create")
    /\ \E duplicate \in {registered, TRUE} :
           /\ registered' = (registered \/ ~duplicate)
           /\ request' = [request EXCEPT ![r].duplicate = duplicate,
                                         ![r].step = IF duplicate THEN "convert" ELSE "session"]
    /\ UNCHANGED <<flows, exchanger, container, outside, answer, events, stale>>

\* UpsertSession of PostLoginHook or PostRegistrationHook stores session r.  Then
\* MaybeRedirectAPICodeFlow: an error of CodeForFlow is ignored, and without the codes
\* the session token is written to the browser.
IssueSession(r) ==
    /\ At(r, "session")
    /\ \/ CodeForFlow(request[r].flow) /\ Continue(r, "update") /\ UNCHANGED <<answer, events>>
       \/ ~CodeForFlow(request[r].flow) /\ Finish(r, "token") /\ UNCHANGED events
       \/ Event /\ FinishBlind(r, "token")
    /\ UNCHANGED <<rows, outside, stale>>

\* Mutant: the session is stored for the flow of the callback.
MutOldFlow(r) == request[r].back

SessionFlow(r) == request[r].flow

\* The UPDATE of an exchanger that was moved or removed changes nothing.
UpdateSessionOnExchanger(r) ==
    /\ At(r, "update")
    /\ exchanger' = IF CodeForFlow(SessionFlow(r))
                    THEN [exchanger EXCEPT !.session = r] ELSE exchanger
    /\ Finish(r, "redirect")
    /\ UNCHANGED <<flows, container, registered, outside, events, stale>>

-----------------------------------------------------------------------------
(* WriteFlowError of login and registration *)

\* Mutant: the app is sent back without the error in the flow.
MutErrorNotSaved(r) ==
    /\ At(r, "error")
    /\ Update(request[r].back, request[r].copy)
    /\ Continue(r, "errorCodes")
    /\ UNCHANGED <<exchanger, container, registered, outside, answer, events, stale>>

\* ParseError puts the error into the copy of the flow, which is saved.
SaveError(r) ==
    /\ At(r, "error")
    /\ Update(request[r].back, [request[r].copy EXCEPT !.message = TRUE])
    /\ Continue(r, "errorCodes")
    /\ UNCHANGED <<exchanger, container, registered, outside, answer, events, stale>>

\* ParseError returns what is no bad request, disabled account or validation error,
\* and the flow may be gone: then the error itself is the answer, and nothing is saved.
ForwardError(r) ==
    /\ At(r, "error")
    /\ Finish(r, "page")
    /\ UNCHANGED <<rows, outside, events, stale>>

\* Again an error of CodeForFlow is ignored.  Of a registration flow the app is
\* told the id.
RedirectError(r) ==
    LET f == request[r].back IN
    /\ At(r, "errorCodes")
    /\ \/ /\ CodeForFlow(f)
          /\ Finish(r, "errorRedirect")
          /\ known' = IF f[1] = "registration" THEN known \cup {f} ELSE known
          /\ UNCHANGED events
       \/ ~CodeForFlow(f) /\ Finish(r, "errorBody") /\ UNCHANGED <<known, events>>
       \/ Event /\ FinishBlind(r, "errorBody") /\ UNCHANGED known
    /\ UNCHANGED <<rows, states, stale>>

-----------------------------------------------------------------------------
(* exchangeCode *)

\* The app has the return code of a redirect.  Nothing is held between
\* the statements that answer it.
ExchangeCode(r) ==
    /\ \E q \in Requests : answer[q] \in {"redirect", "errorRedirect"}
    /\ Arrives(r, exchanger.flow, "pending", FALSE)
    /\ UNCHANGED <<rows, outside, answer, events, stale>>

GetExchangerFromCode(r) ==
    /\ At(r, "pending")
    /\ exchanger.exists /\ exchanger.session # 0
    /\ Finish(r, "session")
    /\ UNCHANGED <<rows, outside, events, stale>>

\* There was no session yet, or reading it failed: GetFlowForTokenExchange, the flow
\* with its error, if the rows are there.
ExchangePending(r) ==
    LET f == exchanger.flow IN
    /\ At(r, "pending")
    /\ \/ /\ exchanger.exists /\ flows[f].status # "none"
          /\ Finish(r, "pending") /\ known' = known \cup {f}
       \/ /\ ~exchanger.exists \/ flows[f].status = "none"
          /\ Finish(r, "notFound") /\ UNCHANGED known
    /\ UNCHANGED <<rows, states, events, stale>>

-----------------------------------------------------------------------------
(* Failures and the rest of the system *)

\* A statement fails, or the user is refused: registration or the account is
\* disabled, the claims do not fit the identity schema.  Before the callback is
\* validated that leads to the error page, later to WriteFlowError.  Only
\* processRegistration takes an error of its look-up to mean that there is no
\* identity.
StatementFails(r) ==
    /\ Event
    /\ \/ /\ request[r].step \in {"state", "save", "find", "convert", "create", "session", "update"}
          /\ Continue(r, IF At(r, "find") /\ request[r].flow[1] = "registration"
                         THEN "create" ELSE "error")
          /\ UNCHANGED answer
       \/ request[r].step \in {"codes", "continue", "touch"} /\ Finish(r, "page")
    /\ UNCHANGED <<rows, outside, stale>>

\* The process dies.
Crash(r) ==
    /\ Event
    /\ r \in InFlight
    /\ Finish(r, "none")
    /\ UNCHANGED <<rows, outside, stale>>

\* Flows expire, and DeleteExpiredLoginFlows removes them.
AgeFlow(f) ==
    /\ Event
    /\ flows[f].status # "none"
    /\ flows' = [flows EXCEPT ![f] =
                     IF @.status = "open" THEN [@ EXCEPT !.status = "expired"] ELSE NoFlow]
    /\ UNCHANGED <<exchanger, container, registered, states, known, request, answer, stale>>

\* Containers expire, and DeleteExpiredContinuitySessions removes them.
AgeContainer(k) ==
    /\ Event
    /\ container[k] # "none"
    /\ container' = [container EXCEPT ![k] = IF @ = "valid" THEN "expired" ELSE "none"]
    /\ UNCHANGED <<flows, exchanger, registered, states, known, request, answer, stale>>

\* DeleteExpiredExchangers adds the hour to its limit: with the default of
\* keep-last it removes every exchanger, also one that was just created.
DeleteExpiredExchangers ==
    /\ Event
    /\ exchanger.exists
    /\ exchanger' = [exchanger EXCEPT !.exists = FALSE]
    /\ UNCHANGED <<flows, container, registered, states, known, request, answer, stale>>

\* The user signs up on another device.
RegisterElsewhere ==
    /\ Event
    /\ ~registered
    /\ registered' = TRUE
    /\ UNCHANGED <<flows, exchanger, container, states, known, request, answer, stale>>

Step(r) ==
    \/ \E f \in known : Submit(r, f)
    \/ \E s \in states : Callback(r, s)
    \/ GenerateStateAndPause(r) \/ SaveFlow(r) \/ CannotSave(r)
    \/ ValidateCallback(r) \/ ContinueContainer(r) \/ SetContinuitySessionExpiry(r)
    \/ FindIdentity(r) \/ Convert(r) \/ LinkAccount(r) \/ CreateIdentity(r)
    \/ IssueSession(r) \/ UpdateSessionOnExchanger(r)
    \/ SaveError(r) \/ ForwardError(r) \/ RedirectError(r)
    \/ ExchangeCode(r) \/ GetExchangerFromCode(r) \/ ExchangePending(r)
    \/ StatementFails(r) \/ Crash(r)

Next ==
    \/ \E r \in Requests : Step(r)
    \/ \E f \in Flow : AgeFlow(f)
    \/ \E k \in Requests : AgeContainer(k)
    \/ DeleteExpiredExchangers \/ RegisterElsewhere

Spec == Init /\ [][Next]_vars

-----------------------------------------------------------------------------
(* Properties *)

\* Once a callback that logged the user in has sent the app back, the app's codes
\* are worth a session, however many callbacks continue the same container and
\* whatever conversions and failures came before: unless the exchanger was
\* removed, or another callback took it to a new flow in the meantime.
RedirectLeadsToSession ==
    \A r \in Requests : answer[r] = "redirect" =>
        ~exchanger.exists \/ exchanger.session # 0 \/ request[r].displaced

\* A callback that was let in with the app's code answers through the app: neither
\* the session token nor a flow with its error is written to the browser, unless the
\* exchanger is removed or taken away meanwhile or its look-up fails.  Only errors
\* after a second conversion, or in linking the account, are shown in a flow the
\* exchanger has already left.  Errors that are not shown in a flow (ForwardError, a
\* container that cannot be continued) are the browser's in any case.
AnsweredThroughApp ==
    \A r \in Requests : request[r].opened /\ answer[r] \in {"token", "errorBody"} =>
        \/ ~exchanger.exists \/ request[r].blind \/ request[r].displaced
        \/ answer[r] = "errorBody" /\ request[r].flow # request[r].back

\* An app that is sent back after an error finds that error in the flow its codes
\* lead to ("the flow encountered an error", exchangeCode), until the exchanger
\* gets a session or another flow; a submission that read the flow before the
\* error may overwrite it.
PendingShowsError ==
    \A r \in Requests :
        LET f == request[r].back IN
        answer[r] = "errorRedirect" /\ CodeForFlow(f) /\ exchanger.session = 0 =>
            flows[f].message \/ flows[f].status = "none" \/ f \in stale
=============================================================================
