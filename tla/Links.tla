-------------------------------- MODULE Links --------------------------------
(***************************************************************************)
(* Recovery and verification with the link method                          *)
(* (selfservice/strategy/link): a flow, the tokens of the links that were  *)
(* sent for it, and the requests that ask for a link or follow one.        *)
(*                                                                         *)
(* Unlike a code, a link is looked at before the state of its flow, and    *)
(* another link leaves the earlier ones usable.  One identity is modelled, *)
(* whose traits' addresses are recovery and verifiable addresses.          *)
(***************************************************************************)
EXTENDS Integers, FiniteSets

CONSTANTS
    Requests,     \* HTTP requests, numbered as they arrive
    Tokens,       \* the tokens of links, numbered as they are created
    Addresses,
    None,         \* an administrator's link goes to no address
    MaxEvents,    \* bound: links and flows that expire, rows that are removed
    MaxInFlight   \* bound: requests that are being handled at the same time

ASSUME LinksAssumption ==
    /\ Requests \subseteq Nat
    /\ Tokens \subseteq Nat \ {0} /\ 1 \in Tokens
    /\ None \notin Addresses
    /\ MaxEvents \in Nat /\ MaxInFlight \in Nat

VARIABLES
    kind,      \* of the flow
    state,     \* the flow's state column, "none" without a row
    lapsed,    \* the flow's expires_at has passed
    addrs,     \* the identity's addresses
    verified,  \* those whose row is verified
    token,     \* each token's row
    request,   \* what each request's handler holds
    events,    \* see MaxEvents
    used,      \* history: the requests that consumed each token
    effects    \* history: sessions or verified addresses each token led to

flow     == <<kind, state, lapsed>>
identity == <<addrs, verified>>
history  == <<used, effects>>
vars     == <<flow, identity, token, request, events, history>>

States == {"none", "choose_method", "sent_email", "passed_challenge"}
Steps  == {"idle", "form", "send", "save", "error", "read", "consume", "flow", "valid",
           "identity", "mark", "pass", "session", "done"}

\* RecoveryToken and VerificationToken.
TokenRows ==
    [status : {"new", "unused", "used", "deleted"}, to : Addresses \cup {None},
     expired : BOOLEAN]

\* A request: the state in its handler's copy of the flow, the address or the
\* token submitted (0 without), and whether it came after the token's expiry.
Handlers ==
    [step : Steps, handler : States, to : Addresses \cup {None}, token : Tokens \cup {0},
     late : BOOLEAN]

\* The rows and what every request holds have their types; deleted rows take
\* those that reference them along.
TypeOK ==
    /\ kind \in {"recovery", "verification"}
    /\ state \in States
    /\ lapsed \in BOOLEAN
    /\ addrs \in SUBSET Addresses /\ verified \in SUBSET addrs
    /\ token \in [Tokens -> TokenRows]
    /\ \A t \in Tokens : token[t].status \in {"unused", "used"} =>
           state # "none" /\ token[t].to \in addrs \cup {None}
    /\ request \in [Requests -> Handlers]
    /\ events \in 0 .. MaxEvents
    /\ used \in [Tokens -> SUBSET Requests]
    /\ effects \in [Tokens -> Nat]

NoRequest(label) ==
    [step |-> label, handler |-> "none", to |-> None, token |-> 0, late |-> FALSE]

NewToken(s, a) == [status |-> s, to |-> a, expired |-> FALSE]

\* createRecoveryLinkForIdentity: one transaction creates the flow and a token.
AdminLink ==
    /\ kind = "recovery"
    /\ token = [t \in Tokens |-> NewToken(IF t = 1 THEN "unused" ELSE "new", None)]

\* A flow that a user, or an administrator with a link, has just created.
Init ==
    /\ kind \in {"recovery", "verification"}
    /\ state = "choose_method" /\ lapsed = FALSE
    /\ addrs = Addresses /\ verified = {}
    /\ AdminLink \/ token = [t \in Tokens |-> NewToken("new", None)]
    /\ request = [r \in Requests |-> NoRequest("idle")]
    /\ events = 0
    /\ used = [t \in Tokens |-> {}]
    /\ effects = [t \in Tokens |-> 0]

At(r, label) == request[r].step = label
Continue(r, label) == request' = [request EXCEPT ![r].step = label]

\* The request ends; most errors end in a new flow, of no concern to this one.
Finish(r) == request' = [request EXCEPT ![r] = NoRequest("done")]

\* The next request.
Arrives(r) == At(r, "idle") /\ \A q \in Requests : q < r => ~At(q, "idle")
InFlight == {r \in Requests : request[r].step \notin {"idle", "done"}}

\* The flow has a row that is not expired.
Readable == state # "none" /\ ~lapsed

-----------------------------------------------------------------------------
(* Asking for a link *)

\* updateRecoveryFlow or updateVerificationFlow with an email address; None is
\* an address of no identity.
SubmitEmail(r, a) ==
    /\ Arrives(r) /\ Cardinality(InFlight) < MaxInFlight
    /\ Readable
    /\ request' = [request EXCEPT ![r] = [NoRequest("form") EXCEPT !.handler = state, !.to = a]]
    /\ UNCHANGED <<flow, identity, token, events, history>>

\* Recover reads the flow again, Verify goes on with the handler's copy.  A flow
\* that passed or expired is answered with a new one; a form without an address or
\* with a wrong anti-CSRF token with an error.
HandleFormSubmission(r) ==
    /\ At(r, "form")
    /\ LET seen == IF kind = "recovery" THEN state ELSE request[r].handler IN
       \/ lapsed /\ Finish(r)
       \/ ~lapsed /\ seen = "passed_challenge" /\ Finish(r)
       \/ /\ ~lapsed /\ seen \in {"choose_method", "sent_email"}
          /\ Continue(r, "send") \/ Continue(r, "error")
    /\ UNCHANGED <<flow, identity, token, events, history>>

Fresh(t) == token[t].status = "new" /\ \A u \in Tokens : u < t => token[u].status # "new"

\* SendRecoveryLink and SendVerificationLink.  The token's row and the message are
\* one step: without the message nobody knows the token.  Verify has put the state
\* it saves next into the handler's copy.
SendLink(r) ==
    /\ At(r, "send")
    /\ \/ /\ request[r].to \in addrs /\ state # "none"
          /\ \E t \in Tokens : Fresh(t) /\ token' = [token EXCEPT ![t] = NewToken("unused", request[r].to)]
       \/ request[r].to \notin addrs /\ UNCHANGED token
    /\ request' = [request EXCEPT ![r].step = "save",
                      ![r].handler = IF kind = "recovery" THEN @ ELSE "sent_email"]
    /\ UNCHANGED <<flow, identity, events, history>>

SentState(r) == "sent_email"

\* UpdateRecoveryFlow or UpdateVerificationFlow; a row that is gone is an error.
Save(r) ==
    /\ At(r, "save") /\ state # "none"
    /\ state' = SentState(r)
    /\ Finish(r)
    /\ UNCHANGED <<kind, lapsed, identity, token, events, history>>

\* The handler's copy of the flow is written with the error.
WriteFlowError(r) ==
    /\ At(r, "error")
    /\ state' = IF state = "none" THEN "none" ELSE request[r].handler
    /\ Finish(r)
    /\ UNCHANGED <<kind, lapsed, identity, token, events, history>>

-----------------------------------------------------------------------------
(* Following a link *)

\* The handler checks that the flow is not expired, the strategy not its state.
SubmitLink(r, t) ==
    /\ Arrives(r) /\ Cardinality(InFlight) < MaxInFlight
    /\ Readable
    /\ token[t].status # "new"
    /\ request' = [request EXCEPT ![r] =
           [NoRequest("read") EXCEPT !.handler = state, !.token = t, !.late = token[t].expired]]
    /\ UNCHANGED <<flow, identity, token, events, history>>

\* UseRecoveryToken, UseVerificationToken: the transaction selects the unused
\* token and its address, then updates it.
SelectToken(r) ==
    /\ At(r, "read")
    /\ \/ token[request[r].token].status = "unused" /\ Continue(r, "consume")
       \/ token[request[r].token].status # "unused" /\ Finish(r)
    /\ UNCHANGED <<flow, identity, token, events, history>>

\* The token is consumed; Recover then reads its flow.
Consume(r) ==
    /\ token' = [token EXCEPT ![request[r].token].status = "used"]
    /\ used' = [used EXCEPT ![request[r].token] = @ \cup {r}]
    /\ Continue(r, IF kind = "recovery" THEN "flow" ELSE "valid")
    /\ UNCHANGED effects

\* Mutant: the update has no "NOT used".
MutUpdateUnguarded(r) ==
    /\ At(r, "consume")
    /\ \/ token[request[r].token].status \in {"unused", "used"} /\ Consume(r)
       \/ token[request[r].token].status = "deleted" /\ Finish(r) /\ UNCHANGED <<token, history>>
    /\ UNCHANGED <<flow, identity, events>>

\* "UPDATE ... AND NOT used": no row means that another request was first, or
\* that the token is gone.
UseToken(r) ==
    /\ At(r, "consume")
    /\ \/ token[request[r].token].status = "unused" /\ Consume(r)
       \/ token[request[r].token].status # "unused" /\ Finish(r) /\ UNCHANGED <<token, history>>
    /\ UNCHANGED <<flow, identity, events>>

GetRecoveryFlow(r) ==
    /\ At(r, "flow")
    /\ IF state = "none" THEN Finish(r) ELSE Continue(r, "valid")
    /\ UNCHANGED <<flow, identity, token, events, history>>

\* Mutant: an expired token is valid.
MutAlwaysValid(t) == TRUE

\* RecoveryToken.Valid, VerificationToken.Valid.
Valid(t) == ~token[t].expired

\* Only now: an expired token is consumed and of no effect.
CheckToken(r) ==
    /\ At(r, "valid")
    /\ \/ ~Valid(request[r].token) /\ Finish(r)
       \/ Valid(request[r].token) /\ Continue(r, IF kind = "recovery" THEN "identity" ELSE "mark")
    /\ UNCHANGED <<flow, identity, token, events, history>>

\* Where the link was sent to.
To(r) == token[request[r].token].to

\* recoveryUseToken reads the identity.  Only a self-service link, whose address
\* is still the identity's, marks an address.
GetIdentity(r) ==
    /\ At(r, "identity")
    /\ Continue(r, IF To(r) \in addrs THEN "mark" ELSE "pass")
    /\ UNCHANGED <<flow, identity, token, events, history>>

\* Mutant: every address of the identity is marked.
MutMarkAll(r) == addrs

Marked(r) == {To(r)}

\* UpdateVerifiableAddress of markRecoveryAddressVerified or verificationUseToken;
\* a row that is gone is an error.
MarkVerified(r) ==
    /\ At(r, "mark")
    /\ \/ /\ To(r) \in addrs
          /\ verified' = verified \cup Marked(r)
          /\ effects' = [effects EXCEPT ![request[r].token] =
                            IF kind = "recovery" THEN @ ELSE @ + 1]
          /\ Continue(r, "pass")
       \/ /\ To(r) \notin addrs
          /\ IF kind = "recovery" THEN Continue(r, "error") ELSE Finish(r)
          /\ UNCHANGED <<verified, effects>>
    /\ UNCHANGED <<flow, addrs, token, events, used>>

\* The flow is saved in passed_challenge; the session comes after it.
PassChallenge(r) ==
    /\ At(r, "pass")
    /\ \/ state = "none" /\ Finish(r) /\ UNCHANGED state
       \/ /\ state # "none"
          /\ state' = "passed_challenge"
          /\ IF kind = "recovery" THEN Continue(r, "session") ELSE Finish(r)
    /\ UNCHANGED <<kind, lapsed, identity, token, events, history>>

\* ActivateSession, the hooks, UpsertAndIssueCookie and the settings flow.
IssueSession(r) ==
    /\ At(r, "session")
    /\ effects' = [effects EXCEPT ![request[r].token] = @ + 1]
    /\ Finish(r)
    /\ UNCHANGED <<flow, identity, token, events, used>>

-----------------------------------------------------------------------------
(* Failures and the rest of the system *)

\* A statement fails, or the process dies.  WriteFlowError answers failures while
\* a link is sent and, in a recovery flow, while the address is marked.
StatementFails(r) ==
    /\ \/ request[r].step \in {"send", "save"} /\ Continue(r, "error")
       \/ kind = "recovery" /\ request[r].step \in {"identity", "mark"} /\ Continue(r, "error")
       \/ request[r].step \notin {"idle", "done"} /\ Finish(r)
    /\ UNCHANGED <<flow, identity, token, events, history>>

Event == events < MaxEvents /\ events' = events + 1

Expire(t) ==
    /\ Event
    /\ token[t].status # "new" /\ ~token[t].expired
    /\ token' = [token EXCEPT ![t].expired = TRUE]
    /\ UNCHANGED <<flow, identity, request, history>>

Lapse ==
    /\ Event
    /\ ~lapsed
    /\ lapsed' = TRUE
    /\ UNCHANGED <<kind, state, identity, token, request, history>>

\* Rows are deleted with the row they reference.
Cascade(gone) ==
    token' = [t \in Tokens |->
                 IF t \in gone /\ token[t].status # "new" THEN [token[t] EXCEPT !.status = "deleted"]
                                                          ELSE token[t]]

\* Mutant: the tokens of a removed address stay.
MutKeepTokens(a) ==
    /\ Event
    /\ a \in addrs
    /\ addrs' = addrs \ {a} /\ verified' = verified \ {a}
    /\ UNCHANGED <<token, flow, request, history>>

\* The identity's traits no longer have the address.
RemoveAddress(a) ==
    /\ Event
    /\ a \in addrs
    /\ addrs' = addrs \ {a} /\ verified' = verified \ {a}
    /\ Cascade({t \in Tokens : token[t].to = a})
    /\ UNCHANGED <<flow, request, history>>

\* DeleteExpiredRecoveryFlows, DeleteExpiredVerificationFlows.
DeleteExpiredFlow ==
    /\ Event
    /\ lapsed /\ state # "none"
    /\ state' = "none"
    /\ Cascade(Tokens)
    /\ UNCHANGED <<kind, lapsed, identity, request, history>>

Step(r) ==
    \/ \E a \in Addresses \cup {None} : SubmitEmail(r, a)
    \/ \E t \in Tokens : SubmitLink(r, t)
    \/ HandleFormSubmission(r) \/ SendLink(r) \/ Save(r) \/ WriteFlowError(r)
    \/ SelectToken(r) \/ UseToken(r) \/ GetRecoveryFlow(r) \/ CheckToken(r)
    \/ GetIdentity(r) \/ MarkVerified(r) \/ PassChallenge(r) \/ IssueSession(r)
    \/ StatementFails(r)

Next ==
    \/ \E r \in Requests : Step(r)
    \/ \E t \in Tokens : Expire(t)
    \/ Lapse \/ DeleteExpiredFlow
    \/ \E a \in Addresses : RemoveAddress(a)

Spec == Init /\ [][Next]_vars

-----------------------------------------------------------------------------
(* Properties *)

\* A link gives at most one session, or verifies its address at most once,
\* however often it is followed at the same time: it is consumed by one request
\* before anything happens.  A request that follows it after it expired has no
\* effect, although it consumes the token first.
OneEffectPerLink ==
    /\ \A t \in Tokens : effects[t] =< 1 /\ Cardinality(used[t]) =< 1
    /\ \A r \in Requests : request[r].late =>
           request[r].step \notin {"identity", "mark", "pass", "session"}

\* A verified address is one that a consumed link was sent to: an administrator's
\* link verifies none, and no link verifies another address of the identity.
VerifiedIsProven ==
    \A a \in verified : \E t \in Tokens : used[t] # {} /\ token[t].to = a

\* A link to an address that was removed is dead: whoever consumes a link does
\* so while its address is the identity's.
RemovedAddressIsDead ==
    [][\A t \in Tokens : used'[t] # used[t] => token[t].to \in addrs \cup {None}]_vars
=============================================================================
