----------------------------- MODULE LinksProofs -----------------------------
(***************************************************************************)
(* Proofs about Links, for every number of requests, links, addresses and  *)
(* events.                                                                 *)
(***************************************************************************)
EXTENDS Links, FiniteSetTheorems, TLAPS

\* The steps of a request that follows a link, and those after its UPDATE.
Following == {"read", "consume", "flow", "valid", "identity", "mark", "pass", "session"}
Consuming == {"flow", "valid", "identity", "mark", "pass", "session"}

\* TypeOK alone is not inductive: the copy a request writes back was read from a
\* row, and a request that follows a link follows one that was created.
HandlerInv ==
    \A r \in Requests :
        /\ request[r].step \notin {"idle", "done"} => request[r].handler # "none"
        /\ request[r].step \in Following =>
               request[r].token \in Tokens /\ token[request[r].token].status # "new"

\* A token is consumed once, and whoever goes on from there consumed it.
ConsumeInv ==
    /\ \A t \in Tokens :
           /\ token[t].status \in {"new", "unused"} => used[t] = {}
           /\ \A q, r \in used[t] : q = r
    /\ \A r \in Requests : request[r].step \in Consuming => r \in used[request[r].token]

\* A token had no effect while the request that consumed it is on its way to it.
EffectInv ==
    /\ \A t \in Tokens :
           /\ effects[t] \in {0, 1}
           /\ used[t] = {} => effects[t] = 0
    /\ \A r \in Requests :
           \/ request[r].step \in {"flow", "valid", "identity", "mark"}
           \/ kind = "recovery" /\ request[r].step = "pass"
           \/ request[r].step = "session"
           => effects[request[r].token] = 0

\* A request that came too late gets as far as the check of the token's expiry.
LateInv ==
    \A r \in Requests : request[r].late =>
        /\ request[r].step \in {"read", "consume", "flow", "valid"}
        /\ token[request[r].token].expired

-----------------------------------------------------------------------------
(* Types *)

\* What a request holds after it ended, and after it went on.
LEMMA RequestAfter ==
    ASSUME request \in [Requests -> Handlers], NEW r \in Requests
    PROVE  /\ Finish(r) =>
                  /\ request' \in [Requests -> Handlers]
                  /\ request'[r] = NoRequest("done")
                  /\ \A q \in Requests \ {r} : request'[q] = request[q]
           /\ \A label \in Steps : Continue(r, label) =>
                  /\ request' \in [Requests -> Handlers]
                  /\ request'[r].step = label
                  /\ request'[r].handler = request[r].handler
                  /\ request'[r].token = request[r].token
                  /\ request'[r].late = request[r].late
                  /\ \A q \in Requests \ {r} : request'[q] = request[q]
  <1>1. NoRequest("done") \in Handlers
    BY DEF NoRequest, Handlers, Steps, States
  <1>2. ASSUME Finish(r)
        PROVE  /\ request' \in [Requests -> Handlers]
               /\ request'[r] = NoRequest("done")
               /\ \A q \in Requests \ {r} : request'[q] = request[q]
    BY <1>1, <1>2 DEF Finish
  <1>3. ASSUME NEW label \in Steps, Continue(r, label)
        PROVE  /\ request' \in [Requests -> Handlers]
               /\ request'[r].step = label
               /\ request'[r].handler = request[r].handler
               /\ request'[r].token = request[r].token
               /\ request'[r].late = request[r].late
               /\ \A q \in Requests \ {r} : request'[q] = request[q]
    BY <1>3 DEF Continue, Handlers
  <1> QED
    BY <1>2, <1>3

\* A request that arrives, with an address or a link, is well typed.
LEMMA SubmitAfter ==
    ASSUME TypeOK, NEW r \in Requests,
           (\E a \in Addresses \cup {None} : SubmitEmail(r, a)) \/ (\E t \in Tokens : SubmitLink(r, t))
    PROVE  /\ request' \in [Requests -> Handlers]
           /\ \A q \in Requests \ {r} : request'[q] = request[q]
           /\ request'[r].handler = state /\ state # "none"
           /\ \/ request'[r].step = "form" /\ ~request'[r].late
              \/ /\ request'[r].step = "read" /\ request'[r].token \in Tokens
                 /\ token[request'[r].token].status # "new"
                 /\ request'[r].late = token[request'[r].token].expired
           /\ UNCHANGED <<flow, identity, token, events, history>>
  <1>1. ASSUME NEW a \in Addresses \cup {None}, SubmitEmail(r, a)
        PROVE  /\ request' \in [Requests -> Handlers]
               /\ \A q \in Requests \ {r} : request'[q] = request[q]
               /\ request'[r].handler = state /\ state # "none"
               /\ request'[r].step = "form" /\ ~request'[r].late
               /\ UNCHANGED <<flow, identity, token, events, history>>
    <2> DEFINE h == [NoRequest("form") EXCEPT !.handler = state, !.to = a]
    <2>1. h \in Handlers
      BY DEF TypeOK, NoRequest, Handlers, Steps
    <2>2. h.handler = state /\ h.step = "form" /\ h.late = FALSE
      BY DEF NoRequest
    <2>3. request' = [request EXCEPT ![r] = h]
      BY <1>1 DEF SubmitEmail
    <2> HIDE DEF h
    <2> QED
      BY <1>1, <2>1, <2>2, <2>3 DEF SubmitEmail, TypeOK, Readable
  <1>2. ASSUME NEW t \in Tokens, SubmitLink(r, t)
        PROVE  /\ request' \in [Requests -> Handlers]
               /\ \A q \in Requests \ {r} : request'[q] = request[q]
               /\ request'[r].handler = state /\ state # "none"
               /\ request'[r].step = "read" /\ request'[r].token \in Tokens
               /\ token[request'[r].token].status # "new"
               /\ request'[r].late = token[request'[r].token].expired
               /\ UNCHANGED <<flow, identity, token, events, history>>
    <2>1. PICK e \in BOOLEAN : e = token[t].expired
      BY DEF TypeOK, TokenRows
    <2> DEFINE h == [NoRequest("read") EXCEPT !.handler = state, !.token = t, !.late = e]
    <2>2. h \in Handlers
      BY DEF TypeOK, NoRequest, Handlers, Steps
    <2>3. h.handler = state /\ h.step = "read" /\ h.token = t /\ h.late = e
      BY DEF NoRequest
    <2>4. request' = [request EXCEPT ![r] = h]
      BY <1>2, <2>1 DEF SubmitLink
    <2> HIDE DEF h
    <2> QED
      <3>1. /\ request' \in [Requests -> Handlers] /\ request'[r] = h
            /\ \A q \in Requests \ {r} : request'[q] = request[q]
        BY <2>2, <2>4 DEF TypeOK
      <3>2. /\ state # "none" /\ token[t].status # "new"
            /\ UNCHANGED <<flow, identity, token, events, history>>
        BY <1>2 DEF SubmitLink, Readable
      <3> QED
        BY <2>1, <2>3, <3>1, <3>2
  <1> QED
    BY <1>1, <1>2

\* The initial states are well typed.
LEMMA InitType == Init => TypeOK /\ HandlerInv
  <1> SUFFICES ASSUME Init PROVE TypeOK /\ HandlerInv
    OBVIOUS
  <1>1. NoRequest("idle") \in Handlers /\ NoRequest("idle").step = "idle"
    BY DEF NoRequest, Handlers, Steps, States
  <1>2. /\ token \in [Tokens -> TokenRows]
        /\ \A t \in Tokens : token[t].to = None
    <2>1. \A s \in {"new", "unused"} :
              NewToken(s, None) \in TokenRows /\ NewToken(s, None).to = None
      BY DEF NewToken, TokenRows
    <2>2. CASE AdminLink
      BY <2>1, <2>2 DEF AdminLink
    <2>3. CASE token = [t \in Tokens |-> NewToken("new", None)]
      BY <2>1, <2>3
    <2> QED
      BY <2>2, <2>3 DEF Init
  <1>3. HandlerInv
    BY <1>1 DEF Init, HandlerInv, Following
  <1> QED
    <2>1. /\ used \in [Tokens -> SUBSET Requests] /\ effects \in [Tokens -> Nat]
          /\ request \in [Requests -> Handlers] /\ events \in 0 .. MaxEvents
      BY <1>1, LinksAssumption DEF Init
    <2> QED
      BY <1>2, <1>3, <2>1 DEF Init, TypeOK, States

\* The steps that ask for a link keep the types.
LEMMA AskType ==
    ASSUME TypeOK, HandlerInv, NEW r \in Requests,
           \/ \E a \in Addresses \cup {None} : SubmitEmail(r, a)
           \/ \E t \in Tokens : SubmitLink(r, t)
           \/ HandleFormSubmission(r) \/ SendLink(r) \/ Save(r) \/ WriteFlowError(r)
    PROVE  TypeOK' /\ HandlerInv'
  <1> USE RequestAfter
  <1>1. CASE \/ \E a \in Addresses \cup {None} : SubmitEmail(r, a)
             \/ \E t \in Tokens : SubmitLink(r, t)
    <2>1. TypeOK'
      BY <1>1, SubmitAfter DEF TypeOK, flow, identity, history
    <2>2. HandlerInv'
      BY <1>1, SubmitAfter DEF HandlerInv, Following
    <2> QED
      BY <2>1, <2>2
  <1>2. CASE HandleFormSubmission(r)
    <2>1. TypeOK'
      BY <1>2 DEF TypeOK, HandleFormSubmission, flow, identity, history, Steps
    <2>2. HandlerInv'
      BY <1>2 DEF TypeOK, HandleFormSubmission, HandlerInv, Following, Steps, At, NoRequest
    <2> QED
      BY <2>1, <2>2
  <1>3. CASE SendLink(r)
    <2>1. /\ request' \in [Requests -> Handlers]
          /\ \A q \in Requests \ {r} : request'[q] = request[q]
          /\ request'[r].step = "save" /\ request'[r].handler # "none"
      <3> DEFINE s == IF kind = "recovery" THEN request[r].handler ELSE "sent_email"
      <3>1. s \in States \ {"none"}
        BY <1>3 DEF TypeOK, HandlerInv, SendLink, At, Handlers, States
      <3>2. request' = [request EXCEPT ![r].step = "save", ![r].handler = s]
        BY <1>3 DEF SendLink, TypeOK, Handlers
      <3> HIDE DEF s
      <3>3. [request[r] EXCEPT !.step = "save", !.handler = s] \in Handlers
        <4>1. request[r] \in Handlers /\ s \in States /\ "save" \in Steps
          BY <3>1 DEF TypeOK, Steps
        <4> QED
          BY ONLY <4>1 DEF Handlers
      <3>4. request' = [request EXCEPT ![r] = [request[r] EXCEPT !.step = "save", !.handler = s]]
        BY <3>2 DEF TypeOK
      <3>5. request'[r].step = "save" /\ request'[r].handler = s
        BY <3>4 DEF TypeOK, Handlers
      <3> QED
        BY <3>1, <3>3, <3>4, <3>5 DEF TypeOK
    <2>2. /\ token' \in [Tokens -> TokenRows]
          /\ \A t \in Tokens : token[t].status # "new" => token'[t] = token[t]
          /\ \A t \in Tokens : token'[t].status \in {"unused", "used"} =>
                 state # "none" /\ token'[t].to \in addrs \cup {None}
          /\ \A t \in Tokens : token[t].status # "new" => token'[t].status # "new"
      <3>1. ASSUME NEW u \in Tokens, Fresh(u), request[r].to \in addrs, state # "none",
                   token' = [token EXCEPT ![u] = NewToken("unused", request[r].to)]
            PROVE  <2>2!:
        <4>1. /\ NewToken("unused", request[r].to) \in TokenRows
              /\ NewToken("unused", request[r].to).to \in addrs
              /\ NewToken("unused", request[r].to).status = "unused"
          BY <3>1 DEF NewToken, TokenRows, TypeOK
        <4> QED
          BY <3>1, <4>1 DEF TypeOK, Fresh
      <3>2. CASE UNCHANGED token
        BY <3>2 DEF TypeOK
      <3> QED
        BY <1>3, <3>1, <3>2 DEF SendLink
    <2>3. TypeOK'
      BY <1>3, <2>1, <2>2 DEF SendLink, TypeOK, flow, identity, history
    <2>4. HandlerInv'
      BY <2>1, <2>2 DEF HandlerInv, Following
    <2> QED
      BY <2>3, <2>4
  <1>4. CASE Save(r)
    <2>1. TypeOK'
      BY <1>4 DEF TypeOK, Save, SentState, identity, history, States
    <2>2. HandlerInv'
      BY <1>4 DEF TypeOK, Save, HandlerInv, Following, NoRequest
    <2> QED
      BY <2>1, <2>2
  <1>5. CASE WriteFlowError(r)
    <2>1. request[r].handler \in States \ {"none"}
      BY <1>5 DEF TypeOK, HandlerInv, WriteFlowError, At, Handlers
    <2>2. TypeOK'
      BY <1>5, <2>1 DEF TypeOK, WriteFlowError, identity, history
    <2>3. HandlerInv'
      BY <1>5 DEF TypeOK, WriteFlowError, HandlerInv, Following, NoRequest
    <2> QED
      BY <2>2, <2>3
  <1> QED
    BY <1>1, <1>2, <1>3, <1>4, <1>5

\* The steps that follow a link keep the types.
LEMMA FollowType ==
    ASSUME TypeOK, HandlerInv, NEW r \in Requests,
           \/ SelectToken(r) \/ UseToken(r) \/ GetRecoveryFlow(r) \/ CheckToken(r)
           \/ GetIdentity(r) \/ MarkVerified(r) \/ PassChallenge(r) \/ IssueSession(r)
           \/ StatementFails(r)
    PROVE  TypeOK' /\ HandlerInv'
  <1> USE RequestAfter
  <1>1. CASE SelectToken(r)
    <2>1. TypeOK'
      BY <1>1 DEF TypeOK, SelectToken, flow, identity, history, Steps
    <2>2. HandlerInv'
      BY <1>1 DEF TypeOK, SelectToken, HandlerInv, Following, Steps, At, NoRequest
    <2> QED
      BY <2>1, <2>2
  <1>2. CASE UseToken(r)
    <2>1. request[r].token \in Tokens
      BY <1>2 DEF UseToken, HandlerInv, Following, At
    <2>2. CASE Consume(r)
      <3>1. /\ token' \in [Tokens -> TokenRows]
            /\ \A t \in Tokens : token'[t].to = token[t].to
            /\ \A t \in Tokens : token'[t].status # "new" <=> token[t].status # "new"
            /\ \A t \in Tokens : token'[t].status \in {"unused", "used"} =>
                   token[t].status \in {"unused", "used"}
        BY <1>2, <2>1, <2>2 DEF UseToken, Consume, Finish, TypeOK, TokenRows
      <3>2. used' \in [Tokens -> SUBSET Requests]
        BY <2>1, <2>2 DEF Consume, TypeOK
      <3>3. TypeOK'
        BY <1>2, <2>2, <3>1, <3>2
           DEF TypeOK, UseToken, Consume, flow, identity, Steps
      <3>4. HandlerInv'
        BY <1>2, <2>1, <2>2, <3>1 DEF TypeOK, UseToken, Consume, HandlerInv, Following, Steps, At
      <3> QED
        BY <3>3, <3>4
    <2>3. CASE Finish(r) /\ UNCHANGED <<token, history>>
      <3>1. TypeOK'
        BY <1>2, <2>3 DEF TypeOK, UseToken, flow, identity, history
      <3>2. HandlerInv'
        BY <1>2, <2>3 DEF TypeOK, UseToken, HandlerInv, Following, NoRequest
      <3> QED
        BY <3>1, <3>2
    <2> QED
      BY <1>2, <2>2, <2>3 DEF UseToken
  <1>3. CASE GetRecoveryFlow(r)
    <2>1. TypeOK'
      BY <1>3 DEF TypeOK, GetRecoveryFlow, flow, identity, history, Steps
    <2>2. HandlerInv'
      BY <1>3 DEF TypeOK, GetRecoveryFlow, HandlerInv, Following, Steps, At, NoRequest
    <2> QED
      BY <2>1, <2>2
  <1>4. CASE CheckToken(r)
    <2>1. TypeOK'
      BY <1>4 DEF TypeOK, CheckToken, flow, identity, history, Steps
    <2>2. HandlerInv'
      BY <1>4 DEF TypeOK, CheckToken, HandlerInv, Following, Steps, At, NoRequest
    <2> QED
      BY <2>1, <2>2
  <1>5. CASE GetIdentity(r)
    <2>1. TypeOK'
      BY <1>5 DEF TypeOK, GetIdentity, flow, identity, history, Steps
    <2>2. HandlerInv'
      BY <1>5 DEF TypeOK, GetIdentity, HandlerInv, Following, Steps, At, NoRequest
    <2> QED
      BY <2>1, <2>2
  <1>6. CASE MarkVerified(r)
    <2>1. request[r].token \in Tokens
      BY <1>6 DEF MarkVerified, HandlerInv, Following, At
    <2>2. verified' \in SUBSET addrs /\ effects' \in [Tokens -> Nat]
      BY <1>6, <2>1 DEF MarkVerified, Marked, TypeOK
    <2>3. TypeOK'
      BY <1>6, <2>2 DEF TypeOK, MarkVerified, flow, Steps
    <2>4. HandlerInv'
      BY <1>6 DEF TypeOK, MarkVerified, HandlerInv, Following, Steps, At, NoRequest
    <2> QED
      BY <2>3, <2>4
  <1>7. CASE PassChallenge(r)
    <2>1. TypeOK'
      BY <1>7 DEF TypeOK, PassChallenge, identity, history, Steps, States
    <2>2. HandlerInv'
      BY <1>7 DEF TypeOK, PassChallenge, HandlerInv, Following, Steps, At, NoRequest
    <2> QED
      BY <2>1, <2>2
  <1>8. CASE IssueSession(r)
    <2>1. request[r].token \in Tokens
      BY <1>8 DEF IssueSession, HandlerInv, Following, At
    <2>2. effects' \in [Tokens -> Nat]
      BY <1>8, <2>1 DEF IssueSession, TypeOK
    <2>3. TypeOK'
      BY <1>8, <2>2 DEF TypeOK, IssueSession, flow, identity
    <2>4. HandlerInv'
      BY <1>8 DEF TypeOK, IssueSession, HandlerInv, Following, NoRequest
    <2> QED
      BY <2>3, <2>4
  <1>9. CASE StatementFails(r)
    <2>1. TypeOK'
      BY <1>9 DEF TypeOK, StatementFails, flow, identity, history, Steps
    <2>2. HandlerInv'
      BY <1>9 DEF TypeOK, StatementFails, HandlerInv, Following, Steps, NoRequest
    <2> QED
      BY <2>1, <2>2
  <1> QED
    BY <1>1, <1>2, <1>3, <1>4, <1>5, <1>6, <1>7, <1>8, <1>9

\* What happens to the rows keeps the types: the tokens of a removed address or of
\* a deleted flow go with it.
LEMMA EventType ==
    ASSUME TypeOK, HandlerInv,
           (\E t \in Tokens : Expire(t)) \/ Lapse \/ DeleteExpiredFlow
           \/ (\E a \in Addresses : RemoveAddress(a))
    PROVE  TypeOK' /\ HandlerInv'
  <1>0. events' \in 0 .. MaxEvents
    <2>1. Event
      BY DEF Expire, Lapse, DeleteExpiredFlow, RemoveAddress
    <2>2. events \in 0 .. MaxEvents
      BY DEF TypeOK
    <2> QED
      BY <2>1, <2>2, LinksAssumption DEF Event
  <1>1. ASSUME NEW t \in Tokens, Expire(t) PROVE TypeOK' /\ HandlerInv'
    <2>1. /\ token' \in [Tokens -> TokenRows]
          /\ \A u \in Tokens : token'[u].to = token[u].to /\ token'[u].status = token[u].status
      BY <1>1 DEF Expire, TypeOK, TokenRows
    <2>2. TypeOK'
      BY <1>0, <1>1, <2>1 DEF TypeOK, Expire, flow, identity, history
    <2>3. HandlerInv'
      BY <1>1, <2>1 DEF HandlerInv, Expire
    <2> QED
      BY <2>2, <2>3
  <1>2. CASE Lapse
    BY <1>0, <1>2 DEF TypeOK, HandlerInv, Lapse, identity, history
  <1>3. ASSUME NEW gone \in SUBSET Tokens, Cascade(gone)
        PROVE  /\ token' \in [Tokens -> TokenRows]
               /\ \A u \in Tokens : token'[u].to = token[u].to
               /\ \A u \in Tokens : token'[u].status = token[u].status
                                    \/ token'[u].status = "deleted"
               /\ \A u \in gone : token'[u].status \in {"new", "deleted"}
    <2>1. ASSUME NEW u \in Tokens PROVE [token[u] EXCEPT !.status = "deleted"] \in TokenRows
      BY DEF TypeOK, TokenRows
    <2>2. ASSUME NEW u \in Tokens
          PROVE  /\ [token[u] EXCEPT !.status = "deleted"].to = token[u].to
                 /\ [token[u] EXCEPT !.status = "deleted"].status = "deleted"
      BY DEF TypeOK, TokenRows
    <2>3. ASSUME NEW u \in Tokens
          PROVE  /\ token'[u] \in TokenRows
                 /\ token'[u].to = token[u].to
                 /\ token'[u].status = token[u].status \/ token'[u].status = "deleted"
                 /\ u \in gone => token'[u].status \in {"new", "deleted"}
      BY <1>3, <2>1, <2>2 DEF Cascade, TypeOK
    <2>4. token' \in [Tokens -> TokenRows]
      BY <1>3, <2>3 DEF Cascade
    <2> QED
      BY <2>3, <2>4
  <1>4. CASE DeleteExpiredFlow
    <2>1. Cascade(Tokens)
      BY <1>4 DEF DeleteExpiredFlow
    <2>2. TypeOK'
      BY <1>0, <1>3, <1>4, <2>1 DEF TypeOK, DeleteExpiredFlow, identity, history, States
    <2>3. HandlerInv'
      BY <1>3, <1>4, <2>1 DEF HandlerInv, DeleteExpiredFlow
    <2> QED
      BY <2>2, <2>3
  <1>5. ASSUME NEW a \in Addresses, RemoveAddress(a) PROVE TypeOK' /\ HandlerInv'
    <2>1. Cascade({t \in Tokens : token[t].to = a})
      BY <1>5 DEF RemoveAddress
    <2>2. a # None
      BY LinksAssumption
    <2>3. TypeOK'
      BY <1>0, <1>3, <1>5, <2>1, <2>2 DEF TypeOK, RemoveAddress, flow, history
    <2>4. HandlerInv'
      BY <1>3, <1>5, <2>1 DEF HandlerInv, RemoveAddress
    <2> QED
      BY <2>3, <2>4
  <1> QED
    BY <1>1, <1>2, <1>4, <1>5

\* Every step keeps the types.
LEMMA NextType == TypeOK /\ HandlerInv /\ [Next]_vars => TypeOK' /\ HandlerInv'
  <1> SUFFICES ASSUME TypeOK, HandlerInv, [Next]_vars PROVE TypeOK' /\ HandlerInv'
    OBVIOUS
  <1>1. CASE UNCHANGED vars
    BY <1>1 DEF TypeOK, HandlerInv, vars, flow, identity, history
  <1>2. ASSUME NEW r \in Requests, Step(r) PROVE TypeOK' /\ HandlerInv'
    BY <1>2, AskType, FollowType DEF Step
  <1> QED
    BY <1>1, <1>2, EventType DEF Next

\* In every reachable state the rows and the requests are well typed.
LEMMA Typed == Spec => [](TypeOK /\ HandlerInv)
  <1>1. TypeOK /\ HandlerInv /\ [Next]_vars => (TypeOK /\ HandlerInv)'
    BY NextType
  <1> QED
    BY <1>1, InitType, PTL DEF Spec

\* In every reachable state the flow, its links and the requests are well typed, and a
\* link that can be followed belongs to a flow and an address that still exist.
THEOREM LinksTypeCorrect == Spec => []TypeOK
  BY Typed, PTL

\* A link is consumed only while the address it was sent to is the identity's: the
\* transaction's UPDATE finds no row for a link whose address was removed.
THEOREM RemovedAddressesDead == Spec => RemovedAddressIsDead
  <1>1. TypeOK /\ HandlerInv /\ [Next]_vars =>
            [\A t \in Tokens : used'[t] # used[t] => token[t].to \in addrs \cup {None}]_vars
    <2> SUFFICES ASSUME TypeOK, HandlerInv, Next, NEW t \in Tokens, used'[t] # used[t]
                 PROVE  token[t].to \in addrs \cup {None}
      BY DEF vars, history
    <2>1. PICK r \in Requests : UseToken(r)
      BY SubmitAfter DEF Next, Step, SubmitEmail, SubmitLink, HandleFormSubmission, SendLink,
         Save, WriteFlowError, SelectToken, GetRecoveryFlow, CheckToken, GetIdentity,
         MarkVerified, PassChallenge, IssueSession, StatementFails, Expire, Lapse,
         DeleteExpiredFlow, RemoveAddress, history
    <2>2. token[request[r].token].status = "unused" /\ Consume(r)
      BY <2>1 DEF UseToken, history
    <2>3. t = request[r].token
      BY <2>2 DEF Consume, TypeOK
    <2> QED
      BY <2>2, <2>3 DEF TypeOK
  <1> QED
    BY <1>1, Typed, PTL DEF Spec, RemovedAddressIsDead

-----------------------------------------------------------------------------
(* One effect of each link *)

\* A step of a request that leaves the tokens and what they led to alone.
LEMMA QuietStep ==
    ASSUME TypeOK, HandlerInv, ConsumeInv, EffectInv, LateInv, NEW r \in Requests,
           \A q \in Requests \ {r} : request'[q] = request[q],
           UNCHANGED <<kind, token, used, effects>>,
           \/ request'[r] = NoRequest("done")
           \/ /\ request'[r].token = request[r].token /\ request'[r].late = request[r].late
              /\ request'[r].step \in Consuming => request[r].step \in Consuming
              /\ request'[r].step \in {"flow", "valid", "identity", "mark"} =>
                     request[r].step \in {"flow", "valid", "identity", "mark"}
              /\ request'[r].step = "pass" /\ kind = "recovery" =>
                     request[r].step \in {"identity", "mark"}
              /\ request'[r].step = "session" => kind = "recovery" /\ request[r].step = "pass"
              /\ request[r].late => request'[r].step \in {"read", "consume", "flow", "valid"}
    PROVE  ConsumeInv' /\ EffectInv' /\ LateInv'
  <1>1. ConsumeInv'
    BY DEF ConsumeInv, Consuming, NoRequest
  <1>2. EffectInv'
    <2>1. ASSUME NEW q \in Requests,
                 \/ request'[q].step \in {"flow", "valid", "identity", "mark"}
                 \/ kind = "recovery" /\ request'[q].step = "pass"
                 \/ request'[q].step = "session"
          PROVE  effects[request'[q].token] = 0
      BY <2>1 DEF EffectInv, NoRequest
    <2> QED
      BY <2>1 DEF EffectInv
  <1>3. LateInv'
    BY DEF LateInv, NoRequest
  <1> QED
    BY <1>1, <1>2, <1>3

\* A request arrives, and is late if its link has expired.
LEMMA ArriveEffect ==
    ASSUME TypeOK, HandlerInv, ConsumeInv, EffectInv, LateInv, NEW r \in Requests,
           (\E a \in Addresses \cup {None} : SubmitEmail(r, a)) \/ (\E t \in Tokens : SubmitLink(r, t))
    PROVE  ConsumeInv' /\ EffectInv' /\ LateInv'
  <1>0. /\ UNCHANGED <<kind, token, used, effects>>
        /\ \A q \in Requests \ {r} : request'[q] = request[q]
        /\ \/ request'[r].step = "form" /\ ~request'[r].late
           \/ /\ request'[r].step = "read"
              /\ request'[r].late = token[request'[r].token].expired
    BY SubmitAfter DEF flow, history
  <1>1. ConsumeInv'
    BY <1>0 DEF ConsumeInv, Consuming
  <1>2. EffectInv'
    <2>1. ASSUME NEW q \in Requests,
                 \/ request'[q].step \in {"flow", "valid", "identity", "mark"}
                 \/ kind = "recovery" /\ request'[q].step = "pass"
                 \/ request'[q].step = "session"
          PROVE  effects[request'[q].token] = 0
      BY <1>0, <2>1 DEF EffectInv
    <2> QED
      BY <1>0, <2>1 DEF EffectInv
  <1>3. LateInv'
    BY <1>0 DEF LateInv
  <1> QED
    BY <1>1, <1>2, <1>3

\* The steps that neither consume a link nor have an effect.
LEMMA QuietEffect ==
    ASSUME TypeOK, HandlerInv, ConsumeInv, EffectInv, LateInv, NEW r \in Requests,
           \/ HandleFormSubmission(r) \/ Save(r) \/ WriteFlowError(r)
           \/ SelectToken(r) \/ GetRecoveryFlow(r) \/ CheckToken(r)
           \/ GetIdentity(r) \/ PassChallenge(r) \/ StatementFails(r)
    PROVE  ConsumeInv' /\ EffectInv' /\ LateInv'
  <1> USE RequestAfter DEF TypeOK
  <1>0. UNCHANGED <<kind, token, used, effects>>
    BY DEF HandleFormSubmission, Save, WriteFlowError, SelectToken, GetRecoveryFlow,
           CheckToken, GetIdentity, PassChallenge, StatementFails, flow, history
  <1>1. request[r].late => /\ request[r].step \in {"read", "consume", "flow", "valid"}
                           /\ ~Valid(request[r].token)
    BY DEF LateInv, Valid
  <1> HIDE DEF TypeOK
  <1>2. CASE HandleFormSubmission(r)
    BY <1>0, <1>1, <1>2, QuietStep DEF HandleFormSubmission, At, Steps, Consuming, TypeOK
  <1>3. CASE Save(r) \/ WriteFlowError(r)
    BY <1>0, <1>3, QuietStep DEF Save, WriteFlowError, TypeOK
  <1>4. CASE SelectToken(r)
    BY <1>0, <1>1, <1>4, QuietStep DEF SelectToken, At, Steps, Consuming, TypeOK
  <1>5. CASE GetRecoveryFlow(r)
    BY <1>0, <1>1, <1>5, QuietStep DEF GetRecoveryFlow, At, Steps, Consuming, TypeOK
  <1>6. CASE CheckToken(r)
    <2>1. At(r, "valid") /\ (Finish(r) \/ ~request[r].late)
      BY <1>1, <1>6 DEF CheckToken
    <2>2. Finish(r) \/ Continue(r, "identity") \/ Continue(r, "mark")
      BY <1>6 DEF CheckToken
    <2> QED
      BY <1>0, <2>1, <2>2, QuietStep DEF At, Steps, Consuming, TypeOK
  <1>7. CASE GetIdentity(r)
    BY <1>0, <1>1, <1>7, QuietStep DEF GetIdentity, At, Steps, Consuming, TypeOK
  <1>8. CASE PassChallenge(r)
    BY <1>0, <1>1, <1>8, QuietStep DEF PassChallenge, At, Steps, Consuming, TypeOK
  <1>9. CASE StatementFails(r)
    BY <1>0, <1>1, <1>9, QuietStep DEF StatementFails, Steps, Consuming, TypeOK
  <1> QED
    BY <1>2, <1>3, <1>4, <1>5, <1>6, <1>7, <1>8, <1>9

\* Creating and consuming a link, and what it leads to.
LEMMA LinkEffect ==
    ASSUME TypeOK, HandlerInv, ConsumeInv, EffectInv, LateInv, NEW r \in Requests,
           SendLink(r) \/ UseToken(r) \/ MarkVerified(r) \/ IssueSession(r)
    PROVE  ConsumeInv' /\ EffectInv' /\ LateInv'
  <1> USE RequestAfter
  <1>1. CASE SendLink(r)
    <2>1. /\ UNCHANGED <<kind, used, effects>>
          /\ \A q \in Requests \ {r} : request'[q] = request[q]
          /\ request'[r].step = "save" /\ request'[r].late = request[r].late
          /\ request[r].step = "send"
      BY <1>1 DEF SendLink, At, TypeOK, Handlers, flow, history
    <2>2. \A t \in Tokens : token[t].status # "new" => token'[t] = token[t]
      BY <1>1 DEF SendLink, TypeOK, Fresh
    <2>3. \A t \in Tokens : token[t].status = "new" => used[t] = {}
      BY DEF ConsumeInv
    <2>4. ConsumeInv'
      <3>1. ASSUME NEW q \in Requests, request'[q].step \in Consuming
            PROVE  q \in used[request'[q].token]
        BY <2>1, <3>1 DEF ConsumeInv, Consuming
      <3> QED
        BY <2>1, <2>2, <2>3, <3>1 DEF ConsumeInv
    <2>5. EffectInv'
      <3>1. ASSUME NEW q \in Requests,
                   \/ request'[q].step \in {"flow", "valid", "identity", "mark"}
                   \/ kind = "recovery" /\ request'[q].step = "pass"
                   \/ request'[q].step = "session"
            PROVE  effects[request'[q].token] = 0
        BY <2>1, <3>1 DEF EffectInv
      <3> QED
        BY <2>1, <3>1 DEF EffectInv
    <2>6. LateInv'
      <3>1. ASSUME NEW q \in Requests, request'[q].late
            PROVE  /\ request'[q].step \in {"read", "consume", "flow", "valid"}
                   /\ token'[request'[q].token].expired
        <4>1. q # r /\ request'[q] = request[q]
          BY <2>1, <3>1 DEF LateInv
        <4>2. request[q].token \in Tokens /\ token[request[q].token].status # "new"
          BY <3>1, <4>1 DEF LateInv, HandlerInv, Following
        <4> QED
          BY <2>2, <3>1, <4>1, <4>2 DEF LateInv
      <3> QED
        BY <3>1 DEF LateInv
    <2> QED
      BY <2>4, <2>5, <2>6
  <1>2. CASE UseToken(r)
    <2>0. At(r, "consume") /\ request[r].token \in Tokens /\ kind' = kind
      BY <1>2 DEF UseToken, HandlerInv, Following, At, flow
    <2>1. CASE token[request[r].token].status = "unused" /\ Consume(r)
      <3> DEFINE t == request[r].token
      <3>1. /\ used[t] = {} /\ used' = [used EXCEPT ![t] = {r}]
            /\ effects' = effects /\ effects[t] = 0
        BY <2>0, <2>1 DEF Consume, ConsumeInv, EffectInv, TypeOK
      <3>2. \A u \in Tokens : /\ token'[u].expired = token[u].expired
                              /\ u # t => token'[u] = token[u]
                              /\ u = t => token'[u].status = "used"
        BY <2>0, <2>1 DEF Consume, TypeOK, TokenRows
      <3>3. /\ \A q \in Requests \ {r} : request'[q] = request[q]
            /\ request'[r].step \in {"flow", "valid"}
            /\ request'[r].token = t /\ request'[r].late = request[r].late
        BY <2>1 DEF Consume, TypeOK, Steps
      <3>4. ConsumeInv'
        <4>1. ASSUME NEW q \in Requests, request'[q].step \in Consuming
              PROVE  q \in used'[request'[q].token]
          <5>1. CASE q = r
            BY <2>0, <3>1, <3>3, <5>1 DEF TypeOK
          <5>2. CASE q # r
            <6>1. q \in used[request[q].token] /\ request[q].token \in Tokens
              BY <3>3, <4>1, <5>2 DEF ConsumeInv, HandlerInv, Following, Consuming
            <6> QED
              BY <3>1, <3>3, <5>2, <6>1 DEF TypeOK
          <5> QED
            BY <5>1, <5>2
        <4>2. ASSUME NEW u \in Tokens
              PROVE  /\ token'[u].status \in {"new", "unused"} => used'[u] = {}
                     /\ \A q, p \in used'[u] : q = p
          BY <3>1, <3>2 DEF ConsumeInv, TypeOK
        <4> QED
          BY <4>1, <4>2 DEF ConsumeInv
      <3>5. EffectInv'
        <4>1. ASSUME NEW q \in Requests,
                     \/ request'[q].step \in {"flow", "valid", "identity", "mark"}
                     \/ kind = "recovery" /\ request'[q].step = "pass"
                     \/ request'[q].step = "session"
              PROVE  effects[request'[q].token] = 0
          BY <3>1, <3>3, <4>1 DEF EffectInv
        <4>2. \A u \in Tokens : used'[u] = {} => effects[u] = 0
          BY <3>1 DEF EffectInv, TypeOK
        <4> QED
          BY <2>0, <3>1, <4>1, <4>2 DEF EffectInv
      <3>6. LateInv'
        <4>1. ASSUME NEW q \in Requests, request'[q].late
              PROVE  /\ request'[q].step \in {"read", "consume", "flow", "valid"}
                     /\ token'[request'[q].token].expired
          <5>1. /\ request'[q].token = request[q].token /\ request[q].late
                /\ request[q].token \in Tokens
            BY <2>0, <3>3, <4>1 DEF LateInv, HandlerInv, Following
          <5> QED
            BY <3>2, <3>3, <4>1, <5>1 DEF LateInv
        <4> QED
          BY <4>1 DEF LateInv
      <3> QED
        BY <3>4, <3>5, <3>6
    <2>2. CASE Finish(r) /\ UNCHANGED <<token, history>>
      BY <2>0, <2>2, QuietStep DEF TypeOK, history
    <2> QED
      BY <1>2, <2>1, <2>2 DEF UseToken
  <1>3. ASSUME effects' = [effects EXCEPT ![request[r].token] = @ + 1],
               UNCHANGED <<kind, token, used>>,
               \/ At(r, "session") /\ Finish(r)
               \/ kind # "recovery" /\ At(r, "mark") /\ Continue(r, "pass")
        PROVE  ConsumeInv' /\ EffectInv' /\ LateInv'
    <2> DEFINE t == request[r].token
    <2>0. t \in Tokens /\ r \in used[t] /\ effects[t] = 0 /\ ~request[r].late
      BY <1>3 DEF HandlerInv, Following, ConsumeInv, Consuming, EffectInv, LateInv, At
    <2>1. /\ \A q \in Requests \ {r} : request'[q] = request[q]
          /\ ~request'[r].late
          /\ \/ request'[r].step = "done"
             \/ request'[r].step = "pass" /\ kind # "recovery" /\ request'[r].token = t
      BY <1>3, <2>0 DEF TypeOK, Steps, NoRequest
    <2>2. effects' = [effects EXCEPT ![t] = 1]
      BY <1>3, <2>0 DEF TypeOK
    <2>3. ConsumeInv'
      BY <1>3, <2>0, <2>1 DEF ConsumeInv, Consuming
    <2>4. EffectInv'
      <3>1. ASSUME NEW q \in Requests,
                   \/ request'[q].step \in {"flow", "valid", "identity", "mark"}
                   \/ kind = "recovery" /\ request'[q].step = "pass"
                   \/ request'[q].step = "session"
            PROVE  effects'[request'[q].token] = 0
        <4>1. q # r /\ request'[q] = request[q]
          BY <2>1, <3>1
        <4>2. request[q].token # t
          BY <2>0, <3>1, <4>1 DEF ConsumeInv, Consuming
        <4>3. request[q].token \in Tokens /\ effects[request[q].token] = 0
          BY <3>1, <4>1 DEF EffectInv, HandlerInv, Following
        <4> QED
          BY <2>2, <4>1, <4>2, <4>3 DEF TypeOK
      <3>2. ASSUME NEW u \in Tokens
            PROVE  effects'[u] \in {0, 1} /\ (used[u] = {} => effects'[u] = 0)
        BY <2>0, <2>2 DEF EffectInv, TypeOK
      <3> QED
        BY <1>3, <3>1, <3>2 DEF EffectInv
    <2>5. LateInv'
      BY <1>3, <2>1 DEF LateInv
    <2> QED
      BY <2>3, <2>4, <2>5
  <1>4. CASE MarkVerified(r)
    <2>0. At(r, "mark") /\ UNCHANGED <<kind, token, used>> /\ ~request[r].late
      BY <1>4 DEF MarkVerified, LateInv, At, flow
    <2>1. CASE /\ Continue(r, "pass")
               /\ effects' = [effects EXCEPT ![request[r].token] =
                                 IF kind = "recovery" THEN @ ELSE @ + 1]
      <3>1. CASE kind = "recovery"
        <4>1. effects' = effects
          BY <2>1, <3>1 DEF TypeOK
        <4> QED
          BY <2>0, <2>1, <4>1, QuietStep DEF TypeOK, Steps, Consuming, At
      <3>2. CASE kind # "recovery"
        BY <1>3, <2>0, <2>1, <3>2
      <3> QED
        BY <3>1, <3>2
    <2>2. CASE /\ IF kind = "recovery" THEN Continue(r, "error") ELSE Finish(r)
               /\ UNCHANGED <<verified, effects>>
      BY <2>0, <2>2, QuietStep DEF TypeOK, Steps, Consuming
    <2> QED
      BY <1>4, <2>1, <2>2 DEF MarkVerified
  <1>5. CASE IssueSession(r)
    <2>1. UNCHANGED <<kind, token, used>> /\ At(r, "session") /\ Finish(r)
      BY <1>5 DEF IssueSession, flow
    <2> QED
      BY <1>3, <1>5, <2>1 DEF IssueSession
  <1> QED
    BY <1>1, <1>2, <1>4, <1>5

\* Expiry and deletion of rows only ever take links away.
LEMMA EventEffect ==
    ASSUME TypeOK, HandlerInv, ConsumeInv, EffectInv, LateInv,
           (\E t \in Tokens : Expire(t)) \/ Lapse \/ DeleteExpiredFlow
           \/ (\E a \in Addresses : RemoveAddress(a))
    PROVE  /\ ConsumeInv' /\ EffectInv' /\ LateInv'
           /\ \A t \in Tokens : token'[t].to = token[t].to
  <1>0. UNCHANGED <<kind, request, used, effects>>
    BY DEF Expire, Lapse, DeleteExpiredFlow, RemoveAddress, flow, history
  <1>1. \A t \in Tokens : /\ token[t].expired => token'[t].expired
                          /\ token'[t].to = token[t].to
                          /\ token'[t].status \in {token[t].status, "deleted"}
    <2>1. ASSUME NEW gone, Cascade(gone), NEW t \in Tokens
          PROVE  /\ token[t].expired => token'[t].expired
                 /\ token'[t].to = token[t].to
                 /\ token'[t].status \in {token[t].status, "deleted"}
      <3>1. token'[t] = token[t] \/ token'[t] = [token[t] EXCEPT !.status = "deleted"]
        BY <2>1 DEF Cascade
      <3> QED
        BY <3>1 DEF TypeOK, TokenRows
    <2>2. ASSUME NEW u \in Tokens, Expire(u), NEW t \in Tokens
          PROVE  /\ token[t].expired => token'[t].expired
                 /\ token'[t].to = token[t].to
                 /\ token'[t].status \in {token[t].status, "deleted"}
      BY <2>2 DEF Expire, TypeOK, TokenRows
    <2>3. CASE Lapse
      BY <2>3 DEF Lapse
    <2> QED
      BY <2>1, <2>2, <2>3 DEF DeleteExpiredFlow, RemoveAddress
  <1>2. ConsumeInv'
    BY <1>0, <1>1 DEF ConsumeInv
  <1>3. EffectInv'
    BY <1>0 DEF EffectInv
  <1>4. LateInv'
    <2>1. \A r \in Requests : request[r].late => request[r].token \in Tokens
      BY DEF LateInv, HandlerInv, Following
    <2> QED
      BY <1>0, <1>1, <2>1 DEF LateInv
  <1> QED
    BY <1>1, <1>2, <1>3, <1>4

\* Every step keeps the invariants about what a link leads to.
LEMMA NextEffect ==
    TypeOK /\ HandlerInv /\ ConsumeInv /\ EffectInv /\ LateInv /\ [Next]_vars
    => ConsumeInv' /\ EffectInv' /\ LateInv'
  <1> SUFFICES ASSUME TypeOK, HandlerInv, ConsumeInv, EffectInv, LateInv, [Next]_vars
               PROVE  ConsumeInv' /\ EffectInv' /\ LateInv'
    OBVIOUS
  <1>1. CASE UNCHANGED vars
    BY <1>1 DEF ConsumeInv, EffectInv, LateInv, vars, flow, history
  <1>2. ASSUME NEW r \in Requests, Step(r) PROVE ConsumeInv' /\ EffectInv' /\ LateInv'
    BY <1>2, ArriveEffect, QuietEffect, LinkEffect DEF Step
  <1> QED
    BY <1>1, <1>2, EventEffect DEF Next

\* In every reachable state the invariants about what a link leads to hold.
LEMMA EffectInvariant == Spec => [](ConsumeInv /\ EffectInv /\ LateInv)
  <1>1. Init => ConsumeInv /\ EffectInv /\ LateInv
    <2> SUFFICES ASSUME Init PROVE ConsumeInv /\ EffectInv /\ LateInv
      OBVIOUS
    <2>1. \A r \in Requests : request[r].step = "idle" /\ ~request[r].late
      BY DEF Init, NoRequest
    <2> QED
      BY <2>1 DEF Init, ConsumeInv, EffectInv, LateInv, Consuming
  <1>2. TypeOK /\ HandlerInv /\ ConsumeInv /\ EffectInv /\ LateInv /\ [Next]_vars
        => (ConsumeInv /\ EffectInv /\ LateInv)'
    BY NextEffect
  <1> QED
    BY <1>1, <1>2, Typed, PTL DEF Spec

\* A link gives at most one session, or verifies an address at most once, however many
\* requests follow it at once, and none to a request that came after its expiry.
THEOREM LinksActOnce == Spec => []OneEffectPerLink
  <1>1. ConsumeInv /\ EffectInv /\ LateInv => OneEffectPerLink
    <2> SUFFICES ASSUME ConsumeInv, EffectInv, LateInv PROVE OneEffectPerLink
      OBVIOUS
    <2>1. ASSUME NEW t \in Tokens PROVE Cardinality(used[t]) =< 1
      <3>1. CASE used[t] = {}
        BY <3>1, FS_EmptySet
      <3>2. CASE used[t] # {}
        <4>1. PICK r \in used[t] : used[t] = {r}
          BY <3>2 DEF ConsumeInv
        <4>2. Cardinality({r}) = 1
          BY FS_Singleton
        <4> QED
          BY <4>1, <4>2
      <3> QED
        BY <3>1, <3>2
    <2> QED
      BY <2>1 DEF EffectInv, LateInv, OneEffectPerLink
  <1> QED
    BY <1>1, EffectInvariant, PTL

\* A verified address is one that a consumed link was sent to.
THEOREM VerifiedProven == Spec => []VerifiedIsProven
  <1>1. Init => VerifiedIsProven
    BY DEF Init, VerifiedIsProven
  <1>2. TypeOK /\ HandlerInv /\ ConsumeInv /\ EffectInv /\ LateInv /\ VerifiedIsProven
        /\ [Next]_vars => VerifiedIsProven'
    <2> SUFFICES ASSUME TypeOK, HandlerInv, ConsumeInv, EffectInv, LateInv, VerifiedIsProven,
                        [Next]_vars
                 PROVE  VerifiedIsProven'
      OBVIOUS
    <2>1. CASE UNCHANGED vars
      BY <2>1 DEF VerifiedIsProven, vars, identity, history
    <2>2. ASSUME NEW r \in Requests, MarkVerified(r) PROVE VerifiedIsProven'
      <3>1. /\ request[r].token \in Tokens /\ r \in used[request[r].token]
            /\ token' = token /\ used' = used
            /\ verified' \subseteq verified \cup {To(r)}
        BY <2>2 DEF MarkVerified, Marked, At, HandlerInv, Following, ConsumeInv, Consuming
      <3> QED
        BY <3>1 DEF VerifiedIsProven, To
    <2>3. ASSUME NEW r \in Requests, SendLink(r) PROVE VerifiedIsProven'
      <3>1. /\ verified' = verified /\ used' = used
            /\ \A t \in Tokens : used[t] # {} => token'[t] = token[t]
        BY <2>3 DEF SendLink, Fresh, ConsumeInv, TypeOK, identity, history
      <3> QED
        BY <3>1 DEF VerifiedIsProven
    <2>4. ASSUME NEW r \in Requests, UseToken(r) PROVE VerifiedIsProven'
      <3>1. /\ verified' = verified
            /\ \A t \in Tokens : token'[t].to = token[t].to /\ used[t] \subseteq used'[t]
        BY <2>4 DEF UseToken, Consume, TypeOK, TokenRows, identity, history
      <3> QED
        BY <3>1 DEF VerifiedIsProven
    <2>5. CASE (\E t \in Tokens : Expire(t)) \/ Lapse \/ DeleteExpiredFlow
               \/ (\E a \in Addresses : RemoveAddress(a))
      <3>1. verified' \subseteq verified /\ used' = used
        BY <2>5 DEF Expire, Lapse, DeleteExpiredFlow, RemoveAddress, identity, history
      <3> QED
        BY <2>5, <3>1, EventEffect DEF VerifiedIsProven
    <2>6. ASSUME NEW r \in Requests, UNCHANGED <<verified, used, token>>
          PROVE  VerifiedIsProven'
      BY <2>6 DEF VerifiedIsProven
    <2>7. ASSUME NEW r \in Requests, Step(r)
          PROVE  \/ MarkVerified(r) \/ SendLink(r) \/ UseToken(r)
                 \/ UNCHANGED <<verified, used, token>>
      BY <2>7 DEF Step, SubmitEmail, SubmitLink, HandleFormSubmission, Save, WriteFlowError,
                  SelectToken, GetRecoveryFlow, CheckToken, GetIdentity, PassChallenge,
                  IssueSession, StatementFails, identity, history
    <2> QED
      BY <2>1, <2>2, <2>3, <2>4, <2>5, <2>6, <2>7 DEF Next
  <1> QED
    BY <1>1, <1>2, Typed, EffectInvariant, PTL DEF Spec
=============================================================================
