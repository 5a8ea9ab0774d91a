-------------------------- MODULE NativeLoginProofs --------------------------
(***************************************************************************)
(* Safety of the native app's social sign-in for every number of requests, *)
(* however many are handled at the same time, with any number of failures, *)
(* crashes, expiries and deletions.                                        *)
(***************************************************************************)
EXTENDS NativeLogin, TLAPS

\* The steps of a callback that ValidateCallback has let in.
Inside == {"continue", "touch", "find", "convert", "create", "session", "update"}

\* An answer ends a request; a callback is let in once, before its later steps.
StepOK(r) ==
    /\ answer[r] # "none" => At(r, "done")
    /\ At(r, "idle") => ~request[r].opened /\ request[r].flow[2] = 0
    /\ request[r].step \in Inside => request[r].opened

\* The exchanger goes along with the flow of a callback that was let in.
Reaches(r) ==
    CodeForFlow(request[r].flow) \/ ~exchanger.exists \/ request[r].displaced

ReachOK(r) == r \in InFlight /\ request[r].opened => Reaches(r)

\* What a conversion knows: a registration flow becomes a login flow when there is
\* an identity, which stays, so the login flow is not converted again; or when the
\* identity is a duplicate, and then the callback ends.
KindOK(r) ==
    /\ At(r, "create") => request[r].flow[1] = "registration"
    /\ At(r, "convert") => request[r].flow # <<"login", r>>
    /\ At(r, "convert") /\ request[r].flow[1] = "registration" =>
           registered \/ request[r].duplicate
    /\ request[r].flow = <<"login", r>> =>
           registered \/ request[r].step \in {"error", "errorCodes", "done"}

\* The flow of kind k that r has not created, and may still.
Unborn(k, r) ==
    /\ ~At(r, "done")
    /\ request[r].flow[2] # r \/ (request[r].flow[1] = "registration" /\ k = "login")

\* Someone has the id of flow f.
Named(f) ==
    \/ f \in known
    \/ f = exchanger.flow
    \/ \E s \in states : f = s.flow
    \/ \E q \in Requests : f = request[q].flow \/ f = request[q].back

FreshInv == \A r \in Requests, k \in Kinds : Unborn(k, r) => ~Named(<<k, r>>)

\* The row shows an error, or is gone, or the error was overwritten.
Shown(f) == flows[f].message \/ flows[f].status = "none" \/ f \in stale

ShownOK(r) ==
    At(r, "errorCodes") \/ answer[r] = "errorRedirect" => Shown(request[r].back)

\* The two promises to the app, request by request.
RedirectOK(r) ==
    answer[r] = "redirect" => ~exchanger.exists \/ exchanger.session # 0 \/ request[r].displaced

AnswerOK(r) ==
    request[r].opened /\ answer[r] \in {"token", "errorBody"} =>
        \/ ~exchanger.exists \/ request[r].blind \/ request[r].displaced
        \/ answer[r] = "errorBody" /\ request[r].flow # request[r].back

-----------------------------------------------------------------------------
(* Helpers *)

\* The requests' numbers are not the number of the flow the app starts with.
LEMMA Numbers == 0 \notin Requests
BY NativeAssumption

\* A flow is a kind and a number.
LEMMA Flows ==
    /\ \A f \in Flow : f[1] \in Kinds /\ f[2] \in Requests \cup {0} /\ f = <<f[1], f[2]>>
    /\ \A k \in Kinds, r \in Requests \cup {0} : <<k, r>> \in Flow
    /\ \A f \in Flow, r \in Requests : Converted(f, r) \in Flow
BY DEF Flow, Converted, Kinds

\* Rows that are created or written.
LEMMA FlowRows ==
    /\ NoFlow \in FlowRow /\ NewFlow \in FlowRow
    /\ NoFlow.status = "none" /\ NewFlow.status = "open"
    /\ \A x \in FlowRow, s \in {"none", "open", "expired"}, b \in BOOLEAN, k \in Requests \cup {0} :
           /\ [x EXCEPT !.status = s] \in FlowRow /\ [x EXCEPT !.status = s].status = s
           /\ [x EXCEPT !.status = s].message = x.message
           /\ [x EXCEPT !.message = b] \in FlowRow /\ [x EXCEPT !.message = b].message = b
           /\ [x EXCEPT !.ref = k] \in FlowRow
           /\ [x EXCEPT !.status = s, !.message = b] \in FlowRow
           /\ [x EXCEPT !.status = s, !.message = b].status = s
<1>1. /\ NoFlow \in FlowRow /\ NewFlow \in FlowRow
      /\ NoFlow.status = "none" /\ NewFlow.status = "open"
    BY DEF NoFlow, NewFlow, FlowRow
<1>2. ASSUME NEW x \in FlowRow, NEW s \in {"none", "open", "expired"}, NEW b \in BOOLEAN,
             NEW k \in Requests \cup {0}
      PROVE  /\ [x EXCEPT !.status = s] \in FlowRow /\ [x EXCEPT !.status = s].status = s
             /\ [x EXCEPT !.status = s].message = x.message
             /\ [x EXCEPT !.message = b] \in FlowRow /\ [x EXCEPT !.message = b].message = b
             /\ [x EXCEPT !.ref = k] \in FlowRow
             /\ [x EXCEPT !.status = s, !.message = b] \in FlowRow
             /\ [x EXCEPT !.status = s, !.message = b].status = s
    BY DEF FlowRow
<1> QED BY <1>1, <1>2

\* Request q is what x is, up to what this relation leaves open.
Like(y, x) ==
    /\ y.flow = x.flow /\ y.back = x.back /\ y.opened = x.opened
    /\ y.displaced = x.displaced

\* The records a handler's step writes.
LEMMA HandlerUpdates ==
    ASSUME NEW x \in Handler, NEW label \in Steps
    PROVE  /\ [x EXCEPT !.step = label] \in Handler
           /\ [x EXCEPT !.step = label].step = label
           /\ [x EXCEPT !.step = label].blind = x.blind
           /\ Like([x EXCEPT !.step = label], x)
           /\ \A b \in BOOLEAN :
                 /\ [x EXCEPT !.displaced = b] \in Handler
                 /\ [x EXCEPT !.displaced = b].displaced = b
                 /\ [x EXCEPT !.displaced = b].step = x.step
                 /\ [x EXCEPT !.displaced = b].blind = x.blind
                 /\ [x EXCEPT !.displaced = b].flow = x.flow
                 /\ [x EXCEPT !.displaced = b].back = x.back
                 /\ [x EXCEPT !.displaced = b].opened = x.opened
                 /\ [x EXCEPT !.displaced = b].duplicate = x.duplicate
BY DEF Handler, Like

\* The record of a request that has ended.
LEMMA EndedFields ==
    ASSUME NEW r \in Requests, request[r] \in Handler
    PROVE  /\ Ended(r) \in Handler /\ Ended(r).step = "done"
           /\ Like(Ended(r), request[r])
           /\ [Ended(r) EXCEPT !.blind = TRUE] \in Handler
           /\ [Ended(r) EXCEPT !.blind = TRUE].step = "done"
           /\ [Ended(r) EXCEPT !.blind = TRUE].blind
           /\ Like([Ended(r) EXCEPT !.blind = TRUE], request[r])
BY FlowRows DEF Ended, Handler, Like, Steps

\* Requests keep their types, and r is at label now.
Typed(r, label) ==
    /\ request' \in [Requests -> Handler]
    /\ request'[r].step = label
    /\ \A q \in Requests : q # r => request'[q] = request[q]

\* A request after Continue.
LEMMA ContinueAfter ==
    ASSUME TypeOK, NEW r \in Requests, NEW label \in Steps, Continue(r, label)
    PROVE  Typed(r, label) /\ Like(request'[r], request[r])
<1>1. request[r] \in Handler /\ request \in [Requests -> Handler]
    BY DEF TypeOK
<1>2. request' = [request EXCEPT ![r] = [request[r] EXCEPT !.step = label]]
    BY <1>1 DEF Continue
<1>3. /\ [request[r] EXCEPT !.step = label] \in Handler
      /\ [request[r] EXCEPT !.step = label].step = label
      /\ Like([request[r] EXCEPT !.step = label], request[r])
    BY <1>1, HandlerUpdates
<1> QED BY <1>1, <1>2, <1>3 DEF Typed

\* A request after its answer.
LEMMA FinishAfter ==
    ASSUME TypeOK, NEW r \in Requests, NEW a \in Answers, Finish(r, a)
    PROVE  /\ Typed(r, "done") /\ Like(request'[r], request[r])
           /\ answer' = [answer EXCEPT ![r] = a]
<1>1. request[r] \in Handler /\ request \in [Requests -> Handler]
    BY DEF TypeOK
<1> QED BY <1>1, EndedFields DEF Typed, Finish

\* A request after the answer it gets when the look-up of the codes fails.
LEMMA FinishBlindAfter ==
    ASSUME TypeOK, NEW r \in Requests, NEW a \in Answers, FinishBlind(r, a)
    PROVE  /\ Typed(r, "done") /\ Like(request'[r], request[r])
           /\ request'[r].blind
           /\ answer' = [answer EXCEPT ![r] = a]
<1>1. request[r] \in Handler /\ request \in [Requests -> Handler]
    BY DEF TypeOK
<1> QED BY <1>1, EndedFields DEF Typed, FinishBlind

\* A request that begins: its flow, and the one errors are shown in, is f.
LEMMA ArrivesAfter ==
    ASSUME TypeOK, NEW r \in Requests, NEW f \in Flow, NEW label \in Steps,
           NEW good \in BOOLEAN, Arrives(r, f, label, good)
    PROVE  /\ Typed(r, label) /\ At(r, "idle")
           /\ request'[r].flow = f /\ request'[r].back = f
           /\ request'[r].opened = request[r].opened
           /\ request'[r].displaced = request[r].displaced
<1>1. /\ request[r] \in Handler /\ request \in [Requests -> Handler]
      /\ flows[f] \in FlowRow
    BY DEF TypeOK
<1> DEFINE y == [request[r] EXCEPT !.step = label, !.flow = f, !.back = f,
                                   !.copy = flows[f], !.good = good]
<1>2. request' = [request EXCEPT ![r] = y]
    BY <1>1 DEF Arrives
<1>3. /\ y \in Handler /\ y.step = label /\ y.flow = f /\ y.back = f
      /\ y.opened = request[r].opened /\ y.displaced = request[r].displaced
    BY <1>1 DEF Handler
<1> HIDE DEF y
<1>4. At(r, "idle")
    BY DEF Arrives
<1> QED BY <1>1, <1>2, <1>3, <1>4 DEF Typed

\* A submission with its state parameter and its container.
LEMMA GenerateAfter ==
    ASSUME TypeOK, NEW r \in Requests, GenerateStateAndPause(r)
    PROVE  Typed(r, "save") /\ Like(request'[r], request[r])
<1>1. /\ request[r] \in Handler /\ request \in [Requests -> Handler]
      /\ request[r].copy \in FlowRow /\ exchanger.exists \in BOOLEAN
    BY DEF TypeOK, Handler
<1>2. PICK good \in BOOLEAN :
          request' = [request EXCEPT ![r].step = "save", ![r].copy.ref = r, ![r].good = good]
    BY <1>1 DEF GenerateStateAndPause, CodeForFlow
<1> DEFINE c == [request[r].copy EXCEPT !.ref = r]
           y == [request[r] EXCEPT !.step = "save", !.copy = c, !.good = good]
<1>3. c \in FlowRow
    BY <1>1 DEF FlowRow
<1>4. request' = [request EXCEPT ![r] = y]
    BY <1>1, <1>2 DEF Handler
<1> HIDE DEF c
<1>5. y \in Handler /\ y.step = "save" /\ Like(y, request[r])
    BY <1>1, <1>3 DEF Handler, Like, Steps
<1> HIDE DEF y
<1> QED BY <1>1, <1>4, <1>5 DEF Typed

\* A callback that ValidateCallback lets in.
LEMMA LetInAfter ==
    ASSUME TypeOK, NEW r \in Requests,
           request' = [request EXCEPT ![r].step = "continue", ![r].opened = TRUE]
    PROVE  /\ Typed(r, "continue") /\ request'[r].opened
           /\ request'[r].flow = request[r].flow /\ request'[r].back = request[r].back
           /\ request'[r].displaced = request[r].displaced
<1>1. /\ request[r] \in Handler /\ request \in [Requests -> Handler]
    BY DEF TypeOK
<1> DEFINE y == [request[r] EXCEPT !.step = "continue", !.opened = TRUE]
<1>2. request' = [request EXCEPT ![r] = y]
    BY <1>1
<1>3. /\ y \in Handler /\ y.step = "continue" /\ y.opened
      /\ y.flow = request[r].flow /\ y.back = request[r].back
      /\ y.displaced = request[r].displaced
    BY <1>1 DEF Handler, Steps
<1> HIDE DEF y
<1> QED BY <1>1, <1>2, <1>3 DEF Typed

\* A callback that created the identity, or found a duplicate.
LEMMA CreateAfter ==
    ASSUME TypeOK, NEW r \in Requests, CreateIdentity(r)
    PROVE  \E label \in {"convert", "session"} :
              /\ Typed(r, label) /\ Like(request'[r], request[r])
              /\ label = "convert" => request'[r].duplicate
<1>1. /\ request[r] \in Handler /\ request \in [Requests -> Handler]
      /\ registered \in BOOLEAN
    BY DEF TypeOK
<1>2. PICK duplicate \in BOOLEAN :
          request' = [request EXCEPT ![r].duplicate = duplicate,
                                     ![r].step = IF duplicate THEN "convert" ELSE "session"]
    BY <1>1 DEF CreateIdentity
<1>3. PICK label \in {"convert", "session"} : label = IF duplicate THEN "convert" ELSE "session"
    OBVIOUS
<1> DEFINE y == [request[r] EXCEPT !.duplicate = duplicate, !.step = label]
<1>4. request' = [request EXCEPT ![r] = y]
    BY <1>1, <1>2, <1>3
<1>5. y \in Handler /\ y.step = label /\ Like(y, request[r]) /\ y.duplicate = duplicate
    BY <1>1 DEF Handler, Like, Steps
<1> HIDE DEF y
<1>6. label = "convert" => duplicate
    BY <1>3
<1> QED BY <1>1, <1>4, <1>5, <1>6 DEF Typed

\* What a request of its own or another's conversion keeps.
Stays(q) ==
    /\ request'[q].step = request[q].step
    /\ request'[q].flow = request[q].flow /\ request'[q].back = request[q].back
    /\ request'[q].opened = request[q].opened /\ request'[q].blind = request[q].blind
    /\ request'[q].duplicate = request[q].duplicate
    /\ request[q].displaced => request'[q].displaced

\* A conversion: the acting request becomes mine, and the others in flight are told
\* when the exchanger is taken along.
LEMMA ConvertToAfter ==
    ASSUME TypeOK, NEW r \in Requests, NEW g \in Flow, NEW mine \in Handler,
           ConvertTo(r, g, mine)
    PROVE  /\ request' \in [Requests -> Handler] /\ request'[r] = mine
           /\ \A q \in Requests : q # r => Stays(q)
           /\ CodeForFlow(request[r].flow) =>
                 \A q \in InFlight : q # r => request'[q].displaced
           /\ exchanger' = Moved(request[r].flow, g)
           /\ flows' = [flows EXCEPT ![g] = NewFlowFor(r)]
           /\ At(r, "convert")
<1>1. /\ request \in [Requests -> Handler] /\ exchanger.exists \in BOOLEAN
      /\ CodeForFlow(request[r].flow) \in BOOLEAN
    BY DEF TypeOK, CodeForFlow
<1>2. request' = [q \in Requests |-> IF q = r THEN mine
          ELSE [request[q] EXCEPT !.displaced =
                   @ \/ (q \in InFlight /\ CodeForFlow(request[r].flow))]]
    BY DEF ConvertTo
<1>3. ASSUME NEW q \in Requests, q # r
      PROVE  /\ request'[q] \in Handler /\ Stays(q)
             /\ q \in InFlight /\ CodeForFlow(request[r].flow) => request'[q].displaced
    <2>1. PICK b \in BOOLEAN :
              b = (request[q].displaced \/ (q \in InFlight /\ CodeForFlow(request[r].flow)))
        OBVIOUS
    <2>2. request'[q] = [request[q] EXCEPT !.displaced = b]
        BY <1>2, <1>3, <2>1
    <2>3. request[q] \in Handler /\ "done" \in Steps
        BY <1>1 DEF Steps
    <2>4. /\ [request[q] EXCEPT !.displaced = b] \in Handler
          /\ [request[q] EXCEPT !.displaced = b].displaced = b
          /\ [request[q] EXCEPT !.displaced = b].step = request[q].step
          /\ [request[q] EXCEPT !.displaced = b].blind = request[q].blind
          /\ [request[q] EXCEPT !.displaced = b].flow = request[q].flow
          /\ [request[q] EXCEPT !.displaced = b].back = request[q].back
          /\ [request[q] EXCEPT !.displaced = b].opened = request[q].opened
          /\ [request[q] EXCEPT !.displaced = b].duplicate = request[q].duplicate
        BY <2>3, HandlerUpdates
    <2> QED BY <2>1, <2>2, <2>4 DEF Stays
<1>4. request'[r] = mine
    BY <1>2
<1>5. request' \in [Requests -> Handler]
    BY <1>2, <1>3, <1>4
<1>6. InFlight \subseteq Requests
    BY DEF InFlight
<1>7. /\ exchanger' = Moved(request[r].flow, g)
      /\ flows' = [flows EXCEPT ![g] = NewFlowFor(r)]
      /\ At(r, "convert")
    BY DEF ConvertTo
<1> QED BY <1>3, <1>4, <1>5, <1>6, <1>7

\* The row of the flow a conversion creates.
LEMMA NewFlowRow ==
    ASSUME TypeOK, NEW r \in Requests
    PROVE  NewFlowFor(r) \in FlowRow /\ NewFlowFor(r).status = "open"
<1>1. /\ request[r].copy \in FlowRow /\ request[r].duplicate \in BOOLEAN
      /\ request[r].copy.message \in BOOLEAN
    BY DEF TypeOK, Handler, FlowRow
<1>2. PICK b \in BOOLEAN : b = (request[r].copy.message \/ request[r].duplicate)
    OBVIOUS
<1>3. [request[r].copy EXCEPT !.status = "open", !.message = @ \/ request[r].duplicate]
        = [request[r].copy EXCEPT !.status = "open", !.message = b]
    BY <1>1, <1>2 DEF FlowRow
<1>4. /\ [request[r].copy EXCEPT !.status = "open", !.message = b] \in FlowRow
      /\ [request[r].copy EXCEPT !.status = "open", !.message = b].status = "open"
    BY <1>1 DEF FlowRow
<1>5. \/ NewFlowFor(r) = NewFlow
      \/ NewFlowFor(r) = [request[r].copy EXCEPT !.status = "open", !.message = b]
    BY <1>3 DEF NewFlowFor
<1> QED BY <1>4, <1>5, FlowRows

\* What a conversion that goes on leaves behind for its request.
LEMMA ConvertAfter ==
    ASSUME TypeOK, NEW r \in Requests, Convert(r)
    PROVE  \E g \in Flow, mine \in Handler :
              /\ ConvertTo(r, g, mine) /\ g = Converted(request[r].flow, r)
              /\ mine.step = "find" /\ mine.flow = g
              /\ mine.back = g \/ mine.back = request[r].back
              /\ mine.opened = request[r].opened /\ mine.displaced = request[r].displaced
              /\ UNCHANGED <<answer, known, events>> /\ ~request[r].duplicate
<1>1. request[r] \in Handler /\ request[r].flow \in Flow
    BY DEF TypeOK, Handler
<1>2. PICK g \in Flow : g = Converted(request[r].flow, r)
    BY <1>1, Flows
<1>3. PICK b \in Flow : b = IF request[r].flow[2] # r THEN g ELSE request[r].back
    BY <1>1, <1>2 DEF Handler
<1>4. PICK c \in FlowRow : c = IF request[r].flow[2] # r THEN NewFlowFor(r) ELSE request[r].copy
    BY <1>1, NewFlowRow DEF Handler
<1> DEFINE mine == [request[r] EXCEPT !.flow = g, !.step = "find", !.back = b, !.copy = c]
<1>5. ConvertTo(r, g, mine) /\ UNCHANGED <<answer, known, events>>
    <2>1. [request[r] EXCEPT !.flow = g, !.step = "find",
                             !.back = IF request[r].flow[2] # r THEN g ELSE @,
                             !.copy = IF request[r].flow[2] # r THEN NewFlowFor(r) ELSE @] = mine
        BY <1>1, <1>3, <1>4 DEF Handler
    <2>2. /\ ConvertTo(r, g, [request[r] EXCEPT !.flow = g, !.step = "find",
                             !.back = IF request[r].flow[2] # r THEN g ELSE @,
                             !.copy = IF request[r].flow[2] # r THEN NewFlowFor(r) ELSE @])
          /\ UNCHANGED <<answer, known, events>>
        BY ONLY <1>2, Convert(r) DEF Convert
    <2> HIDE DEF mine
    <2> QED BY ONLY <2>1, <2>2
<1>6. /\ mine \in Handler /\ mine.step = "find" /\ mine.flow = g /\ mine.back = b
      /\ mine.opened = request[r].opened /\ mine.displaced = request[r].displaced
    BY <1>1, <1>2, <1>3, <1>4 DEF Handler, Steps
<1> HIDE DEF mine
<1>7. ~request[r].duplicate
    BY DEF Convert
<1> QED BY <1>2, <1>3, <1>5, <1>6, <1>7

\* The two outcomes of linking: the app is told, or the link cannot be saved.
LEMMA LinkAfter ==
    ASSUME TypeOK, NEW r \in Requests, LinkAccount(r)
    PROVE  \E g \in Flow, mine \in Handler :
              /\ ConvertTo(r, g, mine) /\ g = Converted(request[r].flow, r)
              /\ mine.back = request[r].back
              /\ mine.opened = request[r].opened /\ mine.displaced = request[r].displaced
              /\ \/ /\ mine.step = "done" /\ mine.flow = request[r].flow
                    /\ answer' = [answer EXCEPT ![r] = "link"]
                    /\ known' = known \cup {g} /\ UNCHANGED events
                 \/ /\ mine.step = "error" /\ mine.flow = g
                    /\ Event /\ UNCHANGED <<answer, known>>
<1>1. request[r] \in Handler /\ request[r].flow \in Flow
    BY DEF TypeOK, Handler
<1>2. PICK g \in Flow : g = Converted(request[r].flow, r)
    BY <1>1, Flows
<1> DEFINE failed == [request[r] EXCEPT !.flow = g, !.step = "error"]
<1>3. \/ /\ ConvertTo(r, g, Ended(r))
         /\ answer' = [answer EXCEPT ![r] = "link"]
         /\ known' = known \cup {g} /\ UNCHANGED events
      \/ ConvertTo(r, g, failed) /\ Event /\ UNCHANGED <<answer, known>>
    BY ONLY LinkAccount(r), <1>2 DEF LinkAccount
<1>4. /\ failed \in Handler /\ failed.step = "error" /\ failed.flow = g
      /\ failed.back = request[r].back
      /\ failed.opened = request[r].opened /\ failed.displaced = request[r].displaced
    BY <1>1, <1>2 DEF Handler, Steps
<1>5. /\ Ended(r) \in Handler /\ Ended(r).step = "done" /\ Ended(r).flow = request[r].flow
      /\ Ended(r).back = request[r].back
      /\ Ended(r).opened = request[r].opened /\ Ended(r).displaced = request[r].displaced
    BY <1>1, EndedFields DEF Like
<1> HIDE DEF failed
<1>6. CASE /\ ConvertTo(r, g, Ended(r))
           /\ answer' = [answer EXCEPT ![r] = "link"]
           /\ known' = known \cup {g} /\ UNCHANGED events
    BY <1>2, <1>5, <1>6
<1>7. CASE ConvertTo(r, g, failed) /\ Event /\ UNCHANGED <<answer, known>>
    BY <1>2, <1>4, <1>7
<1> QED BY <1>3, <1>6, <1>7

-----------------------------------------------------------------------------
(* The inductive invariant *)

RequestOK(r) ==
    StepOK(r) /\ ReachOK(r) /\ KindOK(r) /\ ShownOK(r) /\ RedirectOK(r) /\ AnswerOK(r)

NativeInv ==
    /\ TypeOK
    /\ FreshInv
    /\ \A r \in Requests : RequestOK(r)

\* The rows after a step, as TypeOK has them.
RowsOK ==
    /\ flows \in [Flow -> FlowRow]
    /\ \A f \in Flow : flows[f].status = "none" => flows[f] = NoFlow
    /\ exchanger \in [exists : BOOLEAN, flow : Flow, session : Requests \cup {0}]
    /\ container \in [Requests -> {"none", "valid", "expired"}]
    /\ registered \in BOOLEAN
    /\ states \in SUBSET [flow : Flow, good : BOOLEAN]
    /\ known \in SUBSET Flow
    /\ events \in 0 .. MaxEvents
    /\ stale \in SUBSET Flow

\* What no step takes back.
Forward ==
    /\ exchanger'.exists => exchanger.exists
    /\ exchanger.session # 0 => exchanger'.session # 0
    /\ registered => registered'
    /\ \A f \in Flow : Named(f) /\ Shown(f) => Shown(f)'

\* What becomes of the requests in a step of r other than a conversion.
Moves(r) ==
    /\ request' \in [Requests -> Handler] /\ answer' \in [Requests -> Answers]
    /\ \A q \in Requests : q # r => request'[q] = request[q] /\ answer'[q] = answer[q]
    /\ request[r].opened => request'[r].opened
    /\ At(r, "done") => request'[r].step = "done"
    /\ request'[r].flow = request[r].flow \/ At(r, "idle")
    /\ Named(request'[r].flow) /\ Named(request'[r].back)

\* Such a step invents no flow and leaves the exchanger with its flow.
NoNewNames ==
    /\ \A f \in known' : Named(f)
    /\ \A s \in states' : Named(s.flow)
    /\ exchanger'.flow = exchanger.flow

\* The requests that do not act keep what they know.
LEMMA OthersKeep ==
    ASSUME NativeInv, NEW r \in Requests, Moves(r), Forward, NoNewNames, RowsOK',
           NEW q \in Requests, q # r
    PROVE  RequestOK(q)'
<1>1. request'[q] = request[q] /\ answer'[q] = answer[q]
    BY DEF Moves
<1>2. RequestOK(q)
    BY DEF NativeInv
<1>3. request[q].back \in Flow /\ Named(request[q].back)
    BY DEF NativeInv, TypeOK, Handler, Named
<1>4. StepOK(q)'
    BY <1>1, <1>2 DEF RequestOK, StepOK, At
<1>5. ReachOK(q)'
    BY <1>1, <1>2 DEF RequestOK, ReachOK, Reaches, InFlight, CodeForFlow, Forward, NoNewNames, RowsOK
<1>6. KindOK(q)'
    BY <1>1, <1>2 DEF RequestOK, KindOK, At, Forward
<1>7. ShownOK(q)'
    <2>1. Shown(request[q].back) => Shown(request[q].back)'
        BY <1>1, <1>3 DEF Forward, Shown
    <2> QED BY <1>1, <1>2, <2>1 DEF RequestOK, ShownOK, At, Shown
<1>8. RedirectOK(q)' /\ AnswerOK(q)'
    BY <1>1, <1>2 DEF RequestOK, RedirectOK, AnswerOK, Forward
<1> QED BY <1>4, <1>5, <1>6, <1>7, <1>8 DEF RequestOK

\* A flow that may still be created is not named either.
LEMMA FreshKept ==
    ASSUME NativeInv, NEW r \in Requests, Moves(r), NoNewNames
    PROVE  FreshInv'
<1>1. ASSUME NEW f, Named(f)' PROVE Named(f)
    <2>1. CASE \E q \in Requests : f = request'[q].flow \/ f = request'[q].back
        <3>1. PICK q \in Requests : f = request'[q].flow \/ f = request'[q].back
            BY <2>1
        <3>2. CASE q = r
            BY <3>1, <3>2 DEF Moves
        <3>3. CASE q # r
            BY <3>1, <3>3 DEF Moves, Named
        <3> QED BY <3>2, <3>3
    <2>2. CASE f \in known' \/ f = exchanger'.flow \/ \E s \in states' : f = s.flow
        BY <2>2 DEF NoNewNames, Named
    <2> QED BY <1>1, <2>1, <2>2 DEF Named
<1>2. ASSUME NEW q \in Requests, NEW k \in Kinds, Unborn(k, q)' PROVE Unborn(k, q)
    <2>1. CASE q = r
        <3>1. CASE request'[r].flow = request[r].flow
            BY <1>2, <2>1, <3>1 DEF Unborn, At, Moves
        <3>2. CASE At(r, "idle")
            BY <2>1, <3>2, Numbers DEF Unborn, NativeInv, RequestOK, StepOK, At
        <3> QED BY <3>1, <3>2 DEF Moves
    <2>2. CASE q # r
        BY <1>2, <2>2 DEF Moves, Unborn, At
    <2> QED BY <2>1, <2>2
<1> QED BY <1>1, <1>2 DEF FreshInv, NativeInv

\* So an action only has to say what it does to its own request.
LEMMA QuietStep ==
    ASSUME NativeInv, NEW r \in Requests, RowsOK', Moves(r), Forward, NoNewNames, RequestOK(r)',
           exchanger'.session \in {exchanger.session, r},
           exchanger'.session = r => request'[r].opened
    PROVE  NativeInv'
<1>1. \A q \in Requests : exchanger'.session = q => request'[q].opened
    BY Numbers DEF NativeInv, TypeOK, Moves
<1>2. TypeOK'
    BY <1>1 DEF TypeOK, RowsOK, Moves
<1>3. \A q \in Requests : RequestOK(q)'
    BY OthersKeep
<1> QED BY <1>2, <1>3, FreshKept DEF NativeInv

\* A flow's id is named by the request that works on it.
LEMMA OwnNames ==
    ASSUME NEW r \in Requests
    PROVE  Named(request[r].flow) /\ Named(request[r].back) /\ Named(exchanger.flow)
BY DEF Named

\* The next request has a flow that somebody named.
LEMMA Enters ==
    ASSUME NativeInv, NEW r \in Requests, NEW f, Named(f),
           At(r, "idle"), NEW label \in {"state", "codes", "pending"}, Typed(r, label),
           request'[r].flow = f, request'[r].back = f,
           request'[r].opened = request[r].opened, UNCHANGED answer
    PROVE  Moves(r) /\ RequestOK(r)'
<1>1. RequestOK(r) /\ answer \in [Requests -> Answers]
    BY DEF NativeInv, TypeOK
<1>2. answer'[r] = "none" /\ ~request'[r].opened
    BY <1>1 DEF RequestOK, StepOK, At
<1>3. f # <<"login", r>>
    <2>1. Unborn("login", r)
        BY <1>1, Numbers DEF RequestOK, StepOK, Unborn, At
    <2> QED BY <2>1 DEF NativeInv, FreshInv, Kinds
<1>4. Moves(r)
    BY <1>1, <1>2 DEF Moves, Typed, At
<1>5. StepOK(r)' /\ ReachOK(r)' /\ RedirectOK(r)' /\ AnswerOK(r)' /\ ShownOK(r)'
    BY <1>2 DEF Typed, StepOK, ReachOK, RedirectOK, AnswerOK, ShownOK, At, Inside
<1>6. KindOK(r)'
    BY <1>3 DEF Typed, KindOK, At
<1> QED BY <1>4, <1>5, <1>6 DEF RequestOK

\* A request in flight has no answer and is not done.
LEMMA NotYet ==
    ASSUME NativeInv, NEW r \in InFlight
    PROVE  /\ r \in Requests /\ answer[r] = "none" /\ ~At(r, "done") /\ ~At(r, "idle")
           /\ RequestOK(r)
<1>1. r \in Requests /\ ~At(r, "done") /\ ~At(r, "idle")
    BY DEF InFlight, At
<1> QED BY <1>1 DEF NativeInv, RequestOK, StepOK

\* A request in flight goes on.
LEMMA GoesOn ==
    ASSUME NativeInv, RowsOK', Forward, NoNewNames, NEW r \in InFlight,
           NEW label \in Steps \ {"idle", "done", "errorCodes"},
           Typed(r, label), Like(request'[r], request[r]), UNCHANGED answer,
           label \in Inside => request[r].opened,
           ~At(r, "error"), ~At(r, "errorCodes"),
           label = "create" => request[r].flow[1] = "registration",
           label = "convert" => /\ request[r].flow # <<"login", r>>
                                /\ request[r].flow[1] = "registration" =>
                                       registered' \/ request'[r].duplicate
    PROVE  Moves(r) /\ RequestOK(r)'
<1>1. /\ r \in Requests /\ answer \in [Requests -> Answers]
      /\ answer[r] = "none" /\ ~At(r, "done") /\ ~At(r, "idle") /\ RequestOK(r)
    BY NotYet DEF NativeInv, TypeOK
<1>2. Moves(r)
    BY <1>1, OwnNames DEF Moves, Typed, Like
<1>3. StepOK(r)' /\ RedirectOK(r)' /\ AnswerOK(r)' /\ ShownOK(r)'
    BY <1>1 DEF Typed, Like, StepOK, RedirectOK, AnswerOK, ShownOK, At
<1>4. ReachOK(r)'
    BY <1>1 DEF Typed, Like, RequestOK, ReachOK, Reaches, CodeForFlow, Forward, NoNewNames, RowsOK
<1>5. KindOK(r)'
    BY <1>1 DEF Typed, Like, RequestOK, KindOK, At, Forward
<1> QED BY <1>2, <1>3, <1>4, <1>5 DEF RequestOK

\* A request in flight is answered.
LEMMA Answered ==
    ASSUME NativeInv, NEW r \in InFlight, NEW a \in Answers,
           Typed(r, "done"), Like(request'[r], request[r]),
           answer' = [answer EXCEPT ![r] = a],
           a = "errorRedirect" => Shown(request[r].back)',
           a = "redirect" =>
               ~exchanger'.exists \/ exchanger'.session # 0 \/ request[r].displaced,
           a \in {"token", "errorBody"} /\ request[r].opened =>
               \/ ~exchanger'.exists \/ request'[r].blind \/ request[r].displaced
               \/ a = "errorBody" /\ request[r].flow # request[r].back
    PROVE  Moves(r) /\ RequestOK(r)'
<1>1. r \in Requests /\ answer \in [Requests -> Answers] /\ ~At(r, "idle")
    BY NotYet DEF NativeInv, TypeOK
<1>2. answer'[r] = a
    BY <1>1
<1>3. Moves(r)
    BY <1>1, OwnNames DEF Moves, Typed, Like
<1>4. StepOK(r)' /\ ReachOK(r)' /\ KindOK(r)'
    BY DEF Typed, Like, StepOK, ReachOK, KindOK, At, Inside, InFlight
<1>5. RedirectOK(r)' /\ AnswerOK(r)'
    BY <1>2 DEF Typed, Like, RedirectOK, AnswerOK
<1>6. ShownOK(r)'
    BY <1>2 DEF Typed, Like, ShownOK, At, Shown
<1> QED BY <1>3, <1>4, <1>5, <1>6 DEF RequestOK

\* A step that leaves the rows alone.
LEMMA RowsStay ==
    ASSUME NativeInv, UNCHANGED <<rows, states, stale>>, events' \in 0 .. MaxEvents,
           known' \subseteq known \cup {f \in Flow : Named(f)}
    PROVE  /\ RowsOK' /\ Forward /\ NoNewNames
           /\ exchanger'.session = exchanger.session
<1>1. RowsOK'
    BY DEF NativeInv, TypeOK, RowsOK, rows
<1>2. Forward
    BY DEF Forward, Shown, rows
<1>3. NoNewNames
    BY DEF NoNewNames, Named, rows
<1> QED BY <1>1, <1>2, <1>3 DEF rows

\* Counting events.
LEMMA Events ==
    ASSUME NativeInv, Event \/ UNCHANGED events
    PROVE  events' \in 0 .. MaxEvents
BY NativeAssumption DEF NativeInv, TypeOK, Event

\* A step that leaves the rows alone is one of these.
LEMMA StillStep ==
    ASSUME NativeInv, NEW r \in Requests, UNCHANGED <<rows, states, stale>>,
           Event \/ UNCHANGED events, known' \subseteq known \cup {f \in Flow : Named(f)},
           Moves(r), RequestOK(r)'
    PROVE  NativeInv'
<1>1. /\ RowsOK' /\ Forward /\ NoNewNames /\ exchanger'.session = exchanger.session
    BY RowsStay, Events
<1>2. exchanger'.session = r => request'[r].opened
    BY <1>1 DEF NativeInv, TypeOK, Moves
<1> QED BY <1>1, <1>2, QuietStep

-----------------------------------------------------------------------------
(* The actions *)

\* The app submits a flow it was told of.
LEMMA SubmitKeeps ==
    ASSUME NativeInv, NEW r \in Requests, NEW f \in known, Submit(r, f)
    PROVE  NativeInv'
<1>1. f \in Flow /\ Named(f) /\ TypeOK
    BY DEF NativeInv, TypeOK, Named
<1>2. /\ Arrives(r, f, "state", FALSE)
      /\ UNCHANGED <<rows, states, stale>> /\ UNCHANGED <<known, events, answer>>
    BY DEF Submit, outside
<1>3. Moves(r) /\ RequestOK(r)'
    BY <1>1, <1>2, ArrivesAfter, Enters DEF Steps
<1> QED BY <1>2, <1>3, StillStep

\* The browser comes back with a state that was sent to the provider.
LEMMA CallbackKeeps ==
    ASSUME NativeInv, NEW r \in Requests, NEW s \in states, Callback(r, s)
    PROVE  NativeInv'
<1>1. s.flow \in Flow /\ s.good \in BOOLEAN /\ Named(s.flow) /\ TypeOK
    BY DEF NativeInv, TypeOK, Named
<1>2. /\ Arrives(r, s.flow, "codes", s.good)
      /\ UNCHANGED <<rows, states, stale>> /\ UNCHANGED <<known, events, answer>>
    BY DEF Callback, outside
<1>3. Moves(r) /\ RequestOK(r)'
    BY <1>1, <1>2, ArrivesAfter, Enters DEF Steps
<1> QED BY <1>2, <1>3, StillStep

\* The app asks with its codes.
LEMMA ExchangeCodeKeeps ==
    ASSUME NativeInv, NEW r \in Requests, ExchangeCode(r)
    PROVE  NativeInv'
<1>1. exchanger.flow \in Flow /\ Named(exchanger.flow) /\ TypeOK
    BY DEF NativeInv, TypeOK, Named
<1>2. /\ Arrives(r, exchanger.flow, "pending", FALSE)
      /\ UNCHANGED <<rows, states, stale>> /\ UNCHANGED <<known, events, answer>>
    BY DEF ExchangeCode, outside
<1>3. Moves(r) /\ RequestOK(r)'
    BY <1>1, <1>2, ArrivesAfter, Enters DEF Steps
<1> QED BY <1>2, <1>3, StillStep

\* Where a request is in flight.
LEMMA Flying ==
    ASSUME NEW r \in Requests, NEW label \in Steps \ {"idle", "done"}, At(r, label)
    PROVE  r \in InFlight
BY DEF At, InFlight

\* The state and the container touch neither flows nor the exchanger.
LEMMA GenerateStateKeeps ==
    ASSUME NativeInv, NEW r \in Requests, GenerateStateAndPause(r)
    PROVE  NativeInv'
<1>1. r \in InFlight /\ TypeOK /\ ~At(r, "error") /\ ~At(r, "errorCodes")
    BY Flying DEF GenerateStateAndPause, Steps, NativeInv, At
<1>2. Typed(r, "save") /\ Like(request'[r], request[r])
    BY <1>1, GenerateAfter
<1>3. /\ UNCHANGED <<flows, exchanger, registered, states, known, answer, stale>>
      /\ container' = [container EXCEPT ![r] = "valid"]
      /\ Event \/ UNCHANGED events
    BY DEF GenerateStateAndPause, outside
<1>4. RowsOK' /\ Forward /\ NoNewNames
    <2>1. RowsOK'
        BY <1>3, Events DEF NativeInv, TypeOK, RowsOK
    <2>2. Forward
        BY <1>3 DEF Forward, Shown
    <2>3. NoNewNames
        BY <1>3 DEF NoNewNames, Named
    <2> QED BY <2>1, <2>2, <2>3
<1>5. Moves(r) /\ RequestOK(r)'
    BY <1>1, <1>2, <1>3, <1>4, GoesOn DEF Steps, Inside
<1>6. exchanger'.session = r => request'[r].opened
    BY <1>3, <1>5 DEF NativeInv, TypeOK, Moves
<1> QED BY <1>3, <1>4, <1>5, <1>6, QuietStep

\* The app is sent to the provider: an error that is overwritten is remembered.
LEMMA SaveFlowKeeps ==
    ASSUME NativeInv, NEW r \in Requests, SaveFlow(r)
    PROVE  NativeInv'
<1>1. r \in InFlight /\ TypeOK
    BY Flying DEF SaveFlow, Steps, NativeInv
<1>2. request[r].flow \in Flow /\ request[r].copy \in FlowRow /\ request[r].good \in BOOLEAN
    BY <1>1 DEF TypeOK, Handler
<1>3. PICK f \in Flow : f = request[r].flow
    BY <1>2
<1>4. PICK x \in FlowRow : x = [request[r].copy EXCEPT !.status = flows[f].status]
    BY <1>1, <1>2 DEF TypeOK, FlowRow
<1>5. x.status = flows[f].status /\ x.message = request[r].copy.message
    BY <1>2, <1>4 DEF FlowRow
<1>6. /\ flows[f].status # "none" /\ flows' = [flows EXCEPT ![f] = x]
      /\ UNCHANGED <<exchanger, container, registered, known, events>>
    BY <1>3, <1>4 DEF SaveFlow, Update
<1>7. stale' = IF flows[f].message /\ ~x.message THEN stale \cup {f} ELSE stale
    BY <1>3, <1>5 DEF SaveFlow
<1>8. states' = states \cup {[flow |-> f, good |-> request[r].good]}
    BY <1>3 DEF SaveFlow
<1>9. /\ Typed(r, "done") /\ Like(request'[r], request[r])
      /\ answer' = [answer EXCEPT ![r] = "location"]
    BY <1>1, FinishAfter DEF SaveFlow, Answers
<1>10. RowsOK'
    BY <1>1, <1>2, <1>5, <1>6, <1>7, <1>8 DEF TypeOK, RowsOK
<1>11. Forward
    <2>1. \A h \in Flow : Shown(h) => Shown(h)'
        BY <1>1, <1>5, <1>6, <1>7 DEF TypeOK, Shown
    <2> QED BY <1>6, <2>1 DEF Forward
<1>12. NoNewNames
    BY <1>3, <1>6, <1>8, OwnNames DEF NoNewNames, Named
<1>13. Moves(r) /\ RequestOK(r)'
    BY <1>1, <1>9, Answered DEF Answers
<1>14. exchanger'.session = r => request'[r].opened
    BY <1>6, <1>13 DEF NativeInv, TypeOK, Moves
<1> QED BY <1>6, <1>10, <1>11, <1>12, <1>13, <1>14, QuietStep

\* An answer with which nothing is promised.
LEMMA EndsPlainly ==
    ASSUME NativeInv, NEW r \in InFlight,
           NEW a \in {"none", "location", "page", "session", "pending", "notFound"},
           Finish(r, a), UNCHANGED <<rows, states, stale>>,
           Event \/ UNCHANGED events, known' \subseteq known \cup {f \in Flow : Named(f)}
    PROVE  NativeInv'
<1>1. r \in Requests /\ TypeOK /\ a \in Answers
    BY NotYet DEF NativeInv, Answers
<1>2. /\ Typed(r, "done") /\ Like(request'[r], request[r])
      /\ answer' = [answer EXCEPT ![r] = a]
    BY <1>1, FinishAfter
<1>3. Moves(r) /\ RequestOK(r)'
    BY <1>1, <1>2, Answered
<1> QED BY <1>1, <1>3, StillStep

\* The exchanger has the flow of a callback that is let in.
LEMMA ValidateCallbackKeeps ==
    ASSUME NativeInv, NEW r \in Requests, ValidateCallback(r)
    PROVE  NativeInv'
<1>1. r \in InFlight /\ TypeOK /\ ~At(r, "error") /\ ~At(r, "errorCodes")
    BY Flying DEF ValidateCallback, Steps, NativeInv, At
<1>2. UNCHANGED <<rows, states, stale>> /\ UNCHANGED <<known, events>>
    BY DEF ValidateCallback, outside
<1>3. CASE Finish(r, "page")
    BY <1>1, <1>2, <1>3, EndsPlainly
<1>4. CASE /\ CodeForFlow(request[r].flow)
           /\ request' = [request EXCEPT ![r].step = "continue", ![r].opened = TRUE]
           /\ UNCHANGED answer
    <2>1. /\ Typed(r, "continue") /\ request'[r].opened
          /\ request'[r].flow = request[r].flow /\ request'[r].back = request[r].back
        BY <1>1, <1>4, LetInAfter
    <2>2. /\ answer[r] = "none" /\ ~At(r, "done") /\ ~At(r, "idle") /\ RequestOK(r)
          /\ answer \in [Requests -> Answers]
        BY <1>1, NotYet DEF TypeOK
    <2>3. Moves(r)
        BY <1>4, <2>1, <2>2, OwnNames DEF Moves, Typed
    <2>4. StepOK(r)' /\ RedirectOK(r)' /\ AnswerOK(r)' /\ ShownOK(r)'
        BY <1>4, <2>1, <2>2 DEF Typed, StepOK, RedirectOK, AnswerOK, ShownOK, At
    <2>5. ReachOK(r)'
        BY <1>2, <1>4, <2>1 DEF ReachOK, Reaches, CodeForFlow, rows
    <2>6. KindOK(r)'
        BY <1>1, <1>2, <2>1, <2>2 DEF Typed, RequestOK, KindOK, At, rows
    <2> QED BY <1>2, <2>3, <2>4, <2>5, <2>6, StillStep DEF RequestOK
<1> QED BY <1>3, <1>4 DEF ValidateCallback

\* A callback that was let in is resumed, or ends on the error page.
LEMMA ContinueContainerKeeps ==
    ASSUME NativeInv, NEW r \in Requests, ContinueContainer(r)
    PROVE  NativeInv'
<1>1. /\ r \in InFlight /\ TypeOK /\ request[r].opened
      /\ ~At(r, "error") /\ ~At(r, "errorCodes")
    BY Flying DEF ContinueContainer, Steps, NativeInv, RequestOK, StepOK, At, Inside
<1>2. UNCHANGED <<rows, states, stale>> /\ UNCHANGED <<known, events>>
    BY DEF ContinueContainer, outside
<1>3. CASE Finish(r, "page")
    BY <1>1, <1>2, <1>3, EndsPlainly
<1>4. CASE Continue(r, "touch") /\ UNCHANGED answer
    <2>1. Typed(r, "touch") /\ Like(request'[r], request[r])
        BY <1>1, <1>4, ContinueAfter DEF Steps
    <2>2. RowsOK' /\ Forward /\ NoNewNames
        BY <1>2, RowsStay, Events
    <2>3. Moves(r) /\ RequestOK(r)'
        BY <1>1, <1>4, <2>1, <2>2, GoesOn DEF Steps
    <2> QED BY <1>2, <2>3, StillStep
<1> QED BY <1>3, <1>4 DEF ContinueContainer

\* Another minute for the container, and the provider's answer.
LEMMA SetContinuitySessionExpiryKeeps ==
    ASSUME NativeInv, NEW r \in Requests, SetContinuitySessionExpiry(r)
    PROVE  NativeInv'
<1>1. /\ r \in InFlight /\ TypeOK /\ request[r].opened
      /\ ~At(r, "error") /\ ~At(r, "errorCodes")
    BY Flying DEF SetContinuitySessionExpiry, Steps, NativeInv, RequestOK, StepOK, At, Inside
<1>2. UNCHANGED <<flows, exchanger, registered, states, known, answer, events, stale>>
    BY DEF SetContinuitySessionExpiry, outside
<1>3. PICK label \in {"find", "error"} : Continue(r, label)
    BY DEF SetContinuitySessionExpiry, ExchangeProviderCode
<1>4. Typed(r, label) /\ Like(request'[r], request[r])
    BY <1>1, <1>3, ContinueAfter DEF Steps
<1>5. container' \in [Requests -> {"none", "valid", "expired"}]
    BY <1>1 DEF SetContinuitySessionExpiry, TypeOK
<1>6. RowsOK' /\ Forward /\ NoNewNames
    <2>1. RowsOK'
        BY <1>1, <1>2, <1>5 DEF TypeOK, RowsOK
    <2>2. Forward
        BY <1>2 DEF Forward, Shown
    <2>3. NoNewNames
        BY <1>2 DEF NoNewNames, Named
    <2> QED BY <2>1, <2>2, <2>3
<1>7. Moves(r) /\ RequestOK(r)'
    BY <1>1, <1>2, <1>4, <1>6, GoesOn DEF Steps
<1>8. exchanger'.session = r => request'[r].opened
    BY <1>2, <1>7 DEF NativeInv, TypeOK, Moves
<1> QED BY <1>2, <1>6, <1>7, <1>8, QuietStep

\* A login flow that is not for an unknown user is not converted again.
LEMMA FindIdentityKeeps ==
    ASSUME NativeInv, NEW r \in Requests, FindIdentity(r)
    PROVE  NativeInv'
<1>1. /\ r \in InFlight /\ TypeOK /\ request[r].opened /\ KindOK(r) /\ ~At(r, "done")
      /\ request[r].flow \in Flow /\ At(r, "find") /\ ~At(r, "error") /\ ~At(r, "errorCodes")
    BY Flying DEF FindIdentity, Steps, NativeInv, RequestOK, StepOK, At, Inside, TypeOK, Handler
<1>2. UNCHANGED <<rows, states, stale>> /\ UNCHANGED <<known, events, answer>>
    BY DEF FindIdentity, outside
<1>3. RowsOK' /\ Forward /\ NoNewNames
    BY <1>2, RowsStay, Events
<1>4. PICK label \in {"convert", "session", "create"} :
          /\ Continue(r, label)
          /\ label = "convert" => (request[r].flow[1] = "login") # registered
          /\ label = "create" => request[r].flow[1] # "login"
    BY DEF FindIdentity
<1>5. request[r].flow[1] \in {"login", "registration"} /\ registered \in BOOLEAN
    BY <1>1, Flows DEF Kinds, TypeOK
<1>6. label = "create" => request[r].flow[1] = "registration"
    BY <1>4, <1>5
<1>7. label = "convert" => /\ request[r].flow # <<"login", r>>
                           /\ request[r].flow[1] = "registration" => registered'
    BY <1>1, <1>2, <1>4, <1>5 DEF KindOK, rows, At
<1>8. Typed(r, label) /\ Like(request'[r], request[r])
    BY <1>1, <1>4, ContinueAfter DEF Steps
<1>9. Moves(r) /\ RequestOK(r)'
    BY <1>1, <1>2, <1>3, <1>6, <1>7, <1>8, GoesOn DEF Steps
<1> QED BY <1>2, <1>9, StillStep

\* A duplicate, which makes the callback end, or the identity, which stays.
LEMMA CreateIdentityKeeps ==
    ASSUME NativeInv, NEW r \in Requests, CreateIdentity(r)
    PROVE  NativeInv'
<1>1. /\ r \in InFlight /\ TypeOK /\ request[r].opened
      /\ request[r].flow[1] = "registration" /\ ~At(r, "error") /\ ~At(r, "errorCodes")
    BY Flying DEF CreateIdentity, Steps, NativeInv, RequestOK, StepOK, KindOK, At, Inside
<1>2. /\ UNCHANGED <<flows, exchanger, container, states, known, answer, events, stale>>
      /\ registered' \in BOOLEAN /\ (registered => registered')
    BY <1>1 DEF CreateIdentity, outside, TypeOK
<1>3. PICK label \in {"convert", "session"} :
          /\ Typed(r, label) /\ Like(request'[r], request[r])
          /\ label = "convert" => request'[r].duplicate
    BY <1>1, CreateAfter
<1>4. Typed(r, label) /\ Like(request'[r], request[r])
    BY <1>3
<1>5. RowsOK' /\ Forward /\ NoNewNames
    <2>1. RowsOK'
        BY <1>1, <1>2 DEF TypeOK, RowsOK
    <2>2. Forward
        BY <1>2 DEF Forward, Shown
    <2>3. NoNewNames
        BY <1>2 DEF NoNewNames, Named
    <2> QED BY <2>1, <2>2, <2>3
<1>6. request[r].flow # <<"login", r>>
    BY <1>1
<1>7. Moves(r) /\ RequestOK(r)'
    BY <1>1, <1>2, <1>3, <1>4, <1>5, <1>6, GoesOn DEF Steps
<1>8. exchanger'.session = r => request'[r].opened
    BY <1>2, <1>7 DEF NativeInv, TypeOK, Moves
<1> QED BY <1>2, <1>5, <1>7, <1>8, QuietStep

\* Without the codes the token goes to the browser: the exchanger was lost, or its
\* look-up failed.
LEMMA IssueSessionKeeps ==
    ASSUME NativeInv, NEW r \in Requests, IssueSession(r)
    PROVE  NativeInv'
<1>1. /\ r \in InFlight /\ TypeOK /\ request[r].opened
      /\ Reaches(r) /\ "token" \in Answers /\ ~At(r, "error") /\ ~At(r, "errorCodes")
    BY Flying DEF IssueSession, Steps, NativeInv, RequestOK, StepOK, ReachOK, At, Inside, Answers
<1>2. UNCHANGED <<rows, states, known, stale>> /\ (Event \/ UNCHANGED events)
    BY DEF IssueSession, outside
<1>3. CASE Continue(r, "update") /\ UNCHANGED answer
    <2>1. Typed(r, "update") /\ Like(request'[r], request[r])
        BY <1>1, <1>3, ContinueAfter DEF Steps
    <2>2. RowsOK' /\ Forward /\ NoNewNames
        BY <1>2, RowsStay, Events
    <2>3. Moves(r) /\ RequestOK(r)'
        BY <1>1, <1>3, <2>1, <2>2, GoesOn DEF Steps
    <2> QED BY <1>2, <2>3, StillStep
<1>4. CASE ~CodeForFlow(request[r].flow) /\ Finish(r, "token")
    <2>1. ~exchanger'.exists \/ request[r].displaced
        BY <1>1, <1>2, <1>4 DEF Reaches, rows
    <2>2. /\ Typed(r, "done") /\ Like(request'[r], request[r])
          /\ answer' = [answer EXCEPT ![r] = "token"]
        BY <1>1, <1>4, FinishAfter
    <2>3. Moves(r) /\ RequestOK(r)'
        BY <1>1, <2>1, <2>2, Answered
    <2> QED BY <1>2, <2>3, StillStep
<1>5. CASE FinishBlind(r, "token")
    <2>1. /\ Typed(r, "done") /\ Like(request'[r], request[r]) /\ request'[r].blind
          /\ answer' = [answer EXCEPT ![r] = "token"]
        BY <1>1, <1>5, FinishBlindAfter
    <2>2. Moves(r) /\ RequestOK(r)'
        BY <1>1, <2>1, Answered
    <2> QED BY <1>2, <2>2, StillStep
<1> QED BY <1>3, <1>4, <1>5 DEF IssueSession

\* The app is sent back: the exchanger has a session now, or was lost.
LEMMA UpdateSessionKeeps ==
    ASSUME NativeInv, NEW r \in Requests, UpdateSessionOnExchanger(r)
    PROVE  NativeInv'
<1>1. /\ r \in InFlight /\ TypeOK /\ request[r].opened
      /\ Reaches(r) /\ "redirect" \in Answers
    BY Flying DEF UpdateSessionOnExchanger, Steps, NativeInv, RequestOK, StepOK, ReachOK, At,
                  Inside, Answers
<1>2. UNCHANGED <<flows, container, registered, states, known, events, stale>>
    BY DEF UpdateSessionOnExchanger, outside
<1>3. exchanger' = IF CodeForFlow(request[r].flow)
                   THEN [exchanger EXCEPT !.session = r] ELSE exchanger
    BY DEF UpdateSessionOnExchanger, SessionFlow
<1>4. /\ exchanger' \in [exists : BOOLEAN, flow : Flow, session : Requests \cup {0}]
      /\ exchanger'.exists = exchanger.exists /\ exchanger'.flow = exchanger.flow
      /\ exchanger'.session = IF CodeForFlow(request[r].flow) THEN r ELSE exchanger.session
    BY <1>1, <1>3 DEF TypeOK
<1>5. /\ Typed(r, "done") /\ Like(request'[r], request[r])
      /\ answer' = [answer EXCEPT ![r] = "redirect"]
    BY <1>1, FinishAfter DEF UpdateSessionOnExchanger
<1>6. RowsOK'
    BY <1>1, <1>2, <1>4 DEF TypeOK, RowsOK
<1>7. Forward
    BY <1>2, <1>4, Numbers DEF Forward, Shown
<1>8. NoNewNames
    BY <1>2, <1>4 DEF NoNewNames, Named
<1>9. ~exchanger'.exists \/ exchanger'.session # 0 \/ request[r].displaced
    BY <1>1, <1>4, Numbers DEF Reaches
<1>10. Moves(r) /\ RequestOK(r)'
    BY <1>1, <1>5, <1>9, Answered
<1>11. request'[r].opened /\ exchanger'.session \in {exchanger.session, r}
    BY <1>1, <1>4, <1>5 DEF Like
<1> QED BY <1>6, <1>7, <1>8, <1>10, <1>11, QuietStep

\* The error is in the row before the app is sent back.
LEMMA SaveErrorKeeps ==
    ASSUME NativeInv, NEW r \in Requests, SaveError(r)
    PROVE  NativeInv'
<1>1. r \in InFlight /\ TypeOK
    BY Flying DEF SaveError, Steps, NativeInv
<1>2. request[r].back \in Flow /\ request[r].copy \in FlowRow
    BY <1>1 DEF TypeOK, Handler
<1>3. PICK f \in Flow : f = request[r].back
    BY <1>2
<1>4. PICK x \in FlowRow :
          x = [[request[r].copy EXCEPT !.message = TRUE] EXCEPT !.status = flows[f].status]
    BY <1>1, <1>2 DEF TypeOK, FlowRow
<1>5. x.status = flows[f].status /\ x.message
    BY <1>2, <1>4 DEF FlowRow
<1>6. /\ flows[f].status # "none" /\ flows' = [flows EXCEPT ![f] = x]
      /\ UNCHANGED <<exchanger, container, registered, states, known, answer, events, stale>>
    BY <1>3, <1>4 DEF SaveError, Update, outside
<1>7. Typed(r, "errorCodes") /\ Like(request'[r], request[r])
    BY <1>1, ContinueAfter DEF SaveError, Steps
<1>8. RowsOK'
    BY <1>1, <1>2, <1>5, <1>6 DEF TypeOK, RowsOK
<1>9. \A h \in Flow : (Shown(h) => Shown(h)') /\ (h = f => Shown(h)')
    BY <1>1, <1>5, <1>6 DEF TypeOK, Shown
<1>10. Forward
    BY <1>6, <1>9 DEF Forward
<1>11. NoNewNames
    BY <1>6 DEF NoNewNames, Named
<1>12. /\ answer \in [Requests -> Answers]
       /\ answer[r] = "none" /\ ~At(r, "done") /\ ~At(r, "idle") /\ RequestOK(r)
    BY <1>1, NotYet DEF TypeOK
<1>13. Moves(r)
    BY <1>6, <1>7, <1>12, OwnNames DEF Moves, Typed, Like
<1>14. StepOK(r)' /\ RedirectOK(r)' /\ AnswerOK(r)'
    BY <1>6, <1>7, <1>12 DEF Typed, Like, StepOK, RedirectOK, AnswerOK, At, Inside
<1>15. ReachOK(r)'
    BY <1>1, <1>6, <1>7, <1>12 DEF Like, RequestOK, ReachOK, Reaches, CodeForFlow
<1>16. KindOK(r)'
    BY <1>6, <1>7, <1>12 DEF Typed, Like, RequestOK, KindOK, At
<1>17. ShownOK(r)'
    BY <1>3, <1>7, <1>9 DEF Like, ShownOK, Shown
<1>18. RequestOK(r)'
    BY <1>14, <1>15, <1>16, <1>17 DEF RequestOK
<1>19. exchanger'.session = r => request'[r].opened
    BY <1>6, <1>13 DEF NativeInv, TypeOK, Moves
<1> QED BY <1>6, <1>8, <1>10, <1>11, <1>13, <1>18, <1>19, QuietStep

\* The app is sent back with the error in the row; the error goes to the browser
\* when the exchanger was lost, has left that flow, or its look-up failed.
LEMMA RedirectErrorKeeps ==
    ASSUME NativeInv, NEW r \in Requests, RedirectError(r)
    PROVE  NativeInv'
<1>1. /\ r \in InFlight /\ TypeOK /\ RequestOK(r) /\ request[r].back \in Flow
      /\ Shown(request[r].back) /\ {"errorRedirect", "errorBody"} \subseteq Answers
    BY Flying DEF RedirectError, Steps, NativeInv, RequestOK, ShownOK, Answers, TypeOK, Handler
<1>2. /\ UNCHANGED <<rows, states, stale>> /\ (Event \/ UNCHANGED events)
      /\ known' \subseteq known \cup {f \in Flow : Named(f)}
    BY <1>1, OwnNames DEF RedirectError
<1>3. CASE Finish(r, "errorRedirect")
    <2>1. Shown(request[r].back)'
        <3>1. PICK f \in Flow : f = request[r].back
            BY <1>1
        <3>2. /\ Typed(r, "done") /\ Like(request'[r], request[r])
            BY <1>1, <1>3, FinishAfter
        <3> QED BY <1>1, <1>2, <3>2 DEF Shown, rows, Like
    <2>2. /\ Typed(r, "done") /\ Like(request'[r], request[r])
          /\ answer' = [answer EXCEPT ![r] = "errorRedirect"]
        BY <1>1, <1>3, FinishAfter
    <2>3. Moves(r) /\ RequestOK(r)'
        BY <1>1, <2>1, <2>2, Answered
    <2> QED BY <1>2, <2>3, StillStep
<1>4. CASE ~CodeForFlow(request[r].back) /\ Finish(r, "errorBody")
    <2>1. request[r].opened => \/ ~exchanger'.exists \/ request[r].displaced
                               \/ request[r].flow # request[r].back
        BY <1>1, <1>2, <1>4 DEF RequestOK, ReachOK, Reaches, rows
    <2>2. /\ Typed(r, "done") /\ Like(request'[r], request[r])
          /\ answer' = [answer EXCEPT ![r] = "errorBody"]
        BY <1>1, <1>4, FinishAfter
    <2>3. Moves(r) /\ RequestOK(r)'
        BY <1>1, <2>1, <2>2, Answered
    <2> QED BY <1>2, <2>3, StillStep
<1>5. CASE FinishBlind(r, "errorBody")
    <2>1. /\ Typed(r, "done") /\ Like(request'[r], request[r]) /\ request'[r].blind
          /\ answer' = [answer EXCEPT ![r] = "errorBody"]
        BY <1>1, <1>5, FinishBlindAfter
    <2>2. Moves(r) /\ RequestOK(r)'
        BY <1>1, <2>1, Answered
    <2> QED BY <1>2, <2>2, StillStep
<1> QED BY <1>3, <1>4, <1>5 DEF RedirectError

\* The app is given the session, or told the flow of the exchanger.
LEMMA ExchangeKeeps ==
    ASSUME NativeInv, NEW r \in Requests, GetExchangerFromCode(r) \/ ExchangePending(r)
    PROVE  NativeInv'
<1>1. r \in InFlight /\ TypeOK /\ exchanger.flow \in Flow
    BY Flying DEF GetExchangerFromCode, ExchangePending, Steps, NativeInv, TypeOK
<1>2. /\ UNCHANGED <<rows, states, stale>> /\ UNCHANGED events
      /\ known' \subseteq known \cup {f \in Flow : Named(f)}
    BY <1>1, OwnNames DEF GetExchangerFromCode, ExchangePending, outside
<1>3. PICK a \in {"session", "pending", "notFound"} : Finish(r, a)
    BY DEF GetExchangerFromCode, ExchangePending
<1> QED BY <1>1, <1>2, <1>3, EndsPlainly

\* An error that is no part of a flow is the answer.
LEMMA ForwardErrorKeeps ==
    ASSUME NativeInv, NEW r \in Requests, ForwardError(r)
    PROVE  NativeInv'
<1>1. r \in InFlight
    BY Flying DEF ForwardError, Steps
<1>2. UNCHANGED <<rows, states, stale>> /\ UNCHANGED <<known, events>> /\ Finish(r, "page")
    BY DEF ForwardError, outside
<1> QED BY <1>1, <1>2, EndsPlainly

\* An error leads to WriteFlowError, or is taken for an unknown user.
LEMMA FailsOver ==
    ASSUME NativeInv, NEW r \in InFlight, NEW label \in {"error", "create"},
           Continue(r, label), ~At(r, "error"), ~At(r, "errorCodes"),
           label = "create" => At(r, "find") /\ request[r].flow[1] = "registration",
           UNCHANGED <<rows, states, known, stale>>, UNCHANGED answer, Event \/ UNCHANGED events
    PROVE  NativeInv'
<1>1. r \in Requests /\ TypeOK /\ RequestOK(r)
    BY NotYet DEF NativeInv
<1>2. Typed(r, label) /\ Like(request'[r], request[r])
    BY <1>1, ContinueAfter DEF Steps
<1>3. RowsOK' /\ Forward /\ NoNewNames
    BY RowsStay, Events
<1>4. label \in Inside => request[r].opened
    BY <1>1 DEF RequestOK, StepOK, Inside, At
<1>5. Moves(r) /\ RequestOK(r)'
    BY <1>2, <1>3, <1>4, GoesOn DEF Steps
<1> QED BY <1>1, <1>5, StillStep

\* The flow of a submission is gone.
LEMMA CannotSaveKeeps ==
    ASSUME NativeInv, NEW r \in Requests, CannotSave(r)
    PROVE  NativeInv'
<1>1. r \in InFlight /\ ~At(r, "error") /\ ~At(r, "errorCodes")
    BY Flying DEF CannotSave, Steps, At
<1>2. /\ UNCHANGED <<rows, states, known, stale>> /\ UNCHANGED answer /\ UNCHANGED events
      /\ Continue(r, "error")
    BY DEF CannotSave, outside
<1> QED BY <1>1, <1>2, FailsOver

\* A failed statement leads to WriteFlowError, to the error page, or to the identity
\* being created.
LEMMA StatementFailsKeeps ==
    ASSUME NativeInv, NEW r \in Requests, StatementFails(r)
    PROVE  NativeInv'
<1>1. r \in InFlight /\ ~At(r, "error") /\ ~At(r, "errorCodes")
    BY DEF StatementFails, InFlight, At
<1>2. UNCHANGED <<rows, states, known, stale>> /\ Event
    BY DEF StatementFails, outside
<1>3. CASE Finish(r, "page")
    BY <1>1, <1>2, <1>3, EndsPlainly
<1>4. CASE /\ Continue(r, IF At(r, "find") /\ request[r].flow[1] = "registration"
                          THEN "create" ELSE "error")
           /\ UNCHANGED answer
    <2>1. PICK label \in {"error", "create"} :
              /\ Continue(r, label) /\ UNCHANGED answer
              /\ label = "create" => At(r, "find") /\ request[r].flow[1] = "registration"
        BY <1>4
    <2> QED BY <1>1, <1>2, <2>1, FailsOver
<1> QED BY <1>3, <1>4 DEF StatementFails

\* A crash leaves a request without an answer.
LEMMA CrashKeeps ==
    ASSUME NativeInv, NEW r \in Requests, Crash(r)
    PROVE  NativeInv'
<1>1. /\ r \in InFlight /\ Event /\ UNCHANGED <<rows, states, known, stale>> /\ Finish(r, "none")
    BY DEF Crash, outside
<1> QED BY <1>1, EndsPlainly

-----------------------------------------------------------------------------
(* Conversions *)

\* The flow that a conversion creates is not named by anybody.
LEMMA NewFlowIsUnborn ==
    ASSUME NativeInv, NEW r \in Requests, At(r, "convert")
    PROVE  /\ Converted(request[r].flow, r) \in Flow
           /\ ~Named(Converted(request[r].flow, r))
           /\ request[r].flow[1] = "login" => Unborn("login", r)
<1>1. /\ request[r].flow \in Flow /\ KindOK(r)
    BY DEF NativeInv, TypeOK, Handler, RequestOK
<1>2. PICK k \in Kinds, n \in Requests \cup {0} : request[r].flow = <<k, n>>
    BY <1>1, Flows
<1>3. CASE k = "login"
    <2>1. n # r
        BY <1>1, <1>2, <1>3 DEF KindOK
    <2>2. Unborn("registration", r) /\ Unborn("login", r)
        BY <1>2, <2>1 DEF Unborn, At
    <2>3. Converted(request[r].flow, r) = <<"registration", r>>
        BY <1>2, <1>3 DEF Converted
    <2> QED BY <1>1, <2>2, <2>3, Flows DEF NativeInv, FreshInv, Kinds
<1>4. CASE k = "registration"
    <2>1. Unborn("login", r)
        BY <1>2, <1>4 DEF Unborn, At
    <2>2. Converted(request[r].flow, r) = <<"login", r>>
        BY <1>2, <1>4 DEF Converted
    <2> QED BY <1>1, <1>2, <1>4, <2>1, <2>2, Flows DEF NativeInv, FreshInv, Kinds
<1> QED BY <1>2, <1>3, <1>4 DEF Kinds

\* What both conversions have in common: mine goes on or ends without a promise,
\* and only the new flow becomes a name.
Converts(r, g, mine) ==
    /\ ConvertTo(r, g, mine) /\ g = Converted(request[r].flow, r)
    /\ mine.back = g \/ mine.back = request[r].back
    /\ mine.opened = request[r].opened /\ mine.displaced = request[r].displaced
    /\ \/ /\ mine.step \in {"find", "error"} /\ mine.flow = g /\ UNCHANGED answer
          /\ mine.step = "find" => ~request[r].duplicate
       \/ /\ mine.step = "done" /\ mine.flow = request[r].flow
          /\ answer' = [answer EXCEPT ![r] = "link"]
    /\ known' \subseteq known \cup {g}
    /\ Event \/ UNCHANGED events

\* The rows after a conversion.
LEMMA ConvertsRows ==
    ASSUME NativeInv, NEW r \in Requests, NEW g \in Flow, NEW mine \in Handler,
           Converts(r, g, mine)
    PROVE  /\ RowsOK' /\ Forward /\ exchanger'.session = exchanger.session
           /\ exchanger'.exists = exchanger.exists
           /\ exchanger'.flow = IF CodeForFlow(request[r].flow) THEN g ELSE exchanger.flow
           /\ UNCHANGED <<registered, states>>
<1>1. TypeOK /\ At(r, "convert")
    BY DEF NativeInv, Converts, ConvertTo
<1>2. /\ exchanger' = Moved(request[r].flow, g)
      /\ flows' = [flows EXCEPT ![g] = NewFlowFor(r)]
      /\ UNCHANGED <<container, registered, states, stale>>
    BY DEF Converts, ConvertTo
<1>3. /\ exchanger' \in [exists : BOOLEAN, flow : Flow, session : Requests \cup {0}]
      /\ exchanger'.session = exchanger.session /\ exchanger'.exists = exchanger.exists
      /\ exchanger'.flow = IF CodeForFlow(request[r].flow) THEN g ELSE exchanger.flow
    BY <1>1, <1>2 DEF TypeOK, Moved
<1>4. events' \in 0 .. MaxEvents
    BY Events DEF Converts
<1>5. NewFlowFor(r) \in FlowRow /\ NewFlowFor(r).status = "open"
    BY <1>1, NewFlowRow
<1>6. known' \subseteq Flow
    BY <1>1 DEF Converts, TypeOK
<1>7. RowsOK'
    <2>1. /\ flows' \in [Flow -> FlowRow]
          /\ \A f \in Flow : flows'[f].status = "none" => flows'[f] = NoFlow
        BY <1>1, <1>2, <1>5 DEF TypeOK
    <2> QED BY <1>1, <1>2, <1>3, <1>4, <1>6, <2>1 DEF TypeOK, RowsOK
<1>8. ~Named(g)
    BY <1>1, NewFlowIsUnborn DEF Converts
<1>9. \A f \in Flow : Named(f) /\ Shown(f) => Shown(f)'
    BY <1>1, <1>2, <1>8 DEF TypeOK, Shown
<1>10. Forward
    BY <1>2, <1>3, <1>9 DEF Forward
<1> QED BY <1>2, <1>3, <1>7, <1>10

\* The others: who may have had the exchanger is told that it was taken.
LEMMA ConvertsOthers ==
    ASSUME NativeInv, NEW r \in Requests, NEW g \in Flow, NEW mine \in Handler,
           Converts(r, g, mine), NEW q \in Requests, q # r
    PROVE  RequestOK(q)' /\ answer'[q] = answer[q] /\ Stays(q)
<1>1. TypeOK /\ answer \in [Requests -> Answers]
    BY DEF NativeInv, TypeOK
<1>2. /\ Stays(q)
      /\ CodeForFlow(request[r].flow) /\ q \in InFlight => request'[q].displaced
    BY <1>1, ConvertToAfter DEF Converts
<1>3. answer'[q] = answer[q]
    BY <1>1 DEF Converts
<1>4. /\ Forward /\ exchanger'.exists = exchanger.exists
      /\ exchanger'.flow = IF CodeForFlow(request[r].flow) THEN g ELSE exchanger.flow
    BY ConvertsRows
<1>5. RequestOK(q) /\ request[q].back \in Flow /\ Named(request[q].back)
    BY DEF NativeInv, TypeOK, Handler, Named
<1>6. StepOK(q)'
    BY <1>2, <1>3, <1>5 DEF RequestOK, Stays, StepOK, At
<1>7. ReachOK(q)'
    BY <1>2, <1>4, <1>5 DEF RequestOK, Stays, ReachOK, Reaches, CodeForFlow, InFlight
<1>8. KindOK(q)'
    BY <1>2, <1>4, <1>5 DEF RequestOK, Stays, KindOK, At, Forward
<1>9. ShownOK(q)'
    <2>1. Shown(request[q].back) => Shown(request[q].back)'
        BY <1>2, <1>4, <1>5 DEF Forward, Shown, Stays
    <2> QED BY <1>2, <1>3, <1>5, <2>1 DEF RequestOK, Stays, ShownOK, At
<1>10. RedirectOK(q)' /\ AnswerOK(q)'
    BY <1>2, <1>3, <1>4, <1>5 DEF RequestOK, Stays, RedirectOK, AnswerOK, Forward
<1> QED BY <1>2, <1>3, <1>6, <1>7, <1>8, <1>9, <1>10 DEF RequestOK

\* The request that converts takes the exchanger along.
LEMMA ConvertsOwn ==
    ASSUME NativeInv, NEW r \in Requests, NEW g \in Flow, NEW mine \in Handler,
           Converts(r, g, mine)
    PROVE  RequestOK(r)' /\ request'[r] = mine /\ answer' \in [Requests -> Answers]
<1>1. /\ TypeOK /\ At(r, "convert") /\ answer \in [Requests -> Answers]
      /\ request[r].flow \in Flow
    BY DEF NativeInv, Converts, ConvertTo, TypeOK, Handler
<1>2. request'[r] = mine
    BY <1>1, ConvertToAfter DEF Converts
<1>3. /\ RequestOK(r) /\ request[r].opened /\ Reaches(r) /\ answer[r] = "none"
    BY <1>1 DEF NativeInv, RequestOK, StepOK, ReachOK, At, Inside, InFlight
<1>4. /\ exchanger'.exists = exchanger.exists /\ registered' = registered
      /\ exchanger'.flow = IF CodeForFlow(request[r].flow) THEN g ELSE exchanger.flow
    BY ConvertsRows
<1>5. answer' \in [Requests -> Answers]
    BY <1>1 DEF Converts, Answers
<1>6. \/ /\ mine.step \in {"find", "error"} /\ mine.flow = g /\ answer'[r] = "none"
         /\ mine.step = "find" => ~request[r].duplicate
      \/ mine.step = "done" /\ mine.flow = request[r].flow /\ answer'[r] = "link"
    BY <1>1, <1>3 DEF Converts
<1>7. mine.opened /\ mine.displaced = request[r].displaced
    BY <1>3 DEF Converts
<1>8. StepOK(r)' /\ RedirectOK(r)' /\ AnswerOK(r)' /\ ShownOK(r)'
    BY <1>2, <1>6, <1>7 DEF StepOK, RedirectOK, AnswerOK, ShownOK, At
<1>9. ReachOK(r)'
    BY <1>2, <1>3, <1>4, <1>6, <1>7 DEF ReachOK, Reaches, CodeForFlow, InFlight
<1>10. KindOK(r)'
    <2>1. g = <<"login", r>> => registered \/ request[r].duplicate
        <3>1. request[r].flow[1] \in {"login", "registration"}
            BY <1>1, Flows DEF Kinds
        <3>2. g = <<"login", r>> => request[r].flow[1] = "registration"
            BY <3>1 DEF Converts, Converted
        <3> QED BY <1>1, <1>3, <3>2 DEF RequestOK, KindOK
    <2>2. mine.step = "done" \/ (mine.flow = g /\ mine.step \in {"find", "error"})
        BY <1>6
    <2>3. mine.step = "find" => ~request[r].duplicate
        BY <1>6
    <2> QED BY <1>2, <1>4, <2>1, <2>2, <2>3 DEF KindOK, At
<1> QED BY <1>2, <1>5, <1>8, <1>9, <1>10 DEF RequestOK

\* The new flow is the only new name, and it is not to be created again.
LEMMA ConvertsFresh ==
    ASSUME NativeInv, NEW r \in Requests, NEW g \in Flow, NEW mine \in Handler,
           Converts(r, g, mine)
    PROVE  FreshInv'
<1>1. /\ request'[r] = mine /\ \A q \in Requests : q # r => Stays(q)
      /\ At(r, "convert")
    BY ConvertsOwn, ConvertsOthers DEF Converts, ConvertTo
<1>2. /\ exchanger'.flow \in {g, exchanger.flow} /\ states' = states
    BY ConvertsRows
<1>3. ASSUME NEW f, Named(f)' PROVE Named(f) \/ f = g
    <2>1. CASE \E q \in Requests : f = request'[q].flow \/ f = request'[q].back
        <3>1. PICK q \in Requests : f = request'[q].flow \/ f = request'[q].back
            BY <2>1
        <3>2. CASE q = r
            BY <1>1, <3>1, <3>2, OwnNames DEF Converts
        <3>3. CASE q # r
            BY <1>1, <3>1, <3>3, OwnNames DEF Stays
        <3> QED BY <3>2, <3>3
    <2>2. CASE f \in known' \/ f = exchanger'.flow \/ \E s \in states' : f = s.flow
        BY <1>2, <2>2 DEF Converts, Named
    <2> QED BY <1>3, <2>1, <2>2 DEF Named
<1>4. PICK k0 \in Kinds : g = <<k0, r>> /\ (k0 = "registration" <=> request[r].flow[1] = "login")
    BY DEF Converts, Converted, Kinds
<1>5. ASSUME NEW q \in Requests, NEW k \in Kinds, Unborn(k, q)'
      PROVE  Unborn(k, q) /\ <<k, q>> # g
    <2>1. CASE q = r
        <3>1. mine.step # "done" /\ mine.flow = g
            BY <1>1, <1>5, <2>1 DEF Unborn, At, Converts
        <3>2. k0 = "registration" /\ k = "login"
            BY <1>1, <1>4, <1>5, <2>1, <3>1 DEF Unborn
        <3> QED BY <1>1, <1>4, <2>1, <3>2, NewFlowIsUnborn
    <2>2. CASE q # r
        BY <1>1, <1>4, <1>5, <2>2 DEF Stays, Unborn, At
    <2> QED BY <2>1, <2>2
<1> QED BY <1>3, <1>5 DEF FreshInv, NativeInv

\* What the two conversions have in common keeps the invariant.
LEMMA ConvertsKeeps ==
    ASSUME NativeInv, NEW r \in Requests, NEW g \in Flow, NEW mine \in Handler,
           Converts(r, g, mine)
    PROVE  NativeInv'
<1>1. TypeOK'
    <2>1. request' \in [Requests -> Handler] /\ answer' \in [Requests -> Answers]
        BY ConvertToAfter, ConvertsOwn DEF NativeInv, Converts
    <2>2. \A q \in Requests : exchanger'.session = q => request'[q].opened
        <3>1. \A q \in Requests : request[q].opened => request'[q].opened
            BY ConvertsOwn, ConvertsOthers DEF Converts, Stays
        <3> QED BY <3>1, ConvertsRows DEF NativeInv, TypeOK
    <2> QED BY <2>1, <2>2, ConvertsRows DEF TypeOK, RowsOK
<1>2. \A q \in Requests : RequestOK(q)'
    BY ConvertsOwn, ConvertsOthers
<1> QED BY <1>1, <1>2, ConvertsFresh DEF NativeInv

\* Both conversions.
LEMMA ConversionKeeps ==
    ASSUME NativeInv, NEW r \in Requests, Convert(r) \/ LinkAccount(r)
    PROVE  NativeInv'
<1>1. TypeOK
    BY DEF NativeInv
<1>2. CASE Convert(r)
    <2>1. PICK g \in Flow, mine \in Handler :
              /\ ConvertTo(r, g, mine) /\ g = Converted(request[r].flow, r)
              /\ mine.step = "find" /\ mine.flow = g
              /\ mine.back = g \/ mine.back = request[r].back
              /\ mine.opened = request[r].opened /\ mine.displaced = request[r].displaced
              /\ UNCHANGED <<answer, known, events>> /\ ~request[r].duplicate
        BY <1>1, <1>2, ConvertAfter
    <2>2. Converts(r, g, mine)
        BY <2>1 DEF Converts
    <2> QED BY <2>2, ConvertsKeeps
<1>3. CASE LinkAccount(r)
    <2>1. PICK g \in Flow, mine \in Handler :
              /\ ConvertTo(r, g, mine) /\ g = Converted(request[r].flow, r)
              /\ mine.back = request[r].back
              /\ mine.opened = request[r].opened /\ mine.displaced = request[r].displaced
              /\ \/ /\ mine.step = "done" /\ mine.flow = request[r].flow
                    /\ answer' = [answer EXCEPT ![r] = "link"]
                    /\ known' = known \cup {g} /\ UNCHANGED events
                 \/ /\ mine.step = "error" /\ mine.flow = g
                    /\ Event /\ UNCHANGED <<answer, known>>
        BY <1>1, <1>3, LinkAfter
    <2>2. Converts(r, g, mine)
        BY <2>1 DEF Converts
    <2> QED BY <2>2, ConvertsKeeps
<1> QED BY <1>2, <1>3

-----------------------------------------------------------------------------
(* The rest of the system, and the theorems *)

\* A step that no request takes.
LEMMA EnvironmentStep ==
    ASSUME NativeInv, RowsOK', Forward, UNCHANGED <<states, known, request, answer>>,
           exchanger'.flow = exchanger.flow, exchanger'.session = exchanger.session
    PROVE  NativeInv'
<1>1. TypeOK'
    BY DEF NativeInv, TypeOK, RowsOK
<1>2. FreshInv'
    BY DEF NativeInv, FreshInv, Unborn, Named, At
<1>3. ASSUME NEW q \in Requests PROVE RequestOK(q)'
    <2>1. RequestOK(q) /\ request[q].back \in Flow /\ Named(request[q].back)
        BY DEF NativeInv, TypeOK, Handler, Named
    <2>2. StepOK(q)' /\ KindOK(q)' /\ RedirectOK(q)' /\ AnswerOK(q)'
        BY <2>1 DEF RequestOK, StepOK, KindOK, RedirectOK, AnswerOK, At, Forward
    <2>3. ReachOK(q)'
        BY <2>1 DEF RequestOK, ReachOK, Reaches, InFlight, CodeForFlow, Forward, RowsOK
    <2>4. Shown(request[q].back) => Shown(request[q].back)'
        BY <2>1 DEF Forward, Shown
    <2>5. ShownOK(q)'
        BY <2>1, <2>4 DEF RequestOK, ShownOK, At
    <2> QED BY <2>2, <2>3, <2>5 DEF RequestOK
<1> QED BY <1>1, <1>2, <1>3 DEF NativeInv

\* A flow that expires keeps its error; one that is gone has none to show.
LEMMA AgeFlowKeeps ==
    ASSUME NativeInv, NEW f \in Flow, AgeFlow(f)
    PROVE  NativeInv'
<1>1. TypeOK /\ events' \in 0 .. MaxEvents
    BY Events DEF NativeInv, AgeFlow
<1>2. /\ UNCHANGED <<exchanger, container, registered, states, known, request, answer, stale>>
    BY DEF AgeFlow
<1>3. PICK x \in FlowRow :
          /\ flows' = [flows EXCEPT ![f] = x]
          /\ x = NoFlow \/ (x.status = "expired" /\ x.message = flows[f].message)
    <2>1. flows[f] \in FlowRow /\ flows \in [Flow -> FlowRow]
        BY <1>1 DEF TypeOK
    <2>2. CASE flows[f].status = "open"
        <3>1. flows' = [flows EXCEPT ![f] = [flows[f] EXCEPT !.status = "expired"]]
            BY <2>1, <2>2 DEF AgeFlow
        <3>2. /\ [flows[f] EXCEPT !.status = "expired"] \in FlowRow
              /\ [flows[f] EXCEPT !.status = "expired"].status = "expired"
              /\ [flows[f] EXCEPT !.status = "expired"].message = flows[f].message
            BY <2>1 DEF FlowRow
        <3> QED BY <3>1, <3>2
    <2>3. CASE flows[f].status # "open"
        <3>1. flows' = [flows EXCEPT ![f] = NoFlow]
            BY <2>1, <2>3 DEF AgeFlow
        <3> QED BY <3>1, FlowRows
    <2> QED BY <2>2, <2>3
<1>4. RowsOK'
    <2>1. /\ flows' \in [Flow -> FlowRow]
          /\ \A h \in Flow : flows'[h].status = "none" => flows'[h] = NoFlow
        BY <1>1, <1>3 DEF TypeOK
    <2> QED BY <1>1, <1>2, <2>1 DEF TypeOK, RowsOK
<1>5. \A h \in Flow : Shown(h) => Shown(h)'
    <2>1. NoFlow.status = "none"
        BY FlowRows
    <2>2. ASSUME NEW h \in Flow, Shown(h) PROVE Shown(h)'
        <3>1. flows \in [Flow -> FlowRow]
            BY <1>1 DEF TypeOK
        <3>2. CASE h # f
            BY <1>2, <1>3, <2>2, <3>1, <3>2 DEF Shown
        <3>3. CASE h = f
            <4>1. flows'[h] = x /\ flows[h].status # "none"
                BY <1>3, <3>1, <3>3 DEF AgeFlow
            <4> QED BY <1>2, <1>3, <2>1, <2>2, <3>3, <4>1 DEF Shown
        <3> QED BY <3>2, <3>3
    <2> QED BY <2>2
<1>6. Forward
    BY <1>2, <1>5 DEF Forward
<1> QED BY <1>2, <1>4, <1>6, EnvironmentStep

\* Containers are not what the promises are about.
LEMMA AgeContainerKeeps ==
    ASSUME NativeInv, NEW k \in Requests, AgeContainer(k)
    PROVE  NativeInv'
<1>1. TypeOK /\ events' \in 0 .. MaxEvents
    BY Events DEF NativeInv, AgeContainer
<1>2. UNCHANGED <<flows, exchanger, registered, states, known, request, answer, stale>>
    BY DEF AgeContainer
<1>3. container' \in [Requests -> {"none", "valid", "expired"}]
    BY <1>1 DEF TypeOK, AgeContainer
<1>4. RowsOK'
    BY <1>1, <1>2, <1>3 DEF TypeOK, RowsOK
<1>5. Forward
    BY <1>2 DEF Forward, Shown
<1> QED BY <1>2, <1>4, <1>5, EnvironmentStep

\* Without its exchanger the app is promised nothing.
LEMMA DeleteExpiredExchangersKeeps ==
    ASSUME NativeInv, DeleteExpiredExchangers
    PROVE  NativeInv'
<1>1. TypeOK /\ events' \in 0 .. MaxEvents
    BY Events DEF NativeInv, DeleteExpiredExchangers
<1>2. /\ UNCHANGED <<flows, container, registered, states, known, request, answer, stale>>
      /\ exchanger' = [exchanger EXCEPT !.exists = FALSE]
    BY DEF DeleteExpiredExchangers
<1>3. /\ exchanger' \in [exists : BOOLEAN, flow : Flow, session : Requests \cup {0}]
      /\ ~exchanger'.exists
      /\ exchanger'.flow = exchanger.flow /\ exchanger'.session = exchanger.session
    BY <1>1, <1>2 DEF TypeOK
<1>4. RowsOK'
    BY <1>1, <1>2, <1>3 DEF TypeOK, RowsOK
<1>5. Forward
    BY <1>2, <1>3 DEF Forward, Shown
<1> QED BY <1>2, <1>3, <1>4, <1>5, EnvironmentStep

\* A sign-up elsewhere only makes the identity exist.
LEMMA RegisterElsewhereKeeps ==
    ASSUME NativeInv, RegisterElsewhere
    PROVE  NativeInv'
<1>1. TypeOK /\ events' \in 0 .. MaxEvents
    BY Events DEF NativeInv, RegisterElsewhere
<1>2. /\ UNCHANGED <<flows, exchanger, container, states, known, request, answer, stale>>
      /\ registered'
    BY DEF RegisterElsewhere
<1>3. RowsOK'
    BY <1>1, <1>2 DEF TypeOK, RowsOK, RegisterElsewhere
<1>4. Forward
    BY <1>2 DEF Forward, Shown
<1> QED BY <1>2, <1>3, <1>4, EnvironmentStep

\* The app has one flow with an exchanger, and no request has begun.
LEMMA InvInit == Init => NativeInv
<1> SUFFICES ASSUME Init PROVE NativeInv
    OBVIOUS
<1>1. PICK k0 \in Kinds :
          /\ flows = [f \in Flow |-> IF f = <<k0, 0>> THEN NewFlow ELSE NoFlow]
          /\ exchanger = [exists |-> TRUE, flow |-> <<k0, 0>>, session |-> 0]
          /\ known = {<<k0, 0>>}
    BY DEF Init
<1>2. <<k0, 0>> \in Flow /\ <<"login", 0>> \in Flow
    BY Flows DEF Kinds
<1>3. /\ NoRequest \in Handler /\ NoRequest.step = "idle" /\ NoRequest.flow = <<"login", 0>>
      /\ NoRequest.back = <<"login", 0>> /\ ~NoRequest.opened
    BY <1>2, FlowRows DEF NoRequest, Handler, Steps
<1>4. /\ request = [r \in Requests |-> NoRequest] /\ states = {}
      /\ answer = [r \in Requests |-> "none"]
    BY DEF Init
<1>5. TypeOK
    <2>1. /\ flows \in [Flow -> FlowRow]
          /\ \A f \in Flow : flows[f].status = "none" => flows[f] = NoFlow
        BY <1>1, FlowRows
    <2>2. /\ exchanger \in [exists : BOOLEAN, flow : Flow, session : Requests \cup {0}]
          /\ \A r \in Requests : exchanger.session = r => request[r].opened
          /\ known \in SUBSET Flow
        BY <1>1, <1>2, Numbers
    <2>3. request \in [Requests -> Handler] /\ answer \in [Requests -> Answers]
        BY <1>3, <1>4 DEF Answers
    <2>4. /\ container \in [Requests -> {"none", "valid", "expired"}] /\ registered \in BOOLEAN
          /\ states \in SUBSET [flow : Flow, good : BOOLEAN]
          /\ events \in 0 .. MaxEvents /\ stale \in SUBSET Flow
        BY NativeAssumption DEF Init
    <2> QED BY <2>1, <2>2, <2>3, <2>4 DEF TypeOK
<1>6. FreshInv
    BY <1>1, <1>3, <1>4, Numbers DEF FreshInv, Named
<1>7. ASSUME NEW r \in Requests PROVE RequestOK(r)
    BY <1>3, <1>4, Numbers DEF RequestOK, StepOK, ReachOK, KindOK, ShownOK, RedirectOK, AnswerOK,
                      At, InFlight, Inside
<1> QED BY <1>5, <1>6, <1>7 DEF NativeInv

\* One case per action of a request.
LEMMA StepKeeps ==
    ASSUME NativeInv, NEW r \in Requests, Step(r)
    PROVE  NativeInv'
BY SubmitKeeps, CallbackKeeps, GenerateStateKeeps, SaveFlowKeeps, ValidateCallbackKeeps,
   ContinueContainerKeeps, SetContinuitySessionExpiryKeeps, FindIdentityKeeps, ConversionKeeps,
   CreateIdentityKeeps, IssueSessionKeeps, UpdateSessionKeeps, CannotSaveKeeps, SaveErrorKeeps,
   ForwardErrorKeeps, RedirectErrorKeeps, ExchangeCodeKeeps, ExchangeKeeps, StatementFailsKeeps, CrashKeeps
   DEF Step

\* Steps that change nothing.
LEMMA InvStutter ==
    ASSUME NativeInv, UNCHANGED vars
    PROVE  NativeInv'
<1>1. /\ UNCHANGED <<flows, exchanger, container, registered, stale, events>>
      /\ UNCHANGED <<states, known, request, answer>>
    BY DEF vars, rows, outside
<1>2. RowsOK'
    BY <1>1 DEF NativeInv, TypeOK, RowsOK
<1>3. Forward
    BY <1>1 DEF Forward, Shown
<1> QED BY <1>1, <1>2, <1>3, EnvironmentStep

\* NativeInv is an invariant of the specification.
LEMMA NativeInvariance == Spec => []NativeInv
<1>1. NativeInv /\ [Next]_vars => NativeInv'
    <2> SUFFICES ASSUME NativeInv, [Next]_vars PROVE NativeInv'
        OBVIOUS
    <2>1. CASE Next
        BY <2>1, StepKeeps, AgeFlowKeeps, AgeContainerKeeps, DeleteExpiredExchangersKeeps,
           RegisterElsewhereKeeps DEF Next
    <2>2. CASE UNCHANGED vars
        BY <2>2, InvStutter
    <2> QED BY <2>1, <2>2
<1> QED BY <1>1, InvInit, PTL DEF Spec

\* Rows, requests and answers keep their types; nothing is written to a flow that is
\* gone, and a session in the exchanger is from a callback that ValidateCallback let in.
THEOREM NativeTypeCorrect == Spec => []TypeOK
<1>1. NativeInv => TypeOK
    BY DEF NativeInv
<1> QED BY <1>1, NativeInvariance, PTL

\* An app that is sent back after a login finds a session behind its codes, unless
\* DeleteExpiredExchangers removed the exchanger or another callback's MoveToNewFlow
\* took it.
THEOREM RedirectsLeadToSession == Spec => []RedirectLeadsToSession
<1>1. NativeInv => RedirectLeadsToSession
    BY DEF NativeInv, RequestOK, RedirectOK, RedirectLeadsToSession
<1> QED BY <1>1, NativeInvariance, PTL

\* A callback that was let in with the app's code writes neither the token nor a flow
\* with its error to the browser, but for the exceptions AnsweredThroughApp names; an
\* error that ParseError returns is the answer to the browser in any case.
THEOREM CallbacksAnswerThroughApp == Spec => []AnsweredThroughApp
<1>1. NativeInv => AnsweredThroughApp
    BY DEF NativeInv, RequestOK, AnswerOK, AnsweredThroughApp
<1> QED BY <1>1, NativeInvariance, PTL

\* An app that is sent back after WriteFlowError finds the error in the flow its codes
\* lead to, unless a submission that had read the flow before overwrote it.
THEOREM ErrorsArePending == Spec => []PendingShowsError
<1>1. NativeInv => PendingShowsError
    BY DEF NativeInv, RequestOK, ShownOK, Shown, PendingShowsError
<1> QED BY <1>1, NativeInvariance, PTL
=============================================================================
