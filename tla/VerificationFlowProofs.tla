----------------------- MODULE VerificationFlowProofs -----------------------
(***************************************************************************)
(* Safety of pending traits changes and their verification flows for every *)
(* set of changes, requests, addresses and proposals, on both isolation    *)
(* levels and however many requests are handled at the same time.          *)
(***************************************************************************)
EXTENDS VerificationFlow, FiniteSetTheorems, TLAPS

\* The change adds exactly one address.
Changing(c) == \E a \in Addresses : FindChangedAddresses(c) = {a}

\* The steps of a settings request that verify_new_address has let through.
Waiting == {"delete", "flow", "create", "again", "recreate", "send"}

\* What a settings request goes by was proven or given; what waits adds one address;
\* a code for the change exists only when the request that proposed it has ended.
SettingsOK(c) ==
    /\ settings[c].known \subseteq given \cup proven
    /\ settings[c].new.verified \subseteq proven
    /\ settings[c].step \in {"update", "write"} /\ settings[c].by = "user" =>
          FindChangedAddresses(c) = {}
    /\ settings[c].step \in Waiting => Changing(c)
    /\ pending[c] => /\ settings[c].step \in {"send", "sent", "over"}
                     /\ settings[c].step = "sent" => Changing(c)
    /\ live[c]["change"] > 0 => settings[c].step = "sent" /\ Changing(c)
    /\ \A a \in Addresses : live[c][a] > 0 => a \in HasRow
    /\ state[c] = "passed_challenge" => c \in effective

\* A request works on a flow whose settings request has ended; past the use of a
\* change's code the new address is proven; the row it marks had an id.
RequestOK(r) ==
    /\ request[r].step \notin {"idle", "done"} =>
          request[r].flow \in Changes /\ settings[request[r].flow].step = "sent"
    /\ request[r].step \in {"idle", "done"} => request[r].change = None
    /\ request[r].change # None =>
          request[r].change = request[r].flow /\ Changing(request[r].flow)
    /\ request[r].step \in {"recheck", "sendChange", "check", "load", "write"} =>
          request[r].change # None
    /\ request[r].step \in {"pending", "check", "load", "write"} =>
          Changing(request[r].flow) /\ NewAddress(request[r].flow) \in proven
    /\ request[r].step = "mark" =>
          request[r].code \in Addresses /\ request[r].code \in proven /\ request[r].row # 0
    /\ request[r].new.verified \subseteq proven
    /\ request[r].copy # "passed_challenge"
    /\ request[r].step = "pass" => request[r].flow \in effective

\* What a transaction checked still holds, unless it was overtaken.
CheckedOK(r) ==
    request[r].step \in {"load", "write"} /\ r \notin overtaken =>
        Applicable(request[r].change)

\* The rows are those of addresses that were given or proven, and of the traits.
IdentityOK ==
    /\ First \in given
    /\ traits.addrs \subseteq given \cup proven
    /\ HasRow \subseteq given \cup proven
    /\ verified \subseteq proven
    /\ ~outdated => HasRow = traits.addrs

\* The inductive invariant.
VerificationInv ==
    /\ TypeOK
    /\ IdentityOK
    /\ \A c \in Changes : SettingsOK(c)
    /\ \A r \in Requests : RequestOK(r)
    /\ \A r \in Requests : CheckedOK(r)

-----------------------------------------------------------------------------
(* Helpers *)

\* The kinds of codes are apart.
LEMMA KindsApart ==
    /\ "change" \notin Addresses /\ None \notin Addresses /\ None # "change"
    /\ "change" \in Kinds /\ None \notin Kinds /\ None \notin Changes
    /\ Addresses \subseteq Kinds
BY VerificationAssumption DEF Kinds

\* A change with one new address names it.
LEMMA TheNewAddress ==
    ASSUME NEW c \in Changes, Changing(c)
    PROVE  /\ FindChangedAddresses(c) = {NewAddress(c)}
           /\ NewAddress(c) \in Addresses
<1>1. PICK a \in Addresses : FindChangedAddresses(c) = {a}
    BY DEF Changing
<1>2. NewAddress(c) = a
    BY <1>1 DEF NewAddress
<1> QED BY <1>1, <1>2

\* Copies of the rows have their type.
LEMMA CopyTypes ==
    ASSUME rows \in [Addresses -> Nat], verified \in SUBSET Addresses
    PROVE  /\ NoRows \in Copies /\ NoRows.verified = {}
           /\ Stored \in Copies /\ Stored.verified = verified /\ Stored.ids = rows
           /\ \A t \in Traits : RowsFor(t) \in Copies /\ RowsFor(t).verified = verified \cap t.addrs
BY DEF NoRows, Stored, RowsFor, Copies, Traits

\* No rows.
LEMMA NoRowsType == NoRows \in Copies /\ NoRows.verified = {}
BY DEF NoRows, Copies

\* The fields of requests that are not being handled.
LEMMA NoRequestFields ==
    ASSUME NEW label \in {"idle", "done"}
    PROVE  /\ NoRequest(label) \in VerificationRequests
           /\ NoRequest(label).step = label /\ NoRequest(label).flow = None
           /\ NoRequest(label).copy = "none" /\ NoRequest(label).change = None
           /\ NoRequest(label).code = None /\ NoRequest(label).new.verified = {}
BY NoRowsType DEF NoRequest, VerificationRequests, Steps, States

\* The fields of settings requests that are not being handled, or only begin.
LEMMA NoSettingsFields ==
    ASSUME NEW label \in SettingsSteps
    PROVE  /\ NoSettings(label) \in SettingsRequests
           /\ NoSettings(label).step = label /\ NoSettings(label).known = {First}
           /\ NoSettings(label).by = "user"
           /\ NoSettings(label).new.verified = {}
           /\ Registered.addrs = {First} /\ Registered \in Traits
<1>1. Registered \in Traits /\ Registered.addrs = {First}
    BY VerificationAssumption DEF Registered, Traits
<1> QED BY <1>1, NoRowsType, VerificationAssumption DEF NoSettings, SettingsRequests

\* The other requests stay as they are.
OthersStay(r) ==
    /\ request' \in [Requests -> VerificationRequests]
    /\ \A q \in Requests \ {r} : request'[q] = request[q]

\* Writing one request.
LEMMA RequestTo ==
    ASSUME TypeOK, NEW r \in Requests, NEW x \in VerificationRequests,
           request' = [request EXCEPT ![r] = x]
    PROVE  OthersStay(r) /\ request'[r] = x
BY DEF TypeOK, OthersStay

\* The request goes on with its next step.
LEMMA ContinueAfter ==
    ASSUME TypeOK, NEW r \in Requests, NEW label \in Steps, Continue(r, label)
    PROVE  /\ OthersStay(r)
           /\ request'[r].step = label /\ request'[r].flow = request[r].flow
           /\ request'[r].copy = request[r].copy /\ request'[r].change = request[r].change
           /\ request'[r].code = request[r].code /\ request'[r].new = request[r].new
           /\ request'[r].row = request[r].row
<1>1. ASSUME NEW x \in VerificationRequests
      PROVE  [x EXCEPT !.step = label] \in VerificationRequests
    BY DEF VerificationRequests
<1>2. request[r] \in VerificationRequests
    BY DEF TypeOK
<1>3. [request[r] EXCEPT !.step = label] \in VerificationRequests
    BY <1>1, <1>2
<1>4. request' = [request EXCEPT ![r] = [request[r] EXCEPT !.step = label]]
    BY DEF Continue
<1>5. OthersStay(r) /\ request'[r] = [request[r] EXCEPT !.step = label]
    BY <1>3, <1>4, RequestTo
<1> QED BY <1>2, <1>5 DEF VerificationRequests

\* The request is answered.
LEMMA FinishAfter ==
    ASSUME TypeOK, NEW r \in Requests, Finish(r)
    PROVE  /\ OthersStay(r)
           /\ request'[r].step = "done" /\ request'[r].flow = None
           /\ request'[r].copy = "none" /\ request'[r].change = None
           /\ request'[r].code = None /\ request'[r].new.verified = {}
<1>1. OthersStay(r) /\ request'[r] = NoRequest("done")
    BY RequestTo, NoRequestFields DEF Finish
<1> QED BY <1>1, NoRequestFields

\* The other settings requests stay as they are.
OthersKeep(c) ==
    /\ settings' \in [Changes -> SettingsRequests]
    /\ \A d \in Changes \ {c} : settings'[d] = settings[d]

\* Writing one settings request.
LEMMA SettingsTo ==
    ASSUME TypeOK, NEW c \in Changes, NEW x \in SettingsRequests,
           settings' = [settings EXCEPT ![c] = x]
    PROVE  OthersKeep(c) /\ settings'[c] = x
BY DEF TypeOK, OthersKeep

\* The settings request goes on with its next step.
LEMMA GoOnAfter ==
    ASSUME TypeOK, NEW c \in Changes, NEW label \in SettingsSteps, GoOn(c, label)
    PROVE  /\ OthersKeep(c)
           /\ settings'[c].step = label /\ settings'[c].original = settings[c].original
           /\ settings'[c].proposal = settings[c].proposal
           /\ settings'[c].known = settings[c].known /\ settings'[c].by = settings[c].by
           /\ settings'[c].new = settings[c].new
<1>1. ASSUME NEW x \in SettingsRequests
      PROVE  [x EXCEPT !.step = label] \in SettingsRequests
    BY DEF SettingsRequests
<1>2. settings[c] \in SettingsRequests
    BY DEF TypeOK
<1>3. [settings[c] EXCEPT !.step = label] \in SettingsRequests
    BY <1>1, <1>2
<1>4. settings' = [settings EXCEPT ![c] = [settings[c] EXCEPT !.step = label]]
    BY DEF GoOn
<1>5. OthersKeep(c) /\ settings'[c] = [settings[c] EXCEPT !.step = label]
    BY <1>3, <1>4, SettingsTo
<1> QED BY <1>2, <1>5 DEF SettingsRequests

\* The settings request ends without a change.
LEMMA EndAfter ==
    ASSUME TypeOK, NEW c \in Changes, End(c)
    PROVE  /\ OthersKeep(c)
           /\ settings'[c].step = "over" /\ settings'[c].known = {First}
           /\ settings'[c].new.verified = {}
<1>0. "over" \in SettingsSteps
    BY DEF SettingsSteps
<1>1. OthersKeep(c) /\ settings'[c] = NoSettings("over")
    BY <1>0, SettingsTo, NoSettingsFields DEF End
<1> QED BY <1>0, <1>1, NoSettingsFields

-----------------------------------------------------------------------------
(* What the steps of a request write into it *)

\* Verify takes a copy of a flow that has not passed.
LEMMA VerifyAfter ==
    ASSUME TypeOK, NEW r \in Requests, NEW c \in Changes, NEW form \in DOMAIN FirstStep,
           Verify(r, c, form)
    PROVE  /\ OthersStay(r)
           /\ \/ Finish(r)
              \/ /\ request'[r].step \in {"save", "clear", "use"} /\ request'[r].flow = c
                 /\ request'[r].copy = state[c] /\ state[c] # "passed_challenge"
                 /\ request'[r].change = request[r].change
                 /\ request'[r].code = request[r].code /\ request'[r].new = request[r].new
<1>1. CASE Finish(r)
    BY <1>1, FinishAfter
<1>2. CASE ~Finish(r)
    <2>1. /\ state[c] # "passed_challenge" /\ state[c] \in States
          /\ request' = [request EXCEPT ![r] =
                 [request[r] EXCEPT !.step = FirstStep[form], !.flow = c, !.copy = state[c]]]
        BY <1>2 DEF Verify, TypeOK
    <2>2. PICK s \in {"save", "clear", "use"}, t \in States :
            s = FirstStep[form] /\ t = state[c]
        BY <2>1 DEF FirstStep
    <2>3. ASSUME NEW x \in VerificationRequests
          PROVE  [x EXCEPT !.step = s, !.flow = c, !.copy = t] \in VerificationRequests
        BY DEF VerificationRequests, Steps
    <2>4. request[r] \in VerificationRequests
        BY DEF TypeOK
    <2>5. request' = [request EXCEPT ![r] = [request[r] EXCEPT !.step = s, !.flow = c, !.copy = t]]
        BY <2>1, <2>2
    <2>6. OthersStay(r) /\ request'[r] = [request[r] EXCEPT !.step = s, !.flow = c, !.copy = t]
        BY <2>3, <2>4, <2>5, RequestTo
    <2>7. /\ request'[r].step = s /\ request'[r].flow = c /\ request'[r].copy = t
          /\ request'[r].change = request[r].change /\ request'[r].code = request[r].code
          /\ request'[r].new = request[r].new
        BY <2>4, <2>6 DEF VerificationRequests
    <2> QED BY <2>1, <2>2, <2>6, <2>7
<1> QED BY <1>1, <1>2

\* LookupPending keeps the change it found, which is that of the flow.
LEMMA LookupAfter ==
    ASSUME TypeOK, NEW r \in Requests, LookupPending(r)
    PROVE  /\ OthersStay(r)
           /\ request'[r].flow = request[r].flow /\ request'[r].copy = request[r].copy
           /\ request'[r].code = request[r].code /\ request'[r].new = request[r].new
           /\ \/ /\ request'[r].step \in {"sendAddress", "save"}
                 /\ request'[r].change = request[r].change
              \/ /\ request[r].flow \in Changes => pending[request[r].flow]
                 /\ request'[r].change = request[r].flow
                 /\ request'[r].step = IF request[r].step = "lookup" THEN "recheck" ELSE "check"
<1>1. CASE \E s \in {"sendAddress", "save"} : Continue(r, s)
    <2>1. PICK s \in {"sendAddress", "save"} : Continue(r, s)
        BY <1>1
    <2>2. s \in Steps
        BY DEF Steps
    <2> QED BY <2>1, <2>2, ContinueAfter
<1>2. CASE ~\E s \in {"sendAddress", "save"} : Continue(r, s)
    <2>1. PICK d \in GetPendingTraitsChangeByVerificationFlow(request[r].flow) :
            request' = [request EXCEPT ![r].change = d,
                            ![r].step = IF @ = "lookup" THEN "recheck" ELSE "check"]
        BY <1>2 DEF LookupPending
    <2>2. d = request[r].flow /\ pending[d]
        BY <2>1 DEF GetPendingTraitsChangeByVerificationFlow
    <2> DEFINE s == IF request[r].step = "lookup" THEN "recheck" ELSE "check"
    <2>3. request' = [request EXCEPT ![r] = [request[r] EXCEPT !.change = d, !.step = s]]
        BY <2>1
    <2>4. request[r] \in VerificationRequests /\ s \in Steps
        BY DEF TypeOK, Steps
    <2>5. d \in Changes \cup {None}
        BY <2>2, <2>4 DEF VerificationRequests
    <2>6. ASSUME NEW x \in VerificationRequests, NEW e \in Changes \cup {None}, NEW t \in Steps
          PROVE  [x EXCEPT !.change = e, !.step = t] \in VerificationRequests
        BY DEF VerificationRequests
    <2>7. OthersStay(r) /\ request'[r] = [request[r] EXCEPT !.change = d, !.step = s]
        BY <2>3, <2>4, <2>5, <2>6, RequestTo
    <2> QED BY <2>2, <2>4, <2>7 DEF VerificationRequests
<1> QED BY <1>1, <1>2

\* SendVerificationCode advances the copy of the flow.
LEMMA SendAfter ==
    ASSUME TypeOK, NEW r \in Requests, SendVerificationCode(r)
    PROVE  /\ OthersStay(r)
           /\ request'[r].step = "save" /\ request'[r].copy = "sent_email"
           /\ request'[r].flow = request[r].flow /\ request'[r].change = request[r].change
           /\ request'[r].code = request[r].code /\ request'[r].new = request[r].new
<1>1. request' = [request EXCEPT ![r] = [request[r] EXCEPT !.copy = "sent_email", !.step = "save"]]
    BY DEF SendVerificationCode
<1>2. request[r] \in VerificationRequests
    BY DEF TypeOK
<1>3. ASSUME NEW x \in VerificationRequests
      PROVE  [x EXCEPT !.copy = "sent_email", !.step = "save"] \in VerificationRequests
    BY DEF VerificationRequests, States, Steps
<1>4. OthersStay(r) /\ request'[r] = [request[r] EXCEPT !.copy = "sent_email", !.step = "save"]
    BY <1>1, <1>2, <1>3, RequestTo
<1> QED BY <1>2, <1>4 DEF VerificationRequests

\* UseVerificationCode consumes a usable code of one kind, or shows the error.
LEMMA UseAfter ==
    ASSUME TypeOK, NEW r \in Requests, UseVerificationCode(r)
    PROVE  /\ OthersStay(r)
           /\ request'[r].flow = request[r].flow /\ request'[r].change = request[r].change
           /\ request'[r].copy = request[r].copy /\ request'[r].new = request[r].new
           /\ \/ /\ request'[r].step = "save" /\ request'[r].code = request[r].code
                 /\ live' = live /\ proven' = proven
              \/ \E kind \in Kinds :
                    /\ live[request[r].flow][kind] > 0
                    /\ live' = [live EXCEPT ![request[r].flow][kind] = @ - 1]
                    /\ proven' = proven \cup {SentTo(request[r].flow, kind)}
                    /\ request'[r].code = kind
                    /\ request'[r].row = IF kind = "change" THEN 0 ELSE rows[kind]
                    /\ request'[r].step = IF kind = "change" THEN "pending" ELSE "mark"
<1>1. CASE Continue(r, "save") /\ UNCHANGED <<live, proven>>
    <2>1. "save" \in Steps
        BY DEF Steps
    <2> QED BY <1>1, <2>1, ContinueAfter
<1>2. CASE ~(Continue(r, "save") /\ UNCHANGED <<live, proven>>)
    <2>1. PICK kind \in Kinds :
             /\ live[request[r].flow][kind] > 0
             /\ live' = [live EXCEPT ![request[r].flow][kind] = @ - 1]
             /\ proven' = proven \cup {SentTo(request[r].flow, kind)}
             /\ request' = [request EXCEPT ![r].code = kind,
                               ![r].row = IF kind = "change" THEN 0 ELSE rows[kind],
                               ![r].step = IF kind = "change" THEN "pending" ELSE "mark"]
        BY <1>2 DEF UseVerificationCode
    <2> DEFINE s == IF kind = "change" THEN "pending" ELSE "mark"
               n == IF kind = "change" THEN 0 ELSE rows[kind]
    <2>2. request' = [request EXCEPT ![r] =
                         [request[r] EXCEPT !.code = kind, !.row = n, !.step = s]]
        BY <2>1
    <2>3. request[r] \in VerificationRequests /\ s \in Steps /\ n \in Nat
        BY DEF TypeOK, Steps, Kinds
    <2>4. ASSUME NEW x \in VerificationRequests, NEW t \in Steps, NEW m \in Nat
          PROVE  [x EXCEPT !.code = kind, !.row = m, !.step = t] \in VerificationRequests
        BY DEF VerificationRequests
    <2>5. OthersStay(r) /\ request'[r] = [request[r] EXCEPT !.code = kind, !.row = n, !.step = s]
        BY <2>2, <2>3, <2>4, RequestTo
    <2>6. /\ request'[r].flow = request[r].flow /\ request'[r].change = request[r].change
          /\ request'[r].copy = request[r].copy /\ request'[r].new = request[r].new
          /\ request'[r].code = kind /\ request'[r].row = n /\ request'[r].step = s
        BY <2>3, <2>5 DEF VerificationRequests
    <2> QED BY <2>1, <2>5, <2>6
<1> QED BY <1>1, <1>2

\* LoadIdentity reads verified rows.
LEMMA LoadAfter ==
    ASSUME TypeOK, NEW r \in Requests, request[r].change \in Changes, LoadIdentity(r)
    PROVE  /\ OthersStay(r)
           /\ request'[r].step = "write" /\ request'[r].new.verified \subseteq verified
           /\ request'[r].flow = request[r].flow /\ request'[r].change = request[r].change
           /\ request'[r].copy = request[r].copy /\ request'[r].code = request[r].code
<1>1. request' = [request EXCEPT ![r] = [request[r] EXCEPT !.new = LoadedRows(r), !.step = "write"]]
    BY DEF LoadIdentity
<1>2. request[r] \in VerificationRequests
    BY DEF TypeOK
<1>3. /\ settings[request[r].change].proposal \in Traits
      /\ rows \in [Addresses -> Nat] /\ verified \in SUBSET Addresses
    BY DEF TypeOK, SettingsRequests, HasRow
<1>4. LoadedRows(r).verified \subseteq verified /\ LoadedRows(r) \in Copies
    BY <1>3, CopyTypes DEF LoadedRows
<1>5. ASSUME NEW x \in VerificationRequests, NEW f \in Copies
      PROVE  [x EXCEPT !.new = f, !.step = "write"] \in VerificationRequests
    BY DEF VerificationRequests, Steps
<1>6. OthersStay(r) /\ request'[r] = [request[r] EXCEPT !.new = LoadedRows(r), !.step = "write"]
    BY <1>1, <1>2, <1>4, <1>5, RequestTo
<1> QED BY <1>2, <1>4, <1>6 DEF VerificationRequests

-----------------------------------------------------------------------------
(* What a step leaves as it was *)

\* History grows, and a settings request that has sent its code stays as it is.
Growing ==
    /\ given \subseteq given' /\ proven \subseteq proven' /\ effective \subseteq effective'
    /\ \A d \in Changes : settings[d].step = "sent" =>
          /\ settings'[d].step = "sent"
          /\ settings'[d].original = settings[d].original
          /\ settings'[d].known = settings[d].known
          /\ settings'[d].proposal = settings[d].proposal

\* A request that does nothing stays right.
LEMMA RequestKept ==
    ASSUME VerificationInv, Growing, NEW q \in Requests, request'[q] = request[q]
    PROVE  RequestOK(q)'
<1>1. RequestOK(q)
    BY DEF VerificationInv
<1>2. /\ request[q].change # None => request[q].flow \in Changes
      /\ request[q].step \in {"pending", "check", "load", "write"} => request[q].flow \in Changes
    BY <1>1 DEF RequestOK
<1>3. request[q].flow \in Changes /\ settings[request[q].flow].step = "sent" =>
          /\ settings'[request[q].flow].step = "sent"
          /\ settings'[request[q].flow].known = settings[request[q].flow].known
          /\ settings'[request[q].flow].proposal = settings[request[q].flow].proposal
    BY DEF Growing
<1> QED BY <1>1, <1>2, <1>3
       DEF RequestOK, Growing, Changing, NewAddress, FindChangedAddresses

\* What a request has checked stays right when neither traits nor session change.
LEMMA CheckedKept ==
    ASSUME VerificationInv, Growing, NEW q \in Requests, request'[q] = request[q],
           q \in overtaken => q \in overtaken',
           traits' = traits, session' = session
    PROVE  CheckedOK(q)'
<1>1. CheckedOK(q) /\ RequestOK(q)
    BY DEF VerificationInv
<1>2. request[q].step \in {"load", "write"} =>
          /\ request[q].change \in Changes
          /\ settings'[request[q].change].original = settings[request[q].change].original
    BY <1>1 DEF RequestOK, Growing
<1> QED BY <1>1, <1>2 DEF CheckedOK, Applicable

\* Or when the request is overtaken.
LEMMA CheckedOvertaken ==
    ASSUME NEW q \in Requests, Overtake, request'[q] = request[q]
    PROVE  CheckedOK(q)'
BY DEF CheckedOK, Overtake

\* A settings request that does nothing stays right.
LEMMA SettingsKept ==
    ASSUME VerificationInv, Growing, NEW d \in Changes, settings'[d] = settings[d],
           pending'[d] => pending[d],
           live'[d]["change"] > 0 => live[d]["change"] > 0,
           \A a \in Addresses : live'[d][a] > 0 => a \in HasRow',
           state'[d] = "passed_challenge" => d \in effective'
    PROVE  SettingsOK(d)'
<1>1. SettingsOK(d)
    BY DEF VerificationInv
<1> QED BY <1>1 DEF SettingsOK, Growing, Changing, FindChangedAddresses

-----------------------------------------------------------------------------
(* Steps of settings requests *)

\* A step of c touches nothing but c, its flow and the pending changes.
SettingsMove(c) ==
    /\ OthersKeep(c)
    /\ UNCHANGED <<isolation, identity, request, history>>
    /\ events' \in 0 .. MaxEvents
    /\ settings[c].step # "sent"
    /\ pending' \in [Changes -> BOOLEAN] /\ state' \in [Changes -> States]
    /\ live' \in [Changes -> [Kinds -> Nat]]
    /\ \A d \in Changes \ {c} : /\ pending'[d] => pending[d]
                                /\ live'[d] = live[d] /\ state'[d] = state[d]

\* Such a step keeps the invariant if c is right afterwards.
LEMMA SettingsMoveKeeps ==
    ASSUME VerificationInv, NEW c \in Changes, SettingsMove(c), SettingsOK(c)'
    PROVE  VerificationInv'
<1> USE DEF identity, history
<1>1. Growing
    BY DEF Growing, SettingsMove, OthersKeep
<1>2. TypeOK'
    BY DEF VerificationInv, TypeOK, SettingsMove, OthersKeep, HasRow
<1>3. ASSUME NEW d \in Changes \ {c} PROVE SettingsOK(d)'
    <2>1. SettingsOK(d)
        BY DEF VerificationInv
    <2>2. /\ settings'[d] = settings[d]
          /\ pending'[d] => pending[d]
          /\ live'[d] = live[d] /\ state'[d] = state[d] /\ HasRow' = HasRow
          /\ effective' = effective
        BY DEF SettingsMove, OthersKeep, HasRow
    <2>3. /\ \A a \in Addresses : live'[d][a] > 0 => a \in HasRow'
          /\ state'[d] = "passed_challenge" => d \in effective'
        BY <2>1, <2>2 DEF SettingsOK
    <2> QED BY <1>1, <2>2, <2>3, SettingsKept
<1>4. ASSUME NEW q \in Requests PROVE RequestOK(q)' /\ CheckedOK(q)'
    BY <1>1, RequestKept, CheckedKept DEF SettingsMove
<1>5. IdentityOK'
    BY DEF VerificationInv, IdentityOK, SettingsMove, HasRow
<1> QED BY <1>2, <1>3, <1>4, <1>5 DEF VerificationInv

\* A settings request that only goes on, to a step that asks for nothing new.
LEMMA SettingsStep ==
    ASSUME VerificationInv, NEW c \in Changes,
           Settings(c) \/ NewVerificationFlow(c), ~Update(c)
    PROVE  VerificationInv'
<1> USE DEF identity, history, flows, At
<1>0. /\ TypeOK /\ SettingsOK(c) /\ settings[c] \in SettingsRequests
      /\ pending \in [Changes -> BOOLEAN] /\ state \in [Changes -> States]
      /\ live \in [Changes -> [Kinds -> Nat]] /\ First \in given
      /\ traits \in Traits /\ verified \in SUBSET Addresses /\ rows \in [Addresses -> Nat]
      /\ HasRow \in SUBSET Addresses /\ HasRow \subseteq given \cup proven
      /\ verified \subseteq proven
      /\ live[c]["change"] \in Nat /\ events \in 0 .. MaxEvents
    BY KindsApart DEF VerificationInv, TypeOK, IdentityOK, HasRow
<1>h. HasRow' = HasRow \/ rows' # rows
    BY DEF HasRow
<1>1. ASSUME NEW p \in Proposals, UpdateSettingsFlow(c, p)
      PROVE  VerificationInv'
    <2>1. PICK blank \in SettingsRequests :
            /\ blank = NoSettings("setTraits") /\ blank.step = "setTraits"
            /\ blank.new.verified = {}
        BY NoSettingsFields DEF SettingsSteps
    <2> DEFINE x == [blank EXCEPT !.original = traits, !.known = HasRow, !.proposal = p]
    <2>2. ASSUME NEW y \in SettingsRequests, NEW t \in Traits, NEW q \in Traits,
                 NEW k \in SUBSET Addresses
          PROVE  [y EXCEPT !.original = t, !.known = k, !.proposal = q] \in SettingsRequests
        BY DEF SettingsRequests
    <2>3. x \in SettingsRequests
        BY <1>0, <2>2, VerificationAssumption
    <2>4. settings' = [settings EXCEPT ![c] = x]
        BY <1>1, <2>1 DEF UpdateSettingsFlow
    <2>5. OthersKeep(c) /\ settings'[c] = x
        BY <1>0, <2>3, <2>4, SettingsTo
    <2>6. /\ settings[c].step = "idle"
          /\ UNCHANGED <<isolation, identity, events, flows, request, history>>
        BY <1>1 DEF UpdateSettingsFlow
    <2>7. SettingsMove(c)
        BY <1>0, <2>5, <2>6 DEF SettingsMove
    <2>8. /\ settings'[c].step = "setTraits" /\ settings'[c].known = HasRow
          /\ settings'[c].new.verified = {}
        BY <2>1, <2>5 DEF SettingsRequests
    <2>9. SettingsOK(c)'
        BY <1>0, <1>h, <2>6, <2>8 DEF SettingsOK, Waiting
    <2> QED BY <2>7, <2>9, SettingsMoveKeeps
<1>2. CASE SetTraits(c)
    <2> DEFINE f == RowsFor(settings[c].proposal)
               x == [settings[c] EXCEPT !.step = "hook", !.new = f]
    <2>1. settings' = [settings EXCEPT ![c] = x]
        BY <1>2 DEF SetTraits
    <2>2. f \in Copies /\ f.verified \subseteq verified
        BY <1>0, CopyTypes DEF SettingsRequests
    <2>3. ASSUME NEW y \in SettingsRequests, NEW g \in Copies
          PROVE  [y EXCEPT !.step = "hook", !.new = g] \in SettingsRequests
        BY DEF SettingsRequests, SettingsSteps
    <2>4. OthersKeep(c) /\ settings'[c] = x
        BY <1>0, <2>1, <2>2, <2>3, SettingsTo
    <2>5. /\ settings[c].step = "setTraits"
          /\ UNCHANGED <<isolation, identity, events, flows, request, history>>
        BY <1>2 DEF SetTraits
    <2>6. SettingsMove(c)
        BY <1>0, <2>4, <2>5 DEF SettingsMove
    <2>7. /\ settings'[c].step = "hook" /\ settings'[c].known = settings[c].known
          /\ settings'[c].new.verified \subseteq verified
        BY <1>0, <2>2, <2>4 DEF SettingsRequests
    <2>8. SettingsOK(c)'
        BY <1>0, <1>h, <2>5, <2>7 DEF SettingsOK, Waiting
    <2> QED BY <2>6, <2>8, SettingsMoveKeeps
<1>12. ASSUME NEW p \in Proposals, AdminUpdate(c, p)
       PROVE  VerificationInv'
    <2>1. PICK blank \in SettingsRequests :
            /\ blank = NoSettings("update") /\ blank.step = "update" /\ blank.known = {First}
        BY NoSettingsFields DEF SettingsSteps
    <2> DEFINE f == RowsFor(p)
               x == [blank EXCEPT !.by = "admin", !.proposal = p, !.new = f]
    <2>2. ASSUME NEW y \in SettingsRequests, NEW t \in Traits, NEW g \in Copies
          PROVE  [y EXCEPT !.by = "admin", !.proposal = t, !.new = g] \in SettingsRequests
        BY DEF SettingsRequests
    <2>3. p \in Traits /\ f \in Copies /\ f.verified \subseteq verified
        BY <1>0, CopyTypes, VerificationAssumption
    <2>4. settings' = [settings EXCEPT ![c] = x]
        BY <1>12, <2>1 DEF AdminUpdate
    <2>5. OthersKeep(c) /\ settings'[c] = x
        BY <1>0, <2>2, <2>3, <2>4, SettingsTo
    <2>6. /\ settings[c].step = "idle" /\ events' \in 0 .. MaxEvents
          /\ UNCHANGED <<isolation, identity, flows, request, history>>
        BY <1>0, <1>12, VerificationAssumption DEF AdminUpdate
    <2>7. SettingsMove(c)
        BY <1>0, <2>5, <2>6 DEF SettingsMove
    <2>8. /\ settings'[c].step = "update" /\ settings'[c].known = {First}
          /\ settings'[c].new.verified \subseteq verified /\ settings'[c].by = "admin"
        BY <2>1, <2>3, <2>5 DEF SettingsRequests
    <2>9. SettingsOK(c)'
        BY <1>0, <1>h, <2>6, <2>8 DEF SettingsOK, Waiting
    <2> QED BY <2>7, <2>9, SettingsMoveKeeps
<1>13. CASE GetOriginal(c)
    <2> DEFINE x == [settings[c] EXCEPT !.step = "write", !.old = Stored]
    <2>1. settings' = [settings EXCEPT ![c] = x]
        BY <1>13 DEF GetOriginal
    <2>2. Stored \in Copies
        BY <1>0, CopyTypes
    <2>3. ASSUME NEW y \in SettingsRequests, NEW g \in Copies
          PROVE  [y EXCEPT !.step = "write", !.old = g] \in SettingsRequests
        BY DEF SettingsRequests, SettingsSteps
    <2>4. OthersKeep(c) /\ settings'[c] = x
        BY <1>0, <2>1, <2>2, <2>3, SettingsTo
    <2>5. /\ settings[c].step = "update"
          /\ UNCHANGED <<isolation, identity, events, flows, request, history>>
        BY <1>13 DEF GetOriginal
    <2>6. SettingsMove(c)
        BY <1>0, <2>4, <2>5 DEF SettingsMove
    <2>7. /\ settings'[c].step = "write" /\ settings'[c].known = settings[c].known
          /\ settings'[c].new = settings[c].new /\ settings'[c].by = settings[c].by
          /\ settings'[c].proposal = settings[c].proposal
        BY <1>0, <2>4 DEF SettingsRequests
    <2>8. SettingsOK(c)'
        BY <1>0, <1>h, <2>5, <2>7 DEF SettingsOK, Waiting, FindChangedAddresses
    <2> QED BY <2>6, <2>8, SettingsMoveKeeps
<1>3. ASSUME End(c), settings[c].step \notin {"idle", "sent", "over"},
             UNCHANGED <<isolation, identity, events, flows, request, history>>
      PROVE  VerificationInv'
    <2>1. SettingsMove(c)
        BY <1>0, <1>3, EndAfter DEF SettingsMove
    <2>2. /\ settings'[c].step = "over" /\ settings'[c].known = {First}
          /\ settings'[c].new.verified = {}
        BY <1>0, <1>3, EndAfter
    <2>3. SettingsOK(c)'
        BY <1>0, <1>3, <1>h, <2>2 DEF SettingsOK, Waiting
    <2> QED BY <2>1, <2>3, SettingsMoveKeeps
<1>4. ASSUME NEW label \in SettingsSteps \ {"idle", "write", "sent", "over"}, GoOn(c, label),
             settings[c].step \notin {"idle", "sent", "over"},
             UNCHANGED <<isolation, identity, events, request, live, history>>,
             label = "update" => FindChangedAddresses(c) = {},
             label \in Waiting => Changing(c),
             pending' \in [Changes -> BOOLEAN],
             \A d \in Changes \ {c} : pending'[d] => pending[d],
             pending'[c] => label = "send",
             state' = state \/ state' = [state EXCEPT ![c] = "sent_email"]
      PROVE  VerificationInv'
    <2>1. state' \in [Changes -> States] /\ \A d \in Changes \ {c} : state'[d] = state[d]
        BY <1>0, <1>4 DEF States
    <2>2. SettingsMove(c)
        BY <1>0, <1>4, <2>1, GoOnAfter DEF SettingsMove
    <2>3. /\ settings'[c].step = label /\ settings'[c].known = settings[c].known
          /\ settings'[c].proposal = settings[c].proposal
          /\ settings'[c].new = settings[c].new
        BY <1>0, <1>4, GoOnAfter
    <2>4. state'[c] = "passed_challenge" => state[c] = "passed_challenge"
        BY <1>0, <1>4
    <2>5. SettingsOK(c)'
        BY <1>0, <1>4, <1>h, <2>3, <2>4 DEF SettingsOK, Waiting, Changing, FindChangedAddresses
    <2> QED BY <2>2, <2>5, SettingsMoveKeeps
<1>5. CASE VerifyNewAddress(c)
    <2>0. /\ settings[c].step = "hook" /\ "update" \in SettingsSteps \ {"idle", "write", "sent", "over"}
          /\ "delete" \in SettingsSteps \ {"idle", "write", "sent", "over"}
          /\ UNCHANGED <<isolation, identity, events, flows, request, history>>
        BY <1>5 DEF VerifyNewAddress, SettingsSteps
    <2>1. ~pending[c]
        BY <1>0, <2>0 DEF SettingsOK
    <2>2. CASE End(c)
        BY <1>3, <2>0, <2>2
    <2>3. CASE FindChangedAddresses(c) = {} /\ GoOn(c, "update")
        BY <1>0, <1>4, <2>0, <2>1, <2>3 DEF Waiting
    <2>4. CASE Cardinality(FindChangedAddresses(c)) = 1 /\ GoOn(c, "delete")
        <3>1. FindChangedAddresses(c) \in SUBSET Addresses
            BY <1>0 DEF FindChangedAddresses, SettingsRequests, Traits
        <3>2. IsFiniteSet(FindChangedAddresses(c))
            BY <3>1, VerificationAssumption, FS_Subset
        <3>3. \E a : FindChangedAddresses(c) = {a}
            BY <2>4, <3>2, FS_Singleton
        <3>4. Changing(c)
            BY <3>1, <3>3 DEF Changing
        <3> QED BY <1>0, <1>4, <2>0, <2>1, <2>4, <3>4
    <2> QED BY <1>5, <2>2, <2>3, <2>4 DEF VerifyNewAddress
<1>6. CASE DeletePendingTraitsChangesByIdentity(c)
    <2>1. PICK label \in {"flow", "recreate"} :
            /\ GoOn(c, label) /\ settings[c].step \in {"delete", "again"}
            /\ pending' = [d \in Changes |-> FALSE]
            /\ UNCHANGED <<isolation, identity, events, state, live, request, history>>
        BY <1>6 DEF DeletePendingTraitsChangesByIdentity
    <2>2. label \in SettingsSteps \ {"idle", "write", "sent", "over"} /\ Changing(c) /\ label # "update"
        BY <1>0, <2>1 DEF SettingsOK, Waiting, SettingsSteps
    <2>3. pending' \in [Changes -> BOOLEAN] /\ \A d \in Changes : ~pending'[d]
        BY <2>1
    <2> QED BY <1>4, <2>1, <2>2, <2>3
<1>7. CASE CreateVerificationFlow(c)
    <2>1. /\ GoOn(c, "create") /\ settings[c].step = "flow"
          /\ state' = [state EXCEPT ![c] = "sent_email"]
          /\ UNCHANGED <<isolation, identity, events, pending, live, request, history>>
        BY <1>7 DEF CreateVerificationFlow
    <2>2. /\ "create" \in SettingsSteps \ {"idle", "write", "sent", "over"} /\ Changing(c)
          /\ ~pending[c]
        BY <1>0, <2>1 DEF SettingsOK, Waiting, SettingsSteps
    <2> QED BY <1>0, <1>4, <2>1, <2>2
<1>8. CASE CreatePendingTraitsChange(c)
    <2>0. /\ settings[c].step \in {"create", "recreate"}
          /\ UNCHANGED <<isolation, identity, events, state, live, request, history>>
        BY <1>8 DEF CreatePendingTraitsChange
    <2>1. Changing(c) /\ ~pending[c]
        BY <1>0, <2>0 DEF SettingsOK, Waiting
    <2>2. /\ "send" \in SettingsSteps \ {"idle", "write", "sent", "over"}
          /\ "again" \in SettingsSteps \ {"idle", "write", "sent", "over"}
        BY DEF SettingsSteps
    <2>3. CASE pending' = [pending EXCEPT ![c] = TRUE] /\ GoOn(c, "send")
        <3>1. pending' \in [Changes -> BOOLEAN] /\ \A d \in Changes \ {c} : pending'[d] = pending[d]
            BY <1>0, <2>3
        <3> QED BY <1>4, <2>0, <2>1, <2>2, <2>3, <3>1
    <2>4. CASE pending' = pending /\ GoOn(c, "again")
        BY <1>0, <1>4, <2>0, <2>1, <2>2, <2>4
    <2>5. CASE pending' = pending /\ End(c)
        BY <1>3, <2>0, <2>5
    <2> QED BY <1>8, <2>3, <2>4, <2>5 DEF CreatePendingTraitsChange
<1>9. CASE SendCodeToNewAddress(c)
    <2> DEFINE x == [settings[c] EXCEPT !.step = "sent", !.new = NoRows]
    <2>1. /\ settings[c].step = "send" /\ settings' = [settings EXCEPT ![c] = x]
          /\ live' = [live EXCEPT ![c]["change"] = @ + 1]
          /\ UNCHANGED <<isolation, identity, events, pending, state, request, history>>
        BY <1>9 DEF SendCodeToNewAddress
    <2>2. ASSUME NEW y \in SettingsRequests
          PROVE  [y EXCEPT !.step = "sent", !.new = NoRows] \in SettingsRequests
        BY NoRowsType DEF SettingsRequests, SettingsSteps
    <2>3. OthersKeep(c) /\ settings'[c] = x
        BY <1>0, <2>1, <2>2, SettingsTo
    <2>4. /\ live' \in [Changes -> [Kinds -> Nat]]
          /\ \A d \in Changes \ {c} : live'[d] = live[d]
          /\ \A a \in Addresses : live'[c][a] = live[c][a]
        BY <1>0, <2>1, KindsApart
    <2>5. SettingsMove(c)
        BY <1>0, <2>1, <2>3, <2>4 DEF SettingsMove
    <2>6. /\ settings'[c].step = "sent" /\ settings'[c].known = settings[c].known
          /\ settings'[c].proposal = settings[c].proposal /\ settings'[c].new.verified = {}
        BY <1>0, <2>3, NoRowsType DEF SettingsRequests
    <2>7. SettingsOK(c)'
        BY <1>0, <1>h, <2>1, <2>4, <2>6 DEF SettingsOK, Waiting, Changing, FindChangedAddresses
    <2> QED BY <2>5, <2>7, SettingsMoveKeeps
<1>10. CASE SettingsFail(c)
    BY <1>3, <1>10 DEF SettingsFail
<1>11. CASE NewVerificationFlow(c)
    <2>1. /\ settings[c].step = "idle" /\ GoOn(c, "sent")
          /\ state' = [state EXCEPT ![c] = "choose_method"]
          /\ UNCHANGED <<isolation, identity, events, pending, live, request, history>>
        BY <1>11 DEF NewVerificationFlow
    <2>2. "sent" \in SettingsSteps
        BY DEF SettingsSteps
    <2>3. /\ OthersKeep(c) /\ settings'[c].step = "sent"
          /\ settings'[c].known = settings[c].known
          /\ settings'[c].new = settings[c].new
        BY <1>0, <2>1, <2>2, GoOnAfter
    <2>4. /\ state' \in [Changes -> States] /\ state'[c] = "choose_method"
          /\ \A d \in Changes \ {c} : state'[d] = state[d]
        BY <1>0, <2>1 DEF States
    <2>5. SettingsMove(c)
        BY <1>0, <2>1, <2>3, <2>4 DEF SettingsMove
    <2>6. SettingsOK(c)'
        BY <1>0, <1>h, <2>1, <2>3, <2>4 DEF SettingsOK, Waiting
    <2> QED BY <2>5, <2>6, SettingsMoveKeeps
<1> QED BY <1>1, <1>2, <1>5, <1>6, <1>7, <1>8, <1>9, <1>10, <1>11, <1>12, <1>13 DEF Settings

-----------------------------------------------------------------------------
(* Steps that write the identity *)

\* The rows after an update.
LEMMA RowsAfter ==
    ASSUME TypeOK, NEW t \in Traits, NEW new \in Copies, NEW old \in Copies,
           NEW marked, UpdateIdentity(t, new, old, marked)
    PROVE  /\ rows' \in [Addresses -> Nat] /\ made' \in [Addresses -> Nat]
           /\ HasRow' = (HasRow \ Removed(t, new, old)) \cup ToCreate(t, new, old)
           /\ ToCreate(t, new, old) \subseteq t.addrs /\ t.addrs \subseteq Addresses
           /\ old.ids = rows => HasRow' = t.addrs
<1> DEFINE C == ToCreate(t, new, old)
           R == Removed(t, new, old)
<1>0. /\ rows \in [Addresses -> Nat] /\ made \in [Addresses -> Nat]
      /\ new.ids \in [Addresses -> Nat] /\ old.ids \in [Addresses -> Nat]
      /\ t.addrs \subseteq Addresses
    BY DEF TypeOK, Copies, Traits
<1>1. /\ C \subseteq t.addrs /\ R \subseteq Addresses
    BY DEF ToCreate, Removed, ToRemove
<1>2. \A a \in Addresses : IdFor(a, new) \in Nat /\ IdFor(a, new) # 0
    BY <1>0 DEF IdFor
<1>3. /\ rows' = [a \in Addresses |-> IF a \in C THEN IdFor(a, new)
                                     ELSE IF a \in R THEN 0 ELSE rows[a]]
      /\ made' = [a \in Addresses |-> IF a \in C /\ new.ids[a] = 0 THEN made[a] + 1 ELSE made[a]]
    BY DEF UpdateIdentity
<1>4. rows' \in [Addresses -> Nat]
    BY <1>0, <1>2, <1>3
<1>5. made' \in [Addresses -> Nat]
    BY <1>0, <1>3
<1>6. \A a \in Addresses : rows'[a] # 0 <=> a \in C \/ (rows[a] # 0 /\ a \notin R)
    BY <1>2, <1>3
<1>7. HasRow' = (HasRow \ R) \cup C
    BY <1>0, <1>1, <1>6 DEF HasRow
<1>8. ASSUME old.ids = rows PROVE HasRow' = t.addrs
    <2>1. R = ToRemove(t, new, old)
        BY <1>8 DEF Removed
    <2>2. \A a \in Addresses : a \in C \/ (rows[a] # 0 /\ a \notin R) <=> a \in t.addrs
        BY <1>8, <2>1 DEF ToCreate, ToRemove
    <2> QED BY <1>0, <1>6, <2>2 DEF HasRow
<1> QED BY <1>0, <1>1, <1>4, <1>5, <1>7, <1>8

\* The identity, its rows and the codes after an update.
LEMMA UpdateAfter ==
    ASSUME VerificationInv, NEW t \in Traits, NEW new \in Copies, NEW old \in Copies,
           NEW marked, UpdateIdentity(t, new, old, marked), marked \subseteq HasRow',
           new.verified \cup marked \subseteq proven, proven' = proven,
           given \subseteq given', t.addrs \subseteq given' \cup proven
    PROVE  /\ IdentityOK'
           /\ traits' \in Traits /\ rows' \in [Addresses -> Nat] /\ made' \in [Addresses -> Nat]
           /\ verified' \in SUBSET HasRow' /\ claimed' \in SUBSET (Addresses \ HasRow')
           /\ session' = session /\ pending' = pending /\ state' = state
           /\ outdated' \in BOOLEAN
           /\ live' \in [Changes -> [Kinds -> Nat]]
           /\ \A d \in Changes : live'[d]["change"] = live[d]["change"]
           /\ \A d \in Changes : \A a \in Addresses : live'[d][a] > 0 => a \in HasRow'
<1> DEFINE C == ToCreate(t, new, old)
           R == Removed(t, new, old)
<1>1. /\ traits' = t /\ verified' = (verified \ R) \cup (C \cap new.verified) \cup marked
      /\ claimed' = claimed /\ C \cap (claimed \cup (HasRow \ R)) = {}
      /\ session' = session /\ pending' = pending /\ state' = state
      /\ outdated' = (old.ids # rows)
      /\ live' = [c \in Changes |-> [kind \in Kinds |-> IF kind \in R THEN 0 ELSE live[c][kind]]]
    BY DEF UpdateIdentity, Unique
<1>2. /\ TypeOK /\ claimed \in SUBSET (Addresses \ HasRow)
      /\ live \in [Changes -> [Kinds -> Nat]]
      /\ verified \in SUBSET HasRow /\ verified \subseteq proven /\ First \in given
      /\ HasRow \subseteq given \cup proven
    BY DEF VerificationInv, TypeOK, IdentityOK
<1>3. /\ rows' \in [Addresses -> Nat] /\ made' \in [Addresses -> Nat]
      /\ HasRow' = (HasRow \ R) \cup C /\ C \subseteq t.addrs
      /\ old.ids = rows => HasRow' = t.addrs
    BY <1>2, RowsAfter
<1>4. R \subseteq Addresses
    BY DEF Removed, ToRemove
<1>5. verified' \in SUBSET HasRow' /\ claimed' \in SUBSET (Addresses \ HasRow')
    BY <1>1, <1>2, <1>3
<1>6. IdentityOK'
    BY <1>1, <1>2, <1>3 DEF IdentityOK
<1>7. live' \in [Changes -> [Kinds -> Nat]]
    BY <1>1, <1>2
<1>8. \A d \in Changes : live'[d]["change"] = live[d]["change"]
    BY <1>1, <1>4, KindsApart
<1>9. ASSUME NEW d \in Changes, NEW a \in Addresses, live'[d][a] > 0
      PROVE  a \in HasRow'
    <2>1. a \notin R /\ live[d][a] > 0
        BY <1>1, <1>9, KindsApart
    <2>2. a \in HasRow
        BY <2>1 DEF VerificationInv, SettingsOK
    <2> QED BY <1>3, <2>1, <2>2
<1>10. outdated' \in BOOLEAN
    BY <1>1
<1> QED BY <1>1, <1>3, <1>5, <1>6, <1>7, <1>8, <1>9, <1>10

\* A profile or an administrator's update writes its copy.
LEMMA UpdateStep ==
    ASSUME VerificationInv, NEW c \in Changes, Update(c)
    PROVE  VerificationInv'
<1>a. /\ settings[c].proposal \in Traits /\ settings[c].new \in Copies
      /\ settings[c].old \in Copies
    BY DEF VerificationInv, TypeOK, SettingsRequests
<1>b. PICK t \in Traits, new \in Copies, old \in Copies :
        t = settings[c].proposal /\ new = settings[c].new /\ old = settings[c].old
    BY <1>a
<1>0. TypeOK /\ SettingsOK(c) /\ settings[c].by \in {"user", "admin"}
    BY DEF VerificationInv, TypeOK, SettingsRequests
<1>1. /\ settings[c].step = "write" /\ UpdateIdentity(t, new, old, {})
      /\ Overtake /\ End(c)
      /\ given' = given \cup (IF settings[c].by = "admin" THEN t.addrs ELSE {})
      /\ UNCHANGED <<isolation, events, request, proven, applied, effective>>
    BY <1>b DEF Update, At
<1>2. /\ given \subseteq given' /\ t.addrs \subseteq given' \cup proven
      /\ given' \in SUBSET Addresses /\ new.verified \subseteq proven
    <2>1. settings[c].by = "user" => t.addrs \subseteq settings[c].known
        BY <1>b, <1>0, <1>1 DEF SettingsOK, FindChangedAddresses
    <2>2. settings[c].known \subseteq given \cup proven /\ new.verified \subseteq proven
        BY <1>b, <1>0 DEF SettingsOK
    <2>3. given \in SUBSET Addresses /\ t.addrs \subseteq Addresses
        BY <1>0 DEF TypeOK, Traits
    <2> QED BY <1>0, <1>1, <2>1, <2>2, <2>3
<1>3. /\ IdentityOK'
      /\ traits' \in Traits /\ rows' \in [Addresses -> Nat] /\ made' \in [Addresses -> Nat]
      /\ verified' \in SUBSET HasRow' /\ claimed' \in SUBSET (Addresses \ HasRow')
      /\ session' = session /\ pending' = pending /\ state' = state
      /\ outdated' \in BOOLEAN
      /\ live' \in [Changes -> [Kinds -> Nat]]
      /\ \A d \in Changes : live'[d]["change"] = live[d]["change"]
      /\ \A d \in Changes : \A a \in Addresses : live'[d][a] > 0 => a \in HasRow'
    <2>1. {} \subseteq HasRow' /\ new.verified \cup {} \subseteq proven /\ proven' = proven
        BY <1>1, <1>2
    <2> QED BY <1>1, <1>2, <2>1, UpdateAfter
<1>4. /\ OthersKeep(c) /\ settings'[c].step = "over"
      /\ settings'[c].known = {First} /\ settings'[c].new.verified = {}
    BY <1>0, <1>1, EndAfter
<1>5. Growing
    BY <1>1, <1>2, <1>4 DEF Growing, OthersKeep
<1>6. TypeOK'
    <2>1. overtaken' \in SUBSET Requests
        BY <1>0, <1>1 DEF Overtake, TypeOK
    <2> QED BY <1>0, <1>1, <1>2, <1>3, <1>4, <2>1 DEF TypeOK, OthersKeep
<1>7. ASSUME NEW q \in Requests PROVE RequestOK(q)' /\ CheckedOK(q)'
    BY <1>1, <1>5, RequestKept, CheckedOvertaken
<1>8. ASSUME NEW d \in Changes PROVE SettingsOK(d)'
    <2>1. SettingsOK(d) /\ First \in given
        BY DEF VerificationInv, IdentityOK
    <2>2. CASE d = c
        BY <1>0, <1>1, <1>2, <1>3, <1>4, <2>1, <2>2 DEF SettingsOK, Waiting
    <2>3. CASE d # c
        <3>1. settings'[d] = settings[d]
            BY <1>4, <2>3 DEF OthersKeep
        <3> QED BY <1>1, <1>3, <1>5, <2>1, <3>1, SettingsKept DEF SettingsOK
    <2> QED BY <2>2, <2>3
<1> QED BY <1>3, <1>6, <1>7, <1>8 DEF VerificationInv

\* A pending change is applied: the only address it adds is proven.
LEMMA ApplyStep ==
    ASSUME VerificationInv, NEW r \in Requests, ApplyPendingTraitsChange(r)
    PROVE  VerificationInv'
<1> DEFINE c == request[r].change
<1>0. TypeOK /\ RequestOK(r) /\ request[r] \in VerificationRequests /\ request[r].step = "write"
    BY DEF VerificationInv, TypeOK, ApplyPendingTraitsChange, On
<1>1. /\ c \in Changes /\ c = request[r].flow /\ Changing(c) /\ NewAddress(c) \in proven
      /\ request[r].new.verified \subseteq proven /\ request[r].new \in Copies
    BY <1>0 DEF RequestOK, VerificationRequests
<1>2. /\ SettingsOK(c) /\ settings[c].proposal \in Traits
      /\ rows \in [Addresses -> Nat] /\ verified \in SUBSET Addresses
    BY <1>0, <1>1 DEF VerificationInv, TypeOK, SettingsRequests, HasRow
<1>b. PICK t \in Traits, new \in Copies, old \in Copies :
        /\ t = settings[c].proposal /\ new = request[r].new /\ old = Stored
        /\ old.ids = rows
    BY <1>1, <1>2, CopyTypes
<1>3. FindChangedAddresses(c) = {NewAddress(c)} /\ Marked(c) \subseteq t.addrs
    BY <1>b, <1>1, TheNewAddress DEF Marked, FindChangedAddresses
<1>4. /\ UpdateIdentity(t, new, old, Marked(c))
      /\ Continue(r, "pass") /\ Overtake
      /\ applied' = [applied EXCEPT ![c] = @ + 1]
      /\ effective' = effective \cup {request[r].flow}
      /\ UNCHANGED <<isolation, events, settings, given, proven>>
    BY <1>b DEF ApplyPendingTraitsChange
<1>5. /\ Marked(c) \subseteq HasRow' /\ Marked(c) \subseteq proven
      /\ t.addrs \subseteq given' \cup proven
    <2>1. HasRow' = t.addrs
        BY <1>0, <1>b, <1>4, RowsAfter
    <2> QED BY <1>b, <1>1, <1>2, <1>3, <1>4, <2>1 DEF SettingsOK, FindChangedAddresses, Marked
<1>6. /\ IdentityOK'
      /\ traits' \in Traits /\ rows' \in [Addresses -> Nat] /\ made' \in [Addresses -> Nat]
      /\ verified' \in SUBSET HasRow' /\ claimed' \in SUBSET (Addresses \ HasRow')
      /\ session' = session /\ pending' = pending /\ state' = state
      /\ outdated' \in BOOLEAN
      /\ live' \in [Changes -> [Kinds -> Nat]]
      /\ \A d \in Changes : live'[d]["change"] = live[d]["change"]
      /\ \A d \in Changes : \A a \in Addresses : live'[d][a] > 0 => a \in HasRow'
    <2>1. /\ new.verified \cup Marked(c) \subseteq proven /\ proven' = proven
          /\ given \subseteq given'
        BY <1>b, <1>1, <1>4, <1>5
    <2> QED BY <1>4, <1>5, <2>1, UpdateAfter
<1>7. Growing
    BY <1>4 DEF Growing
<1>8. /\ OthersStay(r) /\ request'[r].step = "pass" /\ request'[r].flow = request[r].flow
      /\ request'[r].copy = request[r].copy /\ request'[r].change = request[r].change
      /\ request'[r].new = request[r].new
    <2>1. "pass" \in Steps
        BY DEF Steps
    <2> QED BY <1>0, <1>4, <2>1, ContinueAfter
<1>9. TypeOK'
    <2>1. applied' \in [Changes -> Nat] /\ effective' \in SUBSET Changes
        BY <1>0, <1>1, <1>4 DEF TypeOK
    <2>2. overtaken' \in SUBSET Requests
        BY <1>0, <1>4 DEF Overtake, TypeOK
    <2> QED BY <1>0, <1>4, <1>6, <1>8, <2>1, <2>2 DEF TypeOK, OthersStay
<1>10. ASSUME NEW q \in Requests PROVE RequestOK(q)' /\ CheckedOK(q)'
    <2>1. CASE q = r
        <3>1. Changing(request[q].flow)'
            BY <1>1, <1>4, <1>8, <2>1 DEF Changing, FindChangedAddresses
        <3>2. /\ request'[q].step = "pass" /\ request'[q].change = request'[q].flow
              /\ request'[q].flow \in Changes /\ request'[q].flow \in effective'
              /\ settings'[request'[q].flow].step = "sent"
              /\ request'[q].new.verified \subseteq proven'
              /\ request'[q].copy # "passed_challenge"
            <4>1. /\ settings' = settings /\ proven' = proven
                  /\ effective' = effective \cup {request[r].flow}
                BY <1>4
            <4>2. settings[request[r].flow].step = "sent" /\ request[r].copy # "passed_challenge"
                BY <1>0 DEF RequestOK
            <4> QED BY <1>1, <1>8, <2>1, <4>1, <4>2
        <3> QED BY <3>1, <3>2 DEF RequestOK, CheckedOK
    <2>2. CASE q # r
        <3>1. request'[q] = request[q]
            BY <1>8, <2>2 DEF OthersStay
        <3> QED BY <1>4, <1>7, <3>1, RequestKept, CheckedOvertaken
    <2> QED BY <2>1, <2>2
<1>11. ASSUME NEW d \in Changes PROVE SettingsOK(d)'
    <2>1. SettingsOK(d)
        BY DEF VerificationInv
    <2> QED BY <1>4, <1>6, <1>7, <2>1, SettingsKept DEF SettingsOK
<1> QED BY <1>6, <1>9, <1>10, <1>11 DEF VerificationInv

-----------------------------------------------------------------------------
(* The other steps of requests *)

\* The usable codes are for changes that were sent and for rows that exist.
CodesRight ==
    /\ live' \in [Changes -> [Kinds -> Nat]]
    /\ \A d \in Changes : live'[d]["change"] > 0 => settings[d].step = "sent" /\ Changing(d)
    /\ \A d \in Changes : \A a \in Addresses : live'[d][a] > 0 => a \in HasRow

\* A step of r writes no traits; states and verified rows are earned.
RequestMove(r) ==
    /\ OthersStay(r)
    /\ UNCHANGED <<isolation, traits, rows, made, claimed, session, events, settings, pending,
                   given, applied, outdated>>
    /\ overtaken' \in SUBSET Requests /\ overtaken \ {r} \subseteq overtaken'
    /\ verified' \in SUBSET HasRow /\ verified' \subseteq proven'
    /\ state' \in [Changes -> States]
    /\ \A d \in Changes : state'[d] = "passed_challenge" => d \in effective'
    /\ CodesRight
    /\ proven' \in SUBSET Addresses /\ effective' \in SUBSET Changes
    /\ proven \subseteq proven' /\ effective \subseteq effective'

\* Such a step keeps the invariant if r is right afterwards.
LEMMA RequestMoveKeeps ==
    ASSUME VerificationInv, NEW r \in Requests, RequestMove(r), RequestOK(r)',
           request'[r].step \in {"load", "write"} => CheckedOK(r)'
    PROVE  VerificationInv'
<1>0. HasRow' = HasRow
    BY DEF RequestMove, HasRow
<1>1. Growing
    BY DEF Growing, RequestMove
<1>2. TypeOK'
    BY <1>0 DEF VerificationInv, TypeOK, RequestMove, OthersStay, CodesRight
<1>3. ASSUME NEW q \in Requests PROVE RequestOK(q)' /\ CheckedOK(q)'
    <2>1. CASE q # r
        <3>1. /\ request'[q] = request[q] /\ traits' = traits /\ session' = session
              /\ q \in overtaken => q \in overtaken'
            BY <2>1 DEF RequestMove, OthersStay
        <3> QED BY <1>1, <3>1, RequestKept, CheckedKept
    <2>2. CASE q = r
        BY <2>2 DEF CheckedOK
    <2> QED BY <2>1, <2>2
<1>4. ASSUME NEW d \in Changes PROVE SettingsOK(d)'
    <2>1. SettingsOK(d)
        BY DEF VerificationInv
    <2>2. /\ settings' = settings /\ pending' = pending /\ HasRow' = HasRow /\ given' = given
          /\ proven \subseteq proven'
          /\ state'[d] = "passed_challenge" => d \in effective'
          /\ live'[d]["change"] > 0 => settings[d].step = "sent" /\ Changing(d)
          /\ \A a \in Addresses : live'[d][a] > 0 => a \in HasRow
        BY <1>0 DEF RequestMove, CodesRight
    <2> QED BY <2>1, <2>2 DEF SettingsOK, Changing, FindChangedAddresses
<1>5. IdentityOK'
    BY <1>0 DEF VerificationInv, IdentityOK, RequestMove
<1> QED BY <1>2, <1>3, <1>4, <1>5 DEF VerificationInv

\* What makes the acting request right, with the change as it was before the step.
LEMMA OnwardsOK ==
    ASSUME NEW r \in Requests, settings' = settings,
           request'[r].flow \in Changes, settings[request'[r].flow].step = "sent",
           request'[r].step \notin {"idle", "done"},
           request'[r].change # None =>
               request'[r].change = request'[r].flow /\ Changing(request'[r].flow),
           request'[r].step \in {"recheck", "sendChange", "check", "load", "write"} =>
               request'[r].change # None,
           request'[r].step \in {"pending", "check", "load", "write"} =>
               Changing(request'[r].flow) /\ NewAddress(request'[r].flow) \in proven',
           request'[r].step = "mark" =>
               /\ request'[r].code \in Addresses /\ request'[r].code \in proven'
               /\ request'[r].row # 0,
           request'[r].new.verified \subseteq proven',
           request'[r].copy # "passed_challenge",
           request'[r].step = "pass" => request'[r].flow \in effective'
    PROVE  RequestOK(r)'
BY DEF RequestOK, Changing, NewAddress, FindChangedAddresses

\* An answered request is right.
LEMMA AnsweredOK ==
    ASSUME TypeOK, NEW r \in Requests, Finish(r)
    PROVE  OthersStay(r) /\ RequestOK(r)' /\ request'[r].step = "done"
<1>1. /\ OthersStay(r)
      /\ request'[r].step = "done" /\ request'[r].flow = None
      /\ request'[r].copy = "none" /\ request'[r].change = None
      /\ request'[r].code = None /\ request'[r].new.verified = {}
    BY FinishAfter
<1> QED BY <1>1 DEF RequestOK

\* Every other step of a request keeps the invariant.
LEMMA RequestStep ==
    ASSUME VerificationInv, NEW r \in Requests, Step(r), ~ApplyPendingTraitsChange(r)
    PROVE  VerificationInv'
<1> USE DEF identity, flows, history, On
<1> DEFINE c == request[r].flow
           Idle == {"idle", "done"}
<1>0. /\ TypeOK /\ RequestOK(r) /\ request[r] \in VerificationRequests
      /\ live \in [Changes -> [Kinds -> Nat]] /\ state \in [Changes -> States]
      /\ verified \in SUBSET HasRow /\ verified \subseteq proven
      /\ proven \in SUBSET Addresses /\ effective \in SUBSET Changes
      /\ overtaken \in SUBSET Requests
      /\ HasRow \in SUBSET Addresses
    BY DEF VerificationInv, TypeOK, IdentityOK, HasRow
<1>a. \A d \in Changes : SettingsOK(d)
    BY DEF VerificationInv
<1>b. live' = live => CodesRight
    BY <1>0, <1>a DEF CodesRight, SettingsOK
<1>c. \A d \in Changes : state[d] = "passed_challenge" => d \in effective
    BY <1>a DEF SettingsOK
<1>d. request[r].step \notin Idle => c \in Changes /\ settings[c].step = "sent"
    BY <1>0 DEF RequestOK
<1>e. ASSUME OthersStay(r), UNCHANGED <<isolation, identity, events, settings, flows, history>>
      PROVE  RequestMove(r)
    BY <1>0, <1>b, <1>c, <1>e DEF RequestMove
<1>f. ASSUME NEW label \in Steps \ {"idle", "done", "recheck", "sendChange", "pending", "mark",
                                    "check", "load", "write", "pass"},
             Continue(r, label), request[r].step \notin Idle, RequestMove(r)
      PROVE  VerificationInv'
    <2>1. /\ request'[r].step = label /\ request'[r].flow = request[r].flow
          /\ request'[r].copy = request[r].copy /\ request'[r].change = request[r].change
          /\ request'[r].new = request[r].new
        BY <1>0, <1>f, ContinueAfter
    <2>2. /\ request[r].new.verified \subseteq proven' /\ request[r].copy # "passed_challenge"
          /\ request[r].change # None => request[r].change = c /\ Changing(c)
          /\ settings' = settings
        BY <1>0, <1>f DEF RequestOK, RequestMove
    <2>3. RequestOK(r)'
        BY <1>d, <1>f, <2>1, <2>2, OnwardsOK
    <2> QED BY <1>f, <2>1, <2>3, RequestMoveKeeps
<1>g. "save" \in Steps \ {"idle", "done", "recheck", "sendChange", "pending", "mark",
                          "check", "load", "write", "pass"}
    BY DEF Steps
<1>1. ASSUME NEW d \in Changes, NEW form \in DOMAIN FirstStep, Verify(r, d, form)
      PROVE  VerificationInv'
    <2>1. /\ request[r].step = "idle" /\ settings[d].step = "sent"
          /\ UNCHANGED <<isolation, identity, events, settings, flows, history>>
        BY <1>1 DEF Verify, At
    <2>2. OthersStay(r)
        BY <1>0, <1>1, VerifyAfter
    <2>3. RequestMove(r)
        BY <1>e, <2>1, <2>2
    <2>4. CASE Finish(r)
        BY <1>0, <2>3, <2>4, AnsweredOK, RequestMoveKeeps
    <2>5. CASE ~Finish(r)
        <3>1. /\ request'[r].step \in {"save", "clear", "use"} /\ request'[r].flow = d
              /\ request'[r].copy # "passed_challenge"
              /\ request'[r].change = request[r].change
              /\ request'[r].new = request[r].new
            BY <1>0, <1>1, <2>5, VerifyAfter
        <3>2. request[r].change = None /\ request[r].new.verified \subseteq proven'
            BY <1>0, <2>1 DEF RequestOK
        <3>3. RequestOK(r)'
            BY <2>1, <3>1, <3>2, OnwardsOK
        <3> QED BY <2>3, <3>1, <3>3, RequestMoveKeeps
    <2> QED BY <2>4, <2>5
<1>2. CASE Save(r)
    <2>1. /\ request[r].step = "save" /\ Finish(r)
          /\ state' = [state EXCEPT ![c] = request[r].copy]
          /\ UNCHANGED <<isolation, identity, events, settings, pending, live, history>>
        BY <1>2 DEF Save, UpdateVerificationFlow
    <2>2. /\ request[r].copy # "passed_challenge" /\ request[r].copy \in States
        BY <1>0 DEF RequestOK, VerificationRequests
    <2>3. /\ state' \in [Changes -> States]
          /\ \A d \in Changes : state'[d] = "passed_challenge" => d \in effective'
        BY <1>0, <1>c, <2>1, <2>2
    <2>4. RequestMove(r)
        BY <1>0, <1>b, <2>1, <2>3, AnsweredOK DEF RequestMove
    <2> QED BY <1>0, <2>1, <2>4, AnsweredOK, RequestMoveKeeps
<1>3. CASE DeleteVerificationCodesOfFlow(r)
    <2>1. /\ request[r].step = "clear" /\ Continue(r, "lookup")
          /\ live' = [live EXCEPT ![c] = NoCodes]
          /\ UNCHANGED <<isolation, identity, events, settings, pending, state, history>>
        BY <1>3 DEF DeleteVerificationCodesOfFlow
    <2>2. "lookup" \in Steps \ {"idle", "done", "recheck", "sendChange", "pending", "mark",
                                "check", "load", "write", "pass"}
        BY DEF Steps
    <2>3. CodesRight
        <3>1. live' \in [Changes -> [Kinds -> Nat]]
            BY <1>0, <2>1 DEF NoCodes
        <3>2. \A d \in Changes : \A kind \in Kinds : live'[d][kind] > 0 => live[d][kind] > 0
            BY <1>0, <2>1 DEF NoCodes
        <3> QED BY <1>a, <3>1, <3>2, KindsApart DEF CodesRight, SettingsOK
    <2>4. RequestMove(r)
        BY <1>0, <1>c, <2>1, <2>2, <2>3, ContinueAfter DEF RequestMove
    <2> QED BY <1>f, <2>1, <2>2, <2>4
<1>4. CASE LookupPending(r)
    <2>1. /\ request[r].step \in {"lookup", "pending"}
          /\ UNCHANGED <<isolation, identity, events, settings, flows, history>>
        BY <1>4 DEF LookupPending
    <2>2. /\ OthersStay(r) /\ request'[r].flow = c /\ request'[r].copy = request[r].copy
          /\ request'[r].new = request[r].new
        BY <1>0, <1>4, LookupAfter
    <2>3. /\ c \in Changes /\ settings[c].step = "sent" /\ request[r].new.verified \subseteq proven'
          /\ request[r].copy # "passed_challenge"
          /\ request[r].change # None => request[r].change = c /\ Changing(c)
          /\ request[r].step = "pending" => Changing(c) /\ NewAddress(c) \in proven'
        BY <1>0, <1>d, <2>1 DEF RequestOK
    <2>4. \/ /\ request'[r].step \in {"sendAddress", "save"}
             /\ request'[r].change = request[r].change
          \/ /\ pending[c] /\ request'[r].change = c
             /\ request'[r].step = IF request[r].step = "lookup" THEN "recheck" ELSE "check"
        BY <1>0, <1>4, <2>3, LookupAfter
    <2>5. pending[c] => Changing(c)
        BY <1>a, <2>3 DEF SettingsOK
    <2>6. c # None
        BY <2>3, KindsApart
    <2>7. RequestOK(r)'
        <3>1. CASE request'[r].step \in {"sendAddress", "save"}
            BY <2>1, <2>2, <2>3, <2>4, <2>5, <3>1, OnwardsOK
        <3>2. CASE request'[r].step \notin {"sendAddress", "save"}
            BY <2>1, <2>2, <2>3, <2>4, <2>5, <2>6, <3>2, OnwardsOK
        <3> QED BY <3>1, <3>2
    <2>8. request'[r].step \notin {"load", "write"}
        BY <2>4
    <2> QED BY <1>e, <2>1, <2>2, <2>7, <2>8, RequestMoveKeeps
<1>5. CASE Recheck(r)
    <2>1. /\ request[r].step = "recheck" /\ (Continue(r, "save") \/ Continue(r, "sendChange"))
          /\ UNCHANGED <<isolation, identity, events, settings, flows, history>>
        BY <1>5 DEF Recheck
    <2>2. "sendChange" \in Steps
        BY DEF Steps
    <2>3. OthersStay(r)
        BY <1>0, <1>g, <2>1, <2>2, ContinueAfter
    <2>4. CASE Continue(r, "sendChange")
        <3>1. /\ request'[r].step = "sendChange" /\ request'[r].flow = c
              /\ request'[r].copy = request[r].copy /\ request'[r].change = request[r].change
              /\ request'[r].new = request[r].new
            BY <1>0, <2>2, <2>4, ContinueAfter
        <3>2. /\ request[r].change # None /\ request[r].change = c /\ Changing(c)
              /\ request[r].new.verified \subseteq proven' /\ request[r].copy # "passed_challenge"
            BY <1>0, <2>1 DEF RequestOK
        <3>3. RequestOK(r)'
            BY <1>d, <2>1, <3>1, <3>2, OnwardsOK
        <3> QED BY <1>e, <2>1, <2>3, <3>1, <3>3, RequestMoveKeeps
    <2> QED BY <1>e, <1>f, <1>g, <2>1, <2>3, <2>4
<1>6. CASE SendVerificationCode(r)
    <2>1. /\ request[r].step \in {"sendChange", "sendAddress"}
          /\ UNCHANGED <<isolation, identity, events, settings, pending, state, history>>
        BY <1>6 DEF SendVerificationCode
    <2>2. /\ OthersStay(r) /\ request'[r].step = "save" /\ request'[r].copy = "sent_email"
          /\ request'[r].flow = c /\ request'[r].change = request[r].change
          /\ request'[r].new = request[r].new
        BY <1>0, <1>6, SendAfter
    <2>3. /\ c \in Changes /\ settings[c].step = "sent" /\ request[r].new.verified \subseteq proven'
          /\ request[r].change # None => request[r].change = c /\ Changing(c)
          /\ request[r].step = "sendChange" => request[r].change # None
        BY <1>0, <1>d, <2>1 DEF RequestOK
    <2>4. CodesRight
        <3>1. CASE /\ request[r].step = "sendChange"
                   /\ live' = [live EXCEPT ![c]["change"] = @ + 1]
            <4>1. live' \in [Changes -> [Kinds -> Nat]]
                BY <1>0, <2>3, <3>1, KindsApart
            <4>2. \A d \in Changes : /\ d # c => live'[d] = live[d]
                                     /\ \A a \in Addresses : live'[d][a] = live[d][a]
                BY <1>0, <3>1, KindsApart
            <4> QED BY <1>a, <2>3, <3>1, <4>1, <4>2 DEF CodesRight, SettingsOK
        <3>2. ASSUME NEW a \in HasRow, live' = [live EXCEPT ![c][a] = @ + 1]
              PROVE  CodesRight
            <4>0. a \in Kinds /\ a \in Addresses /\ a # "change"
                BY <1>0, KindsApart
            <4>1. live' \in [Changes -> [Kinds -> Nat]]
                BY <1>0, <2>3, <3>2, <4>0
            <4>2. \A d \in Changes : \A kind \in Kinds \ {a} : live'[d][kind] = live[d][kind]
                BY <1>0, <3>2, <4>0
            <4>3. \A d \in Changes : live'[d]["change"] = live[d]["change"]
                BY <4>0, <4>2, KindsApart
            <4>4. \A d \in Changes : \A b \in Addresses : live'[d][b] > 0 => b \in HasRow
                BY <1>a, <4>2, KindsApart DEF SettingsOK
            <4> QED BY <1>a, <4>1, <4>3, <4>4 DEF CodesRight, SettingsOK
        <3> QED BY <1>6, <1>b, <3>1, <3>2 DEF SendVerificationCode
    <2>5. RequestMove(r)
        BY <1>0, <1>c, <2>1, <2>2, <2>4 DEF RequestMove
    <2>6. RequestOK(r)'
        BY <2>1, <2>2, <2>3, OnwardsOK
    <2> QED BY <2>2, <2>5, <2>6, RequestMoveKeeps
<1>7. CASE UseVerificationCode(r)
    <2>1. /\ request[r].step = "use"
          /\ UNCHANGED <<isolation, identity, events, settings, pending, state, given, applied,
                         effective, outdated, overtaken>>
        BY <1>7 DEF UseVerificationCode
    <2>2. /\ OthersStay(r) /\ request'[r].flow = c /\ request'[r].change = request[r].change
          /\ request'[r].copy = request[r].copy /\ request'[r].new = request[r].new
        BY <1>0, <1>7, UseAfter
    <2>3. /\ c \in Changes /\ settings[c].step = "sent" /\ request[r].new.verified \subseteq proven
          /\ request[r].change # None => request[r].change = c /\ Changing(c)
          /\ request[r].copy # "passed_challenge"
        BY <1>0, <1>d, <2>1 DEF RequestOK
    <2>4. CASE request'[r].step = "save" /\ live' = live /\ proven' = proven
        <3>1. RequestMove(r)
            BY <1>e, <2>1, <2>2, <2>4
        <3>2. RequestOK(r)'
            BY <2>1, <2>2, <2>3, <2>4, OnwardsOK
        <3> QED BY <2>4, <3>1, <3>2, RequestMoveKeeps
    <2>5. ASSUME NEW kind \in Kinds, live[c][kind] > 0,
                 live' = [live EXCEPT ![c][kind] = @ - 1],
                 proven' = proven \cup {SentTo(c, kind)},
                 request'[r].code = kind,
                 request'[r].row = IF kind = "change" THEN 0 ELSE rows[kind],
                 request'[r].step = IF kind = "change" THEN "pending" ELSE "mark"
          PROVE  VerificationInv'
        <3>1. CodesRight
            <4>1. live' \in [Changes -> [Kinds -> Nat]]
                BY <1>0, <2>3, <2>5
            <4>2. \A d \in Changes : \A l \in Kinds : live'[d][l] > 0 => live[d][l] > 0
                BY <1>0, <2>3, <2>5
            <4> QED BY <1>a, <4>1, <4>2, KindsApart DEF CodesRight, SettingsOK
        <3>2. CASE kind = "change"
            <4>1. Changing(c)
                BY <1>a, <2>3, <2>5, <3>2 DEF SettingsOK
            <4>2. NewAddress(c) \in Addresses /\ SentTo(c, kind) = NewAddress(c)
                BY <2>3, <3>2, <4>1, TheNewAddress DEF SentTo
            <4>3. RequestMove(r)
                BY <1>0, <1>c, <2>1, <2>2, <2>5, <3>1, <4>2 DEF RequestMove
            <4>4. RequestOK(r)'
                BY <2>1, <2>2, <2>3, <2>5, <3>2, <4>1, <4>2, OnwardsOK
            <4> QED BY <2>5, <4>3, <4>4, RequestMoveKeeps
        <3>3. CASE kind # "change"
            <4>1. kind \in Addresses /\ SentTo(c, kind) = kind
                BY <3>3 DEF SentTo, Kinds
            <4>2. rows[kind] # 0
                BY <1>a, <2>3, <2>5, <4>1 DEF SettingsOK, HasRow
            <4>3. RequestMove(r)
                BY <1>0, <1>c, <2>1, <2>2, <2>5, <3>1, <4>1 DEF RequestMove
            <4>4. RequestOK(r)'
                BY <2>1, <2>2, <2>3, <2>5, <3>3, <4>1, <4>2, OnwardsOK
            <4> QED BY <2>5, <4>3, <4>4, RequestMoveKeeps
        <3> QED BY <3>2, <3>3
    <2> QED BY <1>0, <1>7, <2>4, <2>5, UseAfter
<1>8. CASE MarkVerified(r)
    <2>1. /\ request[r].step = "mark" /\ Continue(r, "pass")
          /\ rows[request[r].code] = request[r].row
          /\ verified' = verified \cup {request[r].code}
          /\ effective' = effective \cup {c}
          /\ UNCHANGED <<isolation, traits, rows, made, claimed, session, events, settings, flows,
                         given, proven, applied, outdated, overtaken>>
        BY <1>8 DEF MarkVerified
    <2>2. "pass" \in Steps
        BY DEF Steps
    <2>3. /\ OthersStay(r) /\ request'[r].step = "pass" /\ request'[r].flow = c
          /\ request'[r].copy = request[r].copy /\ request'[r].change = request[r].change
          /\ request'[r].new = request[r].new
        BY <1>0, <2>1, <2>2, ContinueAfter
    <2>4. /\ c \in Changes /\ settings[c].step = "sent" /\ request[r].new.verified \subseteq proven'
          /\ request[r].change # None => request[r].change = c /\ Changing(c)
          /\ request[r].copy # "passed_challenge"
          /\ request[r].code \in HasRow /\ request[r].code \in proven
        BY <1>0, <1>d, <2>1 DEF RequestOK, HasRow
    <2>5. RequestMove(r)
        BY <1>0, <1>b, <1>c, <2>1, <2>3, <2>4 DEF RequestMove
    <2>6. RequestOK(r)'
        BY <2>1, <2>3, <2>4, OnwardsOK
    <2> QED BY <2>3, <2>5, <2>6, RequestMoveKeeps
<1>9. CASE PassChallenge(r)
    <2>1. /\ request[r].step = "pass" /\ Finish(r)
          /\ state' = [state EXCEPT ![c] = "passed_challenge"]
          /\ UNCHANGED <<isolation, identity, events, settings, pending, live, history>>
        BY <1>9 DEF PassChallenge
    <2>2. c \in effective
        BY <1>0, <2>1 DEF RequestOK
    <2>3. /\ state' \in [Changes -> States]
          /\ \A d \in Changes : state'[d] = "passed_challenge" => d \in effective'
        BY <1>0, <1>c, <2>1, <2>2 DEF States
    <2>4. RequestMove(r)
        BY <1>0, <1>b, <2>1, <2>3, AnsweredOK DEF RequestMove
    <2> QED BY <1>0, <2>1, <2>4, AnsweredOK, RequestMoveKeeps
<1>10. ASSUME NEW label \in {"check", "load"}, Continue(r, label),
              request[r].step \in {"check", "write"}, RequestMove(r),
              label = "load" => Applicable(request[r].change)
       PROVE  VerificationInv'
    <2>1. label \in Steps
        BY DEF Steps
    <2>2. /\ request'[r].step = label /\ request'[r].flow = c
          /\ request'[r].copy = request[r].copy /\ request'[r].change = request[r].change
          /\ request'[r].new = request[r].new
        BY <1>0, <1>10, <2>1, ContinueAfter
    <2>3. /\ c \in Changes /\ settings[c].step = "sent"
          /\ request[r].new.verified \subseteq proven'
          /\ request[r].change # None /\ request[r].change = c /\ Changing(c)
          /\ request[r].copy # "passed_challenge" /\ NewAddress(c) \in proven'
          /\ settings' = settings /\ traits' = traits /\ session' = session
        BY <1>0, <1>d, <1>10 DEF RequestOK, RequestMove
    <2>4. RequestOK(r)'
        BY <1>10, <2>2, <2>3, OnwardsOK
    <2>5. CheckedOK(r)'
        BY <1>10, <2>2, <2>3 DEF CheckedOK, Applicable
    <2> QED BY <1>10, <2>4, <2>5, RequestMoveKeeps
<1>11. CASE CheckPending(r)
    <2>1. /\ request[r].step = "check"
          /\ IF Applicable(request[r].change) THEN Continue(r, "load") ELSE Continue(r, "save")
          /\ overtaken' = overtaken \ {r}
          /\ UNCHANGED <<isolation, identity, events, settings, flows, given, proven, applied,
                         effective, outdated>>
        BY <1>11 DEF CheckPending
    <2>2. "load" \in Steps
        BY DEF Steps
    <2>3. OthersStay(r)
        BY <1>0, <1>g, <2>1, <2>2, ContinueAfter
    <2>4. RequestMove(r)
        BY <1>0, <1>b, <1>c, <2>1, <2>3 DEF RequestMove
    <2>5. CASE Applicable(request[r].change)
        BY <1>10, <2>1, <2>4, <2>5
    <2>6. CASE ~Applicable(request[r].change)
        BY <1>f, <1>g, <2>1, <2>4, <2>6
    <2> QED BY <2>5, <2>6
<1>12. CASE LoadIdentity(r)
    <2>1. /\ request[r].step = "load"
          /\ UNCHANGED <<isolation, identity, events, settings, flows, history>>
        BY <1>12 DEF LoadIdentity
    <2>3. /\ c \in Changes /\ settings[c].step = "sent" /\ verified \subseteq proven'
          /\ request[r].change # None /\ request[r].change = c /\ Changing(c)
          /\ request[r].copy # "passed_challenge" /\ NewAddress(c) \in proven'
        BY <1>0, <1>d, <2>1 DEF RequestOK
    <2>2. /\ OthersStay(r) /\ request'[r].step = "write" /\ request'[r].flow = c
          /\ request'[r].copy = request[r].copy /\ request'[r].change = request[r].change
          /\ request'[r].new.verified \subseteq verified
        BY <1>0, <1>12, <2>3, LoadAfter
    <2>4. RequestOK(r)'
        BY <2>1, <2>2, <2>3, OnwardsOK
    <2>5. CheckedOK(r)'
        <3>1. CheckedOK(r)
            BY DEF VerificationInv
        <3> QED BY <2>1, <2>2, <3>1 DEF CheckedOK, Applicable
    <2> QED BY <1>e, <2>1, <2>2, <2>4, <2>5, RequestMoveKeeps
<1>13. CASE ApplyFails(r)
    <2>1. /\ request[r].step = "write" /\ (Continue(r, "check") \/ Continue(r, "save"))
          /\ UNCHANGED <<isolation, identity, events, settings, flows, history>>
        BY <1>13 DEF ApplyFails
    <2>2. "check" \in Steps
        BY DEF Steps
    <2>3. RequestMove(r)
        BY <1>0, <1>e, <1>g, <2>1, <2>2, ContinueAfter
    <2>4. CASE Continue(r, "save")
        BY <1>f, <1>g, <2>1, <2>3, <2>4
    <2>5. CASE Continue(r, "check")
        BY <1>10, <2>1, <2>3, <2>5
    <2> QED BY <2>1, <2>4, <2>5
<1>14. CASE RequestFails(r)
    <2>1. /\ request[r].step \notin Idle /\ (Continue(r, "save") \/ Finish(r))
          /\ UNCHANGED <<isolation, identity, events, settings, flows, history>>
        BY <1>14 DEF RequestFails
    <2>2. CASE Continue(r, "save")
        BY <1>0, <1>e, <1>f, <1>g, <2>1, <2>2, ContinueAfter
    <2>3. CASE Finish(r)
        BY <1>0, <1>e, <2>1, <2>3, AnsweredOK, RequestMoveKeeps
    <2> QED BY <2>1, <2>2, <2>3
<1> QED BY <1>1, <1>2, <1>3, <1>4, <1>5, <1>6, <1>7, <1>8, <1>9, <1>11, <1>12, <1>13, <1>14
       DEF Step

-----------------------------------------------------------------------------
(* The rest of the system *)

\* The session ends, an address is taken, a flow is cleaned up.
LEMMA EventStep ==
    ASSUME VerificationInv,
           \/ EndSession \/ \E a \in Addresses : Claim(a)
           \/ \E c \in Changes : DeleteExpiredVerificationFlow(c)
    PROVE  VerificationInv'
<1> USE DEF identity, flows, history, Event
<1>0. TypeOK /\ "none" \in States
    BY DEF VerificationInv, States
<1>1. /\ UNCHANGED <<isolation, traits, rows, made, verified, settings, request, given, proven,
                     applied, effective, outdated>>
      /\ events' = events + 1 /\ events < MaxEvents
      /\ session' \in {"active", "ended"} /\ claimed' \in SUBSET (Addresses \ HasRow)
      /\ Overtake \/ (session' = session /\ overtaken' = overtaken)
    <2>1. CASE EndSession
        BY <1>0, <2>1 DEF EndSession, TypeOK
    <2>2. CASE \E a \in Addresses : Claim(a)
        BY <1>0, <2>2 DEF Claim, TypeOK
    <2>3. CASE \E c \in Changes : DeleteExpiredVerificationFlow(c)
        BY <1>0, <2>3 DEF DeleteExpiredVerificationFlow, TypeOK
    <2> QED BY <2>1, <2>2, <2>3
<1>2. /\ pending' \in [Changes -> BOOLEAN] /\ state' \in [Changes -> States]
      /\ live' \in [Changes -> [Kinds -> Nat]]
      /\ \A d \in Changes : /\ pending'[d] => pending[d]
                            /\ state'[d] = "passed_challenge" => state[d] = "passed_challenge"
                            /\ \A kind \in Kinds : live'[d][kind] > 0 => live[d][kind] > 0
    <2>1. CASE UNCHANGED flows
        BY <1>0, <2>1 DEF TypeOK
    <2>2. ASSUME NEW c \in Changes, DeleteExpiredVerificationFlow(c)
          PROVE  /\ pending' \in [Changes -> BOOLEAN] /\ state' \in [Changes -> States]
                 /\ live' \in [Changes -> [Kinds -> Nat]]
                 /\ \A d \in Changes :
                       /\ pending'[d] => pending[d]
                       /\ state'[d] = "passed_challenge" => state[d] = "passed_challenge"
                       /\ \A kind \in Kinds : live'[d][kind] > 0 => live[d][kind] > 0
        <3>1. /\ state' = [state EXCEPT ![c] = "none"]
              /\ pending' = [pending EXCEPT ![c] = FALSE]
              /\ live' = [live EXCEPT ![c] = NoCodes]
            BY <2>2 DEF DeleteExpiredVerificationFlow
        <3>2. /\ state' \in [Changes -> States]
              /\ \A d \in Changes : state'[d] = "passed_challenge" => state[d] = "passed_challenge"
            BY <1>0, <3>1 DEF TypeOK
        <3>3. pending' \in [Changes -> BOOLEAN] /\ \A d \in Changes : pending'[d] => pending[d]
            BY <1>0, <3>1 DEF TypeOK
        <3>4. /\ live' \in [Changes -> [Kinds -> Nat]]
              /\ \A d \in Changes : \A kind \in Kinds : live'[d][kind] > 0 => live[d][kind] > 0
            BY <1>0, <3>1 DEF TypeOK, NoCodes
        <3> QED BY <3>2, <3>3, <3>4
    <2>3. CASE EndSession \/ \E a \in Addresses : Claim(a)
        BY <2>1, <2>3 DEF EndSession, Claim
    <2> QED BY <2>2, <2>3
<1>3. Growing /\ HasRow' = HasRow
    BY <1>1 DEF Growing, HasRow
<1>4. TypeOK'
    <2>1. events' \in 0 .. MaxEvents
        BY <1>0, <1>1, VerificationAssumption DEF TypeOK
    <2>2. overtaken' \in SUBSET Requests
        BY <1>0, <1>1 DEF TypeOK, Overtake
    <2> QED BY <1>0, <1>1, <1>2, <1>3, <2>1, <2>2 DEF TypeOK
<1>5. ASSUME NEW q \in Requests PROVE RequestOK(q)' /\ CheckedOK(q)'
    BY <1>1, <1>3, RequestKept, CheckedKept, CheckedOvertaken
<1>6. ASSUME NEW d \in Changes PROVE SettingsOK(d)'
    <2>1. SettingsOK(d)
        BY DEF VerificationInv
    <2> QED BY <1>1, <1>2, <1>3, <2>1, SettingsKept, KindsApart DEF SettingsOK
<1>7. IdentityOK'
    BY <1>1, <1>3 DEF VerificationInv, IdentityOK
<1> QED BY <1>4, <1>5, <1>6, <1>7 DEF VerificationInv

\* An identity with one address and no requests.
LEMMA InitInv == Init => VerificationInv
<1> SUFFICES ASSUME Init PROVE VerificationInv
    OBVIOUS
<1> USE DEF Init
<1>1. /\ Registered \in Traits /\ Registered.addrs = {First} /\ First \in Addresses
    BY VerificationAssumption, NoSettingsFields DEF SettingsSteps
<1>2. PICK free \in VerificationRequests :
        /\ free = NoRequest("idle") /\ free.step = "idle" /\ free.flow = None
        /\ free.copy = "none" /\ free.change = None /\ free.code = None
        /\ free.new.verified = {}
    BY NoRequestFields
<1>3. PICK blank \in SettingsRequests :
        /\ blank = NoSettings("idle") /\ blank.step = "idle" /\ blank.known = {First}
        /\ blank.new.verified = {}
    BY NoSettingsFields DEF SettingsSteps
<1>4. /\ \A r \in Requests : request[r] = free
      /\ \A c \in Changes : settings[c] = blank
      /\ request \in [Requests -> VerificationRequests]
      /\ settings \in [Changes -> SettingsRequests]
    BY <1>2, <1>3
<1>5. /\ traits = Registered /\ verified \in SUBSET {First} /\ claimed = {}
      /\ given = {First} /\ proven = verified
      /\ rows \in [Addresses -> Nat] /\ made \in [Addresses -> Nat] /\ HasRow = {First}
    BY <1>1 DEF HasRow
<1>6. /\ live \in [Changes -> [Kinds -> Nat]]
      /\ \A c \in Changes : \A kind \in Kinds : live[c][kind] = 0
    BY DEF NoCodes
<1>7. TypeOK
    <2>1. events \in 0 .. MaxEvents
        BY VerificationAssumption
    <2>2. state \in [Changes -> States] /\ pending \in [Changes -> BOOLEAN]
        BY DEF States
    <2>3. verified \in SUBSET HasRow /\ claimed \in SUBSET (Addresses \ HasRow)
        BY <1>1, <1>5
    <2>4. given \in SUBSET Addresses /\ proven \in SUBSET Addresses
        BY <1>1, <1>5
    <2>5. applied \in [Changes -> Nat] /\ effective \in SUBSET Changes
        BY VerificationAssumption
    <2>6. traits \in Traits
        BY <1>1, <1>5
    <2> QED BY <1>4, <1>5, <1>6, <2>1, <2>2, <2>3, <2>4, <2>5, <2>6 DEF TypeOK
<1>8. ASSUME NEW c \in Changes PROVE SettingsOK(c)
    BY <1>1, <1>3, <1>4, <1>5, <1>6, KindsApart DEF SettingsOK, Waiting
<1>9. ASSUME NEW r \in Requests PROVE RequestOK(r) /\ CheckedOK(r)
    BY <1>2, <1>4 DEF RequestOK, CheckedOK
<1> QED BY <1>1, <1>5, <1>7, <1>8, <1>9 DEF VerificationInv, IdentityOK

\* Nothing happens.
LEMMA StutterStep ==
    ASSUME VerificationInv, UNCHANGED vars
    PROVE  VerificationInv'
<1> USE DEF vars, identity, flows, history
<1>0. HasRow' = HasRow
    BY DEF HasRow
<1>1. TypeOK'
    BY <1>0 DEF VerificationInv, TypeOK
<1>2. Growing
    BY DEF Growing
<1>3. ASSUME NEW q \in Requests PROVE RequestOK(q)' /\ CheckedOK(q)'
    BY <1>2, RequestKept, CheckedKept
<1>4. ASSUME NEW d \in Changes PROVE SettingsOK(d)'
    <2>1. SettingsOK(d)
        BY DEF VerificationInv
    <2> QED BY <1>0, <1>2, <2>1, SettingsKept DEF SettingsOK
<1>5. IdentityOK'
    BY <1>0 DEF VerificationInv, IdentityOK
<1> QED BY <1>1, <1>3, <1>4, <1>5 DEF VerificationInv

\* VerificationInv is inductive.
LEMMA NextInv == VerificationInv /\ [Next]_vars => VerificationInv'
<1> SUFFICES ASSUME VerificationInv, [Next]_vars PROVE VerificationInv'
    OBVIOUS
<1>1. ASSUME NEW c \in Changes, Settings(c) \/ NewVerificationFlow(c)
      PROVE  VerificationInv'
    BY <1>1, SettingsStep, UpdateStep
<1>2. ASSUME NEW r \in Requests, Step(r) PROVE VerificationInv'
    BY <1>2, RequestStep, ApplyStep
<1> QED BY <1>1, <1>2, EventStep, StutterStep DEF Next

-----------------------------------------------------------------------------
(* Theorems *)

\* VerificationInv holds along every behaviour.
LEMMA Invariance == Spec => []VerificationInv
BY InitInv, NextInv, PTL DEF Spec

\* The identity, its rows, the flows, the codes and every request keep their types:
\* in particular an address has one row at most, this identity's or another's.
THEOREM VerificationTypeCorrect == Spec => []TypeOK
<1>1. VerificationInv => TypeOK
    BY DEF VerificationInv
<1> QED BY <1>1, Invariance, PTL

\* With verify_new_address, an address that neither was there first nor came from an
\* administrator is a trait only after its code was submitted, for all races of
\* settings requests, verification requests, updates and cleanups.
THEOREM OnlyProvenTakesEffect == Spec => []UnprovenNeverTakesEffect
<1>1. VerificationInv => UnprovenNeverTakesEffect
    BY DEF VerificationInv, IdentityOK, UnprovenNeverTakesEffect
<1> QED BY <1>1, Invariance, PTL

\* Every verified row is that of an address whose code was submitted.
THEOREM VerifiedRowsProven == Spec => []VerifiedIsProven
<1>1. VerificationInv => VerifiedIsProven
    BY DEF VerificationInv, IdentityOK, VerifiedIsProven
<1> QED BY <1>1, Invariance, PTL

\* A flow reaches passed_challenge only by verifying an address or applying its change.
THEOREM PassedFlowsEarned == Spec => []PassedIsEarned
<1>1. VerificationInv => PassedIsEarned
    BY DEF VerificationInv, PassedIsEarned, SettingsOK
<1> QED BY <1>1, Invariance, PTL

\* The rows are those of the traits unless the last update compared with outdated ones:
\* one update that reads and writes alone brings them back together, whatever races
\* left behind.
THEOREM RowsKeepUp == Spec => []RowsFollowTraits
<1>1. VerificationInv => RowsFollowTraits
    BY DEF VerificationInv, IdentityOK, RowsFollowTraits
<1> QED BY <1>1, Invariance, PTL

\* Only ApplyPendingTraitsChange counts as an application.
LEMMA AppliedFrame ==
    ASSUME [Next]_vars, ~\E r \in Requests : ApplyPendingTraitsChange(r)
    PROVE  applied' = applied
<1> USE DEF history
<1>1. ASSUME NEW c \in Changes,
             Settings(c) \/ NewVerificationFlow(c) \/ DeleteExpiredVerificationFlow(c)
      PROVE  applied' = applied
    BY <1>1 DEF Settings, NewVerificationFlow, DeleteExpiredVerificationFlow, AdminUpdate,
       GetOriginal, UpdateSettingsFlow, SetTraits, VerifyNewAddress,
       DeletePendingTraitsChangesByIdentity, CreateVerificationFlow, CreatePendingTraitsChange,
       SendCodeToNewAddress, Update, SettingsFail
<1>2. ASSUME NEW r \in Requests, Step(r)
      PROVE  applied' = applied
    BY <1>2 DEF Step, Verify, Save, DeleteVerificationCodesOfFlow, LookupPending, Recheck,
       SendVerificationCode, UseVerificationCode, MarkVerified, PassChallenge, CheckPending,
       LoadIdentity, ApplyFails, RequestFails
<1> QED BY <1>1, <1>2 DEF Next, EndSession, Claim, vars

\* What a step that applies a change found.
GoodBase ==
    \A c \in Changes :
        applied'[c] > applied[c] =>
            \/ traits = settings[c].original /\ session = "active"
            \/ /\ isolation = "readCommitted"
               /\ \E r \in overtaken : request[r].step = "write" /\ request[r].change = c

\* A change is applied to the traits it was proposed for, while the session that proposed
\* it is active, unless, on READ COMMITTED only, another write came between the check and
\* the write of the transaction: what was checked is remembered by the invariant.
THEOREM AppliedToItsBase == Spec => AppliesToItsBase
<1>1. ASSUME VerificationInv, [Next]_vars PROVE [GoodBase]_vars
    <2> SUFFICES ASSUME NEW c \in Changes, applied'[c] > applied[c]
                 PROVE  \/ traits = settings[c].original /\ session = "active"
                        \/ /\ isolation = "readCommitted"
                           /\ \E r \in overtaken : request[r].step = "write" /\ request[r].change = c
        BY DEF GoodBase
    <2>1. applied[c] \in Nat /\ applied \in [Changes -> Nat]
        BY <1>1 DEF VerificationInv, TypeOK
    <2>2. applied' # applied
        BY <2>1
    <2>3. PICK r \in Requests : ApplyPendingTraitsChange(r)
        BY <1>1, <2>2, AppliedFrame
    <2>4. /\ applied' = [applied EXCEPT ![request[r].change] = @ + 1]
          /\ request[r].step = "write" /\ ~Conflict(r)
        BY <2>3 DEF ApplyPendingTraitsChange, On
    <2>5. c = request[r].change
        BY <2>1, <2>4
    <2>6. CASE r \notin overtaken
        BY <1>1, <2>4, <2>5, <2>6 DEF VerificationInv, CheckedOK, Applicable
    <2>7. CASE r \in overtaken /\ ~Applicable(c)
        <3>1. isolation # "serializable"
            BY <2>4, <2>5, <2>7 DEF Conflict
        <3>2. isolation \in {"serializable", "readCommitted"}
            BY <1>1, VerificationAssumption DEF VerificationInv, TypeOK
        <3> QED BY <2>4, <2>5, <2>7, <3>1, <3>2
    <2>8. CASE Applicable(c)
        BY <2>8 DEF Applicable
    <2> QED BY <2>6, <2>7, <2>8
<1>2. VerificationInv /\ [Next]_vars => [GoodBase]_vars
    BY <1>1
<1>3. Spec => [][GoodBase]_vars
    BY <1>2, Invariance, PTL DEF Spec
<1> QED BY <1>3 DEF AppliesToItsBase, GoodBase

\* The steps that take a verified row away.
LEMMA VerifiedFrame ==
    ASSUME [Next]_vars, ~\E r \in Requests : ApplyPendingTraitsChange(r),
           ~\E c \in Changes : Update(c)
    PROVE  verified \subseteq verified'
<1> USE DEF identity
<1>1. ASSUME NEW c \in Changes,
             Settings(c) \/ NewVerificationFlow(c) \/ DeleteExpiredVerificationFlow(c)
      PROVE  verified \subseteq verified'
    BY <1>1 DEF Settings, NewVerificationFlow, DeleteExpiredVerificationFlow, AdminUpdate,
       GetOriginal, UpdateSettingsFlow, SetTraits, VerifyNewAddress,
       DeletePendingTraitsChangesByIdentity, CreateVerificationFlow, CreatePendingTraitsChange,
       SendCodeToNewAddress, SettingsFail
<1>2. ASSUME NEW r \in Requests, Step(r)
      PROVE  verified \subseteq verified'
    BY <1>2 DEF Step, Verify, Save, DeleteVerificationCodesOfFlow, LookupPending, Recheck,
       SendVerificationCode, UseVerificationCode, MarkVerified, PassChallenge, CheckPending,
       LoadIdentity, ApplyFails, RequestFails
<1> QED BY <1>1, <1>2 DEF Next, EndSession, Claim, vars

\* An update takes a verified row of its traits away only to create it unverified.
LEMMA LostInUpdate ==
    ASSUME NEW t, NEW new, NEW old, NEW marked, UpdateIdentity(t, new, old, marked),
           NEW a \in verified, a \in traits'.addrs, a \notin verified'
    PROVE  a \in t.addrs /\ a \in old.verified /\ a \notin new.verified
<1>1. /\ a \in t.addrs /\ a \in Removed(t, new, old)
      /\ a \notin ToCreate(t, new, old) \cap new.verified
    BY DEF UpdateIdentity
<1>2. Differs(a, new, old)
    BY <1>1 DEF Removed, ToRemove
<1>3. a \in ToCreate(t, new, old)
    BY <1>1, <1>2 DEF ToCreate
<1> QED BY <1>1, <1>2, <1>3 DEF Differs

\* What a step that takes a verified row away goes by.
StaleLoss ==
    \A a \in verified : a \in traits'.addrs /\ a \notin verified' =>
        \/ \E c \in Changes : /\ settings[c].step = "write"
                              /\ a \in settings[c].old.verified \ settings[c].new.verified
        \/ /\ isolation = "readCommitted"
           /\ \E r \in Requests : /\ request[r].step = "write"
                                  /\ a \notin request[r].new.verified

\* A verified address that stays a trait stays verified, unless a profile update or an
\* administrator's writes rows older than those it compares them with, or on READ
\* COMMITTED a pending change writes rows it had read before.
THEOREM LossNeedsStaleCopy == Spec => LostOnlyToStaleCopy
<1>1. ASSUME VerificationInv, [Next]_vars PROVE [StaleLoss]_vars
    <2> SUFFICES ASSUME NEW a \in verified, a \in traits'.addrs, a \notin verified'
                 PROVE  \/ \E c \in Changes :
                              /\ settings[c].step = "write"
                              /\ a \in settings[c].old.verified \ settings[c].new.verified
                        \/ /\ isolation = "readCommitted"
                           /\ \E r \in Requests : /\ request[r].step = "write"
                                                  /\ a \notin request[r].new.verified
        BY DEF StaleLoss
    <2>1. ASSUME NEW c \in Changes, Update(c)
          PROVE  /\ settings[c].step = "write"
                 /\ a \in settings[c].old.verified \ settings[c].new.verified
        <3>1. /\ settings[c].step = "write"
              /\ UpdateIdentity(settings[c].proposal, settings[c].new, settings[c].old, {})
            BY <2>1 DEF Update, At
        <3> QED BY <3>1, LostInUpdate
    <2>2. ASSUME NEW r \in Requests, ApplyPendingTraitsChange(r)
          PROVE  /\ isolation = "readCommitted"
                 /\ request[r].step = "write" /\ a \notin request[r].new.verified
        <3> DEFINE c == request[r].change
        <3>1. /\ request[r].step = "write" /\ ~Conflict(r)
              /\ UpdateIdentity(settings[c].proposal, request[r].new, Stored, Marked(c))
            BY <2>2 DEF ApplyPendingTraitsChange, On
        <3>2. a \in settings[c].proposal.addrs /\ a \notin request[r].new.verified
            BY <3>1, LostInUpdate
        <3>3. request[r].new # LoadedRows(r)
            BY <3>2 DEF LoadedRows, RowsFor
        <3>4. isolation # "serializable"
            BY <3>1, <3>3 DEF Conflict
        <3>5. isolation \in {"serializable", "readCommitted"}
            BY <1>1, VerificationAssumption DEF VerificationInv, TypeOK
        <3> QED BY <3>1, <3>2, <3>4, <3>5
    <2> QED BY <1>1, <2>1, <2>2, VerifiedFrame
<1>2. VerificationInv /\ [Next]_vars => [StaleLoss]_vars
    BY <1>1
<1>3. Spec => [][StaleLoss]_vars
    BY <1>2, Invariance, PTL DEF Spec
<1> QED BY <1>3 DEF LostOnlyToStaleCopy, StaleLoss
=============================================================================
