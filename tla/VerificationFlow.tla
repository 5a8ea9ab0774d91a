-------------------------- MODULE VerificationFlow --------------------------
(***************************************************************************)
(* Changes of an identity's traits through the profile settings, with the  *)
(* hook verify_new_address: a change that brings a new address waits as a  *)
(* pending traits change until a code sent to that address is submitted to *)
(* the verification flow made for it.  Modelled are the settings request   *)
(* (selfservice/strategy/profile, selfservice/hook/verify_new_address.go), *)
(* the verification flow with the code method                              *)
(* (selfservice/strategy/code/strategy_verification.go) and                *)
(* ApplyPendingTraitsChange (selfservice/flow/settings/hook.go).           *)
(*                                                                         *)
(* One identity and one session of it.  A settings request, the pending    *)
(* change and the flow it creates share the name c; an administrator's     *)
(* update has such a name too, for both end in Manager.Update.  That a     *)
(* code is consumed atomically and how often one may guess is              *)
(* OneTimeCode's matter; here a flow has a number of usable codes of each  *)
(* kind.                                                                   *)
(***************************************************************************)
EXTENDS Integers, FiniteSets

CONSTANTS
    Changes,      \* settings requests and administrators' updates
    Requests,     \* requests to the verification flows
    Addresses,
    First,        \* the address the identity has at first
    None,         \* no code, no flow, no change
    Proposals,    \* traits that users and administrators submit
    Isolations,   \* the isolation levels of the database
    MaxEvents,    \* bound: administrator's updates, sessions that end, addresses
                  \* that are taken, flows that are cleaned up
    MaxInFlight   \* bound: requests that are being handled at the same time

\* Traits are the addresses and everything else.
Traits == [addrs : SUBSET Addresses, other : {"old", "new"}]

ASSUME VerificationAssumption ==
    /\ IsFiniteSet(Changes) /\ IsFiniteSet(Requests) /\ IsFiniteSet(Addresses)
    /\ None \notin Changes /\ None # "change" /\ {"change", None} \cap Addresses = {}
    /\ Proposals \subseteq Traits
    /\ Isolations \subseteq {"serializable", "readCommitted"}
    /\ First \in Addresses
    /\ MaxEvents \in Nat /\ MaxInFlight \in Nat

VARIABLES
    isolation,   \* of the database
    traits,      \* the identity's traits
    rows,        \* the id of each address's row in identity_verifiable_addresses, or 0
    made,        \* how many ids each address was given
    verified,    \* addresses whose row is verified
    claimed,     \* addresses of other identities
    session,     \* the session the settings requests were made with
    events,      \* see MaxEvents
    settings,    \* each settings request
    pending,     \* the change has a row
    state,       \* the state of the verification flow, "none" without a row
    live,        \* usable codes of each kind in the flow
    request,     \* each request to a verification flow
    given,       \* history: addresses the identity had first or from an administrator
    proven,      \* history: addresses whose code was submitted
    applied,     \* history: how often the change was applied
    effective,   \* history: flows that verified an address or applied a change
    outdated,    \* history: the last update compared with rows that were no longer there
    overtaken    \* history: requests in whose transaction the traits were written or
                 \* the session ended

identity == <<traits, rows, made, verified, claimed, session>>
flows    == <<pending, state, live>>
history  == <<given, proven, applied, effective, outdated, overtaken>>
vars     == <<isolation, identity, events, settings, flows, request, history>>

\* A code for a pending change, or for the row of an address.
Kinds  == {"change"} \cup Addresses
States == {"none", "choose_method", "sent_email", "passed_challenge"}

SettingsSteps == {"idle", "setTraits", "hook", "update", "write", "delete", "flow", "create",
                  "again", "recreate", "send", "sent", "over"}
Steps == {"idle", "save", "clear", "lookup", "recheck", "sendChange", "sendAddress",
          "use", "pending", "check", "load", "write", "mark", "pass", "done"}

\* The address rows in a copy of the identity: ids, 0 for an address without one,
\* and which of them are verified.
Copies == [ids : [Addresses -> Nat], verified : SUBSET Addresses]

\* What a settings request or an administrator's update holds: the traits and the
\* addresses in its session's copy of the identity, the traits submitted, the rows
\* it writes and the rows it compares them with.
SettingsRequests ==
    [step : SettingsSteps, by : {"user", "admin"}, original : Traits,
     known : SUBSET Addresses, proposal : Traits, new : Copies, old : Copies]

\* What a verification request holds: its flow, the state in its copy of the flow,
\* its copy of the pending change, the kind of the code it consumed, the id of that
\* code's row, and the rows in its copy of the identity.
VerificationRequests ==
    [step : Steps, flow : Changes \cup {None}, copy : States,
     change : Changes \cup {None}, code : Kinds \cup {None}, row : Nat, new : Copies]

HasRow == {a \in Addresses : rows[a] # 0}

\* The tables and the local state of every request have their types; an address
\* has one row (unique index on nid, via, value), this identity's or another's.
TypeOK ==
    /\ isolation \in Isolations
    /\ traits \in Traits
    /\ rows \in [Addresses -> Nat] /\ made \in [Addresses -> Nat]
    /\ verified \in SUBSET HasRow
    /\ claimed \in SUBSET (Addresses \ HasRow)
    /\ session \in {"active", "ended"}
    /\ events \in 0 .. MaxEvents
    /\ settings \in [Changes -> SettingsRequests]
    /\ pending \in [Changes -> BOOLEAN]
    /\ state \in [Changes -> States]
    /\ live \in [Changes -> [Kinds -> Nat]]
    /\ request \in [Requests -> VerificationRequests]
    /\ given \in SUBSET Addresses /\ proven \in SUBSET Addresses
    /\ applied \in [Changes -> Nat]
    /\ effective \in SUBSET Changes
    /\ outdated \in BOOLEAN /\ overtaken \in SUBSET Requests

NoCodes == [k \in Kinds |-> 0]
NoRows == [ids |-> [a \in Addresses |-> 0], verified |-> {}]
Registered == [addrs |-> {First}, other |-> "old"]

\* Requests that are not, or no longer, being handled.
NoSettings(label) ==
    [step |-> label, by |-> "user", original |-> Registered, known |-> {First},
     proposal |-> Registered, new |-> NoRows, old |-> NoRows]
NoRequest(label) ==
    [step |-> label, flow |-> None, copy |-> "none", change |-> None, code |-> None,
     row |-> 0, new |-> NoRows]

\* An identity with one address, verified or not.
Init ==
    /\ isolation \in Isolations
    /\ traits = Registered
    /\ rows = [a \in Addresses |-> IF a = First THEN 1 ELSE 0] /\ made = rows
    /\ verified \in {{}, traits.addrs} /\ claimed = {}
    /\ session = "active"
    /\ events = 0
    /\ settings = [c \in Changes |-> NoSettings("idle")]
    /\ pending = [c \in Changes |-> FALSE]
    /\ state = [c \in Changes |-> "none"]
    /\ live = [c \in Changes |-> NoCodes]
    /\ request = [r \in Requests |-> NoRequest("idle")]
    /\ given = traits.addrs /\ proven = verified
    /\ applied = [c \in Changes |-> 0]
    /\ effective = {} /\ outdated = FALSE /\ overtaken = {}

InFlight ==
    Cardinality({c \in Changes : settings[c].step \notin {"idle", "sent", "over"}})
    + Cardinality({r \in Requests : request[r].step \notin {"idle", "done"}})

-----------------------------------------------------------------------------
(* The identity's rows *)

\* GetIdentityConfidential.
Stored == [ids |-> rows, verified |-> verified]

\* ValidateIdentity: the rows for the addresses of t are taken over from those
\* stored, the others are new and unverified.
RowsFor(t) ==
    [ids |-> [a \in Addresses |-> IF a \in t.addrs THEN rows[a] ELSE 0],
     verified |-> verified \cap t.addrs]

\* The signature of the row differs: here whether it is verified.
Differs(a, new, old) == (a \in new.verified) # (a \in old.verified)

\* Mutant: the rows of addresses that are no longer traits stay.
MutKeepRows(t, new, old) == {a \in t.addrs : old.ids[a] # 0 /\ Differs(a, new, old)}

\* diffAssociations: a row that is not written with the same signature is removed,
\* and one that is not in old with it is created.
ToRemove(t, new, old) ==
    {a \in Addresses : old.ids[a] # 0 /\ (a \notin t.addrs \/ Differs(a, new, old))}
ToCreate(t, new, old) ==
    {a \in t.addrs : old.ids[a] = 0 \/ Differs(a, new, old)}

\* Rows are removed by id: one that was created again since, under another id, stays.
Removed(t, new, old) == {a \in ToRemove(t, new, old) : rows[a] = old.ids[a]}

\* Mutant: no unique index.
MutNoIndex(t, new, old) == TRUE

\* The rows are created after the others are removed (unique index).
Unique(t, new, old) ==
    ToCreate(t, new, old) \cap (claimed \cup (HasRow \ Removed(t, new, old))) = {}

\* A row that is created again keeps the id it had in the copy.
IdFor(a, new) == IF new.ids[a] # 0 THEN new.ids[a] ELSE made[a] + 1

\* UpdateIdentity writes traits t and the difference between the rows new and old;
\* then the rows marked are verified.  The codes of a removed row go with it.
UpdateIdentity(t, new, old, marked) ==
    /\ Unique(t, new, old)
    /\ traits' = t
    /\ rows' = [a \in Addresses |-> IF a \in ToCreate(t, new, old) THEN IdFor(a, new)
                                   ELSE IF a \in Removed(t, new, old) THEN 0 ELSE rows[a]]
    /\ made' = [a \in Addresses |->
                   IF a \in ToCreate(t, new, old) /\ new.ids[a] = 0 THEN made[a] + 1
                                                                   ELSE made[a]]
    /\ verified' = (verified \ Removed(t, new, old))
                   \cup (ToCreate(t, new, old) \cap new.verified) \cup marked
    /\ live' = [c \in Changes |-> [k \in Kinds |->
                   IF k \in Removed(t, new, old) THEN 0 ELSE live[c][k]]]
    /\ outdated' = (old.ids # rows)
    /\ UNCHANGED <<claimed, session, pending, state>>

\* Requests between the checks of their transaction and its writes.
Overtake ==
    overtaken' = overtaken \cup {r \in Requests : request[r].step \in {"load", "write"}}

-----------------------------------------------------------------------------
(* The settings request: profile strategy, verify_new_address, PostSettingsHook *)

At(c, label) == settings[c].step = label
GoOn(c, label) == settings' = [settings EXCEPT ![c].step = label]
End(c) == settings' = [settings EXCEPT ![c] = NoSettings("over")]

\* updateSettingsFlow: the session is fetched together with its identity.
UpdateSettingsFlow(c, p) ==
    /\ At(c, "idle")
    /\ InFlight < MaxInFlight
    /\ session = "active"
    /\ settings' = [settings EXCEPT ![c] =
           [NoSettings("setTraits") EXCEPT !.original = traits, !.known = HasRow,
                                           !.proposal = p]]
    /\ UNCHANGED <<isolation, identity, events, flows, request, history>>

\* SetTraits reads the identity again and puts the submitted traits in it.
SetTraits(c) ==
    /\ At(c, "setTraits")
    /\ settings' = [settings EXCEPT ![c].step = "hook",
                                    ![c].new = RowsFor(settings[c].proposal)]
    /\ UNCHANGED <<isolation, identity, events, flows, request, history>>

\* findChangedAddresses compares with the session's copy.
FindChangedAddresses(c) == settings[c].proposal.addrs \ settings[c].known

\* The address that has to be verified, the only one that changed.
NewAddress(c) == CHOOSE a \in FindChangedAddresses(c) : TRUE

\* Mutant: the first changed address is verified, the others are not looked at.
MutFirstOfMany(c) ==
    /\ At(c, "hook")
    /\ LET changed == FindChangedAddresses(c) IN
       \/ changed = {} /\ GoOn(c, "update")
       \/ changed \cap claimed # {} /\ End(c)
       \/ changed # {} /\ changed \cap claimed = {} /\ GoOn(c, "delete")
    /\ UNCHANGED <<isolation, identity, events, flows, request, history>>

\* Without a new address the update goes on.  More than one, or one that belongs
\* to another identity, is refused.
VerifyNewAddress(c) ==
    /\ At(c, "hook")
    /\ LET changed == FindChangedAddresses(c) IN
       \/ changed = {} /\ GoOn(c, "update")
       \/ Cardinality(changed) > 1 /\ End(c)
       \/ Cardinality(changed) = 1 /\ changed \subseteq claimed /\ End(c)
       \/ Cardinality(changed) = 1 /\ changed \cap claimed = {} /\ GoOn(c, "delete")
    /\ UNCHANGED <<isolation, identity, events, flows, request, history>>

\* Before the flow is created, and again when the row could not be inserted.
DeletePendingTraitsChangesByIdentity(c) ==
    /\ \/ At(c, "delete") /\ GoOn(c, "flow")
       \/ At(c, "again") /\ GoOn(c, "recreate")
    /\ pending' = [d \in Changes |-> FALSE]
    /\ UNCHANGED <<isolation, identity, events, state, live, request, history>>

CreateVerificationFlow(c) ==
    /\ At(c, "flow")
    /\ state' = [state EXCEPT ![c] = "sent_email"]
    /\ GoOn(c, "create")
    /\ UNCHANGED <<isolation, identity, events, pending, live, request, history>>

\* An identity has one pending row (unique index); the insert is tried twice.
CreatePendingTraitsChange(c) ==
    /\ At(c, "create") \/ At(c, "recreate")
    /\ state[c] # "none"
    /\ \/ /\ \A d \in Changes : ~pending[d]
          /\ pending' = [pending EXCEPT ![c] = TRUE]
          /\ GoOn(c, "send")
       \/ /\ \E d \in Changes : pending[d]
          /\ IF At(c, "create") THEN GoOn(c, "again") ELSE End(c)
          /\ UNCHANGED pending
    /\ UNCHANGED <<isolation, identity, events, state, live, request, history>>

\* The code goes to the new address, and the request ends.
SendCodeToNewAddress(c) ==
    /\ At(c, "send")
    /\ state[c] # "none"
    /\ live' = [live EXCEPT ![c]["change"] = @ + 1]
    /\ settings' = [settings EXCEPT ![c].step = "sent", ![c].new = NoRows]
    /\ UNCHANGED <<isolation, identity, events, pending, state, request, history>>

\* The administration API reads the identity and puts the traits of the request in.
AdminUpdate(c, p) ==
    /\ At(c, "idle")
    /\ InFlight < MaxInFlight
    /\ events < MaxEvents /\ events' = events + 1
    /\ settings' = [settings EXCEPT ![c] =
           [NoSettings("update") EXCEPT !.by = "admin", !.proposal = p, !.new = RowsFor(p)]]
    /\ UNCHANGED <<isolation, identity, flows, request, history>>

\* Manager.Update, of both, reads the identity once more, outside the transaction.
GetOriginal(c) ==
    /\ At(c, "update")
    /\ settings' = [settings EXCEPT ![c].step = "write", ![c].old = Stored]
    /\ UNCHANGED <<isolation, identity, events, flows, request, history>>

\* It writes the traits, whatever was written since, and the difference between
\* the two copies it has.
Update(c) ==
    /\ At(c, "write")
    /\ UpdateIdentity(settings[c].proposal, settings[c].new, settings[c].old, {})
    /\ Overtake
    /\ End(c)
    /\ given' = given \cup IF settings[c].by = "admin" THEN settings[c].proposal.addrs ELSE {}
    /\ UNCHANGED <<isolation, events, request, proven, applied, effective>>

\* The session is not privileged, a statement fails, as the update does when a row
\* is there already, or the process dies: nothing is undone.
SettingsFail(c) ==
    /\ settings[c].step \notin {"idle", "sent", "over"}
    /\ End(c)
    /\ UNCHANGED <<isolation, identity, events, flows, request, history>>

-----------------------------------------------------------------------------
(* Verify: submitting an address, a link or a code to the flow *)

\* A flow the user starts, without a pending change.
NewVerificationFlow(c) ==
    /\ At(c, "idle")
    /\ state' = [state EXCEPT ![c] = "choose_method"]
    /\ GoOn(c, "sent")
    /\ UNCHANGED <<isolation, identity, events, pending, live, request, history>>

On(r, label) == request[r].step = label
Continue(r, label) == request' = [request EXCEPT ![r].step = label]
Finish(r) == request' = [request EXCEPT ![r] = NoRequest("done")]

\* The link in the message is a GET with the code; it only fills in the form.
FirstStep == [link |-> "save", email |-> "clear", code |-> "use"]

\* updateVerificationFlow and Verify: a flow that passed is answered with a new one.
Verify(r, c, form) ==
    /\ On(r, "idle")
    /\ InFlight < MaxInFlight
    /\ At(c, "sent") /\ state[c] # "none"
    /\ \/ state[c] = "passed_challenge" /\ Finish(r)
       \/ /\ state[c] # "passed_challenge"
          /\ request' = [request EXCEPT ![r].step = FirstStep[form], ![r].flow = c,
                                        ![r].copy = state[c]]
    /\ UNCHANGED <<isolation, identity, events, settings, flows, history>>

\* Mutant: the state is advanced as in flow.NextState.
MutNextState(r) ==
    state' = [state EXCEPT ![request[r].flow] =
                 IF @ = "sent_email" THEN "passed_challenge" ELSE "sent_email"]

\* Every column of the copy is written.
UpdateVerificationFlow(r) == state' = [state EXCEPT ![request[r].flow] = request[r].copy]

\* The form, a message or an error is shown in the flow.
Save(r) ==
    /\ On(r, "save")
    /\ state[request[r].flow] # "none"
    /\ UpdateVerificationFlow(r)
    /\ Finish(r)
    /\ UNCHANGED <<isolation, identity, events, settings, pending, live, history>>

DeleteVerificationCodesOfFlow(r) ==
    /\ On(r, "clear")
    /\ live' = [live EXCEPT ![request[r].flow] = NoCodes]
    /\ Continue(r, "lookup")
    /\ UNCHANGED <<isolation, identity, events, settings, pending, state, history>>

GetPendingTraitsChangeByVerificationFlow(c) == {d \in {c} : pending[d]}

\* When a code is sent and when it is used.  A change that is gone leaves an
\* ordinary verification flow.
LookupPending(r) ==
    /\ On(r, "lookup") \/ On(r, "pending")
    /\ LET found == GetPendingTraitsChangeByVerificationFlow(request[r].flow) IN
       \/ found = {} /\ Continue(r, IF On(r, "lookup") THEN "sendAddress" ELSE "save")
       \/ \E d \in found :
             request' = [request EXCEPT ![r].change = d,
                            ![r].step = IF @ = "lookup" THEN "recheck" ELSE "check"]
    /\ UNCHANGED <<isolation, identity, events, settings, flows, history>>

\* Another identity may have taken the address.
Recheck(r) ==
    /\ On(r, "recheck")
    /\ Continue(r, IF NewAddress(request[r].change) \in claimed THEN "save" ELSE "sendChange")
    /\ UNCHANGED <<isolation, identity, events, settings, flows, history>>

\* A code for the pending change, or for the address in the form, of which an
\* unknown one gets none.
SendVerificationCode(r) ==
    /\ LET c == request[r].flow IN
       \/ /\ On(r, "sendChange") /\ state[c] # "none"
          /\ live' = [live EXCEPT ![c]["change"] = @ + 1]
       \/ /\ On(r, "sendAddress") /\ state[c] # "none"
          /\ \E a \in HasRow : live' = [live EXCEPT ![c][a] = @ + 1]
       \/ On(r, "sendAddress") /\ UNCHANGED live
    /\ request' = [request EXCEPT ![r].copy = "sent_email", ![r].step = "save"]
    /\ UNCHANGED <<isolation, identity, events, settings, pending, state, history>>

\* Where a code was sent.
SentTo(c, k) == IF k = "change" THEN NewAddress(c) ELSE k

\* A usable code is consumed; a wrong one is answered in the flow.
UseVerificationCode(r) ==
    /\ On(r, "use")
    /\ LET c == request[r].flow IN
       \/ \E k \in Kinds :
             /\ live[c][k] > 0
             /\ live' = [live EXCEPT ![c][k] = @ - 1]
             /\ proven' = proven \cup {SentTo(c, k)}
             /\ request' = [request EXCEPT ![r].code = k,
                               ![r].row = IF k = "change" THEN 0 ELSE rows[k],
                               ![r].step = IF k = "change" THEN "pending" ELSE "mark"]
       \/ Continue(r, "save") /\ UNCHANGED <<live, proven>>
    /\ UNCHANGED <<isolation, identity, events, settings, pending, state, given, applied,
                   effective, outdated, overtaken>>

\* UpdateVerifiableAddress of the row the code was for, by its id.
MarkVerified(r) ==
    /\ On(r, "mark")
    /\ rows[request[r].code] = request[r].row
    /\ verified' = verified \cup {request[r].code}
    /\ effective' = effective \cup {request[r].flow}
    /\ Continue(r, "pass")
    /\ UNCHANGED <<isolation, traits, rows, made, claimed, session, events, settings, flows,
                   given, proven, applied, outdated, overtaken>>

\* The hooks that follow change nothing here.
PassChallenge(r) ==
    /\ On(r, "pass")
    /\ state[request[r].flow] # "none"
    /\ state' = [state EXCEPT ![request[r].flow] = "passed_challenge"]
    /\ Finish(r)
    /\ UNCHANGED <<isolation, identity, events, settings, pending, live, history>>

-----------------------------------------------------------------------------
(* ApplyPendingTraitsChange: one transaction *)

\* Mutant: the traits are not compared.
MutNoHash(c) == session = "active"

\* The session is active and HashTraits of its identity is that of the proposal.
Applicable(c) == session = "active" /\ traits = settings[c].original

\* ErrPendingTraitsChangeSessionInvalid and ErrConcurrentModification are shown
\* in the flow.
CheckPending(r) ==
    /\ On(r, "check")
    /\ Continue(r, IF Applicable(request[r].change) THEN "load" ELSE "save")
    /\ overtaken' = overtaken \ {r}
    /\ UNCHANGED <<isolation, identity, events, settings, flows, given, proven, applied,
                   effective, outdated>>

\* Mutant: the copy has no rows.
MutLoadNothing(r) == NoRows

LoadedRows(r) == RowsFor(settings[request[r].change].proposal)

\* UpdateTraits reads the identity again.
LoadIdentity(r) ==
    /\ On(r, "load")
    /\ request' = [request EXCEPT ![r].new = LoadedRows(r), ![r].step = "write"]
    /\ UNCHANGED <<isolation, identity, events, settings, flows, history>>

\* Serializable: a transaction commits as if it had run at once.
Conflict(r) ==
    /\ isolation = "serializable"
    /\ \/ ~Applicable(request[r].change)
       \/ request[r].new # LoadedRows(r)

\* Mutant: every address of the change is marked.
MutMarkAll(c) == settings[c].proposal.addrs

Marked(c) == {NewAddress(c)}

\* The rest of the transaction: the row of the identity is locked from here on, and
\* the rows are compared with those stored.
ApplyPendingTraitsChange(r) ==
    /\ On(r, "write")
    /\ ~Conflict(r)
    /\ LET c == request[r].change
       IN /\ UpdateIdentity(settings[c].proposal, request[r].new, Stored, Marked(c))
          /\ applied' = [applied EXCEPT ![c] = @ + 1]
    /\ Continue(r, "pass")
    /\ effective' = effective \cup {request[r].flow}
    /\ Overtake
    /\ UNCHANGED <<isolation, events, settings, given, proven>>

\* The transaction is run again, or an address was taken (unique index).
ApplyFails(r) ==
    /\ On(r, "write")
    /\ \/ Conflict(r) /\ Continue(r, "check")
       \/ /\ ~Unique(settings[request[r].change].proposal, request[r].new, Stored)
          /\ Continue(r, "save")
    /\ UNCHANGED <<isolation, identity, events, settings, flows, history>>

-----------------------------------------------------------------------------
(* Failures and the rest of the system *)

\* A statement fails.  While a code is sent, WriteFlowError shows the error in
\* the flow; otherwise, as when the process dies, the flow is left alone.
RequestFails(r) ==
    /\ \/ /\ request[r].step \in {"clear", "lookup", "recheck", "sendChange", "sendAddress"}
          /\ Continue(r, "save")
       \/ request[r].step \notin {"idle", "done"} /\ Finish(r)
    /\ UNCHANGED <<isolation, identity, events, settings, flows, history>>

Event == events < MaxEvents /\ events' = events + 1

\* The session ends: revoked, expired or deleted, or the identity is disabled.
EndSession ==
    /\ Event
    /\ session = "active"
    /\ session' = "ended"
    /\ Overtake
    /\ UNCHANGED <<isolation, traits, rows, made, verified, claimed, settings, flows, request,
                   given, proven, applied, effective, outdated>>

\* Another identity takes an address.
Claim(a) ==
    /\ Event
    /\ a \notin HasRow \cup claimed
    /\ claimed' = claimed \cup {a}
    /\ UNCHANGED <<isolation, traits, rows, made, verified, session, settings, flows, request,
                   history>>

\* An expired flow is deleted, and with it its codes and its pending change.
DeleteExpiredVerificationFlow(c) ==
    /\ Event
    /\ state[c] # "none"
    /\ state' = [state EXCEPT ![c] = "none"]
    /\ pending' = [pending EXCEPT ![c] = FALSE]
    /\ live' = [live EXCEPT ![c] = NoCodes]
    /\ UNCHANGED <<isolation, identity, settings, request, history>>

Settings(c) ==
    \/ \E p \in Proposals : UpdateSettingsFlow(c, p) \/ AdminUpdate(c, p)
    \/ SetTraits(c) \/ VerifyNewAddress(c) \/ DeletePendingTraitsChangesByIdentity(c)
    \/ CreateVerificationFlow(c) \/ CreatePendingTraitsChange(c)
    \/ SendCodeToNewAddress(c) \/ GetOriginal(c) \/ Update(c) \/ SettingsFail(c)

Step(r) ==
    \/ \E c \in Changes, form \in DOMAIN FirstStep : Verify(r, c, form)
    \/ Save(r) \/ DeleteVerificationCodesOfFlow(r) \/ LookupPending(r) \/ Recheck(r)
    \/ SendVerificationCode(r) \/ UseVerificationCode(r) \/ MarkVerified(r)
    \/ PassChallenge(r) \/ CheckPending(r) \/ LoadIdentity(r)
    \/ ApplyPendingTraitsChange(r) \/ ApplyFails(r) \/ RequestFails(r)

Next ==
    \/ \E c \in Changes : Settings(c) \/ NewVerificationFlow(c)
                          \/ DeleteExpiredVerificationFlow(c)
    \/ \E r \in Requests : Step(r)
    \/ EndSession
    \/ \E a \in Addresses : Claim(a)

Spec == Init /\ [][Next]_vars

-----------------------------------------------------------------------------
(* Properties *)

\* With the hook verify_new_address, an address the identity was not given at
\* first or by an administrator is among its traits only after a code sent to
\* that address was submitted, also when changes and their flows race.
UnprovenNeverTakesEffect == traits.addrs \subseteq given \cup proven

\* A verified row is that of an address whose code was submitted: a stale copy
\* of the identity or a change of several addresses verifies no other.
VerifiedIsProven == verified \subseteq proven

\* A flow in passed_challenge verified an address or applied its change; stale
\* copies of the flow may undo the state but never advance it.
PassedIsEarned == \A c \in Changes : state[c] = "passed_challenge" => c \in effective

\* A change is applied to the traits it was proposed for, while the session that
\* proposed it is active.  ApplyPendingTraitsChange checks both in its transaction,
\* without a lock: on READ COMMITTED, and nowhere else, an update or the end of the
\* session may come between the check and the write.
AppliesToItsBase ==
    [][\A c \in Changes : applied'[c] > applied[c] =>
          \/ traits = settings[c].original /\ session = "active"
          \/ /\ isolation = "readCommitted"
             /\ \E r \in overtaken : request[r].step = "write" /\ request[r].change = c]_vars

\* The address rows are those of the traits, unless the last update compared its
\* copy with rows that another one had replaced meanwhile; the next update mends
\* what that one left.
RowsFollowTraits == ~outdated => HasRow = traits.addrs

\* An address that stays among the traits stays verified, unless it was verified
\* between the two reads of an update, whose older copy is then written, or, on
\* READ COMMITTED, between the read and the write of a pending change.
LostOnlyToStaleCopy ==
    [][\A a \in verified : a \in traits'.addrs /\ a \notin verified' =>
          \/ \E c \in Changes : /\ settings[c].step = "write"
                                /\ a \in settings[c].old.verified \ settings[c].new.verified
          \/ /\ isolation = "readCommitted"
             /\ \E r \in Requests : /\ request[r].step = "write"
                                    /\ a \notin request[r].new.verified]_vars
=============================================================================
