------------------------------ MODULE Session ------------------------------
(***************************************************************************)
(* Sessions: the rows of the sessions table and the requests that read and *)
(* write them.  Logging in, refreshing and stepping up                     *)
(* (selfservice/flow/login/handler.go and hook.go), adding a method in the *)
(* settings, extending, logging out, the self-service and administrative   *)
(* revocations (session/handler.go) and the cleanup, on top of             *)
(* persistence/sql/persister_session.go.                                   *)
(*                                                                         *)
(* A request works on a copy of the row.  UpsertSession writes all of it   *)
(* back but the owner, the other operations write a single column.  Every  *)
(* SQL statement is a step, those of the transactions of UpsertSession and *)
(* ExtendSession as well, and the sub-select of a batch is a step before   *)
(* its write: READ COMMITTED allows it, and stricter levels only allow     *)
(* less.                                                                   *)
(***************************************************************************)
EXTENDS Integers, FiniteSets

CONSTANTS
    Sessions,     \* session ids
    Identities,
    Requests,     \* HTTP requests; each runs once
    None,         \* no session id, no identity
    Destroyer,    \* TRUE: the hook revoke_active_sessions runs after a login
    BatchSize,    \* manageSessionsWildcardBatchSize
    Lifespan,     \* session.lifespan, in ticks
    MinTimeLeft,  \* session.earliest_possible_extend, in ticks
    MaxTime       \* bound: the clock stops here

ASSUME SessionAssumption ==
    /\ None \notin Sessions \cup Identities
    /\ Destroyer \in BOOLEAN
    /\ BatchSize \in Nat \ {0}
    /\ Lifespan \in Nat /\ MinTimeLeft \in Nat /\ MaxTime \in Nat

VARIABLES
    row,      \* the row of each session, or NoRow
    issued,   \* session ids that were ever given out
    account,  \* the identities whose state is active
    now,      \* the clock
    kind,     \* what each request is
    step,     \* where its handler is
    copy,     \* the session it works on
    wanted,   \* RequestedAAL of its login flow
    batch,    \* the rows its bulk statement selected and will write
    short,    \* history: requests whose last batch lost a row before it was written
    read,     \* history: the row as the request read it
    since     \* history: sessions written active since the request's sweep began

database == <<row, issued, account, now>>
request  == <<kind, step, copy, wanted>>
bulk     == <<batch, short>>
vars     == <<database, request, bulk, read, since>>

\* A password or one-time code; a TOTP, lookup or code second factor; single
\* sign-on with a provider that vouches for both factors.
Methods == {"first", "second", "sso"}

\* An entry of the AMR; who completed it is history, the code records only what.
Entry == [method : Methods, by : Identities]

Times == 0 .. MaxTime + Lifespan
NoRow == [owner |-> None, active |-> FALSE, expires |-> 0, amr |-> {}, aal |-> 0]
Row   == [owner : Identities \cup {None}, active : BOOLEAN, expires : Times,
          amr : SUBSET Entry, aal : 0 .. 2]
Copy  == [id : Sessions \cup {None}, owner : Identities \cup {None},
          active : BOOLEAN, expires : Times, amr : SUBSET Entry, aal : 0 .. 2]

Kinds == {"none", "login", "settings", "extend", "logout", "revokeOthers",
          "revokeOne", "disableAll", "deleteAll"}
Sweeping == {"login", "revokeOthers", "disableAll", "deleteAll"}
Steps == {"idle", "authenticate", "hooks", "get", "exists", "update", "create",
          "write", "sweep", "batch", "done", "failed"}

\* Rows, copies, steps and the clock have their types.
TypeOK ==
    /\ row \in [Sessions -> Row]
    /\ issued \in SUBSET Sessions
    /\ account \in SUBSET Identities
    /\ now \in 0 .. MaxTime
    /\ kind \in [Requests -> Kinds]
    /\ step \in [Requests -> Steps]
    /\ copy \in [Requests -> Copy]
    /\ wanted \in [Requests -> 0 .. 2]
    /\ batch \in [Requests -> SUBSET Sessions]
    /\ short \in SUBSET Requests
    /\ read \in [Requests -> Row]
    /\ since \in [Requests -> SUBSET Sessions]

Present(s) == row[s] # NoRow
Active(s)  == Present(s) /\ row[s].active

CopyOf(s) == [id |-> s, owner |-> row[s].owner, active |-> row[s].active,
              expires |-> row[s].expires, amr |-> row[s].amr, aal |-> row[s].aal]

\* NewInactiveSession; its id is set when it is created.
NewInactiveSession == [id |-> None, owner |-> None, active |-> FALSE, expires |-> 0,
                       amr |-> {}, aal |-> 0]

Init ==
    /\ row = [s \in Sessions |-> NoRow]
    /\ issued = {}
    /\ account = Identities
    /\ now = 0
    /\ kind = [r \in Requests |-> "none"]
    /\ step = [r \in Requests |-> "idle"]
    /\ copy = [r \in Requests |-> NewInactiveSession]
    /\ wanted = [r \in Requests |-> 0]
    /\ batch = [r \in Requests |-> {}]
    /\ short = {}
    /\ read = [r \in Requests |-> NoRow]
    /\ since = [r \in Requests |-> {}]

Continue(r, label) == step' = [step EXCEPT ![r] = label]

\* The handler returns: of its locals only whose session it was still matters.
Finish(r, label, s) ==
    /\ Continue(r, label)
    /\ copy' = [copy EXCEPT ![r] = [NewInactiveSession EXCEPT !.id = s, !.owner = copy[r].owner]]
    /\ read' = [read EXCEPT ![r] = NoRow]

\* The request begins, with its copy of session s if it has one.
Start(r, k, label, c) ==
    /\ step[r] = "idle"
    /\ kind' = [kind EXCEPT ![r] = k]
    /\ copy' = [copy EXCEPT ![r] = c]
    /\ read' = [read EXCEPT ![r] = IF c.id = None THEN NoRow ELSE row[c.id]]
    /\ Continue(r, label)

-----------------------------------------------------------------------------
(* Session.IsActive, with the identity expanded and without *)

IsActive(s) == Active(s) /\ row[s].expires > now
IsActiveExpanded(s) == IsActive(s) /\ row[s].owner \in account

-----------------------------------------------------------------------------
(* UpsertSession *)

\* Whoever waits for a sweep to have worked learns that s was written.
Wrote(s, active) ==
    since' = [q \in Requests |-> IF active /\ kind[q] \in Sweeping
                                THEN since[q] \cup {s} ELSE since[q]]

\* A session without an id is created without looking for it.
UpsertSession(c) == IF c.id = None THEN "create" ELSE "exists"

\* The SELECT of Exists
UpsertExists(r) ==
    /\ step[r] = "exists"
    /\ Continue(r, IF Present(copy[r].id) THEN "update" ELSE "create")
    /\ UNCHANGED <<database, kind, copy, wanted, read, since, bulk>>

\* Every column but issued_at, identity_id and nid; the UPDATE of a row that is
\* gone changes nothing.
UpsertUpdate(r) ==
    LET s == copy[r].id IN
    /\ step[r] = "update"
    /\ row' = IF Present(s)
              THEN [row EXCEPT ![s].active = copy[r].active, ![s].expires = copy[r].expires,
                               ![s].amr = copy[r].amr, ![s].aal = copy[r].aal]
              ELSE row
    /\ Wrote(s, Present(s) /\ copy[r].active)
    /\ Finish(r, "done", s)
    /\ UNCHANGED <<issued, account, now, kind, wanted, bulk>>

RowOf(c) == [owner |-> c.owner, active |-> c.active, expires |-> c.expires,
             amr |-> c.amr, aal |-> c.aal]

\* A new session gets an id of its own, one that was deleted meanwhile keeps its.
UpsertCreate(r, s) ==
    /\ step[r] = "create"
    /\ \/ copy[r].id = None /\ s \notin issued
       \/ copy[r].id = s
    /\ ~Present(s)
    /\ row' = [row EXCEPT ![s] = RowOf(copy[r])]
    /\ issued' = issued \cup {s}
    /\ Wrote(s, copy[r].active)
    /\ Finish(r, "done", s)
    /\ UNCHANGED <<account, now, kind, wanted, bulk>>

-----------------------------------------------------------------------------
(* updateLoginFlow and PostLoginHook *)

\* A login with an active session goes on only to refresh it or to raise its AAL.
LoginWithSession(r, s, aal, refresh) ==
    /\ IsActiveExpanded(s)
    /\ refresh \/ aal > row[s].aal
    /\ Start(r, "login", "authenticate", CopyOf(s))
    /\ wanted' = [wanted EXCEPT ![r] = aal]
    /\ UNCHANGED <<database, since, bulk>>

\* Without an active session only a flow of AAL1 goes on.
LoginWithoutSession(r) ==
    /\ Start(r, "login", "authenticate", NewInactiveSession)
    /\ wanted' = [wanted EXCEPT ![r] = 1]
    /\ UNCHANGED <<database, since, bulk>>

\* CheckAAL of the strategies: a provider that vouches for both factors is
\* still used in a flow of AAL1.
FlowAAL(m) == IF m = "second" THEN 2 ELSE 1

\* Mutant: one level for each method.
MutLevelPerMethod(amr) == Cardinality(amr)

\* SetAuthenticatorAssuranceLevel
AALOf(amr) ==
    LET has(m) == \E e \in amr : e.method = m IN
    IF amr = {} THEN 0
    ELSE IF has("sso") \/ (has("first") /\ has("second")) THEN 2 ELSE 1

\* CompletedLoginForMethod, and the AAL that follows from it.
Completed(c, m, i) ==
    LET amr == c.amr \cup {[method |-> m, by |-> i]}
    IN  [c EXCEPT !.amr = amr, !.aal = AALOf(amr)]

\* Mutants: re-authenticating keeps the session of another user; the list of
\* methods starts again.
MutKeepSession(c, m, i) == IF m = "sso" THEN NewInactiveSession ELSE c
MutForgetMethods(c, m, i) ==
    IF m = "sso" \/ c.owner \notin {None, i} THEN NewInactiveSession
    ELSE [c EXCEPT !.amr = {}]

\* Single sign-on starts from a new session, and so does whoever authenticates
\* as another user than the one of the session.
SessionFor(c, m, i) ==
    IF m = "sso" \/ c.owner \notin {None, i} THEN NewInactiveSession ELSE c

AfterActivation(c) == IF Destroyer THEN "hooks" ELSE UpsertSession(c)

\* A strategy authenticates identity i, which it reads; ActivateSession.  A
\* second factor is looked up for the identity of the session.
Authenticate(r, i, m) ==
    /\ step[r] = "authenticate"
    /\ wanted[r] = FlowAAL(m)
    /\ m = "second" => copy[r].owner = i
    /\ i \in account
    /\ LET c == Completed(SessionFor(copy[r], m, i), m, i) IN
       /\ copy' = [copy EXCEPT ![r] = [c EXCEPT !.owner = i, !.active = TRUE,
                                                !.expires = now + Lifespan]]
       /\ Continue(r, AfterActivation(c))
    /\ wanted' = [wanted EXCEPT ![r] = 0]
    /\ UNCHANGED <<database, kind, read, since, bulk>>

\* UPDATE sessions SET active = false for the sessions in S.
Revoke(S) == row' = [s \in Sessions |->
                        IF s \in S THEN [row[s] EXCEPT !.active = FALSE] ELSE row[s]]

OwnedBy(i) == {s \in Sessions : Present(s) /\ row[s].owner = i}

\* RevokeSessionsIdentityExcept, of the hook SessionDestroyer before the session
\* is stored and of deleteMySessions.
RevokeSessionsIdentityExcept(r) ==
    /\ Revoke(OwnedBy(copy[r].owner) \ {copy[r].id})
    /\ since' = [since EXCEPT ![r] = {}]
    /\ UNCHANGED <<issued, account, now, kind, wanted, bulk>>

SessionDestroyer(r) ==
    /\ step[r] = "hooks"
    /\ RevokeSessionsIdentityExcept(r)
    /\ Continue(r, UpsertSession(copy[r]))
    /\ UNCHANGED <<copy, read>>

-----------------------------------------------------------------------------
(* SessionAddAuthenticationMethods, of the settings strategies *)

SettingsWithSession(r, s) ==
    /\ IsActiveExpanded(s)
    /\ Start(r, "settings", "get", CopyOf(s))
    /\ UNCHANGED <<database, wanted, since, bulk>>

\* GetSession, which reads an expired session as inactive.
GetSession(s) == [CopyOf(s) EXCEPT !.active = IsActive(s)]

SessionAddAuthenticationMethods(r, m) ==
    LET s == copy[r].id IN
    /\ step[r] = "get"
    /\ Present(s)
    /\ copy' = [copy EXCEPT ![r] = Completed(GetSession(s), m, copy[r].owner)]
    /\ read' = [read EXCEPT ![r] = row[s]]
    /\ Continue(r, "exists")
    /\ UNCHANGED <<database, kind, wanted, since, bulk>>

-----------------------------------------------------------------------------
(* ExtendSession *)

\* CanBeRefreshed, Refresh.  An inactive session is extended as well.
ExtendSession(r, s) ==
    /\ Present(s)
    /\ row[s].expires - MinTimeLeft < now
    /\ Start(r, "extend", "write", [CopyOf(s) EXCEPT !.expires = now + Lifespan])
    /\ UNCHANGED <<database, wanted, since, bulk>>

\* Mutant: the whole session is updated.
MutExtendAll(r) ==
    LET s == copy[r].id IN
    /\ step[r] = "write"
    /\ row' = IF Present(s) THEN [row EXCEPT ![s] = RowOf(copy[r])] ELSE row
    /\ Finish(r, "done", copy[r].id)
    /\ UNCHANGED <<issued, account, now, kind, wanted, since, bulk>>

\* UPDATE sessions SET expires_at WHERE id
WriteExpiry(r) ==
    LET s == copy[r].id IN
    /\ step[r] = "write"
    /\ row' = IF Present(s) THEN [row EXCEPT ![s].expires = copy[r].expires] ELSE row
    /\ Finish(r, "done", copy[r].id)
    /\ UNCHANGED <<issued, account, now, kind, wanted, since, bulk>>

-----------------------------------------------------------------------------
(* Logging out and revoking one's own sessions *)

\* The session is fetched without the identity: a disabled user can log out.
OwnSession(r, s, k) ==
    /\ IsActive(s)
    /\ Start(r, k, "sweep", CopyOf(s))
    /\ UNCHANGED <<database, wanted, since, bulk>>

\* RevokeSessionByToken
Logout(r) ==
    /\ kind[r] = "logout" /\ step[r] = "sweep"
    /\ Revoke({copy[r].id})
    /\ Finish(r, "done", copy[r].id)
    /\ UNCHANGED <<issued, account, now, kind, wanted, since, bulk>>

DeleteMySessions(r) ==
    /\ kind[r] = "revokeOthers" /\ step[r] = "sweep"
    /\ RevokeSessionsIdentityExcept(r)
    /\ Finish(r, "done", copy[r].id)

\* RevokeSession: one's own, but not the current one.
DeleteMySession(r, s) ==
    /\ kind[r] = "revokeOne" /\ step[r] = "sweep"
    /\ s # copy[r].id
    /\ Revoke(OwnedBy(copy[r].owner) \cap {s})
    /\ Finish(r, "done", copy[r].id)
    /\ UNCHANGED <<issued, account, now, kind, wanted, since, bulk>>

-----------------------------------------------------------------------------
(* Administration, cleanup, time *)

\* The rows of S are deleted, and no longer found by a statement of the others that
\* selected them before.
Delete(S, others) ==
    /\ row' = [s \in Sessions |-> IF s \in S THEN NoRow ELSE row[s]]
    /\ batch' = [q \in Requests |-> batch[q] \ S]
    /\ short' = short \cup {q \in others : batch[q] \cap S # {}}

AdminUnchanged == UNCHANGED <<issued, account, now, request, read, since>>

\* performNativeLogout, disableSession, RevokeSessionsByIDs
DisableSession(s) == Active(s) /\ Revoke({s}) /\ AdminUnchanged /\ UNCHANGED bulk

RevokeSessionsByIdentities(i) == Revoke(OwnedBy(i)) /\ AdminUnchanged /\ UNCHANGED bulk

DeleteSessionsByIDs(s) == Present(s) /\ Delete({s}, Requests) /\ AdminUnchanged

\* DeleteSessionsByIdentity, and DeleteSessionsByIdentities for each of them.
DeleteIdentitySessions(i) == Delete(OwnedBy(i), Requests) /\ AdminUnchanged

\* manageSessions with the wildcard; the client repeats it while more is true.
ManageAllSessions(r, k) ==
    /\ Start(r, k, "sweep", NewInactiveSession)
    /\ since' = [since EXCEPT ![r] = {}]
    /\ UNCHANGED <<database, wanted, bulk>>

\* Mutant: off by one.
MutMore(n) == n > BatchSize

\* wildcardBatch
More(n) == n = BatchSize

\* The sub-select of RevokeAllSessions and DeleteAllSessions.  On READ COMMITTED the
\* rows it found may be written or deleted before the statement gets to them.
SelectBatch(r) ==
    LET matching == {s \in Sessions : IF kind[r] = "disableAll" THEN Active(s) ELSE Present(s)}
    IN
    /\ kind[r] \in {"disableAll", "deleteAll"} /\ step[r] = "sweep"
    /\ \E S \in SUBSET matching :
           /\ Cardinality(S) = IF Cardinality(matching) < BatchSize
                               THEN Cardinality(matching) ELSE BatchSize
           /\ batch' = [batch EXCEPT ![r] = S]
    /\ short' = short \ {r}
    /\ Continue(r, "batch")
    /\ UNCHANGED <<database, kind, copy, wanted, read, since>>

\* Its UPDATE or DELETE of the rows that are still there, and their number.
WildcardBatch(r) ==
    /\ step[r] = "batch"
    /\ \/ /\ kind[r] = "disableAll"
          /\ Revoke(batch[r])
          /\ batch' = [batch EXCEPT ![r] = {}]
          /\ UNCHANGED short
       \/ /\ kind[r] = "deleteAll"
          /\ Delete(batch[r], Requests \ {r})
    /\ Continue(r, IF More(Cardinality(batch[r])) THEN "sweep" ELSE "done")
    /\ UNCHANGED <<issued, account, now, kind, copy, wanted, read, since>>

DeleteExpiredSessions ==
    /\ \E S \in (SUBSET {s \in Sessions : Present(s) /\ row[s].expires <= now}) \ {{}} :
           Delete(S, Requests)
    /\ AdminUnchanged

\* An administrator updates the state of an identity.
SetAccountState(i) ==
    /\ account' = IF i \in account THEN account \ {i} ELSE account \cup {i}
    /\ UNCHANGED <<row, issued, now, request, read, since, bulk>>

Tick ==
    /\ now < MaxTime
    /\ now' = now + 1
    /\ UNCHANGED <<row, issued, account, request, read, since, bulk>>

\* A check or a statement fails, a hook aborts, the session is gone, or the
\* process dies.
Fail(r) ==
    /\ step[r] \notin {"idle", "done", "failed"}
    /\ Finish(r, "failed", None)
    /\ kind' = [kind EXCEPT ![r] = "none"]
    /\ since' = [since EXCEPT ![r] = {}]
    /\ batch' = [batch EXCEPT ![r] = {}]
    /\ short' = short \ {r}
    /\ UNCHANGED <<database, wanted>>

-----------------------------------------------------------------------------

Handle(r) ==
    \/ \E s \in Sessions :
          \/ \E aal \in 1 .. 2, refresh \in BOOLEAN : LoginWithSession(r, s, aal, refresh)
          \/ SettingsWithSession(r, s)
          \/ ExtendSession(r, s)
          \/ \E k \in {"logout", "revokeOthers", "revokeOne"} : OwnSession(r, s, k)
          \/ UpsertCreate(r, s)
          \/ DeleteMySession(r, s)
    \/ LoginWithoutSession(r)
    \/ \E i \in Identities, m \in Methods : Authenticate(r, i, m)
    \/ SessionDestroyer(r)
    \/ \E m \in Methods : SessionAddAuthenticationMethods(r, m)
    \/ UpsertExists(r) \/ UpsertUpdate(r)
    \/ WriteExpiry(r)
    \/ Logout(r) \/ DeleteMySessions(r)
    \/ \E k \in {"disableAll", "deleteAll"} : ManageAllSessions(r, k)
    \/ SelectBatch(r) \/ WildcardBatch(r)
    \/ Fail(r)

Next ==
    \/ \E r \in Requests : Handle(r)
    \/ \E s \in Sessions : DisableSession(s) \/ DeleteSessionsByIDs(s)
    \/ \E i \in Identities :
          \/ RevokeSessionsByIdentities(i) \/ DeleteIdentitySessions(i)
          \/ SetAccountState(i)
    \/ DeleteExpiredSessions \/ Tick

Spec == Init /\ [][Next]_vars

-----------------------------------------------------------------------------
(* Properties *)

\* Whatever a session says was completed, its owner completed, and it is at AAL2
\* only by a first and a second factor of the owner, or by a provider that vouches
\* for both: re-authenticating as another user never adds to a session whose row
\* keeps its owner ("in this case, we need to use a completely fresh session!",
\* updateLoginFlow), and no order of stale writes raises the AAL without the methods.
AssuranceIsTheOwners ==
    \A s \in Sessions :
        LET methods == {e.method : e \in row[s].amr} IN
        /\ \A e \in row[s].amr : e.by = row[s].owner
        /\ row[s].aal = 2 => "sso" \in methods \/ {"first", "second"} \subseteq methods

Sweeps(r) ==
    /\ step[r] = "done"
    /\ kind[r] \in Sweeping
    /\ kind[r] = "login" => Destroyer

Swept(r) ==
    IF kind[r] \in {"disableAll", "deleteAll"} THEN Sessions
    ELSE OwnedBy(copy[r].owner) \ {copy[r].id}

\* When a request that revokes all sessions (of the network, or all others of
\* the user, or the hook after a login) has been answered, every one of them that
\* is active was written active since the sweep began: batches, batch limits and
\* sessions without an id leave none out.  One thing does: another transaction
\* deletes rows of a batch between its sub-select and its write, so that the number
\* of rows is below the limit, and the answer says there are no more.
SweepIsComplete ==
    \A r \in Requests : Sweeps(r) /\ r \notin short =>
        \A s \in Swept(r) : Active(s) => s \in since[r]

\* The steps of request r that write session s.
Writes(r, s) == copy'[r].id = s /\ step[r] \in {"update", "create", "write"} /\ step'[r] = "done"

\* A session that was revoked, or deleted, comes back only by a login or a
\* settings change that read it before, while it was active: an extension, a
\* sweep, a cleanup or a request that started later never bring it back.
ComesBackByStaleLogin ==
    [][\A s \in issued : ~Active(s) /\ Active(s)' =>
          \E r \in Requests :
              /\ Writes(r, s)
              /\ kind[r] \in {"login", "settings"}
              /\ read[r].active]_vars

\* Methods and time are lost only to a request that read the session before
\* somebody else wrote it: refreshing, stepping up and extending only add.
LostOnlyToStaleWrite ==
    [][\A s \in Sessions : Present(s) /\ Present(s)'
          /\ (~(row[s].amr \subseteq row'[s].amr) \/ row'[s].expires < row[s].expires) =>
          \E r \in Requests : Writes(r, s) /\ read[r] # row[s]]_vars

\* "Calling this endpoint irrecoverably and permanently deletes and invalidates
\* all sessions that belong to the given Identity" (deleteIdentitySessions).
DeletedStaysDeleted == [][\A s \in issued : ~Present(s) => ~Present(s)']_vars
=============================================================================
