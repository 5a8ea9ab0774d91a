# Ory Kratos in TLA+

Models of the parts of Ory Kratos in which several processes or requests work on
the same rows, the TLC runs that check them on small instances, and TLAPS proofs
that hold for every size. Paths are relative to the repository root. `PROJECT.json`
lists for every definition the lines of code it stands for, for every property a
mutant that breaks it, and the hazards the properties are about.

    tlc -workers 2 -config CourierPool.cfg MCCourier    # a run
    tlapm CourierProofs.tla                             # a proof

## The system

Kratos is an identity server: stateless HTTP handlers over one SQL database
(PostgreSQL, MySQL, CockroachDB or SQLite), and a background courier. Everything
that lasts is in tables. Two requests for the same flow, session or message may be
handled at the same time by different processes, and the only coordination between
them is the database's. Most multi-step operations are not one transaction.

| Component | State | Operations | Module |
|---|---|---|---|
| Courier (`courier/`, `persistence/sql/persister_courier.go`) | `courier_messages` (status, send_count), `courier_message_dispatches`, the batch a worker holds | queue, claim a batch, dispatch over SMTP or HTTP, record, requeue, abandon | `Courier` |
| One-time codes (`persistence/sql/persister_code.go`, `persister_*_code.go`) | code rows (used_at, expires_at), `submit_count` of the flow | create, replace, use | `OneTimeCode` |
| Recovery with a code (`selfservice/strategy/code/strategy_recovery.go`, `selfservice/flow/recovery/`) | the flow's row: state, expiry, UI | submit an address, choose and confirm it, resend, use a code, go back, issue a session | `RecoveryFlow` |
| Verification with a code; settings and pending trait changes (`strategy_verification.go`, `selfservice/flow/settings/`, `selfservice/hook/verify_new_address.go`) | traits, verifiable addresses, `identity_pending_traits_changes`, verification flows | stage a change, send and use a code, apply the change | `VerificationFlow` |
| Recovery and verification links (`selfservice/strategy/link/`) | token rows (used, expiry), flows, addresses | issue, use | `Links` |
| Sessions (`session/`, `persister_session.go`, `selfservice/flow/login/`) | session rows (active, expiry, AMR, AAL) | activate, refresh, step up, extend, revoke, delete | `Session` |
| Social sign-in of native apps, session token exchange, continuity containers (`selfservice/strategy/oidc/`, `persister_sessiontokenexchanger.go`, `continuity/`) | exchanger and container rows, login and registration flows | pause, continue, convert, attach a session, exchange codes for it | `NativeLogin` |
| Login and registration with a code | their flows | the same use of a code, other checks around it | - |
| Identities | traits, credentials, addresses | create, update, delete | - |
| Cleanup (`Persister.CleanupDatabase`) | - | deletes expired rows in batches, table by table | an action of each module |
| Password, WebAuthn, passkey, TOTP, lookup strategies; hooks; configuration, schemas, UI, CLI | none of their own beyond flows and credentials | verify a credential, call a service, render | - |

Flows queue messages for the courier, use codes, and end in a session or a changed
address; the cleanup deletes what any of them may be working on.

What is hard, and what makes each part correct:

- **Courier.** The loop holds no lock and no transaction. Two workers may pull the
  same row; the retry limit is compared with a copy; a failed dispatch resets the
  rest of a batch the loop then goes on with; a crash, a failed statement or a lost
  answer may come anywhere. Correct means: attempts bounded by `message_retries`,
  no message given up early, none stuck in `processing` without cause, and every
  message settled in the end.
- **Codes.** A six-digit code is only as good as its submission limit and its single
  use. Both must survive racing requests under READ COMMITTED, MySQL's non-atomic
  increment, transactions that are run again with captured variables, resends and
  cleanups between the read of a code and its use.
- **Recovery.** Handlers read the flow, work for a while, and write the whole row
  back. Consuming the code, verifying the address, passing the challenge and storing
  the session are four transactions. Correct means: no session without a code
  consumed by that request, no flow passed without one, no way to refill the
  submission limit, one recovery per flow, and a flow of version 2 never handled by the
  old state machine.
- **Pending changes.** A change of address waits for a code while the traits, the
  session, the owner of the address or another change may move on. Correct means: no
  address takes effect or counts as verified without its own code, a change replaces
  only the traits it was made for, and the address rows keep up with the traits,
  although updates compare with rows they read before their transaction.
- **Links.** A token is consumed before its expiry, its flow and its address are
  looked at, and a resend leaves earlier links usable. Correct means: a link works
  once, in time, for its own address, or not at all.
- **Sessions.** `UpsertSession` writes a whole row that was read earlier, over
  revocations and step-ups. Correct means: methods and AAL are the owner's, a sweep
  leaves nothing out that it says it revoked, and what comes back or gets lost is due to one known overlap.
- **Native sign-in.** The app, its browser and the provider each make requests; the
  exchanger moves from flow to flow while other callbacks look it up. Correct means:
  an app that is sent back finds its session or its error behind its codes, and
  neither the session token nor a flow with its error goes to the browser.

## Modules

| Module | Models | Extends / instantiates |
|---|---|---|
| `Courier` | the queue and any number of workers | - |
| `CourierProofs` | theorems about `Courier` | `Courier` |
| `OneTimeCode` | the codes of one flow, for all four strategies | - |
| `OneTimeCodeProofs` | theorems about `OneTimeCode` | `OneTimeCode` |
| `RecoveryFlow` | one recovery flow, versions 1 and 2 | instantiates `OneTimeCode` as `Code` |
| `RecoveryFlowProofs` | theorems about `RecoveryFlow` | `RecoveryFlow`; instantiates `OneTimeCodeProofs` |
| `Session` | the sessions table and the requests on it | - |
| `SessionProofs` | theorems about `Session` | `Session` |
| `VerificationFlow` | one identity's profile changes and their verification flows | - |
| `VerificationFlowProofs` | theorems about `VerificationFlow` | `VerificationFlow` |
| `Links` | one flow of the link method and its tokens | - |
| `LinksProofs` | theorems about `Links` | `Links` |
| `NativeLogin` | one app, its exchanger, containers and flows | - |
| `NativeLoginProofs` | theorems about `NativeLogin` | `NativeLogin` |
| `MC...` | instances for TLC | their module |

In every module a request is a record, or a set of functions, with the step its handler
is at and the copies of rows it has read. A step is one SQL statement or one transaction
with the code up to the next; statements whose rows nobody else can see yet are merged
with the next one. A failed statement, a crash and the clock are actions.

### Courier

A row of `courier_messages` is `status[m]`, `sendCount[m]` and `m \in aged` (older
than the second CockroachDB skips); messages are numbered by `created_at`. A worker
has a program counter, the batch it read (with the `send_count` it read), and the
indices of the two loops of `DispatchQueue`. Each SQL statement of the loop is an
action: `Select` and `Claim` (`NextMessages`), `Abandon`, `IncrementMessageSendCount`,
the outcomes of a channel (`Deliver`, `DispatchError`, `Reject`, `InvalidRecipient`,
`DeliverAnswerLost`), `MarkSent`, `RecordSuccess`, `RecordFailure`, `Requeue`. Each
statement whose error the code handles differently has an action for the error. On
CockroachDB a claim whose rows changed is a conflict and is run again; on the others
the `UPDATE ... WHERE id` goes through, since it does not look at the status. `Crash`
drops what a worker holds, `Start` is whoever runs the courier starting it again. Templates, headers and the
channels' own protocols are left out.

### OneTimeCode

`useOneTimeCode` statement by statement: the increment (one statement with RETURNING,
two on MySQL, by the variable `dialect`), the gate, the lookup in the transaction, the
guarded UPDATE, the second validation. `target` is the Go variable the transaction's
callback captures, so `RetryTransaction` leaves it alone, as the code does. A request
that sends codes deletes the flow's codes and creates one per address. `Expire` is the
clock, `DeleteExpiredFlow` the cleanup with its cascading delete. A request runs once,
since it is one HTTP request. Two generated codes are taken to be different: with equal
codes in one flow the first row matches, which is the same as there being one. The HMAC
and the rotation of its secrets are equality of codes.

### RecoveryFlow

The row is `state`, `lapsed`, and OneTimeCode's variables; `version` is what the flow was
created with. Each request keeps the state in the copy of the flow its handler read
(`handler`) and in the copy its strategy read again (`copy`), because they are written
back at different places: `Save` writes the strategy's, `WriteFlowError` the handler's,
and `GoBack` works on the handler's. In version 1 a code is used with the handler's copy
itself (`PassedCopy`). An action per state handler, `UseRecoveryCode` for the steps of
`OneTimeCode`, then `MarkRecoveryAddressVerified`, `PassChallenge`, `IssueSession`.
`StatementFails` and `RetryRecoveryFlow` are the error paths, `Abort` a crash or an
error page. `overlap` (two requests were being handled at the same time) and `reopened`
(a write took the flow out of `passed_challenge`) are history. A payload is a record of
the fields the handlers look at; in `recovery` every flow, of either version, may be sent
what the forms of both versions send and `screen=previous`. The hash of an address is
equality (`select = "same"`), the masking and the UI nodes are left out.

### Session

`row[s]` is a session's row, `copy[r]` the Go value a request works on, `read[r]` the row
as it was when it was read (history). `LoginWithSession` and `LoginWithoutSession` are
`updateLoginFlow`; `Authenticate` is the strategy with `SessionFor` (a session of another
user is not kept) and `ActivateSession`; the upsert is its three statements
`UpsertExists`, `UpsertUpdate`, `UpsertCreate`. `SettingsWithSession` and
`SessionAddAuthenticationMethods` are the settings strategies that add a method;
`ExtendSession` and `WriteExpiry` the extension; `Logout`, `DeleteMySession(s)`,
`DisableSession`, `DeleteSessionsByIDs`, `DeleteIdentitySessions`, `ManageAllSessions`
with its batches the revocations; `SessionDestroyer` the hook. Every statement of a
transaction is a step, as READ COMMITTED allows. A wildcard batch is two steps, because
its UPDATE or DELETE selects with a LIMIT first: `SelectBatch` fixes the rows,
`WildcardBatch` writes those that are still there, and `short` remembers batches another
transaction deleted rows of in between. A settings change adds any method, linking a
provider included. An AMR entry also records who completed
it, which the code does not.

### VerificationFlow

One identity, one session. A settings request, the pending change and the flow it creates
share a name. The settings request reads its session's copy of the identity, loads the
rows again (`SetTraits`), runs the hook (`VerifyNewAddress`), and either updates the
traits or goes through `DeletePendingTraitsChangesByIdentity`, `CreateVerificationFlow`,
`CreatePendingTraitsChange`, `SendCodeToNewAddress`. An administrator's update
(`AdminUpdate`) reads the identity as well, and has a name like a settings request since
both go on in `Manager.Update`: it reads the original outside of the transaction
(`GetOriginal`), and `Update` later writes the difference between the two copies. So
there are three moments, the read of what is written, the read of what it is compared
with, and the write, and anything may come between them. Rows have ids (`rows`, `made`):
`UpdateIdentity` deletes by id the rows whose signature changed and creates them again,
a row another update replaced meanwhile is not found, and the codes of a deleted row go
with it. A verification request sends a code, for the pending change or for the row of an
address, or uses one; with a pending change it checks it (`CheckPending`), loads the
identity and applies it (`LoadIdentity`, `ApplyPendingTraitsChange`), which on a
serializable database is a `Conflict` when the identity changed in between. `outdated`
(the last update compared with rows that were no longer there) and `overtaken` (the
traits or the session changed within a request's transaction) are history. The signature
of a row is whether it is verified; its `status` and `verified_at` are left out.
`EndSession` stands for a session that was revoked, expired or deleted; a session that is
not privileged is a `SettingsFail`; the `status` column of a change, which nothing reads,
is left out. Codes are counts per flow and kind, since their use is `OneTimeCode`'s.

### Links

One recovery or verification flow, created by a user or by an administrator together with
a link (`AdminLink`). A request asks for a link (`SubmitEmail`, `SendLink`, `Save`) or follows one (`SelectToken`,
`UseToken`, then `GetRecoveryFlow`, `CheckToken`, `GetIdentity`, `MarkVerified`,
`PassChallenge`, `IssueSession` in the order of the strategy). `Expire`, `Lapse`,
`RemoveAddress` with its cascade and `DeleteExpiredFlow` are the rest of the system. Left
out are the tokens of pending changes, address rows that are deleted and created again by
a profile update (in `VerificationFlow`), and the address's `status`.

### NativeLogin

`Submit`, `GenerateStateAndPause` and `SaveFlow` are the app's submission: the state
parameter carries the exchanger's init code if it was found, the container's id is put
into the flow's internal context. `Callback`, `ValidateCallback`, `ContinueContainer`,
`SetContinuitySessionExpiry` (with the exchange of the provider's code),
`FindIdentity`, `Convert` or `LinkAccount` (a login flow becomes a registration flow or the
other way round, and `MoveToNewFlow` takes the exchanger along), `CreateIdentity`,
`IssueSession`, `UpdateSessionOnExchanger` are the callback. An identity can be a
duplicate by its subject or by another identifier such as the email, which `LinkAccount`
handles alike. `SaveError` and `RedirectError` are `WriteFlowError` for an error that
`ParseError` puts into the flow; `ForwardError` is one that it returns, or a flow that is
gone: nothing is saved and the browser gets it; `CannotSave` is a flow whose row
disappeared; `ExchangeCode`, `GetExchangerFromCode`,
`ExchangePending` are what the app asks for in the end. `stale`, and `opened`, `blind`,
`displaced` of a request, are history. The browser has no Kratos session of its own, no
`id_token` is submitted, no policy merges conflicting identities, and the session hook is
configured for registration; an app does not submit a flow it knows to be expired.

## Runs

| Run | What it shows |
|---|---|
| `courier_pool` | Two workers, READ COMMITTED, one fault: types, `SendCountBound` (attempts exceed `message_retries` by at most the number of workers), `DeliveriesAreCounted`, `AbandonedForCause`, `ProcessingIsHeld`, `EveryAttemptIsRecorded`. |
| `courier_single` | One worker, three messages of different kinds, two faults: `DeliveredOnce`, `SentIsFinal`. |
| `courier_cockroach` | Two workers on CockroachDB, one fault: `ExclusiveUntilFailure`, the serializable claim hands a row to one worker; `EventuallySettled` under `FairSpec`. |
| `courier_reject` | violation of `NoRetryAfterReject`, see below. |
| `code` | Four requests, two codes, both dialects: `SubmissionBound`, `SingleUse`, `ReplacedNeverUsed`, `AlreadyUsedIsTrue`, types. |
| `recovery` | Both versions, every payload for each of them, three requests of which two overlap, or four one after the other: `SessionNeedsCode`, `PassedIsEarned`; without an overlap `OneLiveCode` and, until the flow is taken out of `passed_challenge`, `OneRecovery`; every behaviour is one of `OneTimeCode` (`CodeSpec`); types, among them that a flow of version 2 is never in a state of version 1. |
| `recovery_stale` | violation of `PassedIsFinal`, see below. |
| `session` | Three requests of any kind over two sessions of two identities: `AssuranceIsTheOwners`, `SweepIsComplete`, `ComesBackByStaleLogin`, `LostOnlyToStaleWrite`, types. |
| `session_deleted` | violation of `DeletedStaysDeleted`, see below. |
| `verification` | Two changes, by the user or an administrator, and two verification requests, two at a time, and two events, on serializable and READ COMMITTED databases: `UnprovenNeverTakesEffect`, `VerifiedIsProven`, `PassedIsEarned`, `RowsFollowTraits`, `AppliesToItsBase`, `LostOnlyToStaleCopy`, types. |
| `links` | Four requests, two at a time, two links, two addresses, two events: `OneEffectPerLink`, `VerifiedIsProven`, types, which say that deleted rows take along what refers to them. |
| `native` | Four requests, two at a time, two failures or events: `RedirectLeadsToSession`, `AnsweredThroughApp`, `PendingShowsError`, types. |

`ComesBackByStaleLogin`, `LostOnlyToStaleWrite`, `LostOnlyToStaleCopy`, and the exceptions
in `SweepIsComplete`, `AppliesToItsBase`, `RowsFollowTraits` and the properties of
`native`, name the overlaps in which something does get lost: without them the property
fails, so they are also the list of what the code gives up.

**Bounds.** `MaxFaults` limits failed statements, crashes and lost answers; one fault
next to two racing workers, or two next to one, reaches every error path, alone and in
the pairs where one leaves the state the next one hits. Two messages in a batch of two
are the least for which `messages[k:]` has a rest; three over two pulls let a requeued
row be pulled with a new one. A retry limit of 0 or 1 puts every message at the limit.
Four requests with a limit of two submissions leave two that exceed it; two codes are
a code and its replacement, and two codes to two addresses. `MaxInFlight` limits how
many requests overlap: a stale copy needs two. `MaxConcurrent` is the last request of a
flow before its first session, and of one in which two have overlapped; the fourth comes
after a session, when none did, and tries to recover again. Two sessions
of two identities are the other user's session, the one to keep and the one to revoke;
the batch size of one makes every sweep several batches, and the clock ticks once, past
the lifespan. Two changes with five proposals keep, replace and add addresses; two events
in between are any of an administrator's update, a lost session, a taken address or a
cleanup. Two links are a link and a resend, or an administrator's and the user's own. A
native sign-in takes three requests (submit, callback, exchange); the fourth is a
second callback, submission or exchange. Requests, codes, workers, identities and
addresses are interchangeable where the symmetry sets say so; where requests are
numbered they arrive in that order. No liveness run uses symmetry. `CHECK_DEADLOCK
FALSE` stands where requests are finitely many and end.

**Fairness.** `courier_cockroach` assumes weak fairness of a worker's own steps, of its
restart, and of time passing for a row. `watchMessages` loops for ever; when its backoff
gives up, `Watch` returns the error (`cmd/courier/watch.go:88-109`) and the process ends.
That somebody starts it again, as service managers do, is an assumption on the
deployment. `FailOnDispatchError` is off there, as in production: only tests set it, and
the theorems hold for both values. Nothing is assumed of delivery, which may fail each time, and no fairness
is assumed of failures. The other modules have no fairness: a client may always leave.

**Three disagreements** between the code and what it says of itself:

- `courier_reject`: a message the SMTP server refuses with 5xx is set to abandoned by
  the channel and then back to queued by `DispatchQueue`, and is sent again, where
  `courier/smtp_channel.go:184` says that it should not be retried.
- `recovery_stale`: `passed_challenge` is called the terminal state
  (`selfservice/flow/state.go:49`), but a request that had read the flow before writes
  its old state back (`selfservice/flow/recovery/error.go:153`). Sessions are not
  affected: each still needs a code of its own, and `submit_count` is not a field of
  the copy. In version 2 one request is enough, because the handler's copy is not the
  one that passed: when the session cannot be stored after `PassChallenge`,
  `WriteFlowError` saves the handler's old state; and in either version
  `screen=previous` takes a flow that passed back to the address
  (`strategy_recovery.go:233` looks at it before the state and without the version).
  `OneRecovery` therefore holds until the flow is taken out of `passed_challenge`.
- `session_deleted`: deleting an identity's sessions "irrecoverably and permanently
  deletes" them (`session/handler.go:323`), but a login that refreshes or steps up a
  session and overlaps creates its row again, active, with its id and token.

Other observations, which the properties state as exceptions:

- `ApplyPendingTraitsChange` compares the traits' hash and writes in one transaction of
  the default isolation level, without locking the row. That it "revalidates the session
  atomically with the apply" (`strategy_verification.go:336-337`, `hook.go:392-400`)
  holds on a serializable database; under READ COMMITTED an update that commits in between
  is overwritten, or the session has ended. `AppliesToItsBase` says that this takes such
  an overtaking, in that very transaction.
- `UpdateIdentity` compares with rows read before its transaction
  (`identity/manager.go:551`, `persister_identity.go:1703-1715`): after an update that
  committed in between, rows and traits can differ, a verified row of an address that
  is no trait included, until the next update (`RowsFollowTraits`). A verification
  between the two reads of an update is undone by it (`LostOnlyToStaleCopy`).
- A wildcard batch counts the rows it wrote (`persister_session.go:551`, `702`): when
  another transaction deleted rows of the batch between its sub-select and its write, the
  count is below the limit and the answer is `more=false` (`session/handler.go:1427`)
  while sessions remain.
- `screen=previous` moves a flow of version 1 into the states of version 2. It then
  follows the rules of version 2, and no code is worth more than one session.
- An error that `ParseError` returns is written to the browser although the app waits
  for it (`login/error.go:138-141`, `registration/error.go:140-143`); the app only sees
  a flow without a session. `AnsweredThroughApp` is about errors shown in a flow. A failed
  look-up of the identity in a registration is taken for an unknown user
  (`strategy_registration.go:329`) and shows as a duplicate or an error later.
- `DeleteExpiredExchangers` adds an hour to its limit
  (`persister_sessiontokenexchanger.go:129`): with the default of keep-last it also removes
  exchangers of sign-ins that are going on, and their callback writes the session token
  to the browser.
- After a second conversion of a flow an error is shown in the first flow it was
  converted to, which the exchanger has left (`strategy_login.go:411`): the app is not sent
  back. The same happens when a linking flow cannot be saved.
- An error that is written with an old copy of the flow also writes the old reference to
  a container, so that a newer callback cannot be resumed.

## Proofs

Every invariant and action property of the passing runs is a theorem, for every number
of workers, requests, messages, codes, sessions, addresses and links, every limit and
every number of failures. The bounds of the instances (`MaxFaults`, `MaxEvents`,
`MaxInFlight`, `MaxConcurrent`) are any natural numbers there. Few of the properties are
inductive as they stand; each proofs module begins with what has to be added, and each of
these invariants was model-checked on the run's instance before it was proved.

**Courier** (`CourierProofs`)

- `TypeCorrect`: the types alone are not inductive, because a worker in the middle of
  the loop must have a message at its index (`CursorInBatch`).
- `SendCountBounded`: by `AttemptsBounded`, for each message `send_count` plus the number
  of workers that may still attempt it with the copy they hold stays within `MaxRetries`
  plus the number of workers. A pull adds a worker only if the count it read was within the
  limit, an attempt moves one from the second summand to the first. `BatchAscends`: a
  batch names a message once, so a worker owes one attempt.
- `DeliveriesCounted`, `AttemptsRecorded`, `GivenUpForCause`, from `CounterInv`: deliveries
  plus the workers that counted an attempt and have not made it are within `send_count`
  (`CountInv`); a pulled count is one the row once had, so a comparison with a stale
  copy errs on one side only (`CauseInv`).
- `ProcessingHeld`, from `LoopInv` and `HeldInv`: every step of a worker is a claim, or
  keeps what it holds (`Keeps`), or writes the status of one message it holds (`Writes`),
  or is a fault that drops some of it (`Drops`).
- `ClaimsExclusive`, for `Cockroach`: before the first failure what is held is not queued,
  and a serializable claim takes only what is (`ExclusiveInv`).
- `SentStays` and `DeliveredAtMostOnce`, for a single worker (`OneWorkerOnly`): what it
  selected is still queued when it claims it and what it holds is not sent (`UnsentInv`).
  With two workers both are false, which is why the theorems have that hypothesis.

**Codes** (`OneTimeCodeProofs`)

- `TypeCorrect`, with `SendingHasCodes` (who creates codes has one left to create).
- `SubmissionsBounded`: by `Counted`, while the flow exists `submit_count` is at least the
  number of requests that were admitted or are between MySQL's UPDATE and SELECT. A
  request is admitted when the count it sees is within the limit, and that includes it.
- `CodesUsedOnce`, `ReplacedCodesDead`, `AlreadyUsedTruthful`, all from `UseInv`: rows and
  consumers agree (`RowInv`), a captured target is the submitted code, also after a
  retry (`TargetInv`), who consumed a code is past its transaction (`ConsumerInv`), who
  saw it used saw another's use (`SeenInv`), and what each place of the function knows
  (`PlaceInv`).

**Recovery** (`RecoveryFlowProofs`)

- `RefinesCodes`: `Spec => CodeSpec`. The variables of `OneTimeCode` are variables of the
  flow, so the mapping is the identity on them; each action of the flow either leaves them
  alone or takes one step of `OneTimeCode`. With it the theorems about codes carry over:
  `RecoveryCodesUsedOnce` and `RecoverySubmissionsBounded` cite `OneTimeCodeProofs`
  through an instance of it, and what the flow's own theorems need of a code is taken from
  there.
- `SessionsNeedCodes`, `PassedAfterCode`: a copy of the flow is saved long after it was
  read and a session is issued steps after the code was accepted, so `EarnedInv` speaks of
  the copies: one that says `passed_challenge` was read after an acceptance.
- `RecoveryTypeCorrect`, with `VersionInv`: no copy of a flow of version 2 is in a state
  of version 1, else it could be written back. The converse is false, because of
  `screen=previous`. `ResendReplaces` (`AloneInv`) and `RecoversOnce` (`OnceInv`): until
  the flow is reopened, a request after the session has its code refused or is about to
  reopen it. All theorems hold for every set of payloads.

**Links** (`LinksProofs`): `LinksTypeCorrect`, `LinksActOnce`, `VerifiedProven`,
`RemovedAddressesDead`. Whoever is past the UPDATE of a token is its only consumer
(`ConsumeInv`), a token has had no effect while its consumer is on the way to it
(`EffectInv`), and a request that came too late gets only as far as the check of the
expiry (`LateInv`).

**Sessions** (`SessionProofs`): `SessionTypeCorrect`, `AssuranceEarned`,
`RevokedComesBackByStaleLogin`, `LossesNeedStaleWrite`, `SweepsComplete`. A whole row is
written from a copy, so all that is said of rows is said of copies too (`RowsInv`,
`CopyInv`). That the owner's methods stay the owner's needs that a session keeps its owner
through deletion and re-creation: all copies with an id agree on it (`HolderInv`). The
sweep's batches can be counted because only finitely many ids were given out, and from
the sub-select to the write a batch is full or the last one, unless it was cut short
(`SweptInv`).

**Verification** (`VerificationFlowProofs`): `VerificationTypeCorrect`,
`OnlyProvenTakesEffect`, `VerifiedRowsProven`, `PassedFlowsEarned`, `RowsKeepUp`,
`AppliedToItsBase`, `LossNeedsStaleCopy`, from `VerificationInv`. A change that waits adds exactly one
address, as the hook checked (`SettingsOK`); a code for the change exists only after the
settings request that proposed it ended, so the proposal does not move any more; past
the use of that code the new address is proven, and a copy of the verified rows that a
request holds has only proven ones (`RequestOK`). `AppliedToItsBase` is not the guard of
the step: between the check and the write the traits and the session are what was checked
or the request is marked as overtaken.

**Native sign-in** (`NativeLoginProofs`): `NativeTypeCorrect`, `RedirectsLeadToSession`,
`CallbacksAnswerThroughApp`, `ErrorsArePending`, from `NativeInv`.

- While a callback that was let in is handled, the exchanger is at its flow, or is gone,
  or another conversion has marked the request as displaced (`ReachOK`). Both promises to
  the app follow from it at the step that answers.
- An error that was saved is not overwritten by a conversion, because a conversion writes
  to a flow that nobody has the id of yet (`FreshInv`, over all the places an id can be,
  `Named`). This needs that a request converts to a flow of each kind at most once:
  a registration flow becomes a login flow when the identity exists, and then no login
  flow is converted, or when it is a duplicate by another identifier, and then the
  callback ends (`KindOK`).
- The proof gives more than `PendingShowsError` asks: the error stays in the flow also
  after the exchanger has a session or has left.

**Assumptions** are on the constants only and are evaluated by the runs of their modules:
`CourierAssumption`, `CodeAssumption`, `RecoveryAssumption`,
`SessionAssumption`, `VerificationAssumption`, `LinksAssumption`, `NativeAssumption`.
Finiteness is assumed where a theorem or the model counts: workers, requests of a flow,
the addresses of an identity.

**Model-checked only.** `EventuallySettled`: liveness needs fairness and ENABLED, which
are beyond the prover. The three violation runs are counterexamples. No module uses a
RECURSIVE operator.

## Plan

1. Abstract specifications that are smaller than their modules: a queue that delivers
   at least once for `Courier`, with its refinement proved like `RefinesCodes`.
2. `LoginCode` and `RegistrationCode`: the identity and address checks around a use; a
   registration code is consumed before the address is compared.
3. `Cleanup`: the order of the tables and the batch limit. Each module has the deletion
   of its own rows.

## Not modelled

Identity validation and merging, credential strategies, hooks, configuration, schemas,
UI, texts, clients and the CLI have no concurrent state of their own: what they decide
is an input of the models or a step that may fail. Most of the repository's lines are
of that kind: two generated API clients, the configuration and its schema, the forms and
messages, the clients of more than twenty sign-in providers, migrations and commands.
Left out of the modelled parts: recovery flows that an administrator creates with a
code, and the creation of flows; the flows that registration and login create for
verification; browser sign-in with its cookies;
the read-only endpoints of sessions, their devices, and the available AAL cached on the
identity. The wrap of `pull_count` to eight bits is excluded by `CourierAssumption`: it
only changes how many rows a pull returns.
