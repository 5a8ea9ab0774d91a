---------------------------- MODULE OneTimeCode ----------------------------
(***************************************************************************)
(* The one-time codes of one self-service flow: useOneTimeCode of          *)
(* persistence/sql/persister_code.go, which login, registration, recovery  *)
(* and verification share, and the way their strategies replace the codes  *)
(* of a flow.                                                              *)
(*                                                                         *)
(* A request is one HTTP request, so it runs once.  Every SQL statement is *)
(* a step.  The statements of the transaction are separate steps as well:  *)
(* under READ COMMITTED other requests commit between them, and every      *)
(* stricter isolation level allows fewer of these behaviours.              *)
(***************************************************************************)
EXTENDS Integers, FiniteSets

CONSTANTS
    Requests,        \* HTTP requests submitted to the flow
    Codes,           \* codes that can be created for it
    None,            \* no code: a guess that is no code, a nil target
    MaxSubmissions,  \* selfservice.methods.code.config.max_submissions
    MaxAddresses,    \* bound: addresses one SendCode call writes codes for
    Dialects         \* databases: on mysql, without RETURNING, the increment
                     \* is two statements

ASSUME CodeAssumption ==
    /\ IsFiniteSet(Requests)
    /\ None \notin Codes
    /\ MaxSubmissions \in Nat
    /\ MaxAddresses \in Nat
    /\ Dialects \subseteq {"mysql", "returning"}

VARIABLES
    dialect,      \* the database the program was started with
    exists,       \* the flow's row has not been cleaned up
    submitCount,  \* its submit_count column
    row,          \* the state of each code's row
    expired,      \* codes whose expires_at has passed
    pc,           \* where each request is
    guess,        \* the code it submitted
    target,       \* the matching row, a variable its transaction captures
    seenUsed,     \* target.UsedAt is set in that copy
    toSend,       \* codes the request has yet to create
    admitted,     \* history: requests whose guess was compared
    consumer      \* history: requests whose UPDATE set used_at of the code

database == <<dialect, exists, submitCount, row, expired>>
request  == <<pc, guess, target, seenUsed, toSend>>
codeVars == <<database, request, admitted, consumer>>

Answers == {"accepted", "notFound", "alreadyUsed", "tooOften", "failed", "sent"}
Pcs == {"idle", "select", "lookup", "consume", "validate", "create"} \cup Answers

\* "replaced" and "purged" are deleted rows: an unused and a used one.
Rows == {"unissued", "live", "used", "replaced", "purged"}

\* The flow's row, its codes, and each request's local state have their types.
TypeOK ==
    /\ dialect \in Dialects
    /\ exists \in BOOLEAN
    /\ submitCount \in Nat
    /\ row \in [Codes -> Rows]
    /\ expired \in SUBSET Codes
    /\ pc \in [Requests -> Pcs]
    /\ guess \in [Requests -> Codes \cup {None}]
    /\ target \in [Requests -> Codes \cup {None}]
    /\ seenUsed \in [Requests -> BOOLEAN]
    /\ toSend \in [Requests -> 0 .. MaxAddresses]
    /\ admitted \in SUBSET Requests
    /\ consumer \in [Codes -> SUBSET Requests]

Init ==
    /\ dialect \in Dialects
    /\ exists = TRUE
    /\ submitCount = 0
    /\ row = [c \in Codes |-> "unissued"]
    /\ expired = {}
    /\ pc = [r \in Requests |-> "idle"]
    /\ guess = [r \in Requests |-> None]
    /\ target = [r \in Requests |-> None]
    /\ seenUsed = [r \in Requests |-> FALSE]
    /\ toSend = [r \in Requests |-> 0]
    /\ admitted = {}
    /\ consumer = [c \in Codes |-> {}]

\* The row has not been deleted.
Present(c) == row[c] \in {"live", "used"}

Goto(r, label) == pc' = [pc EXCEPT ![r] = label]

-----------------------------------------------------------------------------
(* Using a code *)

\* Mutant: the limit is off by one.
MutTooOftenLate(count) == count > MaxSubmissions + 1

\* submitCount > maxSubmissions turns the request away.
TooOften(count) == count > MaxSubmissions

Gate(r, count) ==
    \/ /\ TooOften(count)
       /\ Goto(r, "tooOften")
       /\ UNCHANGED admitted
    \/ /\ ~TooOften(count)
       /\ Goto(r, "lookup")
       /\ admitted' = admitted \cup {r}

\* UPDATE ... SET submit_count = submit_count + 1 ... RETURNING submit_count
Increment(r, g) ==
    /\ pc[r] = "idle" /\ dialect = "returning" /\ exists
    /\ guess' = [guess EXCEPT ![r] = g]
    /\ submitCount' = submitCount + 1
    /\ Gate(r, submitCount + 1)
    /\ UNCHANGED <<dialect, exists, row, expired, target, seenUsed, toSend, consumer>>

\* MySQL: the UPDATE, which reports no error when there is no row ...
IncrementMySQL(r, g) ==
    /\ pc[r] = "idle" /\ dialect = "mysql"
    /\ guess' = [guess EXCEPT ![r] = g]
    /\ submitCount' = IF exists THEN submitCount + 1 ELSE submitCount
    /\ Goto(r, "select")
    /\ UNCHANGED <<dialect, exists, row, expired, target, seenUsed, toSend, admitted,
                   consumer>>

\* ... and the SELECT, which sees the increments of others as well.
SelectCount(r) ==
    /\ pc[r] = "select" /\ exists
    /\ Gate(r, submitCount)
    /\ UNCHANGED <<database, guess, target, seenUsed, toSend, consumer>>

FlowMissing(r) ==
    /\ \/ pc[r] = "idle" /\ dialect = "returning"
       \/ pc[r] = "select"
    /\ ~exists
    /\ Goto(r, "notFound")
    /\ UNCHANGED <<database, guess, target, seenUsed, toSend, admitted, consumer>>

\* validateOneTimeCode: neither missing, nor expired, nor used when read.
Usable(c, used) == c # None /\ c \notin expired /\ ~used

\* The transaction reads the flow's codes.  A code that does not match leaves
\* target as it is: nil, or what an earlier try of the transaction found.
Lookup(r) ==
    LET found == guess[r] # None /\ Present(guess[r])
        c     == IF found THEN guess[r] ELSE target[r]
        used  == IF found THEN row[guess[r]] = "used" ELSE seenUsed[r]
    IN  /\ pc[r] = "lookup"
        /\ target' = [target EXCEPT ![r] = c]
        /\ seenUsed' = [seenUsed EXCEPT ![r] = used]
        /\ Goto(r, IF Usable(c, used) THEN "consume" ELSE "validate")
        /\ UNCHANGED <<database, guess, toSend, admitted, consumer>>

\* Mutant: the UPDATE without used_at IS NULL, its row count ignored.
MutConsumeUnguarded(r) ==
    /\ pc[r] = "consume"
    /\ row' = IF Present(target[r]) THEN [row EXCEPT ![target[r]] = "used"] ELSE row
    /\ consumer' = [consumer EXCEPT ![target[r]] = @ \cup {r}]
    /\ Goto(r, "validate")
    /\ UNCHANGED <<dialect, exists, submitCount, expired, guess, target, seenUsed, toSend,
                   admitted>>

\* UPDATE ... SET used_at WHERE id AND used_at IS NULL affects the row ...
Consume(r) ==
    /\ pc[r] = "consume"
    /\ row[target[r]] = "live"
    /\ row' = [row EXCEPT ![target[r]] = "used"]
    /\ consumer' = [consumer EXCEPT ![target[r]] = @ \cup {r}]
    /\ Goto(r, "validate")
    /\ UNCHANGED <<dialect, exists, submitCount, expired, guess, target, seenUsed, toSend,
                   admitted>>

\* ... or finds none to update.
ConsumeNothing(r) ==
    /\ pc[r] = "consume"
    /\ row[target[r]] # "live"
    /\ Goto(r, "alreadyUsed")
    /\ UNCHANGED <<database, guess, target, seenUsed, toSend, admitted, consumer>>

\* Mutant: the callback runs again although its UPDATE was committed.
MutRetryCommitted(r) ==
    /\ pc[r] = "validate"
    /\ Goto(r, "lookup")
    /\ UNCHANGED <<database, guess, target, seenUsed, toSend, admitted, consumer>>

\* The database aborts the transaction and popx runs its callback again.
RetryTransaction(r) ==
    /\ pc[r] = "consume"
    /\ Goto(r, "lookup")
    /\ UNCHANGED <<database, guess, target, seenUsed, toSend, admitted, consumer>>

\* After the transaction the copy of the row is validated once more.
Revalidate(r) ==
    /\ pc[r] = "validate"
    /\ Goto(r, CASE target[r] = None \/ target[r] \in expired -> "notFound"
                 [] target[r] \notin expired \cup {None} /\ seenUsed[r] -> "alreadyUsed"
                 [] OTHER -> "accepted")
    /\ UNCHANGED <<database, guess, target, seenUsed, toSend, admitted, consumer>>

-----------------------------------------------------------------------------
(* Replacing the codes, failures, time *)

Deleted(c) ==
    CASE row[c] = "live" -> "replaced"
      [] row[c] = "used" -> "purged"
      [] OTHER           -> row[c]

\* A strategy (re)sends: DeleteXCodesOfFlow, then a code for each of n
\* addresses, none if the address is unknown.
DeleteCodesOfFlow(r, n) ==
    /\ pc[r] = "idle"
    /\ row' = [c \in Codes |-> Deleted(c)]
    /\ toSend' = [toSend EXCEPT ![r] = n]
    /\ Goto(r, IF n = 0 THEN "sent" ELSE "create")
    /\ UNCHANGED <<dialect, exists, submitCount, expired, guess, target, seenUsed,
                   admitted, consumer>>

\* Mutant: the loop over the addresses runs once too often.
MutCreateOneMore(r, c) ==
    /\ pc[r] = "create" /\ exists
    /\ row[c] = "unissued"
    /\ row' = [row EXCEPT ![c] = "live"]
    /\ toSend' = [toSend EXCEPT ![r] = @ - 1]
    /\ Goto(r, IF toSend[r] = 0 THEN "sent" ELSE "create")
    /\ UNCHANGED <<dialect, exists, submitCount, expired, guess, target, seenUsed,
                   admitted, consumer>>

\* CreateXCode; the foreign key needs the flow.
CreateCode(r, c) ==
    /\ pc[r] = "create" /\ exists
    /\ row[c] = "unissued"
    /\ row' = [row EXCEPT ![c] = "live"]
    /\ toSend' = [toSend EXCEPT ![r] = @ - 1]
    /\ Goto(r, IF toSend[r] = 1 THEN "sent" ELSE "create")
    /\ UNCHANGED <<dialect, exists, submitCount, expired, guess, target, seenUsed,
                   admitted, consumer>>

\* A statement fails, the client goes away, or the process dies.
Fail(r) ==
    /\ pc[r] \in {"select", "lookup", "consume", "validate", "create"}
    /\ Goto(r, "failed")
    /\ UNCHANGED <<database, guess, target, seenUsed, toSend, admitted, consumer>>

Expire(c) ==
    /\ row[c] # "unissued"
    /\ expired' = expired \cup {c}
    /\ UNCHANGED <<dialect, exists, submitCount, row, request, admitted, consumer>>

\* CleanupDatabase deletes the expired flow, and its codes with it.
DeleteExpiredFlow ==
    /\ exists
    /\ exists' = FALSE
    /\ row' = [c \in Codes |-> Deleted(c)]
    /\ UNCHANGED <<dialect, submitCount, expired, request, admitted, consumer>>

-----------------------------------------------------------------------------

UseCode(r) ==
    \/ \E g \in Codes \cup {None} : Increment(r, g) \/ IncrementMySQL(r, g)
    \/ SelectCount(r) \/ FlowMissing(r)
    \/ Lookup(r) \/ Consume(r) \/ ConsumeNothing(r) \/ RetryTransaction(r)
    \/ Revalidate(r)

SendCodes(r) ==
    \/ \E n \in 0 .. MaxAddresses : DeleteCodesOfFlow(r, n)
    \/ \E c \in Codes : CreateCode(r, c)

Next ==
    \/ \E r \in Requests : UseCode(r) \/ SendCodes(r) \/ Fail(r)
    \/ \E c \in Codes : Expire(c)
    \/ DeleteExpiredFlow

Spec == Init /\ [][Next]_codeVars

-----------------------------------------------------------------------------
(* Properties *)

\* However many requests race, and however often codes are sent again, at most
\* max_submissions guesses are ever compared with the codes of a flow (the
\* gate of useOneTimeCode; the comment in incrementOTPCodeSubmitCount).
SubmissionBound == Cardinality(admitted) <= MaxSubmissions

\* A code is consumed by one request at most, and an accepted request is the
\* one that consumed the code it submitted ("two concurrent submissions of the
\* same code cannot both succeed").
SingleUse ==
    /\ \A c \in Codes : Cardinality(consumer[c]) <= 1
    /\ \A r \in Requests : pc[r] = "accepted" =>
           /\ guess[r] \in Codes
           /\ consumer[guess[r]] = {r}

\* A code that was deleted unused by a resend or a cleanup is never consumed,
\* not even by a transaction that had read it before (used_at IS NULL on a row
\* that is gone affects nothing).
ReplacedNeverUsed == \A c \in Codes : row[c] = "replaced" => consumer[c] = {}

\* A user is told that the code was already used only if another request used
\* it, or it was deleted meanwhile: never because of the request's own UPDATE,
\* whatever was retried.
AlreadyUsedIsTrue ==
    \A r \in Requests : pc[r] = "alreadyUsed" =>
        /\ guess[r] \in Codes
        /\ r \notin consumer[guess[r]]
        /\ consumer[guess[r]] # {} \/ ~Present(guess[r])
=============================================================================
