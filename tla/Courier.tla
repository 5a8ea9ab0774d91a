------------------------------ MODULE Courier ------------------------------
(***************************************************************************)
(* The message courier: the courier_messages table and the workers that    *)
(* poll it (courier/courier_dispatcher.go, courier/courier.go, the two     *)
(* channels and persistence/sql/persister_courier.go).                     *)
(*                                                                         *)
(* Every SQL statement of the dispatch loop is a step of its own, because  *)
(* the loop holds no transaction: workers of several Kratos processes, a   *)
(* failing database, a crash or a shutdown may come between any two of     *)
(* them.  NextMessages is a transaction of two steps, its SELECT and its   *)
(* UPDATEs; what may come between those depends on the database.           *)
(***************************************************************************)
EXTENDS Integers, FiniteSets, Sequences

CONSTANTS
    NumMessages,          \* rows of courier_messages, numbered by created_at
    Workers,              \* courier workers, one per process
    PullCount,            \* courier.worker.pull_count
    MaxRetries,           \* courier.message_retries
    Smtp,                 \* messages whose channel is of type smtp
    Http,                 \* messages whose channel is of type http
    BadRecipients,        \* messages whose recipient does not re-validate
    Cockroach,            \* TRUE: serializable, and young rows are skipped
    FailOnDispatchError,  \* courier.failOnDispatchError, which only tests set
    MaxFaults             \* bound: database errors, crashes, lost answers

Messages == 1 .. NumMessages

ASSUME CourierAssumption ==
    /\ NumMessages \in Nat
    /\ IsFiniteSet(Workers) /\ Workers # {}
    /\ PullCount \in 1 .. 255    \* DispatchQueue converts it to uint8
    /\ MaxRetries \in Nat
    /\ MaxFaults \in Nat
    /\ Smtp \subseteq Messages
    /\ Http \subseteq Messages
    /\ BadRecipients \subseteq Smtp
    /\ Cockroach \in BOOLEAN
    /\ FailOnDispatchError \in BOOLEAN

VARIABLES
    status,      \* courier_messages.status, or "absent" before the insert
    sendCount,   \* courier_messages.send_count
    aged,        \* rows enqueued more than a second ago
    dispatches,  \* courier_message_dispatches: rows per message and outcome
    pc,          \* where each worker is
    batch,       \* the messages its DispatchQueue pulled, as it read them
    k,           \* the loop index of DispatchQueue
    j,           \* the index of its inner loop that resets messages[k:]
    delivered,   \* history: how often the upstream accepted the message
    rejections,  \* history: how often the SMTP server answered 5xx
    orphaned,    \* history: rows that a worker dropped while processing them
    faults       \* history: faults so far

table   == <<status, sendCount, aged, dispatches>>
local   == <<pc, batch, k, j>>
history == <<delivered, rejections, orphaned, faults>>
vars    == <<table, local, history>>

Statuses == {"absent", "queued", "processing", "sent", "abandoned"}
Pcs == {"idle", "claim", "next", "dispatch", "rejected", "markSent",
        "recordSuccess", "recordFailure", "requeue", "backoff", "stopped"}
Pulled == [id : Messages, sendCount : Nat]

TableType ==
    /\ status \in [Messages -> Statuses]
    /\ sendCount \in [Messages -> Nat]
    /\ aged \in SUBSET Messages
    /\ dispatches \in [Messages -> [success : Nat, failed : Nat]]

LocalType ==
    /\ pc \in [Workers -> Pcs]
    /\ batch \in [Workers -> Seq(Pulled)]
    /\ k \in [Workers -> Nat \ {0}]
    /\ j \in [Workers -> Nat \ {0}]

HistoryType ==
    /\ delivered \in [Messages -> Nat]
    /\ rejections \in [Messages -> Nat]
    /\ orphaned \in SUBSET Messages
    /\ faults \in 0 .. MaxFaults

\* The table, every worker's local state and the history variables have
\* their types.
TypeOK == TableType /\ LocalType /\ HistoryType

Init ==
    /\ status = [m \in Messages |-> "absent"]
    /\ sendCount = [m \in Messages |-> 0]
    /\ aged = {}
    /\ dispatches = [m \in Messages |-> [success |-> 0, failed |-> 0]]
    /\ pc = [w \in Workers |-> "idle"]
    /\ batch = [w \in Workers |-> <<>>]
    /\ k = [w \in Workers |-> 1]
    /\ j = [w \in Workers |-> 1]
    /\ delivered = [m \in Messages |-> 0]
    /\ rejections = [m \in Messages |-> 0]
    /\ orphaned = {}
    /\ faults = 0

-----------------------------------------------------------------------------
(* Helpers *)

Goto(w, label) == pc' = [pc EXCEPT ![w] = label]

Current(w) == batch[w][k[w]]

SetMessageStatus(m, s) == status' = [status EXCEPT ![m] = s]

\* A database statement fails, or an answer is lost, within the bound.
Fault == faults < MaxFaults /\ faults' = faults + 1

\* The ids of batch[w] from index i on.
IdsFrom(w, i) == {batch[w][n].id : n \in i .. Len(batch[w])}

\* The first index of batch[w] that DispatchQueue has not dealt with.
Cursor(w) ==
    CASE pc[w] = "recordSuccess"                      -> k[w] + 1
      [] pc[w] = "requeue" /\ FailOnDispatchError     -> j[w]
      [] pc[w] = "requeue" /\ ~FailOnDispatchError
                          /\ j[w] > k[w]              -> k[w] + 1
      [] OTHER                                        -> k[w]

\* The messages w has claimed and will still give another status.
Holding(w) == IF pc[w] = "claim" THEN {} ELSE IdsFrom(w, Cursor(w))

\* DispatchQueue ends and its local state with it.
Forget(w, label) ==
    /\ Goto(w, label)
    /\ batch' = [batch EXCEPT ![w] = <<>>]
    /\ k' = [k EXCEPT ![w] = 1]
    /\ j' = [j EXCEPT ![w] = 1]
    /\ orphaned' = orphaned \cup Holding(w)

\* DispatchQueue returns an error to backoff.Retry.
ReturnError(w) == Forget(w, "backoff")

-----------------------------------------------------------------------------
(* Enqueueing *)

\* QueueEmail and QueueSMS end in AddMessage, which forces status "queued".
\* created_at is set before the insert commits, so commits come in any order.
AddMessage(m) ==
    /\ status[m] = "absent"
    /\ SetMessageStatus(m, "queued")
    /\ UNCHANGED <<sendCount, aged, dispatches, local, history>>

\* A second passes since m was enqueued.  Only the CockroachDB query looks.
Age(m) ==
    /\ Cockroach
    /\ status[m] # "absent" /\ m \notin aged
    /\ aged' = aged \cup {m}
    /\ UNCHANGED <<status, sendCount, dispatches, local, history>>

-----------------------------------------------------------------------------
(* NextMessages *)

\* Mutant: the age test the wrong way round.
MutVisibleYoung ==
    {m \in Messages : status[m] = "queued" /\ (Cockroach => m \notin aged)}

Visible == {m \in Messages : status[m] = "queued" /\ (Cockroach => m \in aged)}

PullSize(Q) == IF Cardinality(Q) < PullCount THEN Cardinality(Q) ELSE PullCount

\* s lists the oldest rows of Q: ORDER BY created_at ASC LIMIT n.
OldestFirst(s, Q) ==
    /\ \A a, b \in DOMAIN s : a < b => s[a] < s[b]
    /\ \A m \in Q : (\A a \in DOMAIN s : s[a] # m) => \A a \in DOMAIN s : s[a] < m

\* ErrQueueEmpty: DispatchQueue returns nil and the worker sleeps.
PollEmpty(w) ==
    /\ pc[w] = "idle" /\ Visible = {}
    /\ UNCHANGED vars

Select(w) ==
    /\ pc[w] = "idle" /\ Visible # {}
    /\ \E s \in [1 .. PullSize(Visible) -> Visible] :
        /\ OldestFirst(s, Visible)
        /\ batch' = [batch EXCEPT ![w] =
             [n \in 1 .. PullSize(Visible) |->
                [id |-> s[n], sendCount |-> sendCount[s[n]]]]]
    /\ Goto(w, "claim")
    /\ UNCHANGED <<table, k, j, history>>

\* Mutant: a claim that validates nothing.
MutReadsUnchecked(w) == TRUE

\* What CockroachDB checks before it lets the transaction commit.
ReadsStillValid(w) ==
    \A n \in DOMAIN batch[w] :
        LET r == batch[w][n] IN
        status[r.id] = "queued" /\ sendCount[r.id] = r.sendCount

\* The UPDATE of each selected row, by id only, and the commit.
Claim(w) ==
    /\ pc[w] = "claim"
    /\ Cockroach => ReadsStillValid(w)
    /\ status' = [m \in Messages |->
                    IF m \in IdsFrom(w, 1) THEN "processing" ELSE status[m]]
    /\ Goto(w, "next")
    /\ k' = [k EXCEPT ![w] = 1]
    /\ UNCHANGED <<sendCount, aged, dispatches, batch, j, history>>

\* crdb.ExecuteInTx runs the callback again after a serialization failure.
ClaimConflict(w) ==
    /\ pc[w] = "claim"
    /\ Cockroach /\ ~ReadsStillValid(w)
    /\ Goto(w, "idle")
    /\ batch' = [batch EXCEPT ![w] = <<>>]
    /\ UNCHANGED <<table, k, j, history>>

NextMessagesFails(w) ==
    /\ pc[w] \in {"idle", "claim"}
    /\ Fault
    /\ ReturnError(w)
    /\ UNCHANGED <<table, delivered, rejections>>

-----------------------------------------------------------------------------
(* The loop of DispatchQueue *)

LoopDone(w) ==
    /\ pc[w] = "next" /\ k[w] > Len(batch[w])
    /\ Forget(w, "idle")
    /\ UNCHANGED <<table, delivered, rejections, faults>>

\* Mutants: off by one, to either side.
MutRetriesOneMore(w) == Current(w).sendCount > MaxRetries + 1
MutRetriesOneLess(w) == Current(w).sendCount >= MaxRetries

\* The count compared is the one read by NextMessages.
RetriesExhausted(w) == Current(w).sendCount > MaxRetries

Abandon(w) ==
    /\ pc[w] = "next" /\ k[w] =< Len(batch[w]) /\ RetriesExhausted(w)
    /\ SetMessageStatus(Current(w).id, "abandoned")
    /\ k' = [k EXCEPT ![w] = k[w] + 1]
    /\ UNCHANGED <<sendCount, aged, dispatches, pc, batch, j, history>>

AbandonFails(w) ==
    /\ pc[w] = "next" /\ k[w] =< Len(batch[w]) /\ RetriesExhausted(w)
    /\ Fault
    /\ ReturnError(w)
    /\ UNCHANGED <<table, delivered, rejections>>

\* Mutant: the count is written back from the row as pulled.
MutIncrementStale(w) ==
    /\ pc[w] = "next" /\ k[w] =< Len(batch[w]) /\ ~RetriesExhausted(w)
    /\ sendCount' = [sendCount EXCEPT ![Current(w).id] = Current(w).sendCount + 1]
    /\ Goto(w, "dispatch")
    /\ UNCHANGED <<status, aged, dispatches, batch, k, j, history>>

IncrementMessageSendCount(w) ==
    /\ pc[w] = "next" /\ k[w] =< Len(batch[w]) /\ ~RetriesExhausted(w)
    /\ sendCount' = [sendCount EXCEPT ![Current(w).id] = @ + 1]
    /\ Goto(w, "dispatch")
    /\ UNCHANGED <<status, aged, dispatches, batch, k, j, history>>

IncrementFails(w) ==
    /\ pc[w] = "next" /\ k[w] =< Len(batch[w]) /\ ~RetriesExhausted(w)
    /\ Fault
    /\ Goto(w, "recordFailure")
    /\ UNCHANGED <<table, batch, k, j, delivered, rejections, orphaned>>

-----------------------------------------------------------------------------
(* channels() and Channel.Dispatch *)

\* A configured channel to a recipient that may be put on the wire.
Sendable(m) == m \in (Smtp \cup Http) \ BadRecipients

\* No channel of that id, a misconfigured one, an upstream that cannot be
\* reached, an SMTP answer below 500, an HTTP status other than 2xx.
DispatchError(w) ==
    /\ pc[w] = "dispatch" /\ Current(w).id \notin BadRecipients
    /\ Goto(w, "recordFailure")
    /\ UNCHANGED <<table, batch, k, j, history>>

\* SMTPChannel.Dispatch abandons such a message and returns an error.
InvalidRecipient(w) ==
    /\ pc[w] = "dispatch" /\ Current(w).id \in BadRecipients
    /\ \/ SetMessageStatus(Current(w).id, "abandoned") /\ UNCHANGED faults
       \/ Fault /\ UNCHANGED status
    /\ Goto(w, "recordFailure")
    /\ UNCHANGED <<sendCount, aged, dispatches, batch, k, j, delivered,
                   rejections, orphaned>>

Deliver(w) ==
    /\ pc[w] = "dispatch" /\ Sendable(Current(w).id)
    /\ delivered' = [delivered EXCEPT ![Current(w).id] = @ + 1]
    /\ Goto(w, "markSent")
    /\ UNCHANGED <<table, batch, k, j, rejections, orphaned, faults>>

\* The upstream accepted the message but its answer never arrived.
DeliverAnswerLost(w) ==
    /\ pc[w] = "dispatch" /\ Sendable(Current(w).id)
    /\ Fault
    /\ delivered' = [delivered EXCEPT ![Current(w).id] = @ + 1]
    /\ Goto(w, "recordFailure")
    /\ UNCHANGED <<table, batch, k, j, rejections, orphaned>>

\* The SMTP server answers 5xx.
Reject(w) ==
    /\ pc[w] = "dispatch" /\ Sendable(Current(w).id) /\ Current(w).id \in Smtp
    /\ rejections' = [rejections EXCEPT ![Current(w).id] = @ + 1]
    /\ Goto(w, "rejected")
    /\ UNCHANGED <<table, batch, k, j, delivered, orphaned, faults>>

\* Mutant: no error is returned for a message given up after a 5xx answer.
MutRejectedIgnored(w) ==
    /\ pc[w] = "rejected"
    /\ SetMessageStatus(Current(w).id, "abandoned")
    /\ Goto(w, "next")
    /\ k' = [k EXCEPT ![w] = k[w] + 1]
    /\ UNCHANGED <<sendCount, aged, dispatches, batch, j, history>>

AbandonRejected(w) ==
    /\ pc[w] = "rejected"
    /\ \/ SetMessageStatus(Current(w).id, "abandoned") /\ UNCHANGED faults
       \/ Fault /\ UNCHANGED status
    /\ Goto(w, "recordFailure")
    /\ UNCHANGED <<sendCount, aged, dispatches, batch, k, j, delivered,
                   rejections, orphaned>>

-----------------------------------------------------------------------------
(* After DispatchMessage *)

MarkSent(w) ==
    /\ pc[w] = "markSent"
    /\ \/ SetMessageStatus(Current(w).id, "sent") /\ UNCHANGED faults
          /\ Goto(w, "recordSuccess")
       \/ Fault /\ UNCHANGED status /\ Goto(w, "recordFailure")
    /\ UNCHANGED <<sendCount, aged, dispatches, batch, k, j, delivered,
                   rejections, orphaned>>

\* An error here is logged and ignored.
RecordSuccess(w) ==
    /\ pc[w] = "recordSuccess"
    /\ \/ /\ dispatches' = [dispatches EXCEPT ![Current(w).id].success = @ + 1]
          /\ UNCHANGED faults
       \/ Fault /\ UNCHANGED dispatches
    /\ Goto(w, "next")
    /\ k' = [k EXCEPT ![w] = k[w] + 1]
    /\ UNCHANGED <<status, sendCount, aged, batch, j, delivered, rejections,
                   orphaned>>

\* Mutants: the reset starts at messages[k+1:], at messages[0:], at index -1.
MutResetFrom(w, n) ==
    /\ pc[w] = "recordFailure"
    /\ dispatches' = [dispatches EXCEPT ![Current(w).id].failed = @ + 1]
    /\ Goto(w, "requeue")
    /\ j' = [j EXCEPT ![w] = n]
    /\ UNCHANGED <<status, sendCount, aged, batch, k, history>>
MutResetAfterFailed(w) == MutResetFrom(w, k[w] + 1)
MutResetWholeBatch(w) == MutResetFrom(w, 1)
MutResetOffByOne(w) == MutResetFrom(w, k[w] - 1)

RecordFailure(w) ==
    /\ pc[w] = "recordFailure"
    /\ dispatches' = [dispatches EXCEPT ![Current(w).id].failed = @ + 1]
    /\ Goto(w, "requeue")
    /\ j' = [j EXCEPT ![w] = k[w]]
    /\ UNCHANGED <<status, sendCount, aged, batch, k, history>>

RecordFailureFails(w) ==
    /\ pc[w] = "recordFailure"
    /\ Fault
    /\ IF FailOnDispatchError
         THEN ReturnError(w)
         ELSE /\ Goto(w, "requeue")
              /\ j' = [j EXCEPT ![w] = k[w]]
              /\ UNCHANGED <<batch, k, orphaned>>
    /\ UNCHANGED <<table, delivered, rejections>>

\* messages[k:] go back to "queued", one statement each.
Requeue(w) ==
    /\ pc[w] = "requeue" /\ j[w] =< Len(batch[w])
    /\ SetMessageStatus(batch[w][j[w]].id, "queued")
    /\ j' = [j EXCEPT ![w] = j[w] + 1]
    /\ UNCHANGED <<sendCount, aged, dispatches, pc, batch, k, history>>

RequeueFails(w) ==
    /\ pc[w] = "requeue" /\ j[w] =< Len(batch[w])
    /\ Fault
    /\ IF FailOnDispatchError
         THEN ReturnError(w)
         ELSE /\ j' = [j EXCEPT ![w] = j[w] + 1]
              /\ orphaned' = IF j[w] = k[w] THEN orphaned \cup {Current(w).id}
                                            ELSE orphaned
              /\ UNCHANGED <<pc, batch, k>>
    /\ UNCHANGED <<table, delivered, rejections>>

\* The loop goes on with messages[k+1:] although they are queued again.
RequeueDone(w) ==
    /\ pc[w] = "requeue" /\ j[w] > Len(batch[w])
    /\ IF FailOnDispatchError
         THEN ReturnError(w)
         ELSE /\ Goto(w, "next")
              /\ k' = [k EXCEPT ![w] = k[w] + 1]
              /\ UNCHANGED <<batch, j, orphaned>>
    /\ UNCHANGED <<table, delivered, rejections, faults>>

-----------------------------------------------------------------------------
(* watchMessages and the process around it *)

Retry(w) ==
    /\ pc[w] = "backoff"
    /\ Goto(w, "idle")
    /\ UNCHANGED <<table, batch, k, j, history>>

\* The backoff policy gives up: Work returns the error and the process ends.
GiveUp(w) ==
    /\ pc[w] = "backoff"
    /\ Goto(w, "stopped")
    /\ UNCHANGED <<table, batch, k, j, history>>

\* A crash, or a shutdown that cancels the context of every later statement.
Crash(w) ==
    /\ pc[w] # "stopped"
    /\ Fault
    /\ Forget(w, "stopped")
    /\ UNCHANGED <<table, delivered, rejections>>

Start(w) ==
    /\ pc[w] = "stopped"
    /\ Goto(w, "idle")
    /\ UNCHANGED <<table, batch, k, j, history>>

-----------------------------------------------------------------------------
Step(w) ==
    \/ Select(w) \/ Claim(w) \/ ClaimConflict(w)
    \/ LoopDone(w) \/ Abandon(w) \/ IncrementMessageSendCount(w)
    \/ DispatchError(w) \/ InvalidRecipient(w) \/ Deliver(w)
    \/ Reject(w) \/ AbandonRejected(w)
    \/ MarkSent(w) \/ RecordSuccess(w) \/ RecordFailure(w)
    \/ Requeue(w) \/ RequeueDone(w)
    \/ Retry(w) \/ Start(w)

Failure(w) ==
    \/ NextMessagesFails(w) \/ AbandonFails(w) \/ IncrementFails(w)
    \/ DeliverAnswerLost(w) \/ RecordFailureFails(w) \/ RequeueFails(w)
    \/ GiveUp(w) \/ Crash(w)

Next ==
    \/ \E m \in Messages : AddMessage(m) \/ Age(m)
    \/ \E w \in Workers : PollEmpty(w) \/ Step(w) \/ Failure(w)

\* A worker keeps running, and time passes.  Watch returns the error of a worker that
\* ended, and the process ends with it: whoever runs it starts it again.
Fairness ==
    /\ \A w \in Workers : WF_vars(Step(w))
    /\ \A m \in Messages : WF_vars(Age(m))

Spec == Init /\ [][Next]_vars
FairSpec == Spec /\ Fairness

-----------------------------------------------------------------------------
(* Safety *)

\* courier.message_retries bounds the attempts, whatever the interleaving:
\* DispatchQueue compares the count it read at pull time, so each worker
\* beyond the first may add one attempt, and never more.
SendCountBound ==
    \A m \in Messages : sendCount[m] =< MaxRetries + Cardinality(Workers)

\* DispatchMessage counts an attempt before it makes it: no crash, database
\* error or lost answer lets more deliveries happen than send_count says.
DeliveriesAreCounted ==
    \A m \in Messages : delivered[m] =< sendCount[m]

\* A message is given up only after its retries are used up, after a 5xx
\* answer, or because its recipient is not an address.
AbandonedForCause ==
    \A m \in Messages : status[m] = "abandoned" =>
        sendCount[m] > MaxRetries \/ rejections[m] > 0 \/ m \in BadRecipients

\* Nothing picks up a row in status "processing" again, so some worker must
\* still be going to change it, unless a fault made its worker drop it.
ProcessingIsHeld ==
    \A m \in Messages : status[m] = "processing" =>
        \/ faults > 0 /\ m \in orphaned
        \/ \E w \in Workers : m \in Holding(w)

\* Where no statement failed, courier_message_dispatches has one row for each
\* counted attempt, once the worker making it has moved on.
InFlight(m) ==
    {w \in Workers : /\ pc[w] \in {"dispatch", "rejected", "markSent",
                                    "recordSuccess", "recordFailure"}
                     /\ Current(w).id = m}
EveryAttemptIsRecorded ==
    \A m \in Messages : faults = 0 =>
        dispatches[m].success + dispatches[m].failed
            + Cardinality(InFlight(m)) = sendCount[m]

\* With one worker and no faults the upstream accepts a message at most once,
\* although the loop goes on with messages it has already put back.
DeliveredOnce ==
    faults = 0 => \A m \in Messages : delivered[m] =< 1

\* With one worker, requeueing messages[k:] never reverts a "sent" row.
SentIsFinal ==
    [][\A m \in Messages : status[m] = "sent" => status'[m] = "sent"]_vars

\* On CockroachDB two workers work on the same message only after a failed
\* dispatch, or a failed statement, put messages back that its worker went on
\* with: the serializable claim itself never hands a row out twice.
ExclusiveUntilFailure ==
    \A w, v \in Workers :
        w # v /\ Holding(w) \cap Holding(v) # {} =>
            faults > 0 \/ \E m \in Messages : dispatches[m].failed > 0

\* The comment in SMTPChannel.Dispatch: after a 5xx answer "sending the message
\* should not be retried".
NoRetryAfterReject ==
    \A m \in Messages : rejections[m] =< 1

-----------------------------------------------------------------------------
(* Liveness *)

\* Every queued message is eventually sent or abandoned, unless dropped.
EventuallySettled ==
    \A m \in Messages :
        status[m] = "queued" ~> \/ status[m] \in {"sent", "abandoned"}
                               \/ m \in orphaned
=============================================================================
