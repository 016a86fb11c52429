--------------------------- MODULE WebhookDelivery ---------------------------
(***************************************************************************)
(* Delivery of webhook notifications.                                      *)
(*                                                                         *)
(* A repository decorator writes a status change of a credential or a      *)
(* proof and then asks the scheduler to store a notification row and to    *)
(* spawn a sender for it.  The caller may itself run inside a database     *)
(* transaction; the spawned sender does not, because the transaction       *)
(* context is a task local that tokio::spawn does not inherit.  Later runs *)
(* of the WEBHOOK_NOTIFY task pick up the rows that are due.  Every sender *)
(* works in a transaction of its own: it locks the row (SELECT ... FOR     *)
(* UPDATE), posts the payload, and then reschedules the row, or deletes it *)
(* and writes the final history entry.                                     *)
(*                                                                         *)
(* One element of Notifications is one status change together with the     *)
(* notification it causes.  Row locking is that of InnoDB (the server's    *)
(* database): a locking read of a row that another transaction has         *)
(* inserted or locked waits for that transaction to end.                   *)
(***************************************************************************)
EXTENDS Integers, Sequences

CONSTANTS
    Notifications,  \* notification ids; also the ids of their spawned senders
    TaskRuns,       \* concurrent runs of the WEBHOOK_NOTIFY task
    MaxAttempts,    \* retries.max_attempts; 1 also stands for "no retries"
    Interval,       \* retries.interval, in clock ticks
    Factor,         \* retries.exponential_factor
    MaxLate,        \* bound: a date further in the past counts as this late
    MaxFaults,      \* bound: number of crashes and database failures
    NoJob           \* a sender that has nothing to send

ASSUME ConstantsAssumption ==
    /\ Notifications \cap TaskRuns = {}
    /\ NoJob \notin Notifications
    /\ MaxAttempts \in Nat \ {0}
    /\ Interval \in Nat /\ Factor \in Nat /\ MaxLate \in Nat
    /\ MaxFaults \in Nat

(* The delays are whole numbers (the provers know no laws of ^). *)
ASSUME DelayAssumption == \A k \in 0..MaxAttempts : Interval * Factor ^ k \in Nat

Senders == Notifications \cup TaskRuns

VARIABLES
    caller,     \* progress of the operation that changes the status
    inTx,       \* does that operation run inside a transaction?
    change,     \* the status change, as other transactions see it
    stored,     \* the notification row, as other transactions see it
    tries,      \* tries_count of the row
    dueIn,      \* next_try_date of the row, relative to the present
    created,    \* created_date of the row: the rows inserted up to it
    pc,         \* progress of each sender
    job,        \* the notification a sender works on
    seen,       \* the tries_count a sender read when it locked the row
    result,     \* NotificationResult of a sender's request
    listed,     \* the ids a task run still has to send
    history,    \* final history entries written for a notification
    posts,      \* requests put on the wire
    accepted,   \* requests the receiver accepted
    lost,       \* requests whose transaction did not commit
    refused,    \* notifications whose URL the running configuration refuses
    faults      \* crashes and database failures so far

callerVars == <<caller, inTx, change>>
rowVars == <<stored, tries, dueIn>>
senderVars == <<pc, job, seen, result>>
ghostVars == <<posts, accepted, lost>>
vars == <<callerVars, rowVars, created, senderVars, listed, history, ghostVars,
          refused, faults>>

Results == {"none", "Delivered", "Rescheduled", "Failed"}

TypeOK ==
    /\ caller \in [Notifications -> {"idle", "updated", "scheduled", "done"}]
    /\ inTx \in [Notifications -> BOOLEAN]
    /\ change \in [Notifications -> {"none", "pending", "committed", "rolledback"}]
    /\ stored \in [Notifications -> {"absent", "uncommitted", "committed"}]
    /\ tries \in [Notifications -> Nat]
    /\ dueIn \in [Notifications -> Int]
    /\ created \in [Notifications -> SUBSET Notifications]
    /\ pc \in [Senders -> {"idle", "getting", "sending", "settling"}]
    /\ job \in [Senders -> Notifications \cup {NoJob}]
    /\ seen \in [Senders -> Nat]
    /\ result \in [Senders -> Results]
    /\ listed \in [TaskRuns -> SUBSET Notifications]
    /\ history \in [Notifications -> Seq({"Delivered", "Errored"})]
    /\ posts \in [Notifications -> Nat]
    /\ accepted \in [Notifications -> Nat]
    /\ lost \in [Notifications -> Nat]
    /\ refused \in SUBSET Notifications
    /\ faults \in Nat

Init ==
    /\ caller = [n \in Notifications |-> "idle"]
    /\ inTx \in [Notifications -> BOOLEAN]
    /\ change = [n \in Notifications |-> "none"]
    /\ stored = [n \in Notifications |-> "absent"]
    /\ tries = [n \in Notifications |-> 0]
    /\ dueIn = [n \in Notifications |-> 0]
    /\ created = [n \in Notifications |-> {}]
    /\ pc = [s \in Senders |-> "idle"]
    /\ job = [s \in Senders |-> NoJob]
    /\ seen = [s \in Senders |-> 0]
    /\ result = [s \in Senders |-> "none"]
    /\ listed = [t \in TaskRuns |-> {}]
    /\ history = [n \in Notifications |-> <<>>]
    /\ posts = [n \in Notifications |-> 0]
    /\ accepted = [n \in Notifications |-> 0]
    /\ lost = [n \in Notifications |-> 0]
    /\ refused \in SUBSET Notifications
    /\ faults = 0

-----------------------------------------------------------------------------
(* The operation that changes the status and schedules the notification. *)

(* Decorated update_credential / update_proof: the inner repository writes  *)
(* the new status first.  Outside a transaction it is visible at once.     *)
UpdateStatus(n) ==
    /\ caller[n] = "idle"
    /\ caller' = [caller EXCEPT ![n] = "updated"]
    /\ change' = [change EXCEPT ![n] = IF inTx[n] THEN "pending" ELSE "committed"]
    /\ UNCHANGED <<inTx, rowVars, created, senderVars, listed, history, ghostVars,
                   refused, faults>>

Scheduled(n) == created[n] # {}

(* schedule: a URL that validate_url accepts.  The row is inserted, due now, *)
(* and a sender is spawned at once, whether or not it can see the row yet. *)
Schedule(n) ==
    /\ caller[n] = "updated"
    /\ n \notin refused
    /\ stored' = [stored EXCEPT ![n] = IF inTx[n] THEN "uncommitted" ELSE "committed"]
    /\ tries' = [tries EXCEPT ![n] = 0]
    /\ dueIn' = [dueIn EXCEPT ![n] = 0]
    /\ created' = [created EXCEPT ![n] = {m \in Notifications : m = n \/ Scheduled(m)}]
    /\ caller' = [caller EXCEPT ![n] = IF inTx[n] THEN "scheduled" ELSE "done"]
    /\ pc' = [pc EXCEPT ![n] = "getting"]
    /\ job' = [job EXCEPT ![n] = n]
    /\ UNCHANGED <<inTx, change, seen, result, listed, history, ghostVars, refused, faults>>

(* Rolling back undoes the status change and the row together. *)
Rollback(n) ==
    /\ change' = [change EXCEPT ![n] = "rolledback"]
    /\ stored' = [stored EXCEPT ![n] = "absent"]

(* Mutant: the error is swallowed and the transaction commits the status. *)
ScheduleFailsSwallowed(n) ==
    /\ caller[n] = "updated"
    /\ caller' = [caller EXCEPT ![n] = "done"]
    /\ change' = [change EXCEPT ![n] = "committed"]
    /\ UNCHANGED <<inTx, rowVars, created, senderVars, listed, history, ghostVars,
                   refused, faults>>

(* No webhook_task, a URL validate_url refuses, or a failed insert: the     *)
(* error reaches the caller.  A status written outside a transaction stays. *)
ScheduleFails(n) ==
    /\ caller[n] = "updated"
    /\ caller' = [caller EXCEPT ![n] = "done"]
    /\ IF inTx[n] THEN Rollback(n) ELSE UNCHANGED <<change, stored>>
    /\ UNCHANGED <<inTx, tries, dueIn, created, senderVars, listed, history,
                   ghostVars, refused, faults>>

(* The rest of the enclosing transaction succeeds and is committed ... *)
CommitTx(n) ==
    /\ caller[n] = "scheduled"
    /\ caller' = [caller EXCEPT ![n] = "done"]
    /\ change' = [change EXCEPT ![n] = "committed"]
    /\ stored' = [stored EXCEPT ![n] = "committed"]
    /\ UNCHANGED <<inTx, tries, dueIn, created, senderVars, listed, history,
                   ghostVars, refused, faults>>

(* ... or it returns an error and everything in it is rolled back. *)
RollbackTx(n) ==
    /\ caller[n] = "scheduled"
    /\ caller' = [caller EXCEPT ![n] = "done"]
    /\ Rollback(n)
    /\ UNCHANGED <<inTx, tries, dueIn, created, senderVars, listed, history,
                   ghostVars, refused, faults>>

-----------------------------------------------------------------------------
(* A sender: send_notification, one transaction at READ COMMITTED. *)

(* A sender holds the row lock from its locking read to the end of its      *)
(* transaction.                                                            *)
Holds(s, n) == job[s] = n /\ pc[s] \in {"sending", "settling"}

Locked(n) == \E s \in Senders : Holds(s, n)

(* A request for n has been sent by a transaction that is still open. *)
Posted(n) == \E s \in Senders : job[s] = n /\ pc[s] = "settling"

(* End of a sender's transaction: the lock goes with it. *)
Finish(s) ==
    /\ pc' = [pc EXCEPT ![s] = "idle"]
    /\ job' = [job EXCEPT ![s] = NoJob]
    /\ seen' = [seen EXCEPT ![s] = 0]
    /\ result' = [result EXCEPT ![s] = "none"]

(* Mutant: the read sees rows that are not committed. *)
GetForUpdateDirty(s) ==
    /\ pc[s] = "getting"
    /\ stored[job[s]] # "absent"
    /\ ~Locked(job[s])
    /\ pc' = [pc EXCEPT ![s] = "sending"]
    /\ seen' = [seen EXCEPT ![s] = tries[job[s]]]
    /\ UNCHANGED <<callerVars, rowVars, created, job, result, listed, history,
                   ghostVars, refused, faults>>

(* Mutant: the read does not lock the row. *)
GetForUpdateNoLock(s) ==
    /\ pc[s] = "getting"
    /\ stored[job[s]] = "committed"
    /\ pc' = [pc EXCEPT ![s] = "sending"]
    /\ seen' = [seen EXCEPT ![s] = tries[job[s]]]
    /\ UNCHANGED <<callerVars, rowVars, created, job, result, listed, history,
                   ghostVars, refused, faults>>

(* get with LockType::Update finds the committed row and locks it. *)
GetForUpdate(s) ==
    /\ pc[s] = "getting"
    /\ stored[job[s]] = "committed"
    /\ ~Locked(job[s])
    /\ pc' = [pc EXCEPT ![s] = "sending"]
    /\ seen' = [seen EXCEPT ![s] = tries[job[s]]]
    /\ UNCHANGED <<callerVars, rowVars, created, job, result, listed, history,
                   ghostVars, refused, faults>>

(* The row is gone: NotificationNotFound. *)
NotFound(s) ==
    /\ pc[s] = "getting"
    /\ stored[job[s]] = "absent"
    /\ Finish(s)
    /\ UNCHANGED <<callerVars, rowVars, created, listed, history, ghostVars, refused, faults>>

(* The row is locked or not committed yet: the read gives up after the      *)
(* database's lock wait timeout.                                           *)
LockTimeout(s) ==
    /\ pc[s] = "getting"
    /\ stored[job[s]] = "uncommitted" \/ Locked(job[s])
    /\ Finish(s)
    /\ UNCHANGED <<callerVars, rowVars, created, listed, history, ghostVars, refused, faults>>

(* send_request validates the URL again: one that the configuration accepted *)
(* when the row was scheduled may be refused after a restart.  The error    *)
(* ends the transaction, and the row stays as it is.                       *)
UrlRefused(s) ==
    /\ pc[s] = "sending"
    /\ job[s] \in refused
    /\ Finish(s)
    /\ UNCHANGED <<callerVars, rowVars, created, listed, history, ghostVars,
                   refused, faults>>

(* send_request.  A success status delivers; a 5xx, a 404 or no answer is   *)
(* retried; any other status fails.  A request without an answer may have   *)
(* reached the receiver all the same.                                      *)
SendRequest(s) ==
    /\ pc[s] = "sending"
    /\ job[s] \notin refused
    /\ pc' = [pc EXCEPT ![s] = "settling"]
    /\ posts' = [posts EXCEPT ![job[s]] = @ + 1]
    /\ \/ /\ result' = [result EXCEPT ![s] = "Delivered"]
          /\ accepted' = [accepted EXCEPT ![job[s]] = @ + 1]
       \/ /\ result' = [result EXCEPT ![s] = "Rescheduled"]
          /\ \/ accepted' = accepted
             \/ accepted' = [accepted EXCEPT ![job[s]] = @ + 1]
       \/ /\ result' = [result EXCEPT ![s] = "Failed"]
          /\ accepted' = accepted
    /\ UNCHANGED <<callerVars, rowVars, created, job, seen, listed, history, lost,
                   refused, faults>>

(* calculate_next_try_date: the delay is added to the previous date, not to *)
(* the present.                                                            *)
NextTry(previous, triedTimes) == previous + Interval * Factor ^ triedTimes

(* Mutant: one attempt too many. *)
MayRetryOnceMore(triedTimes) == triedTimes < MaxAttempts

MayRetry(triedTimes) == triedTimes < MaxAttempts - 1

(* A retryable failure with attempts left: update the row and commit. *)
Reschedule(s) ==
    /\ pc[s] = "settling"
    /\ result[s] = "Rescheduled"
    /\ MayRetry(seen[s])
    /\ tries' = [tries EXCEPT ![job[s]] = seen[s] + 1]
    /\ dueIn' = [dueIn EXCEPT ![job[s]] = NextTry(@, seen[s])]
    /\ Finish(s)
    /\ UNCHANGED <<callerVars, stored, created, listed, history, ghostVars, refused, faults>>

(* Mutant: the row is not deleted. *)
ConcludeKeepsRow(s) ==
    /\ pc[s] = "settling"
    /\ result[s] = "Rescheduled" => ~MayRetry(seen[s])
    /\ history' = [history EXCEPT ![job[s]] = Append(@,
                     IF result[s] = "Delivered" THEN "Delivered" ELSE "Errored")]
    /\ Finish(s)
    /\ UNCHANGED <<callerVars, rowVars, created, listed, ghostVars, refused, faults>>

(* Mutant: giving up after the last retry is recorded as a delivery. *)
ConcludeAsDelivered(s) ==
    /\ pc[s] = "settling"
    /\ result[s] = "Rescheduled" => ~MayRetry(seen[s])
    /\ stored' = [stored EXCEPT ![job[s]] = "absent"]
    /\ history' = [history EXCEPT ![job[s]] = Append(@,
                     IF result[s] = "Failed" THEN "Errored" ELSE "Delivered")]
    /\ Finish(s)
    /\ UNCHANGED <<callerVars, tries, dueIn, created, listed, ghostVars, refused, faults>>

(* The final result is known: delete the row, write history, commit. *)
Conclude(s) ==
    /\ pc[s] = "settling"
    /\ result[s] = "Rescheduled" => ~MayRetry(seen[s])
    /\ stored' = [stored EXCEPT ![job[s]] = "absent"]
    /\ history' = [history EXCEPT ![job[s]] = Append(@,
                     IF result[s] = "Delivered" THEN "Delivered" ELSE "Errored")]
    /\ Finish(s)
    /\ UNCHANGED <<callerVars, tries, dueIn, created, listed, ghostVars, refused, faults>>

(* The database fails a statement or the commit of the sender: everything   *)
(* it wrote is rolled back, what it sent stays sent.                       *)
SenderDbError(s) ==
    /\ pc[s] \in {"getting", "settling"}
    /\ faults < MaxFaults
    /\ faults' = faults + 1
    /\ lost' = IF pc[s] = "settling" THEN [lost EXCEPT ![job[s]] = @ + 1] ELSE lost
    /\ Finish(s)
    /\ UNCHANGED <<callerVars, rowVars, created, listed, history, posts, accepted,
                   refused>>

-----------------------------------------------------------------------------
(* The WEBHOOK_NOTIFY task. *)

(* Mutant: the comparison with the present is the wrong way round. *)
IsNotYetDue(n) == stored[n] = "committed" /\ dueIn[n] > 0

IsDue(n) == stored[n] = "committed" /\ dueIn[n] <= 0

(* list: the rows that are due, read without a lock. *)
TaskList(t) ==
    /\ pc[t] = "idle"
    /\ listed[t] = {}
    /\ \E n \in Notifications : IsDue(n)
    /\ listed' = [listed EXCEPT ![t] = {n \in Notifications : IsDue(n)}]
    /\ UNCHANGED <<callerVars, rowVars, created, senderVars, history, ghostVars,
                   refused, faults>>

(* The oldest listed id is sent, whatever became of its row meanwhile. *)
TaskSend(t) ==
    /\ pc[t] = "idle"
    /\ \E n \in listed[t] :
          /\ \A m \in listed[t] : created[n] \subseteq created[m]
          /\ job' = [job EXCEPT ![t] = n]
          /\ listed' = [listed EXCEPT ![t] = @ \ {n}]
    /\ pc' = [pc EXCEPT ![t] = "getting"]
    /\ UNCHANGED <<callerVars, rowVars, created, seen, result, history, ghostVars,
                   refused, faults>>

-----------------------------------------------------------------------------
(* The environment. *)

(* Time passes: every stored date comes one tick closer. *)
Tick ==
    /\ \E n \in Notifications : stored[n] # "absent" /\ dueIn[n] > -MaxLate
    /\ dueIn' = [n \in Notifications |->
                   IF stored[n] # "absent" /\ dueIn[n] > -MaxLate
                     THEN dueIn[n] - 1 ELSE dueIn[n]]
    /\ UNCHANGED <<callerVars, stored, tries, created, senderVars, listed, history,
                   ghostVars, refused, faults>>

(* The server stops and restarts: operations, senders and task runs are     *)
(* gone, their open transactions are rolled back, committed rows remain.    *)
(* The configuration (allowed hosts, insecure http) may have changed.       *)
Crash ==
    /\ faults < MaxFaults
    /\ faults' = faults + 1
    /\ caller' = [n \in Notifications |-> IF caller[n] = "idle" THEN "idle" ELSE "done"]
    /\ change' = [n \in Notifications |->
                    IF change[n] = "pending" THEN "rolledback" ELSE change[n]]
    /\ stored' = [n \in Notifications |->
                    IF stored[n] = "uncommitted" THEN "absent" ELSE stored[n]]
    /\ lost' = [n \in Notifications |->
                  IF Posted(n) THEN lost[n] + 1 ELSE lost[n]]
    /\ pc' = [s \in Senders |-> "idle"]
    /\ job' = [s \in Senders |-> NoJob]
    /\ seen' = [s \in Senders |-> 0]
    /\ result' = [s \in Senders |-> "none"]
    /\ listed' = [t \in TaskRuns |-> {}]
    /\ refused' \in SUBSET Notifications
    /\ UNCHANGED <<inTx, tries, dueIn, created, history, posts, accepted>>

-----------------------------------------------------------------------------
CallerStep(n) ==
    UpdateStatus(n) \/ Schedule(n) \/ ScheduleFails(n) \/ CommitTx(n) \/ RollbackTx(n)

SenderStep(s) ==
    \/ GetForUpdate(s) \/ NotFound(s) \/ UrlRefused(s) \/ SendRequest(s)
    \/ Reschedule(s) \/ Conclude(s)

TaskStep(t) == TaskList(t) \/ TaskSend(t)

Next ==
    \/ \E n \in Notifications : CallerStep(n)
    \/ \E s \in Senders : SenderStep(s) \/ LockTimeout(s) \/ SenderDbError(s)
    \/ \E t \in TaskRuns : TaskStep(t)
    \/ Tick
    \/ Crash

Spec == Init /\ [][Next]_vars

(* Senders that can go on do, the task is run again and again, and time     *)
(* passes.  Nothing is assumed of the operations that change statuses.      *)
Fairness ==
    /\ \A s \in Senders : WF_vars(SenderStep(s))
    /\ \A t \in TaskRuns : WF_vars(TaskStep(t))
    /\ WF_vars(Tick)

FairSpec == Spec /\ Fairness

-----------------------------------------------------------------------------
(* Properties. *)

Settled(n) == history[n] # <<>>

(* The facts that together are preserved by every step.  A sender holds     *)
(* only committed rows and has read their current count ...                *)
SenderInv(s) ==
    /\ pc[s] = "idle" <=> job[s] = NoJob
    /\ s \in Notifications => job[s] \in {s, NoJob}
    /\ pc[s] \in {"sending", "settling"} =>
          stored[job[s]] = "committed" /\ seen[s] = tries[job[s]]
    /\ pc[s] = "settling" => job[s] \notin refused
    /\ pc[s] = "settling" /\ result[s] = "Delivered" => accepted[job[s]] > 0

(* ... and holds them alone ... *)
OneHolder ==
    \A s1, s2 \in Senders : \A n \in Notifications :
        Holds(s1, n) /\ Holds(s2, n) => s1 = s2

(* ... while the row, the status change and the history entry follow the    *)
(* operation that caused them ...                                          *)
ProgressInv(n) ==
    /\ caller[n] = "idle" => change[n] = "none" /\ stored[n] = "absent"
    /\ caller[n] = "updated" =>
          /\ change[n] = IF inTx[n] THEN "pending" ELSE "committed"
          /\ stored[n] = "absent"
    /\ caller[n] = "scheduled" =>
          /\ inTx[n] /\ Scheduled(n)
          /\ change[n] = "pending" /\ stored[n] = "uncommitted"
    /\ caller[n] = "done" =>
          change[n] \in {"committed", "rolledback"} /\ stored[n] # "uncommitted"
    /\ caller[n] \in {"idle", "updated"} => ~Scheduled(n) /\ pc[n] = "idle"
    /\ change[n] # "committed" => stored[n] # "committed" /\ ~Settled(n)
    /\ caller[n] = "done" /\ inTx[n] /\ change[n] = "committed" => Scheduled(n)
    /\ change[n] = "committed" /\ Scheduled(n) => stored[n] = "committed" \/ Settled(n)
    /\ stored[n] = "committed" => ~Settled(n) /\ Scheduled(n)
    /\ Settled(n) => Len(history[n]) = 1 /\ Scheduled(n)
    /\ history[n] = <<"Delivered">> => accepted[n] > 0

(* ... and every request is accounted for.                                 *)
AccountInv(n) ==
    /\ stored[n] # "committed" /\ ~Settled(n) =>
          posts[n] = 0 /\ lost[n] = 0 /\ tries[n] = 0
    /\ stored[n] = "committed" =>
          /\ tries[n] < MaxAttempts
          /\ posts[n] = tries[n] + lost[n] + (IF Posted(n) THEN 1 ELSE 0)
    /\ Settled(n) => posts[n] <= MaxAttempts + lost[n]

NotificationInv(n) == ProgressInv(n) /\ AccountInv(n)

IInv ==
    /\ TypeOK
    /\ \A s \in Senders : SenderInv(s)
    /\ OneHolder
    /\ \A n \in Notifications : NotificationInv(n)

(* A receiver is never told of a status change that is not committed,       *)
(* although schedule spawns the sender before the enclosing transaction     *)
(* ends and the transaction may still be rolled back.                      *)
NeverAnnouncedEarly ==
    \A n \in Notifications : posts[n] > 0 => change[n] = "committed"

(* No notification is lost or settled twice: a committed notification has   *)
(* either its row or exactly one final history entry, whoever of spawned    *)
(* sender, task runs and crashes got in the way (send_internal deletes the  *)
(* row and writes the entry in one transaction).                           *)
RowOrFinalEntry ==
    \A n \in Notifications :
        /\ Len(history[n]) <= 1
        /\ change[n] = "committed" /\ Scheduled(n)
             <=> stored[n] = "committed" \/ Settled(n)
        /\ ~(stored[n] = "committed" /\ Settled(n))

(* A status change made inside a transaction (issue_tx) is visible exactly  *)
(* when its notification is: neither is committed without the other.       *)
TxChangeIsAnnounced ==
    \A n \in Notifications :
        inTx[n] => (change[n] = "committed" <=> stored[n] = "committed" \/ Settled(n))

(* The receiver sees at most max_attempts requests, plus one for each sender *)
(* whose transaction was lost after it had posted: the row lock makes the   *)
(* spawned sender and the task runs count the same attempts.               *)
AttemptsBounded ==
    \A n \in Notifications : posts[n] <= MaxAttempts + lost[n]

(* History says Delivered only of a notification the receiver accepted. *)
DeliveredWasAccepted ==
    \A n \in Notifications : history[n] = <<"Delivered">> => accepted[n] > 0

(* Once the final entry is written no request is sent any more, not even by *)
(* a task run that listed the row before.                                  *)
NothingAfterFinal ==
    [][\A n \in Notifications :
         Settled(n) => posts'[n] = posts[n] /\ history'[n] = history[n]]_vars

(* The date of the next try only moves forward when a row is rescheduled,   *)
(* and the attempt is counted (send_internal, update).                     *)
RescheduleMovesOn ==
    [][\A n \in Notifications :
         tries'[n] # tries[n] => tries'[n] = tries[n] + 1 /\ dueIn'[n] >= dueIn[n]]_vars

(* Every committed notification is delivered or given up on in the end,     *)
(* unless a restart comes with a configuration that refuses its URL: then   *)
(* send_request fails on every run of the task, and neither counts the try  *)
(* nor gives up.                                                           *)
EventuallySettled ==
    \A n \in Notifications : stored[n] = "committed" ~> Settled(n) \/ n \in refused

(* The refinement mapping: a notification is queued while its row is        *)
(* committed, and its status is that of the final history entry afterwards. *)
ContractStatus ==
    [n \in Notifications |->
        IF Settled(n) THEN history[n][1]
        ELSE IF stored[n] = "committed" THEN "queued" ELSE "silent"]

Contract == INSTANCE DeliveryContract WITH status <- ContractStatus, attempts <- tries

(* Scheduler, senders, task and transactions together implement the         *)
(* contract of the webhook subsystem: no attempt at a URL the running       *)
(* configuration refuses, a bounded number of the others, and one outcome,  *)
(* reached in the end if the configuration accepts the URL.                 *)
ImplementsContract == Contract!Spec
=============================================================================
