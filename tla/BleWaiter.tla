----------------------------- MODULE BleWaiter ------------------------------
(***************************************************************************)
(* The arbiter of the Bluetooth interface (BleWaiter) and the protocols    *)
(* that use it.  A session is one proof exchange; it takes one to three    *)
(* steps, each a spawned task <<s, k>>.  Step 1 is scheduled, later steps  *)
(* are scheduled as continuations of the step before.  The call <<s, 0>>   *)
(* is the retraction of the session's proof, which aborts the flow.        *)
(*                                                                         *)
(* All calls take the waiter's mutex and hold it while they abort or join  *)
(* another task; the tasks themselves run without it.  The advertisement   *)
(* and GATT server belong to the whole interface; connections are tracked  *)
(* per session.                                                            *)
(***************************************************************************)
EXTENDS Integers

CONSTANTS MdlHolders,    \* ISO mDL wallets: serve, await a request, respond
          MdlVerifiers,  \* ISO mDL readers: one step
          OidcHolders,   \* OpenID4VP wallets: connect, read the request, submit
          OidcVerifiers, \* OpenID4VP verifiers: advertise, run the exchange
          Retractable,   \* the sessions whose proof may be retracted
          None

Sessions == MdlHolders \cup MdlVerifiers \cup OidcHolders \cup OidcVerifiers

\* A session has one kind.
ASSUME KindsAssumption ==
  /\ MdlHolders \cap MdlVerifiers = {}
  /\ (MdlHolders \cup MdlVerifiers) \cap (OidcHolders \cup OidcVerifiers) = {}
  /\ OidcHolders \cap OidcVerifiers = {}

ASSUME RetractableAssumption == Retractable \subseteq Sessions

Flow(s) == IF s \in MdlHolders \cup MdlVerifiers THEN "mdl" ELSE "oidc"
Last(s) == IF s \in MdlVerifiers THEN 1 ELSE IF s \in OidcVerifiers THEN 2 ELSE 3

\* Wallets of OpenID4VP and readers of mDL connect; the others serve.
Connects(s) == s \in OidcHolders \cup MdlVerifiers

Tasks == {t \in Sessions \X (1..3) : t[2] <= Last(t[1])}
Retractions == Retractable \X {0}
Calls == Tasks \cup Retractions

ASSUME NoneAssumption == None \notin Sessions \cup Calls \cup {"ok", "busy", "aborted", "closed"}

\* expect_continuation: every step but the last announces another one.
Expect(t) == t[2] < Last(t[1])
Before(t) == <<t[1], t[2] - 1>>

\* Cancellations that await a message of the task they cancel: the device it
\* engaged with (a dropped task answers too, by dropping the sender).
AwaitsTask(t) == t[1] \in MdlVerifiers \/ (t[1] \in MdlHolders /\ t[2] = 2)

VARIABLES
  action,   \* BleWaiter::state: the registered task, or None
  lock,     \* the call that holds the mutex, or None
  call,     \* progress of each call, with the task it aborts
  run,      \* progress of each task
  engaged,  \* tasks that have started their use of the radio
  answer,   \* the first message on the task's finish channel
  late,     \* the native call an aborted task has left in flight
  server,   \* the session whose advertisement and server are up, or None
  conn,     \* sessions with an open connection
  tracked,  \* sessions whose connection the tracking wrapper knows
  dropped   \* auxiliary: unfinished tasks abort_inner let go of

vars == <<action, lock, call, run, engaged, answer, late, server, conn, tracked, dropped>>
radio == <<engaged, server, conn, tracked>>

Init ==
  /\ action = None
  /\ lock = None
  /\ call = [c \in Calls |-> [pc |-> "idle", victim |-> None]]
  /\ run = [t \in Tasks |-> "unused"]
  /\ engaged = {}
  /\ answer = [t \in Tasks |-> None]
  /\ late = [t \in Tasks |-> "none"]
  /\ server = None
  /\ conn = {}
  /\ tracked = {}
  /\ dropped = {}

\* Action::finished.
Finished(t) == ~Expect(t) /\ run[t] = "ended"

\* Nothing to abort: a finished action is only replaced.
Free == IF action = None THEN TRUE ELSE Finished(action)

Active(t) == run[t] \in {"running", "offered", "closing"}

(***************************************************************************)
(* The callers.  A session is opened once and not after its proof was      *)
(* deleted; a continuation follows the answer of the step before, except   *)
(* that an mDL wallet may answer as soon as its proof is Requested, when   *)
(* step 2 is still finishing.                                              *)
(***************************************************************************)
Requestable(c) ==
  CASE c[2] = 0 -> TRUE
    [] c[2] = 1 -> c[1] \in Retractable => call[<<c[1], 0>>].pc = "idle"
    [] OTHER -> answer[Before(c)] = "ok" \/ run[Before(c)] = "offered"

Request(c) ==
  /\ call[c].pc = "idle"
  /\ Requestable(c)
  /\ call' = [call EXCEPT ![c].pc = "lock"]
  /\ UNCHANGED <<action, lock, run, answer, late, dropped, radio>>

(***************************************************************************)
(* BleWaiter::schedule, schedule_continuation, abort.                      *)
(***************************************************************************)
Return(c) == [call EXCEPT ![c] = [pc |-> "done", victim |-> None]]

\* spawn, and registration of the new action.
Spawn(c) ==
  /\ run' = [run EXCEPT ![c] = "running"]
  /\ action' = c
  /\ call' = Return(c)
  /\ lock' = None
  /\ UNCHANGED late

\* The second step of an OpenID4VP verifier, the exchange: it ends by taking
\* its own server down.
RunsExchange(t) == t[1] \in OidcVerifiers /\ t[2] = 2

\* The native call that an abort may cut off from its task: the one by which a
\* first step begins, or a stop_server of the task's own teardown.
InFlight(t) ==
  CASE run[t] = "closing" \/ (run[t] = "running" /\ RunsExchange(t)) -> "stop"
    [] run[t] = "running" /\ t[2] = 1 /\ t \notin engaged -> "start"
    [] OTHER -> "none"

\* Mutant: the action stays registered while it is aborted.
BeginAbortKept(c) ==
  /\ run' = [run EXCEPT ![action] = IF @ = "ended" THEN @ ELSE "stopping"]
  /\ call' = [call EXCEPT ![c] = [pc |-> "cancel", victim |-> action]]
  /\ late' = [late EXCEPT ![action] = InFlight(action)]
  /\ lock' = c
  /\ UNCHANGED action

\* abort_inner on an unfinished action: take it out, stop its task, and go on
\* with its cancellation.
BeginAbort(c) ==
  /\ action' = None
  /\ run' = [run EXCEPT ![action] = IF @ = "ended" THEN @ ELSE "stopping"]
  /\ late' = [late EXCEPT ![action] = InFlight(action)]
  /\ call' = [call EXCEPT ![c] = [pc |-> "cancel", victim |-> action]]
  /\ lock' = c

Busy(c) ==
  /\ answer' = [answer EXCEPT ![c] = "busy"]
  /\ call' = Return(c)
  /\ UNCHANGED <<action, lock, run, late>>

\* Mutant: an action of the same flow is replaced without an abort.
ScheduleOver(c) ==
  /\ c[2] = 1
  /\ call[c].pc = "lock"
  /\ lock = None
  /\ IF Free THEN Spawn(c) /\ UNCHANGED answer
     ELSE IF Flow(action[1]) = Flow(c[1]) THEN Spawn(c) /\ UNCHANGED answer
     ELSE Busy(c)
  /\ UNCHANGED <<dropped, radio>>

\* All callers pass OnConflict::ReplaceIfSameFlow.
Schedule(c) ==
  /\ c[2] = 1
  /\ call[c].pc = "lock"
  /\ lock = None
  /\ \/ /\ Free
        /\ Spawn(c)
        /\ UNCHANGED answer
     \/ /\ ~Free
        /\ Flow(action[1]) = Flow(c[1])
        /\ BeginAbort(c)
        /\ UNCHANGED answer
     \/ /\ ~Free
        /\ Flow(action[1]) # Flow(c[1])
        /\ Busy(c)
  /\ UNCHANGED <<dropped, radio>>

Continue(c) ==
  /\ c[2] > 1
  /\ call[c].pc = "lock"
  /\ lock = None
  /\ \/ /\ action = Before(c)
        /\ action' = None
        /\ lock' = c
        /\ call' = [call EXCEPT ![c].pc = "join"]
        /\ UNCHANGED <<run, answer, late>>
     \/ /\ action # Before(c)
        /\ Busy(c)
  /\ UNCHANGED <<dropped, radio>>

\* Mutant: the previous step is not joined.
JoinAtOnce(c) ==
  /\ call[c].pc = "join"
  /\ Spawn(c)
  /\ UNCHANGED <<answer, dropped, radio>>

\* The previous step is joined, whatever its result, before the next starts.
Join(c) ==
  /\ call[c].pc = "join"
  /\ run[Before(c)] = "ended"
  /\ Spawn(c)
  /\ UNCHANGED <<answer, dropped, radio>>

\* abort(Abort::Flow): the action is taken out before its flow is compared.
Retract(c) ==
  /\ c[2] = 0
  /\ call[c].pc = "lock"
  /\ lock = None
  /\ \/ /\ Free
        /\ action' = None
        /\ call' = Return(c)
        /\ UNCHANGED <<lock, run, late, dropped>>
     \/ /\ ~Free
        /\ Flow(action[1]) = Flow(c[1])
        /\ BeginAbort(c)
        /\ UNCHANGED dropped
     \/ /\ ~Free
        /\ Flow(action[1]) # Flow(c[1])
        /\ action' = None
        /\ dropped' = dropped \cup {action}
        /\ call' = Return(c)
        /\ UNCHANGED <<lock, run, late>>
  /\ UNCHANGED <<answer, radio>>

(***************************************************************************)
(* Action::abort after the task was told to stop: the cancellation, the    *)
(* Aborted message, the two teardowns.  A scheduling call then spawns.     *)
(***************************************************************************)
Say(t, what) == [answer EXCEPT ![t] = IF @ = None THEN what ELSE @]

\* Mutant: the waiting caller is not told.
CancelSilent(c) ==
  /\ call[c].pc = "cancel"
  /\ LET t == call[c].victim IN AwaitsTask(t) => t \in engaged \/ run[t] = "ended"
  /\ call' = [call EXCEPT ![c].pc = "central"]
  /\ UNCHANGED <<action, lock, run, answer, late, dropped, radio>>

\* Mutant: a task that is gone does not answer the cancellation.
CancelWaits(c) ==
  /\ call[c].pc = "cancel"
  /\ LET t == call[c].victim IN
       /\ AwaitsTask(t) => t \in engaged
       /\ answer' = Say(t, "aborted")
  /\ call' = [call EXCEPT ![c].pc = "central"]
  /\ UNCHANGED <<action, lock, run, late, dropped, radio>>

Cancel(c) ==
  /\ call[c].pc = "cancel"
  /\ LET t == call[c].victim IN
       /\ AwaitsTask(t) => t \in engaged \/ run[t] = "ended"
       /\ answer' = Say(t, "aborted")
  /\ call' = [call EXCEPT ![c].pc = "central"]
  /\ UNCHANGED <<action, lock, run, late, dropped, radio>>

\* TrackingBleCentral::teardown disconnects what it tracks.
TeardownCentral(s) ==
  /\ conn' = conn \ ({s} \cap tracked)
  /\ tracked' = tracked \ {s}

CloseCentral(c) ==
  /\ call[c].pc = "central"
  /\ TeardownCentral(call[c].victim[1])
  /\ call' = [call EXCEPT ![c].pc = "peripheral"]
  /\ UNCHANGED <<action, lock, run, engaged, answer, server, late, dropped>>

\* TrackingBlePeripheral::teardown stops whatever is advertised or served.
ClosePeripheral(c) ==
  /\ call[c].pc = "peripheral"
  /\ server' = None
  /\ \/ /\ c[2] = 1
        /\ Spawn(c)
     \/ /\ c[2] = 0
        /\ call' = Return(c)
        /\ lock' = None
        /\ UNCHANGED <<action, run, late>>
  /\ UNCHANGED <<engaged, answer, conn, tracked, dropped>>

(***************************************************************************)
(* The tasks.  handle.abort() is not awaited and does not reach into the   *)
(* operating system: a native call in flight when the task is stopped may  *)
(* still take effect, at any time.                                         *)
(***************************************************************************)
Serve(t) ==
  /\ t[2] = 1 /\ ~Connects(t[1])
  /\ run[t] = "running" \/ late[t] = "start"
  /\ t \notin engaged
  /\ engaged' = engaged \cup {t}
  /\ server' = t[1]
  /\ late' = [late EXCEPT ![t] = "none"]
  /\ UNCHANGED <<action, lock, call, run, answer, conn, tracked, dropped>>

Connect(t) ==
  /\ t[2] = 1 /\ Connects(t[1])
  /\ run[t] = "running" \/ late[t] = "start"
  /\ t \notin engaged /\ t[1] \notin conn
  /\ conn' = conn \cup {t[1]}
  /\ late' = [late EXCEPT ![t] = "none"]
  /\ UNCHANGED <<action, lock, call, run, engaged, answer, server, tracked, dropped>>

\* A stop_server (or stop_advertisement) whose caller was aborted.
LateStop(t) ==
  /\ late[t] = "stop"
  /\ late' = [late EXCEPT ![t] = "none"]
  /\ server' = None
  /\ UNCHANGED <<action, lock, call, run, engaged, answer, conn, tracked, dropped>>

\* The wrapper records the connection once the native call has returned.
Track(t) ==
  /\ t[2] = 1
  /\ run[t] = "running"
  /\ t \notin engaged /\ t[1] \in conn
  /\ engaged' = engaged \cup {t}
  /\ tracked' = tracked \cup {t[1]}
  /\ UNCHANGED <<action, lock, call, run, answer, server, conn, late, dropped>>

\* An mDL wallet's second step: a reader connects, then its request is stored
\* with the task's id and the proof becomes Requested.
Engage(t) ==
  /\ t[1] \in MdlHolders /\ t[2] = 2
  /\ run[t] = "running"
  /\ t \notin engaged
  /\ engaged' = engaged \cup {t}
  /\ UNCHANGED <<action, lock, call, run, answer, server, conn, tracked, late, dropped>>

Offer(t) ==
  /\ t[1] \in MdlHolders /\ t[2] = 2
  /\ run[t] = "running"
  /\ t \in engaged
  /\ run' = [run EXCEPT ![t] = "offered"]
  /\ UNCHANGED <<action, lock, call, answer, late, dropped, radio>>

\* The exchange of an OpenID4VP verifier ends, well or not: clean_up takes the
\* server down.  The submission callback follows, then the task's teardown.
CleanUp(t) ==
  /\ RunsExchange(t)
  /\ run[t] = "running"
  /\ run' = [run EXCEPT ![t] = "closing"]
  /\ server' = None
  /\ UNCHANGED <<action, lock, call, engaged, answer, late, conn, tracked, dropped>>

\* Success of a step that expects a continuation keeps the radio as it is.
Succeed(t) ==
  /\ \/ run[t] = "offered"
     \/ /\ run[t] = "running"
        /\ ~RunsExchange(t)
        /\ ~(t[1] \in MdlHolders /\ t[2] = 2)
        /\ t[2] = 1 => t \in engaged
  /\ IF Expect(t)
       THEN /\ run' = [run EXCEPT ![t] = "ended"]
            /\ answer' = Say(t, "ok")
       ELSE /\ run' = [run EXCEPT ![t] = "closing"]
            /\ UNCHANGED answer
  /\ UNCHANGED <<action, lock, call, late, dropped, radio>>

\* A verifier's exchange never fails: its task returns Ok whatever happened.
Fail(t) ==
  /\ run[t] = "running"
  /\ ~RunsExchange(t)
  /\ run' = [run EXCEPT ![t] = "closing"]
  /\ UNCHANGED <<action, lock, call, answer, late, dropped, radio>>

Close(t) ==
  /\ run[t] = "closing"
  /\ run' = [run EXCEPT ![t] = "ended"]
  /\ TeardownCentral(t[1])
  /\ server' = None
  /\ answer' = Say(t, "closed")
  /\ UNCHANGED <<action, lock, call, engaged, late, dropped>>

\* Mutant: a task that is dropped tears the interface down.
DropTearing(t) ==
  /\ run[t] = "stopping"
  /\ run' = [run EXCEPT ![t] = "ended"]
  /\ server' = None
  /\ UNCHANGED <<action, lock, call, engaged, answer, conn, tracked, late, dropped>>

Drop(t) ==
  /\ run[t] = "stopping"
  /\ run' = [run EXCEPT ![t] = "ended"]
  /\ UNCHANGED <<action, lock, call, answer, late, dropped, radio>>

Acquire(c) == Schedule(c) \/ Continue(c) \/ Retract(c)
Proceed(c) == Join(c) \/ Cancel(c) \/ CloseCentral(c) \/ ClosePeripheral(c)
Remote(t) ==
  \/ Serve(t) \/ Connect(t) \/ LateStop(t) \/ Track(t)
  \/ Engage(t) \/ Offer(t) \/ CleanUp(t) \/ Fail(t)
Local(t) == Close(t) \/ Drop(t)

Next ==
  \/ \E c \in Calls : Request(c) \/ Acquire(c) \/ Proceed(c)
  \/ \E t \in Tasks : Remote(t) \/ Succeed(t) \/ Local(t)

Spec == Init /\ [][Next]_vars

(***************************************************************************)
(* Fairness: a call that waits gets tokio's mutex in its turn and goes on  *)
(* while it holds it; an aborted task is dropped and a finished one        *)
(* closes.  Calls and tasks are finitely many and none starts over, so     *)
(* fairness of all together gives each its turn.  Nothing is assumed of    *)
(* users and remote devices.                                               *)
(***************************************************************************)
Fairness ==
  /\ WF_vars(\E c \in Calls : Acquire(c) \/ Proceed(c))
  /\ WF_vars(\E t \in Tasks : Local(t) \/ (run[t] = "offered" /\ Succeed(t)))

FairSpec == Spec /\ Fairness
-----------------------------------------------------------------------------
(***************************************************************************)
(* Properties.                                                             *)
(***************************************************************************)
TaskOrNone == Tasks \cup {None}

\* Every variable holds a value of its kind.
TypeOK ==
  /\ action \in TaskOrNone
  /\ lock \in Calls \cup {None}
  /\ call \in [Calls -> [pc : {"idle", "lock", "cancel", "central", "peripheral",
                               "join", "done"},
                         victim : TaskOrNone]]
  /\ run \in [Tasks -> {"unused", "running", "offered", "closing", "stopping", "ended"}]
  /\ engaged \subseteq Tasks
  /\ answer \in [Tasks -> {None, "ok", "busy", "aborted", "closed"}]
  /\ late \in [Tasks -> {"none", "start", "stop"}]
  /\ server \in Sessions \cup {None}
  /\ conn \subseteq Sessions
  /\ tracked \subseteq conn
  /\ dropped \subseteq Tasks

\* At most one task that the waiter knows of is at work: a task is registered
\* until it ended, is joined by its continuation or is told to stop, and the
\* only way out of that is the abort of another flow, which drops the action
\* unaborted.
OneOwner == \A t, u \in Tasks \ dropped : Active(t) /\ Active(u) => t = u

\* A step never overlaps the step before it, even when the wallet answers
\* while the request is still being processed: the continuation joins first.
StepsInOrder ==
  \A t \in Tasks : t[2] > 1 /\ run[t] # "unused" => run[Before(t)] = "ended"

\* The interface-wide server of a session that is at work is taken down, or
\* replaced by another one, in three ways only: by that session's own task
\* (clean_up, or the teardown at its end), by a native call that an aborted
\* task left in flight and that lands late, or after a task was dropped.  The
\* teardown of the abort itself is over before its successor is spawned.
ServerKept ==
  [][\A t \in Tasks :
       (server = t[1] /\ server' # t[1] /\ dropped = {} /\ Active(t))
         => run'[t] # run[t] \/ \E u \in Tasks : late[u] # "none" /\ late'[u] = "none"]_vars

-----------------------------------------------------------------------------
(* The inductive invariant behind these three: a call that aborts or joins  *)
(* holds the mutex and has taken the action out; a task at work that was    *)
(* not dropped is registered or being joined; a task is spawned by the end  *)
(* of its call.                                                             *)
IInv ==
  /\ TypeOK
  /\ \A c \in Calls : call[c].pc \in {"cancel", "central", "peripheral", "join"} =>
       lock = c /\ action = None
  /\ action # None => run[action] # "unused"
  /\ \A c \in Calls : call[c].pc \in {"cancel", "central", "peripheral"} => call[c].victim # None
  /\ \A c \in Calls : call[c].pc = "join" => c \in Tasks /\ c[2] > 1
  /\ \A t \in Tasks \ dropped : Active(t) =>
       action = t \/ \E c \in Calls : call[c].pc = "join" /\ Before(c) = t
  /\ \A t \in Tasks : run[t] # "unused" => call[t].pc = "done"
  /\ StepsInOrder

-----------------------------------------------------------------------------
\* A task that is told to stop, or has ended, is reported to whoever waits for
\* it: no session waits for ever for a task that is gone.
AbortIsAnswered ==
  []<>(\A t \in Tasks : run[t] \in {"stopping", "ended"} => answer[t] # None)

\* A call that waits for the mutex gets it and returns: no cancellation or join
\* waits for a task that waits for the mutex, or for a remote device.
CallsReturn == []<>(\A c \in Calls : call[c].pc \in {"idle", "done"})

\* The type's documentation: "Ensures exclusive access to BLE interface".
Exclusive == \A t, u \in Tasks : Active(t) /\ Active(u) => t = u
=============================================================================
