-------------------------- MODULE BleWaiterProofs ---------------------------
(***************************************************************************)
(* Proofs about BleWaiter, for any number of sessions of each kind: the    *)
(* tasks that the waiter knows of exclude each other, the steps of a       *)
(* session do not overlap, and no teardown hits a server in use.           *)
(***************************************************************************)
EXTENDS BleWaiter, TLAPS

(* Calls with a positive step are tasks, and a later step has one before. *)
LEMMA TaskFacts ==
    /\ Tasks \subseteq Calls
    /\ \A c \in Calls : c[2] # 0 => c \in Tasks
    /\ \A t \in Tasks : t[2] \in 1..3 /\ t[1] \in Sessions
    /\ \A t \in Tasks : t[2] > 1 => Before(t) \in Tasks /\ Before(t) # t
    /\ None \notin Tasks /\ None \notin Calls
<1>1. \A t \in Tasks : t[2] \in 1..3 /\ t[1] \in Sessions /\ t = <<t[1], t[2]>> /\ t[2] <= Last(t[1])
  BY DEF Tasks
<1>2. \A s \in Sessions, k \in 1..3 : k <= Last(s) => <<s, k>> \in Tasks
  BY Zenon DEF Tasks
<1>3. ASSUME NEW t \in Tasks, t[2] > 1
      PROVE  Before(t) \in Tasks /\ Before(t) # t
  <2>1. t[2] - 1 \in 1..3 /\ t[2] - 1 <= Last(t[1]) /\ t[2] - 1 # t[2]
    BY <1>1, <1>3 DEF Last
  <2>2. Before(t) \in Tasks
    BY Zenon, <1>1, <1>2, <2>1 DEF Before
  <2>3. Before(t)[2] = t[2] - 1
    BY Zenon DEF Before
  <2> QED
    BY Zenon, <2>1, <2>2, <2>3
<1>4. \A c \in Calls : c[2] # 0 => c \in Tasks
  BY Zenon DEF Calls, Retractions
<1>5. None \notin Tasks /\ None \notin Calls
  BY Zenon, NoneAssumption DEF Calls
<1> QED
  BY Zenon, <1>1, <1>3, <1>4, <1>5 DEF Calls

(* A call spawns its own task, unregistered and unlocked before (spawn). *)
LEMMA SpawnStep ==
    ASSUME IInv, NEW c \in Tasks, Spawn(c), UNCHANGED dropped,
           call[c].pc \in {"lock", "join", "peripheral"},
           \A t \in Tasks \ dropped : ~Active(t),
           lock = None \/ lock = c,
           c[2] > 1 => run[Before(c)] = "ended",
           answer' \in [Tasks -> {None, "ok", "busy", "aborted", "closed"}],
           UNCHANGED <<engaged, conn, tracked>>, server' \in Sessions \cup {None}
    PROVE  IInv'
<1> USE TaskFacts DEF Spawn, Return
<1>0. run[c] = "unused" /\ c \in Calls
  BY Zenon DEF IInv
<1>1. TypeOK'
  BY Zenon DEF IInv, TypeOK, TaskOrNone
<1>2. /\ call'[c].pc = "done" /\ \A d \in Calls \ {c} : call'[d] = call[d]
      /\ run'[c] = "running" /\ \A t \in Tasks \ {c} : run'[t] = run[t]
      /\ action' = c /\ lock' = None
  BY <1>0 DEF IInv, TypeOK
<1>3. \A d \in Calls : call'[d].pc \notin {"cancel", "central", "peripheral", "join"}
  BY <1>2 DEF IInv
<1>4. \A t \in Tasks \ dropped' : Active(t)' => action' = t
  BY ZenonT(40), <1>2 DEF Active
<1>5. \A t \in Tasks : run'[t] # "unused" => call'[t].pc = "done"
  BY <1>2 DEF IInv
<1>6. StepsInOrder'
  BY <1>0, <1>2 DEF IInv, StepsInOrder
<1> QED
  BY ZenonT(40), <1>1, <1>2, <1>3, <1>4, <1>5, <1>6 DEF IInv

(* While no call aborts or joins, or while this one does, and the action   *)
(* is gone, no known task is at work.                                      *)
LEMMA NoneAtWork ==
    ASSUME IInv, NEW c \in Calls, action = None \/ Finished(action),
           lock = None \/ (lock = c /\ call[c].pc # "join")
    PROVE  \A t \in Tasks \ dropped : ~Active(t)
<1>1. \A d \in Calls : call[d].pc # "join"
  BY Zenon, TaskFacts DEF IInv
<1>2. \A t \in Tasks \ dropped : Active(t) => action = t
  BY Zenon, <1>1 DEF IInv
<1> QED
  BY Zenon, <1>2, TaskFacts DEF Finished, Active

(* A step after which the same calls abort or join, the same action is     *)
(* registered, and no task is at work that was not.                        *)
LEMMA TaskFrame ==
    ASSUME IInv, TypeOK', UNCHANGED <<action, lock, call, dropped>>,
           \A t \in Tasks : Active(t)' => Active(t),
           \A t \in Tasks : run'[t] # "unused" <=> run[t] # "unused",
           \A t \in Tasks : run[t] = "ended" => run'[t] = "ended"
    PROVE  IInv'
<1>1. StepsInOrder'
  BY Zenon, TaskFacts DEF IInv, StepsInOrder
<1>2. action # None => run'[action] # "unused"
  BY Zenon DEF IInv, TypeOK, TaskOrNone
<1> QED
  BY Zenon, <1>1, <1>2 DEF IInv

(* The tasks: they end, and none comes back (spawn's future). *)
LEMMA TaskSteps ==
    ASSUME IInv, NEW t \in Tasks, Remote(t) \/ Succeed(t) \/ Local(t)
    PROVE  IInv'
<1>0. TypeOK
  BY Zenon DEF IInv
<1>1. TypeOK'
  <2>1. CASE Serve(t) \/ Connect(t) \/ LateStop(t)
    BY <1>0, <2>1, TaskFacts DEF TypeOK, Serve, Connect, LateStop
  <2>2. CASE Track(t) \/ Engage(t) \/ Offer(t) \/ CleanUp(t) \/ Fail(t)
    BY <1>0, <2>2, TaskFacts DEF TypeOK, Track, Engage, Offer, CleanUp, Fail, radio
  <2>3. CASE Succeed(t) \/ Local(t)
    BY <1>0, <2>3 DEF TypeOK, Succeed, Local, Close, Drop, Say, TeardownCentral, radio
  <2> QED
    BY Zenon, <2>1, <2>2, <2>3 DEF Remote
<1>2. UNCHANGED <<action, lock, call, dropped>>
  BY Zenon DEF Remote, Serve, Connect, LateStop, Track, Engage, Offer, CleanUp, Fail, Succeed, Local, Close, Drop
<1>3. \/ run' = run
      \/ /\ run[t] \in {"running", "offered"}
         /\ \E p \in {"offered", "closing", "ended"} : run' = [run EXCEPT ![t] = p]
      \/ run[t] \in {"closing", "stopping"} /\ run' = [run EXCEPT ![t] = "ended"]
  BY Zenon DEF Remote, Serve, Connect, LateStop, Track, Engage, Offer, CleanUp, Fail, Succeed, Local, Close, Drop
<1>4. \A u \in Tasks : /\ Active(u)' => Active(u)
                       /\ run'[u] # "unused" <=> run[u] # "unused"
                       /\ run[u] = "ended" => run'[u] = "ended"
  BY Zenon, <1>0, <1>3 DEF TypeOK, Active
<1> QED
  BY Zenon, <1>1, <1>2, <1>4, TaskFrame

(* A step of a call that only moves the call on, with the registered       *)
(* action and the tasks as they are.                                       *)
LEMMA CallFrame ==
    ASSUME IInv, TypeOK', NEW c \in Calls, UNCHANGED <<action, run, dropped>>,
           \A d \in Calls \ {c} : call'[d] = call[d],
           call[c].pc # "join" /\ call[c].pc # "done",
           \/ lock' = lock /\ call'[c].pc \in {"lock", "done"} /\ call[c].pc \in {"idle", "lock"}
           \/ /\ lock' = lock /\ call'[c].pc \in {"central", "peripheral"}
              /\ call[c].pc \in {"cancel", "central"} /\ call'[c].victim = call[c].victim
           \/ lock = c /\ lock' = None /\ call'[c].pc = "done"
    PROVE  IInv'
<1>1. \A d \in Calls : call'[d].pc \in {"cancel", "central", "peripheral", "join"} =>
        lock' = d /\ action' = None
  BY Zenon, TaskFacts DEF IInv
<1>2. \A d \in Calls : call'[d].pc \in {"cancel", "central", "peripheral"} => call'[d].victim # None
  BY DEF IInv
<1>3. \A d \in Calls : call'[d].pc = "join" <=> call[d].pc = "join"
  OBVIOUS
<1>4. \A t \in Tasks \ dropped : Active(t)' =>
        action' = t \/ \E d \in Calls : call'[d].pc = "join" /\ Before(d) = t
  BY Zenon, <1>3 DEF IInv, Active
<1>5. \A t \in Tasks : run'[t] # "unused" => call'[t].pc = "done"
  BY ZenonT(40), TaskFacts DEF IInv
<1>6. StepsInOrder'
  BY Zenon DEF IInv, StepsInOrder
<1> QED
  BY Zenon, <1>1, <1>2, <1>3, <1>4, <1>5, <1>6 DEF IInv

(* Beginning an abort: the action is taken out and told to stop            *)
(* (abort_inner, Action::abort).                                           *)
LEMMA AbortStep ==
    ASSUME IInv, NEW c \in Calls, BeginAbort(c), ~Free, lock = None, call[c].pc = "lock",
           UNCHANGED <<answer, dropped, radio>>
    PROVE  IInv'
<1> USE TaskFacts DEF BeginAbort
<1>0. TypeOK /\ action \in Tasks
  BY Zenon DEF IInv, TypeOK, TaskOrNone, Free
<1>1. PICK p \in {"ended", "stopping"} :
        run' = [run EXCEPT ![action] = p] /\ (run[action] = "ended" => p = "ended")
  BY Zenon
<1>2. TypeOK'
  <2>1. InFlight(action) \in {"none", "start", "stop"}
    BY Zenon DEF InFlight
  <2>2. late' \in [Tasks -> {"none", "start", "stop"}]
    BY Zenon, <1>0, <2>1 DEF TypeOK
  <2> QED
    BY <1>0, <1>1, <2>2 DEF TypeOK, TaskOrNone, radio
<1>3. /\ \A d \in Calls \ {c} : call'[d] = call[d]
      /\ call'[c].pc = "cancel" /\ call'[c].victim = action
      /\ action' = None /\ lock' = c
  BY Zenon, <1>0 DEF TypeOK
<1>4. \A d \in Calls : call[d].pc \notin {"cancel", "central", "peripheral", "join"}
  BY Zenon DEF IInv
<1>5. \A t \in Tasks \ dropped : ~Active(t)'
  BY <1>0, <1>1, <1>4 DEF IInv, TypeOK, Active
<1>6. \A t \in Tasks : run'[t] # "unused" => call'[t].pc = "done"
  <2>1. run[action] # "unused"
    BY Zenon, <1>0 DEF IInv
  <2> QED
    BY <1>0, <1>1, <1>3, <2>1 DEF IInv, TypeOK
<1>7. StepsInOrder'
  <2>1. \A t \in Tasks : /\ run'[t] # "unused" <=> run[t] # "unused"
                         /\ run[t] = "ended" => run'[t] = "ended"
    BY <1>0, <1>1 DEF IInv, TypeOK
  <2> QED
    BY Zenon, <2>1 DEF IInv, StepsInOrder
<1>8. \A d \in Calls : /\ call'[d].pc # "join"
                       /\ call'[d].pc \in {"cancel", "central", "peripheral"} =>
                            lock' = d /\ action' = None /\ call'[d].victim # None
  BY ZenonT(40), <1>0, <1>3, <1>4
<1> QED
  BY Zenon, <1>2, <1>3, <1>5, <1>6, <1>7, <1>8 DEF IInv

(* Scheduling: a free interface is taken, the action of the same flow is   *)
(* aborted first, that of another flow is respected (schedule).            *)
LEMMA ScheduleStep ==
    ASSUME IInv, NEW c \in Calls, Schedule(c)
    PROVE  IInv'
<1> USE TaskFacts
<1>0. /\ call[c].pc = "lock" /\ lock = None /\ c \in Tasks /\ c[2] = 1
      /\ UNCHANGED <<dropped, radio>> /\ TypeOK
  BY DEF Schedule, IInv
<1>1. CASE Free /\ Spawn(c) /\ UNCHANGED answer
  <2>1. action = None \/ Finished(action)
    BY Zenon, <1>1 DEF Free
  <2>2. \A t \in Tasks \ dropped : ~Active(t)
    BY Zenon, <1>0, <2>1, NoneAtWork
  <2> QED
    BY <1>0, <1>1, <2>2, SpawnStep DEF TypeOK, radio
<1>2. CASE ~Free /\ BeginAbort(c) /\ UNCHANGED answer
  BY Zenon, <1>0, <1>2, AbortStep
<1>3. CASE Busy(c)
  <2>1. /\ answer' = [answer EXCEPT ![c] = "busy"] /\ UNCHANGED <<action, lock, run, late>>
        /\ \A d \in Calls \ {c} : call'[d] = call[d]
        /\ call'[c].pc = "done" /\ call' = [call EXCEPT ![c] = [pc |-> "done", victim |-> None]]
    BY Zenon, <1>0, <1>3 DEF Busy, Return, TypeOK
  <2>2. TypeOK'
    BY Zenon, <1>0, <2>1 DEF TypeOK, TaskOrNone, radio
  <2> QED
    BY Zenon, <1>0, <2>1, <2>2, CallFrame
<1> QED
  BY Zenon, <1>1, <1>2, <1>3 DEF Schedule

(* A continuation takes its predecessor out to join it                     *)
(* (schedule_continuation).                                                *)
LEMMA ContinueStep ==
    ASSUME IInv, NEW c \in Calls, Continue(c)
    PROVE  IInv'
<1> USE TaskFacts
<1>0. /\ call[c].pc = "lock" /\ lock = None /\ c \in Tasks /\ c[2] > 1
      /\ UNCHANGED <<dropped, radio>> /\ TypeOK
  BY DEF Continue, IInv
<1>1. CASE /\ action = Before(c) /\ action' = None /\ lock' = c
           /\ call' = [call EXCEPT ![c].pc = "join"] /\ UNCHANGED <<run, answer, late>>
  <2>1. TypeOK'
    BY <1>0, <1>1 DEF TypeOK, TaskOrNone, radio
  <2>2. call'[c].pc = "join" /\ \A d \in Calls \ {c} : call'[d] = call[d]
    BY Zenon, <1>0, <1>1 DEF TypeOK
  <2>3. \A d \in Calls : call[d].pc \notin {"cancel", "central", "peripheral", "join"}
    BY Zenon, <1>0 DEF IInv
  <2>4. \A t \in Tasks \ dropped : Active(t)' => t = Before(c)
    BY Zenon, <1>1, <2>3 DEF IInv, Active
  <2>5. \A t \in Tasks : run'[t] # "unused" => call'[t].pc = "done"
    BY ZenonT(40), <1>0, <1>1, <2>2 DEF IInv
  <2> QED
    BY <1>0, <1>1, <2>1, <2>2, <2>3, <2>4, <2>5 DEF IInv, StepsInOrder
<1>2. CASE Busy(c)
  <2>1. /\ answer' = [answer EXCEPT ![c] = "busy"] /\ UNCHANGED <<action, lock, run, late>>
        /\ \A d \in Calls \ {c} : call'[d] = call[d]
        /\ call'[c].pc = "done" /\ call' = [call EXCEPT ![c] = [pc |-> "done", victim |-> None]]
    BY Zenon, <1>0, <1>2 DEF Busy, Return, TypeOK
  <2>2. TypeOK'
    BY Zenon, <1>0, <2>1 DEF TypeOK, TaskOrNone, radio
  <2> QED
    BY Zenon, <1>0, <2>1, <2>2, CallFrame
<1> QED
  BY Zenon, <1>1, <1>2 DEF Continue

(* A retraction takes the action out, whatever its flow (abort). *)
LEMMA RetractStep ==
    ASSUME IInv, NEW c \in Calls, Retract(c)
    PROVE  IInv'
<1> USE TaskFacts
<1>0. /\ call[c].pc = "lock" /\ lock = None
      /\ UNCHANGED <<answer, radio>> /\ TypeOK
  BY Zenon DEF Retract, IInv
<1>1. CASE ~Free /\ BeginAbort(c) /\ UNCHANGED dropped
  BY Zenon, <1>0, <1>1, AbortStep
<1>2. CASE /\ action' = None /\ call' = Return(c) /\ UNCHANGED <<lock, run, late>>
           /\ \/ Free /\ dropped' = dropped
              \/ ~Free /\ dropped' = dropped \cup {action}
  <2>1. call'[c].pc = "done" /\ \A d \in Calls \ {c} : call'[d] = call[d]
    BY Zenon, <1>0, <1>2 DEF Return, TypeOK
  <2>2. TypeOK'
    BY Zenon, <1>0, <1>2 DEF TypeOK, TaskOrNone, Return, Free, radio
  <2>3. \A d \in Calls : call[d].pc \notin {"cancel", "central", "peripheral", "join"}
    BY Zenon, <1>0 DEF IInv
  <2>4. \A t \in Tasks \ dropped' : ~Active(t)'
    <3>1. \A t \in Tasks \ dropped : Active(t) => action = t
      BY Zenon, <2>3 DEF IInv
    <3> QED
      BY Zenon, <1>2, <3>1 DEF Free, Finished, Active
  <2>5. \A t \in Tasks : run'[t] # "unused" => call'[t].pc = "done"
    BY ZenonT(40), <1>2, <2>1 DEF IInv
  <2> QED
    BY ZenonT(40), <1>2, <2>1, <2>2, <2>3, <2>4, <2>5 DEF IInv, StepsInOrder
<1> QED
  BY Zenon, <1>1, <1>2 DEF Retract

(* What a call does while it holds the mutex: join, cancel, tear down,     *)
(* spawn (schedule, schedule_continuation, abort).                         *)
LEMMA ProceedStep ==
    ASSUME IInv, NEW c \in Calls, Proceed(c)
    PROVE  IInv'
<1> USE TaskFacts
<1>0. TypeOK
  BY Zenon DEF IInv
<1>1. CASE Join(c)
  <2>1. /\ call[c].pc = "join" /\ c \in Tasks /\ c[2] > 1 /\ lock = c /\ action = None
        /\ run[Before(c)] = "ended" /\ Spawn(c) /\ UNCHANGED <<answer, dropped, radio>>
    BY Zenon, <1>1 DEF Join, IInv
  <2>2. \A d \in Calls : call[d].pc = "join" => d = c
    BY Zenon, <2>1 DEF IInv
  <2>3. \A t \in Tasks \ dropped : ~Active(t)
    BY ZenonT(40), <2>1, <2>2 DEF IInv, Active
  <2> QED
    BY Zenon, <1>0, <2>1, <2>3, SpawnStep DEF TypeOK, radio
<1>2. CASE Cancel(c)
  <2>1. /\ call[c].pc = "cancel" /\ call' = [call EXCEPT ![c].pc = "central"]
        /\ answer' = Say(call[c].victim, "aborted")
        /\ UNCHANGED <<action, lock, run, late, dropped, radio>>
    BY Zenon, <1>2 DEF Cancel
  <2>2. TypeOK'
    BY ZenonT(40), <1>0, <2>1 DEF TypeOK, Say, radio
  <2> QED
    BY <1>0, <2>1, <2>2, CallFrame DEF TypeOK
<1>3. CASE CloseCentral(c)
  <2>1. /\ call[c].pc = "central" /\ call' = [call EXCEPT ![c].pc = "peripheral"]
        /\ UNCHANGED <<action, lock, run, engaged, answer, late, server, dropped>>
    BY Zenon, <1>3 DEF CloseCentral
  <2>2. TypeOK'
    BY <1>0, <1>3, <2>1 DEF TypeOK, CloseCentral, TeardownCentral
  <2> QED
    BY <1>0, <2>1, <2>2, CallFrame DEF TypeOK
<1>4. CASE ClosePeripheral(c)
  <2>1. /\ call[c].pc = "peripheral" /\ lock = c /\ action = None /\ server' = None
        /\ UNCHANGED <<engaged, answer, conn, tracked, dropped>>
    BY Zenon, <1>4 DEF ClosePeripheral, IInv
  <2>2. CASE c[2] = 1 /\ Spawn(c)
    <3>1. \A t \in Tasks \ dropped : ~Active(t)
      BY Zenon, <2>1, NoneAtWork
    <3> QED
      BY <1>0, <2>1, <2>2, <3>1, SpawnStep DEF TypeOK
  <2>3. CASE call' = Return(c) /\ lock' = None /\ UNCHANGED <<action, run, late>>
    <3>1. TypeOK'
      BY Zenon, <1>0, <2>1, <2>3 DEF TypeOK, Return, TaskOrNone
    <3>2. call'[c].pc = "done" /\ \A d \in Calls \ {c} : call'[d] = call[d]
      BY Zenon, <1>0, <2>3 DEF Return, TypeOK
    <3> QED
      BY Zenon, <2>1, <2>3, <3>1, <3>2, CallFrame
  <2> QED
    BY Zenon, <1>4, <2>2, <2>3 DEF ClosePeripheral
<1> QED
  BY Zenon, <1>1, <1>2, <1>3, <1>4 DEF Proceed

(* The initial state satisfies the invariant. *)
LEMMA InitInv == Init => IInv
BY TaskFacts DEF Init, IInv, TypeOK, TaskOrNone, Active, StepsInOrder

(* Mutex, registered action and tasks stay consistent in every reachable   *)
(* state of the waiter.                                                    *)
THEOREM Invariant == Spec => []IInv
<1>1. ASSUME IInv, [Next]_vars
      PROVE  IInv'
  <2>1. ASSUME NEW c \in Calls, Request(c)
        PROVE  IInv'
    <3>1. /\ call[c].pc = "idle" /\ call' = [call EXCEPT ![c].pc = "lock"]
          /\ UNCHANGED <<action, lock, run, answer, late, dropped, radio>>
      BY Zenon, <2>1 DEF Request
    <3>2. TypeOK'
      BY <1>1, <3>1 DEF IInv, TypeOK, radio
    <3> QED
      BY <1>1, <3>1, <3>2, CallFrame DEF IInv, TypeOK
  <2>2. CASE UNCHANGED vars
    BY <1>1, <2>2 DEF vars, IInv, TypeOK, Active, StepsInOrder
  <2> QED
    BY Zenon, <1>1, <2>1, <2>2, ScheduleStep, ContinueStep, RetractStep, ProceedStep, TaskSteps
       DEF Next, Acquire
<1> QED
  BY <1>1, InitInv, PTL DEF Spec

(* Calls and tasks keep their types. *)
THEOREM TypeCorrect == Spec => []TypeOK
<1>1. IInv => TypeOK
  BY Zenon DEF IInv
<1> QED
  BY <1>1, Invariant, PTL

(* The tasks that BleWaiter knows of exclude each other. *)
THEOREM SingleOwner == Spec => []OneOwner
<1>1. IInv => OneOwner
  BY TaskFacts DEF IInv, OneOwner
<1> QED
  BY <1>1, Invariant, PTL

(* The steps of a session never overlap (schedule_continuation). *)
THEOREM OrderedSteps == Spec => []StepsInOrder
<1>1. IInv => StepsInOrder
  BY Zenon DEF IInv
<1> QED
  BY <1>1, Invariant, PTL

(* No teardown of another session hits a server in use (Action::abort,     *)
(* TrackingBlePeripheral::teardown).                                       *)
THEOREM ServerUndisturbed == Spec => ServerKept
<1>1. ASSUME IInv, [Next]_vars, NEW t \in Tasks,
             server = t[1], server' # t[1], dropped = {}, Active(t)
      PROVE  run'[t] # run[t] \/ \E u \in Tasks : late[u] # "none" /\ late'[u] = "none"
  <2>0. OneOwner
    BY <1>1, TaskFacts DEF IInv, OneOwner
  <2>1. server # server' /\ TypeOK
    BY Zenon, <1>1 DEF IInv
  <2>2. PICK u \in Tasks : \/ Close(u) \/ CleanUp(u) \/ LateStop(u) \/ Serve(u)
                           \/ \E c \in Calls : ClosePeripheral(c)
    BY Zenon, <1>1, <2>1
       DEF Next, Request, Acquire, Proceed, Schedule, Continue, Retract, Join, Cancel, CloseCentral,
           Remote, Connect, Track, Engage, Offer, Fail, Succeed, Local, Drop, radio, vars
  <2>3. CASE Close(u) \/ CleanUp(u)
    <3>1. u = t
      BY Zenon, <1>1, <2>0, <2>3 DEF Close, CleanUp, Active, OneOwner
    <3> QED
      BY Zenon, <2>1, <2>3, <3>1 DEF Close, CleanUp, TypeOK
  <2>4. CASE LateStop(u)
    BY Zenon, <2>1, <2>4 DEF LateStop, TypeOK
  <2>5. CASE Serve(u)
    <3>1. CASE late[u] = "start"
      BY Zenon, <2>1, <2>5, <3>1 DEF Serve, TypeOK
    <3>2. CASE run[u] = "running"
      <4>1. u = t
        BY Zenon, <1>1, <2>0, <3>2 DEF Active, OneOwner
      <4> QED
        BY Zenon, <1>1, <2>5, <4>1 DEF Serve
    <3> QED
      BY Zenon, <2>5, <3>1, <3>2 DEF Serve
  <2>6. ASSUME NEW c \in Calls, ClosePeripheral(c)
        PROVE  FALSE
    <3>1. call[c].pc = "peripheral" /\ lock = c /\ action = None
      BY Zenon, <1>1, <2>6 DEF ClosePeripheral, IInv
    <3> QED
      BY Zenon, <1>1, <3>1, NoneAtWork
  <2> QED
    BY Zenon, <2>2, <2>3, <2>4, <2>5, <2>6
<1>2. IInv /\ [Next]_vars =>
        [\A t \in Tasks :
           (server = t[1] /\ server' # t[1] /\ dropped = {} /\ Active(t))
             => run'[t] # run[t] \/ \E u \in Tasks : late[u] # "none" /\ late'[u] = "none"]_vars
  BY Zenon, <1>1
<1> QED
  BY <1>2, Invariant, PTL DEF Spec, ServerKept
=============================================================================
