----------------------- MODULE WebhookDeliveryProofs -----------------------
(***************************************************************************)
(* Proofs about WebhookDelivery for any number of notifications and task   *)
(* runs: IInv is an invariant, what follows from it, the action            *)
(* properties, and that it does what DeliveryContract allows.              *)
(***************************************************************************)
EXTENDS WebhookDelivery, TLAPS

(* A sender that is not idle works on a notification. *)
LEMMA BusyJob ==
    ASSUME IInv, NEW s \in Senders, pc[s] # "idle" PROVE job[s] \in Notifications
  BY DEF IInv, TypeOK, SenderInv

Untouched(n) ==
    /\ caller'[n] = caller[n] /\ inTx'[n] = inTx[n] /\ change'[n] = change[n]
    /\ stored'[n] = stored[n] /\ tries'[n] = tries[n] /\ created'[n] = created[n]
    /\ history'[n] = history[n] /\ posts'[n] = posts[n]
    /\ accepted'[n] = accepted[n] /\ lost'[n] = lost[n]

(* A step that leaves a notification alone keeps what is known of it. *)
LEMMA UntouchedInv ==
    ASSUME NEW n \in Notifications, NotificationInv(n), Untouched(n),
           Posted(n)' <=> Posted(n), pc[n] = "idle" => pc'[n] = "idle"
    PROVE  NotificationInv(n)'
<1>1. (Scheduled(n)' <=> Scheduled(n)) /\ (Settled(n)' <=> Settled(n))
  BY Zenon DEF Untouched, Scheduled, Settled
<1>2. ProgressInv(n)'
  BY Zenon, <1>1 DEF NotificationInv, ProgressInv, Untouched
<1>3. AccountInv(n)'
  BY Zenon, <1>1 DEF NotificationInv, AccountInv, Untouched
<1>. QED BY Zenon, <1>2, <1>3 DEF NotificationInv

(* A step of one sender changes what is posted for its own row only. *)
LEMMA PostedOthers ==
    ASSUME IInv, NEW s \in Senders, NEW n \in Notifications,
           \A r \in Senders \ {s} : pc'[r] = pc[r] /\ job'[r] = job[r],
           pc[s] = "settling" => job[s] # n,
           pc'[s] = "settling" => job'[s] # n
    PROVE  Posted(n)' <=> Posted(n)
  BY Zenon DEF Posted

(* The sender that holds a row is the only one that may have posted for it. *)
LEMMA PostedByHolder ==
    ASSUME IInv, NEW s \in Senders, NEW n \in Notifications, Holds(s, n)
    PROVE  Posted(n) <=> pc[s] = "settling"
  BY Zenon DEF IInv, OneHolder, Holds, Posted

(* A sender's step keeps the invariant of the row it works on ... *)
LEMMA SenderOwnNotificationInv ==
    ASSUME IInv, NEW s \in Senders, NEW n \in Notifications, Holds(s, n),
           SendRequest(s) \/ Reschedule(s) \/ Conclude(s) \/ SenderDbError(s)
    PROVE  NotificationInv(n)'
<1>0. /\ TypeOK /\ NotificationInv(n) /\ SenderInv(s)
      /\ job[s] = n /\ n # NoJob /\ pc[s] # "idle"
  BY Zenon, ConstantsAssumption DEF IInv, Holds
<1>1. /\ stored[n] = "committed" /\ seen[s] = tries[n] /\ tries[n] < MaxAttempts
      /\ change[n] = "committed" /\ caller[n] = "done" /\ Scheduled(n) /\ ~Settled(n)
  BY Zenon, <1>0 DEF TypeOK, NotificationInv, ProgressInv, AccountInv, SenderInv, Holds
<1>2. Posted(n) <=> pc[s] = "settling"
  BY Zenon, PostedByHolder
<1>3. \A r \in Senders \ {s} : ~(job[r] = n /\ pc[r] = "settling")
  BY Zenon DEF IInv, OneHolder, Holds
<1>4. tries[n] \in Nat /\ posts[n] \in Nat /\ lost[n] \in Nat /\ accepted[n] \in Nat
      /\ MaxAttempts \in Nat
  BY Zenon, <1>0, ConstantsAssumption DEF TypeOK
<1>5. /\ pc[s] = "settling" => posts[n] = tries[n] + lost[n] + 1
      /\ pc[s] # "settling" => posts[n] = tries[n] + lost[n]
  <2>1. posts[n] = tries[n] + lost[n] + (IF Posted(n) THEN 1 ELSE 0)
    BY Zenon, <1>0, <1>1 DEF NotificationInv, AccountInv
  <2>2. CASE pc[s] = "settling"
    BY Zenon, <1>2, <2>1, <2>2
  <2>3. CASE pc[s] # "settling"
    BY <1>2, <1>4, <2>1, <2>3
  <2>. QED BY Zenon, <2>2, <2>3
<1>6. history[n] # <<"Delivered">>
  <2>1. <<"Delivered">> # <<>>
    OBVIOUS
  <2>. QED BY <1>1, <2>1, Zenon DEF Settled
<1>7. CASE SendRequest(s)
  <2>1. UNCHANGED <<caller, inTx, change, stored, tries, created, history, lost>>
        /\ posts'[n] = posts[n] + 1 /\ pc[s] = "sending"
    BY Zenon, <1>0, <1>7 DEF TypeOK, SendRequest, callerVars, rowVars
  <2>2. accepted'[n] \in Nat /\ accepted'[n] >= accepted[n]
    BY <1>0, <1>4, <1>7 DEF TypeOK, SendRequest
  <2>3. Posted(n)'
    BY Zenon, <1>0, <1>7 DEF TypeOK, SendRequest, Posted
  <2>4. (Scheduled(n)' <=> Scheduled(n)) /\ (Settled(n)' <=> Settled(n))
    BY Zenon, <2>1 DEF Scheduled, Settled
  <2>5. ProgressInv(n)'
    BY <1>0, <1>1, <1>6, <2>1, <2>4, Zenon DEF NotificationInv, ProgressInv
  <2>6. AccountInv(n)'
    <3>1. posts'[n] = tries'[n] + lost'[n] + 1
      BY Zenon, <1>4, <1>5, <2>1
    <3>2. stored'[n] = "committed" /\ ~Settled(n)' /\ tries'[n] < MaxAttempts
      BY Zenon, <1>1, <2>1, <2>4
    <3>. QED BY Zenon, <2>3, <3>1, <3>2 DEF AccountInv
  <2>. QED BY Zenon, <2>5, <2>6 DEF NotificationInv
<1>8. CASE Reschedule(s)
  <2>1. UNCHANGED <<caller, inTx, change, stored, created, history, posts, accepted, lost>>
        /\ tries'[n] = tries[n] + 1 /\ pc[s] = "settling"
    BY Zenon, <1>0, <1>1, <1>8 DEF TypeOK, Reschedule, callerVars, ghostVars
  <2>2. tries[n] < MaxAttempts - 1
    BY <1>1, <1>8, Zenon DEF Reschedule, MayRetry
  <2>3. ~Posted(n)'
    BY Zenon, <1>0, <1>3, <1>8 DEF TypeOK, Reschedule, Finish, Posted
  <2>4. (Scheduled(n)' <=> Scheduled(n)) /\ (Settled(n)' <=> Settled(n))
    BY Zenon, <2>1 DEF Scheduled, Settled
  <2>5. ProgressInv(n)'
    BY Zenon, <1>0, <1>1, <2>1, <2>4 DEF NotificationInv, ProgressInv
  <2>6. AccountInv(n)'
    <3>1. posts'[n] = tries'[n] + lost'[n] + 0 /\ tries'[n] < MaxAttempts
      BY SMTT(40), <1>4, <1>5, <2>1, <2>2
    <3>2. stored'[n] = "committed" /\ ~Settled(n)'
      BY Zenon, <1>1, <2>1, <2>4
    <3>. QED BY Zenon, <2>3, <3>1, <3>2 DEF AccountInv
  <2>. QED BY <2>5, <2>6 DEF NotificationInv
<1>9. CASE Conclude(s)
  <2>1. UNCHANGED <<caller, inTx, change, tries, created, posts, accepted, lost>>
        /\ stored'[n] = "absent" /\ pc[s] = "settling"
    BY Zenon, <1>0, <1>9 DEF TypeOK, Conclude, callerVars, ghostVars
  <2>2. history[n] = <<>> /\ history'[n] = Append(<<>>,
           IF result[s] = "Delivered" THEN "Delivered" ELSE "Errored")
    BY Zenon, <1>0, <1>1, <1>9 DEF TypeOK, Conclude, Settled
  <2>3. history'[n] = <<"Delivered">> => accepted[n] > 0
    BY <1>0, <2>1, <2>2 DEF SenderInv
  <2>4. Len(history'[n]) = 1 /\ history'[n] # <<>>
    BY <2>2
  <2>5. posts[n] <= MaxAttempts + lost[n]
    BY <1>1, <1>4, <1>5, <2>1
  <2>6. Settled(n)' /\ Scheduled(n)'
    BY Zenon, <1>1, <2>1, <2>4 DEF Scheduled, Settled
  <2>7. ProgressInv(n)'
    BY Zenon, <1>1, <2>1, <2>3, <2>4, <2>6 DEF ProgressInv
  <2>8. AccountInv(n)'
    BY Zenon, <2>1, <2>5, <2>6 DEF AccountInv
  <2>. QED BY <2>7, <2>8 DEF NotificationInv
<1>10. CASE SenderDbError(s)
  <2>1. UNCHANGED <<caller, inTx, change, stored, tries, created, history, posts, accepted>>
        /\ lost'[n] = lost[n] + 1 /\ pc[s] = "settling"
    BY Zenon, <1>0, <1>10 DEF TypeOK, SenderDbError, Holds, callerVars, rowVars
  <2>2. ~Posted(n)'
    BY Zenon, <1>0, <1>3, <1>10 DEF TypeOK, SenderDbError, Finish, Posted
  <2>3. (Scheduled(n)' <=> Scheduled(n)) /\ (Settled(n)' <=> Settled(n))
    BY Zenon, <2>1 DEF Scheduled, Settled
  <2>4. ProgressInv(n)'
    BY <1>0, <1>1, <2>1, <2>3, Zenon DEF NotificationInv, ProgressInv
  <2>5. AccountInv(n)'
    <3>1. posts'[n] = tries'[n] + lost'[n] + 0
      BY SMTT(40), <1>4, <1>5, <2>1
    <3>2. stored'[n] = "committed" /\ ~Settled(n)' /\ tries'[n] < MaxAttempts
      BY Zenon, <1>1, <2>1, <2>3
    <3>. QED BY Zenon, <2>2, <3>1, <3>2 DEF AccountInv
  <2>. QED BY <2>4, <2>5 DEF NotificationInv
<1>. QED BY Zenon, <1>7, <1>8, <1>9, <1>10

(* The operations that change statuses keep the invariant. *)
LEMMA CallerNotificationInv ==
    ASSUME IInv, NEW m \in Notifications, CallerStep(m), NEW n \in Notifications
    PROVE  NotificationInv(n)'
<1>0. TypeOK /\ NotificationInv(n) /\ NotificationInv(m)
  BY Zenon DEF IInv
<1>1. pc[m] \in {"idle", "getting", "sending", "settling"} /\ m \in Senders
  BY Zenon, <1>0 DEF TypeOK, Senders
<1>2. CASE Schedule(m)
  <2>1. pc[m] = "idle" /\ pc' = [pc EXCEPT ![m] = "getting"] /\ job' = [job EXCEPT ![m] = m]
    BY Zenon, <1>0, <1>2 DEF Schedule, NotificationInv, ProgressInv
  <2>2. Posted(n)' <=> Posted(n)
    BY Zenon, <1>0, <1>1, <2>1, PostedOthers DEF TypeOK
  <2>3. CASE n = m
    <3>1. ~Posted(n)
      BY <1>0, <1>2, <2>3, Zenon DEF Schedule, NotificationInv, ProgressInv, Posted, IInv, SenderInv
    <3>2. n \in {k \in Notifications : k = n \/ Scheduled(k)}
      OBVIOUS
    <3>3. Scheduled(n)'
      BY Zenon, <1>0, <1>2, <2>3, <3>2 DEF TypeOK, Schedule, Scheduled
    <3>4. UNCHANGED <<inTx, change, history, posts, accepted, lost>>
          /\ caller'[n] = (IF inTx[n] THEN "scheduled" ELSE "done")
          /\ stored'[n] = (IF inTx[n] THEN "uncommitted" ELSE "committed")
          /\ tries'[n] = 0
      BY Zenon, <1>0, <1>2, <2>3 DEF TypeOK, Schedule, ghostVars
    <3>5. Settled(n)' <=> Settled(n)
      BY <3>4, Zenon DEF Settled
    <3>6. caller[n] = "updated"
      BY Zenon, <1>2, <2>3 DEF Schedule
    <3>7. ProgressInv(n)'
      BY <1>0, <3>3, <3>4, <3>5, <3>6, ZenonT(30) DEF NotificationInv, ProgressInv
    <3>8. AccountInv(n)'
      BY <1>0, <2>2, <3>1, <3>4, <3>5, <3>6, ConstantsAssumption
      DEF NotificationInv, ProgressInv, AccountInv
    <3>. QED BY Zenon, <3>7, <3>8 DEF NotificationInv
  <2>4. CASE n # m
    <3>1. Untouched(n)
      BY Zenon, <1>0, <1>2, <2>4 DEF TypeOK, Schedule, Untouched, ghostVars
    <3>2. pc'[n] = pc[n]
      BY Zenon, <1>0, <2>1, <2>4 DEF TypeOK, Senders
    <3>. QED BY Zenon, <1>0, <2>2, <3>1, <3>2, UntouchedInv
  <2>. QED BY Zenon, <2>3, <2>4
<1>3. CASE UpdateStatus(m) \/ ScheduleFails(m) \/ CommitTx(m) \/ RollbackTx(m)
  <2>1. UNCHANGED <<pc, job, seen, result, inTx, tries, created, history, posts, accepted, lost>>
    BY Zenon, <1>3 DEF UpdateStatus, ScheduleFails, CommitTx, RollbackTx, rowVars, senderVars, ghostVars
  <2>2. (Posted(n)' <=> Posted(n)) /\ (Scheduled(n)' <=> Scheduled(n)) /\ (Settled(n)' <=> Settled(n))
    BY Zenon, <2>1 DEF Posted, Scheduled, Settled
  <2>3. CASE n = m
    <3>1. CASE UpdateStatus(m)
      <4>1. stored' = stored /\ caller[n] = "idle" /\ caller'[n] = "updated"
            /\ change'[n] = (IF inTx[n] THEN "pending" ELSE "committed")
        BY Zenon, <1>0, <2>3, <3>1 DEF TypeOK, UpdateStatus, rowVars
      <4>. QED BY <1>0, <2>1, <2>2, <4>1, Zenon DEF NotificationInv, ProgressInv, AccountInv
    <3>2. CASE ScheduleFails(m)
      <4>1. caller[n] = "updated" /\ caller'[n] = "done" /\ stored[n] = "absent"
            /\ stored'[n] = "absent"
            /\ change'[n] = (IF inTx[n] THEN "rolledback" ELSE "committed")
        BY <1>0, <2>3, <3>2 DEF TypeOK, ScheduleFails, Rollback, NotificationInv, ProgressInv
      <4>. QED BY <1>0, <2>1, <2>2, <4>1, ZenonT(30) DEF NotificationInv, ProgressInv, AccountInv
    <3>3. CASE CommitTx(m)
      <4>1. ~Posted(n)
        BY Zenon, <1>0, <2>3, <3>3 DEF CommitTx, NotificationInv, ProgressInv, Posted, IInv, SenderInv
      <4>2. caller[n] = "scheduled" /\ caller'[n] = "done"
            /\ change'[n] = "committed" /\ stored'[n] = "committed"
        BY Zenon, <1>0, <2>3, <3>3 DEF TypeOK, CommitTx
      <4>3. ProgressInv(n)'
        BY Zenon, <1>0, <2>1, <2>2, <4>2 DEF NotificationInv, ProgressInv
      <4>4. AccountInv(n)'
        BY SMTT(40), <1>0, <2>1, <2>2, <4>1, <4>2, ConstantsAssumption
        DEF NotificationInv, ProgressInv, AccountInv
      <4>. QED BY <4>3, <4>4 DEF NotificationInv
    <3>4. CASE RollbackTx(m)
      <4>1. caller[n] = "scheduled" /\ caller'[n] = "done"
            /\ change'[n] = "rolledback" /\ stored'[n] = "absent"
        BY Zenon, <1>0, <2>3, <3>4 DEF TypeOK, RollbackTx, Rollback
      <4>. QED BY Zenon, <1>0, <2>1, <2>2, <4>1 DEF NotificationInv, ProgressInv, AccountInv
    <3>. QED BY Zenon, <1>3, <3>1, <3>2, <3>3, <3>4
  <2>4. CASE n # m
    <3>1. Untouched(n)
      BY SMTT(40), <1>0, <1>3, <2>1, <2>4
      DEF TypeOK, UpdateStatus, ScheduleFails, CommitTx, RollbackTx, Rollback, Untouched, rowVars
    <3>. QED BY Zenon, <1>0, <2>1, <2>2, <3>1, UntouchedInv
  <2>. QED BY <2>3, <2>4
<1>. QED BY Zenon, <1>2, <1>3 DEF CallerStep

(* ... and leaves the others alone. *)
LEMMA SenderNotificationInv ==
    ASSUME IInv, NEW s \in Senders, SenderStep(s) \/ LockTimeout(s) \/ SenderDbError(s),
           NEW n \in Notifications
    PROVE  NotificationInv(n)'
<1>0. TypeOK /\ NotificationInv(n) /\ n \in Senders
  BY Zenon DEF IInv, Senders
<1>1. pc[s] # "idle" /\ job[s] \in Notifications
  BY BusyJob, ZenonT(30) DEF SenderStep, GetForUpdate, NotFound, UrlRefused, SendRequest, Reschedule, Conclude,
                 LockTimeout, SenderDbError
<1>2. \A r \in Senders \ {s} : pc'[r] = pc[r] /\ job'[r] = job[r]
  BY <1>0 DEF TypeOK, Finish, SenderStep, GetForUpdate, NotFound, UrlRefused, SendRequest,
              Reschedule, Conclude, LockTimeout, SenderDbError
<1>3. pc[n] = "idle" => pc'[n] = "idle"
  BY <1>0, <1>1, <1>2, Zenon
<1>4. CASE GetForUpdate(s) \/ NotFound(s) \/ UrlRefused(s) \/ LockTimeout(s)
           \/ (SenderDbError(s) /\ pc[s] = "getting")
  <2>1. Untouched(n)
    BY <1>0, <1>4, Zenon DEF Untouched, GetForUpdate, NotFound, UrlRefused, LockTimeout,
                      SenderDbError, callerVars, rowVars, ghostVars
  <2>2. pc[s] # "settling" /\ pc'[s] # "settling"
    BY ZenonT(40), <1>0, <1>4
    DEF TypeOK, Finish, GetForUpdate, NotFound, UrlRefused, LockTimeout, SenderDbError
  <2>3. Posted(n)' <=> Posted(n)
    BY <1>2, <2>2, PostedOthers, Zenon
  <2>. QED BY <1>0, <1>3, <2>1, <2>3, UntouchedInv, ZenonT(30)
<1>5. CASE (SendRequest(s) \/ Reschedule(s) \/ Conclude(s)
            \/ (SenderDbError(s) /\ pc[s] = "settling")) /\ job[s] = n
  <2>1. Holds(s, n)
    BY <1>5, Zenon DEF Holds, SendRequest, Reschedule, Conclude
  <2>. QED BY <1>5, <2>1, SenderOwnNotificationInv, ZenonT(30)
<1>6. CASE (SendRequest(s) \/ Reschedule(s) \/ Conclude(s)
            \/ (SenderDbError(s) /\ pc[s] = "settling")) /\ job[s] # n
  <2>1. job'[s] # n
    BY <1>0, <1>6, ConstantsAssumption
    DEF TypeOK, SendRequest, Reschedule, Conclude, SenderDbError, Finish
  <2>2. Posted(n)' <=> Posted(n)
    BY <1>2, <1>6, <2>1, PostedOthers, Zenon
  <2>3. Untouched(n)
    <3>1. CASE SendRequest(s)
      BY SMTT(40), <1>0, <1>1, <1>6, <3>1 DEF TypeOK, SendRequest, Untouched, callerVars, rowVars
    <3>2. CASE Reschedule(s)
      BY Zenon, <1>0, <1>1, <1>6, <3>2 DEF TypeOK, Reschedule, Untouched, callerVars, ghostVars
    <3>3. CASE Conclude(s)
      BY Zenon, <1>0, <1>1, <1>6, <3>3 DEF TypeOK, Conclude, Untouched, callerVars, ghostVars
    <3>4. CASE SenderDbError(s)
      BY Zenon, <1>0, <1>1, <1>6, <3>4 DEF TypeOK, SenderDbError, Untouched, callerVars, rowVars
    <3>. QED BY <1>6, <3>1, <3>2, <3>3, <3>4, ZenonT(30)
  <2>. QED BY Zenon, <1>0, <1>3, <2>2, <2>3, UntouchedInv
<1>. QED BY Zenon, <1>4, <1>5, <1>6 DEF SenderStep, SenderDbError

(* A restart keeps the invariant: rows that were not committed are gone     *)
(* together with the status change, and open requests are counted as lost.  *)
LEMMA CrashNotificationInv ==
    ASSUME IInv, Crash, NEW n \in Notifications
    PROVE  NotificationInv(n)'
<1>0. TypeOK /\ NotificationInv(n) /\ n \in Senders
  BY Zenon DEF IInv, Senders
<1>1. UNCHANGED <<inTx, tries, created, history, posts, accepted>> /\ ~Posted(n)'
      /\ pc'[n] = "idle"
  BY <1>0, ConstantsAssumption, Zenon DEF Crash, Posted
<1>2. (Scheduled(n)' <=> Scheduled(n)) /\ (Settled(n)' <=> Settled(n))
  BY Zenon, <1>1 DEF Scheduled, Settled
<1>3. /\ caller'[n] = (IF caller[n] = "idle" THEN "idle" ELSE "done")
      /\ change'[n] = (IF change[n] = "pending" THEN "rolledback" ELSE change[n])
      /\ stored'[n] = (IF stored[n] = "uncommitted" THEN "absent" ELSE stored[n])
      /\ lost'[n] = (IF Posted(n) THEN lost[n] + 1 ELSE lost[n])
  BY ZenonT(30) DEF Crash
<1>4. Posted(n) => stored[n] = "committed"
  BY Zenon DEF IInv, SenderInv, Posted
<1>5. tries[n] \in Nat /\ posts[n] \in Nat /\ lost[n] \in Nat /\ MaxAttempts \in Nat
      /\ caller[n] \in {"idle", "updated", "scheduled", "done"}
      /\ stored[n] \in {"absent", "uncommitted", "committed"}
      /\ inTx[n] \in BOOLEAN
  BY Zenon, <1>0, ConstantsAssumption DEF TypeOK
<1>6. ProgressInv(n)'
  BY <1>0, <1>1, <1>2, <1>3, <1>5, Zenon DEF NotificationInv, ProgressInv
<1>7. AccountInv(n)'
  <2>1. CASE stored[n] = "committed"
    <3>1. stored'[n] = "committed" /\ ~Settled(n)' /\ tries[n] < MaxAttempts
      BY Zenon, <1>0, <1>2, <1>3, <2>1 DEF NotificationInv, ProgressInv, AccountInv
    <3>2. posts[n] = tries[n] + lost'[n]
      <4>1. CASE Posted(n)
        BY <1>0, <1>3, <1>5, <2>1, <4>1, SMTT(30) DEF NotificationInv, AccountInv
      <4>2. CASE ~Posted(n)
        BY <1>0, <1>3, <1>5, <2>1, <4>2, SMTT(30) DEF NotificationInv, AccountInv
      <4>. QED BY Zenon, <4>1, <4>2
    <3>. QED BY SMTT(40), <1>1, <1>3, <1>5, <3>1, <3>2 DEF AccountInv
  <2>2. CASE stored[n] # "committed"
    <3>1. stored'[n] # "committed" /\ lost'[n] = lost[n]
      BY Zenon, <1>3, <1>4, <2>2
    <3>. QED BY Zenon, <1>0, <1>1, <1>2, <2>2, <3>1 DEF NotificationInv, AccountInv
  <2>. QED BY Zenon, <2>1, <2>2
<1>. QED BY Zenon, <1>6, <1>7 DEF NotificationInv

(* Every step keeps what is known of every notification. *)
LEMMA NextNotificationInv ==
    ASSUME IInv, [Next]_vars, NEW n \in Notifications
    PROVE  NotificationInv(n)'
<1>0. TypeOK /\ NotificationInv(n) /\ n \in Senders /\ n \notin TaskRuns
  BY Zenon, ConstantsAssumption DEF IInv, Senders
<1>1. CASE \E m \in Notifications : CallerStep(m)
  BY Zenon, <1>1, CallerNotificationInv
<1>2. CASE \E s \in Senders : SenderStep(s) \/ LockTimeout(s) \/ SenderDbError(s)
  BY Zenon, <1>2, SenderNotificationInv
<1>3. CASE \E t \in TaskRuns : TaskStep(t)
  <2>. PICK t \in TaskRuns : TaskStep(t)
    BY Zenon, <1>3
  <2>1. Untouched(n) /\ pc[t] = "idle" /\ t \in Senders
    BY Zenon DEF TaskStep, TaskList, TaskSend, Untouched, callerVars, rowVars, ghostVars, Senders
  <2>2. pc'[n] = pc[n] /\ pc'[t] # "settling"
    BY ZenonT(40), <1>0, <2>1 DEF TypeOK, TaskStep, TaskList, TaskSend, senderVars
  <2>3. \A r \in Senders \ {t} : pc'[r] = pc[r] /\ job'[r] = job[r]
    BY Zenon, <1>0 DEF TypeOK, TaskStep, TaskList, TaskSend, senderVars
  <2>4. Posted(n)' <=> Posted(n)
    BY Zenon, <2>1, <2>2, <2>3, PostedOthers
  <2>. QED BY Zenon, <1>0, <2>1, <2>2, <2>4, UntouchedInv
<1>4. CASE Tick \/ UNCHANGED vars
  <2>1. Untouched(n) /\ pc' = pc /\ job' = job
    BY Zenon, <1>4 DEF Tick, Untouched, vars, callerVars, rowVars, senderVars, ghostVars
  <2>2. Posted(n)' <=> Posted(n)
    BY Zenon, <2>1 DEF Posted
  <2>. QED BY Zenon, <1>0, <2>1, <2>2, UntouchedInv
<1>5. CASE Crash
  BY Zenon, <1>5, CrashNotificationInv
<1>. QED BY Zenon, <1>1, <1>2, <1>3, <1>4, <1>5 DEF Next

(* The initial state satisfies the inductive invariant. *)
LEMMA InitIInv == Init => IInv
  BY ConstantsAssumption
  DEF Init, IInv, TypeOK, Senders, SenderInv, OneHolder, Holds, NotificationInv, ProgressInv, AccountInv,
      Scheduled, Settled, Posted, Results

SenderTypes ==
    /\ pc \in [Senders -> {"idle", "getting", "sending", "settling"}]
    /\ job \in [Senders -> Notifications \cup {NoJob}]
    /\ seen \in [Senders -> Nat]
    /\ result \in [Senders -> Results]

(* The end of a sender's transaction keeps the types of the senders. *)
LEMMA FinishTypes ==
    ASSUME SenderTypes, NEW s \in Senders, Finish(s) PROVE SenderTypes'
<1>1. pc' \in [Senders -> {"idle", "getting", "sending", "settling"}]
  BY Zenon DEF Finish, SenderTypes
<1>2. job' \in [Senders -> Notifications \cup {NoJob}]
  BY Zenon DEF Finish, SenderTypes
<1>3. seen' \in [Senders -> Nat]
  BY Zenon DEF Finish, SenderTypes
<1>4. result' \in [Senders -> Results]
  BY Zenon DEF Finish, SenderTypes, Results
<1>. QED BY Zenon, <1>1, <1>2, <1>3, <1>4 DEF SenderTypes

(* Counting up one notification leaves the counters of the others alone. *)
LEMMA CountUp ==
    ASSUME NEW f \in [Notifications -> Nat], NEW m \in Notifications
    PROVE  LET g == [f EXCEPT ![m] = @ + 1]
           IN  /\ g \in [Notifications -> Nat]
               /\ \A n \in Notifications : g[n] = IF n = m THEN f[n] + 1 ELSE f[n]
  OBVIOUS

(* The delay before the next try is a number. *)
LEMMA NextTryType ==
    ASSUME NEW d \in Int, NEW k \in 0..MaxAttempts
    PROVE  NextTry(d, k) \in Int /\ NextTry(d, k) >= d
  BY DelayAssumption DEF NextTry

(* Every step keeps the types. *)
LEMMA NextTypeOK == IInv /\ [Next]_vars => TypeOK'
<1> SUFFICES ASSUME IInv, [Next]_vars PROVE TypeOK'
  OBVIOUS
<1>0. TypeOK /\ SenderTypes
  BY Zenon DEF IInv, TypeOK, SenderTypes
<1>1. CASE UNCHANGED vars
  BY Zenon, <1>0, <1>1 DEF TypeOK, vars, callerVars, rowVars, senderVars, ghostVars
<1>2. ASSUME NEW n \in Notifications, UpdateStatus(n) PROVE TypeOK'
  BY Zenon, <1>0, <1>2 DEF TypeOK, UpdateStatus, rowVars, senderVars, ghostVars
<1>3. ASSUME NEW n \in Notifications, Schedule(n) PROVE TypeOK'
  <2>1. created' \in [Notifications -> SUBSET Notifications]
    BY Zenon, <1>0, <1>3 DEF TypeOK, Schedule
  <2>. QED BY SMTT(40), <1>0, <1>3, <2>1 DEF TypeOK, Schedule, Senders, ghostVars
<1>4. ASSUME NEW n \in Notifications, ScheduleFails(n) PROVE TypeOK'
  BY ZenonT(40), <1>0, <1>4 DEF TypeOK, ScheduleFails, Rollback, senderVars, ghostVars
<1>5. ASSUME NEW n \in Notifications, CommitTx(n) PROVE TypeOK'
  BY Zenon, <1>0, <1>5 DEF TypeOK, CommitTx, senderVars, ghostVars
<1>6. ASSUME NEW n \in Notifications, RollbackTx(n) PROVE TypeOK'
  BY Zenon, <1>0, <1>6 DEF TypeOK, RollbackTx, Rollback, senderVars, ghostVars
<1>7. ASSUME NEW s \in Senders, GetForUpdate(s) PROVE TypeOK'
  <2>1. job[s] \in Notifications
    BY Zenon, <1>7, BusyJob DEF GetForUpdate
  <2>. QED
    BY Zenon, <1>0, <1>7, <2>1 DEF TypeOK, GetForUpdate, callerVars, rowVars, ghostVars
<1>8. ASSUME NEW s \in Senders, NotFound(s) \/ UrlRefused(s) \/ LockTimeout(s) PROVE TypeOK'
  <2>1. SenderTypes'
    BY Zenon, <1>0, <1>8, FinishTypes DEF NotFound, UrlRefused, LockTimeout
  <2>2. UNCHANGED <<callerVars, rowVars, created, listed, history, ghostVars, refused, faults>>
    BY Zenon, <1>8 DEF NotFound, UrlRefused, LockTimeout
  <2>. QED
    BY Zenon, <1>0, <2>1, <2>2
    DEF TypeOK, SenderTypes, callerVars, rowVars, ghostVars
<1>9. ASSUME NEW s \in Senders, SendRequest(s) PROVE TypeOK'
  <2>0. job[s] \in Notifications
    BY Zenon, <1>9, BusyJob DEF SendRequest
  <2>1. posts' \in [Notifications -> Nat]
    BY SMTT(40), <1>0, <1>9, <2>0 DEF TypeOK, SendRequest
  <2>3. \/ accepted' = accepted
        \/ accepted' = [accepted EXCEPT ![job[s]] = @ + 1]
    BY Zenon, <1>9 DEF SendRequest
  <2>4. [accepted EXCEPT ![job[s]] = @ + 1] \in [Notifications -> Nat]
    BY <1>0, <2>0 DEF TypeOK
  <2>5. accepted' \in [Notifications -> Nat]
    BY <1>0, <2>3, <2>4, Zenon DEF TypeOK
  <2>2. result' \in [Senders -> Results]
    BY <1>0, <1>9, ZenonT(30) DEF TypeOK, SendRequest, Results
  <2>. QED
    BY <1>0, <1>9, <2>1, <2>2, <2>5, Zenon DEF TypeOK, SendRequest, callerVars, rowVars
<1>10. ASSUME NEW s \in Senders, Reschedule(s) PROVE TypeOK'
  <2>1. SenderTypes'
    BY Zenon, <1>0, <1>10, FinishTypes DEF Reschedule
  <2>2. job[s] \in Notifications /\ seen[s] \in 0..MaxAttempts
    BY <1>0, <1>10, BusyJob, ConstantsAssumption DEF Reschedule, MayRetry, TypeOK
  <2>3. NextTry(dueIn[job[s]], seen[s]) \in Int
    BY Zenon, <1>0, <2>2, NextTryType DEF TypeOK
  <2>4. tries' \in [Notifications -> Nat] /\ dueIn' \in [Notifications -> Int]
    BY <1>0, <1>10, <2>2, <2>3 DEF TypeOK, Reschedule
  <2>. QED
    BY Zenon, <1>0, <1>10, <2>1, <2>4 DEF TypeOK, SenderTypes, Reschedule, callerVars, ghostVars
<1>11. ASSUME NEW s \in Senders, Conclude(s) PROVE TypeOK'
  <2>1. SenderTypes'
    BY Zenon, <1>0, <1>11, FinishTypes DEF Conclude
  <2>0. job[s] \in Notifications
    BY Zenon, <1>11, BusyJob DEF Conclude
  <2>2. history' \in [Notifications -> Seq({"Delivered", "Errored"})]
    BY <1>0, <1>11, <2>0 DEF TypeOK, Conclude
  <2>3. stored' \in [Notifications -> {"absent", "uncommitted", "committed"}]
    BY <1>0, <1>11, Zenon DEF TypeOK, Conclude
  <2>. QED
    BY Zenon, <1>0, <1>11, <2>1, <2>2, <2>3
    DEF TypeOK, SenderTypes, Conclude, callerVars, ghostVars
<1>12. ASSUME NEW s \in Senders, SenderDbError(s) PROVE TypeOK'
  <2>1. SenderTypes'
    BY Zenon, <1>0, <1>12, FinishTypes DEF SenderDbError
  <2>0. job[s] \in Notifications
    BY Zenon, <1>12, BusyJob DEF SenderDbError
  <2>2. lost' \in [Notifications -> Nat]
    BY <1>0, <1>12, <2>0 DEF TypeOK, SenderDbError
  <2>3. /\ faults' \in Nat
        /\ UNCHANGED <<callerVars, rowVars, created, listed, history, posts, accepted, refused>>
    BY <1>0, <1>12 DEF TypeOK, SenderDbError
  <2>. QED
    BY Zenon, <1>0, <1>12, <2>1, <2>2, <2>3
    DEF TypeOK, SenderTypes, callerVars, rowVars
<1>13. ASSUME NEW t \in TaskRuns, TaskList(t) PROVE TypeOK'
  BY Zenon, <1>0, <1>13 DEF TypeOK, TaskList, callerVars, rowVars, senderVars, ghostVars
<1>14. ASSUME NEW t \in TaskRuns, TaskSend(t) PROVE TypeOK'
  <2>1. PICK n \in listed[t] : /\ job' = [job EXCEPT ![t] = n]
                               /\ listed' = [listed EXCEPT ![t] = @ \ {n}]
    BY <1>14, Zenon DEF TaskSend
  <2>2. n \in Notifications /\ t \in Senders
    BY Zenon, <1>0 DEF TypeOK, Senders
  <2>3. job' \in [Senders -> Notifications \cup {NoJob}]
    BY Zenon, <1>0, <2>1, <2>2 DEF TypeOK
  <2>4. listed' \in [TaskRuns -> SUBSET Notifications]
    BY Zenon, <1>0, <2>1 DEF TypeOK
  <2>. QED
    BY <1>0, <1>14, <2>2, <2>3, <2>4, Zenon DEF TypeOK, TaskSend, callerVars, rowVars, ghostVars
<1>15. CASE Tick
  <2>1. dueIn' \in [Notifications -> Int]
    BY <1>0, <1>15 DEF TypeOK, Tick
  <2>. QED
    BY Zenon, <1>0, <1>15, <2>1 DEF TypeOK, Tick, callerVars, senderVars, ghostVars
<1>16. CASE Crash
  BY SMTT(40), <1>0, <1>16 DEF TypeOK, Crash, Results
<1>. QED
  BY Zenon, <1>1, <1>2, <1>3, <1>4, <1>5, <1>6, <1>7, <1>8, <1>9, <1>10, <1>11, <1>12,
     <1>13, <1>14, <1>15, <1>16 DEF Next, CallerStep, SenderStep, TaskStep

(* A step that leaves a sender and the row it holds alone keeps what is     *)
(* known of the sender.                                                    *)
LEMMA SenderKept ==
    ASSUME NEW r \in Senders, SenderInv(r),
           pc'[r] = pc[r], job'[r] = job[r], seen'[r] = seen[r], result'[r] = result[r],
           pc[r] \in {"sending", "settling"} =>
             /\ stored[job[r]] = "committed" => stored'[job[r]] = "committed"
             /\ tries'[job[r]] = tries[job[r]]
             /\ accepted[job[r]] > 0 => accepted'[job[r]] > 0,
           refused' = refused
    PROVE  SenderInv(r)'
  BY ZenonT(40) DEF SenderInv

(* A sender that has ended its transaction holds nothing. *)
LEMMA SenderFinished ==
    ASSUME TypeOK, NEW s \in Senders, Finish(s) PROVE SenderInv(s)'
<1>1. pc'[s] = "idle" /\ job'[s] = NoJob
  BY Zenon DEF TypeOK, Finish
<1>. QED BY Zenon, <1>1, ConstantsAssumption DEF SenderInv

(* The end of one sender's transaction changes no other sender. *)
LEMMA OthersUnfinished ==
    ASSUME TypeOK, NEW s \in Senders, Finish(s), NEW r \in Senders, r # s
    PROVE  pc'[r] = pc[r] /\ job'[r] = job[r] /\ seen'[r] = seen[r] /\ result'[r] = result[r]
  BY Zenon DEF TypeOK, Finish

(* A step of an operation keeps what is known of each sender: the row it    *)
(* writes is not one a sender holds.                                       *)
LEMMA CallerSenderInv ==
    ASSUME IInv, NEW n \in Notifications, CallerStep(n), NEW r \in Senders
    PROVE  SenderInv(r)'
<1>0. TypeOK /\ SenderInv(r)
  BY Zenon DEF IInv
<1>1. NotificationInv(n)
  BY Zenon DEF IInv
<1>2. pc[r] # "idle" => job[r] \in Notifications
  BY Zenon, BusyJob
<1>3. CASE UpdateStatus(n)
  <2>1. UNCHANGED <<pc, job, seen, result, stored, tries, accepted, refused>>
    BY Zenon, <1>3 DEF UpdateStatus, rowVars, senderVars, ghostVars
  <2>. QED BY Zenon, <1>0, <2>1, SenderKept
<1>4. CASE Schedule(n)
  <2>1. stored[n] = "absent" /\ n \in Senders
    BY Zenon, <1>1, <1>4 DEF NotificationInv, ProgressInv, Schedule, Senders
  <2>2. seen' = seen /\ result' = result /\ accepted' = accepted /\ refused' = refused
    BY Zenon, <1>4 DEF Schedule, ghostVars
  <2>3. CASE r = n
    <3>1. pc'[r] = "getting" /\ job'[r] = n
      BY Zenon, <1>0, <1>4, <2>1, <2>3 DEF TypeOK, Schedule
    <3>. QED BY Zenon, <2>3, <3>1, ConstantsAssumption DEF SenderInv
  <2>4. CASE r # n
    <3>1. pc'[r] = pc[r] /\ job'[r] = job[r]
      BY Zenon, <1>0, <1>4, <2>1, <2>4 DEF TypeOK, Schedule
    <3>2. \A m \in Notifications : stored[m] = "committed" =>
            stored'[m] = "committed" /\ tries'[m] = tries[m]
      BY Zenon, <1>0, <1>4, <2>1 DEF TypeOK, Schedule
    <3>3. pc[r] \in {"sending", "settling"} => stored[job[r]] = "committed"
      BY Zenon, <1>0 DEF SenderInv
    <3>. QED BY Zenon, <1>0, <1>2, <2>2, <3>1, <3>2, <3>3, SenderKept
  <2>. QED BY Zenon, <2>3, <2>4
<1>5. CASE ScheduleFails(n) \/ CommitTx(n) \/ RollbackTx(n)
  <2>1. stored[n] # "committed"
    BY Zenon, <1>1, <1>5 DEF NotificationInv, ProgressInv, ScheduleFails, CommitTx, RollbackTx
  <2>2. stored' = stored \/ \E v : stored' = [stored EXCEPT ![n] = v]
    <3>1. CASE ScheduleFails(n)
      BY <3>1, Zenon DEF ScheduleFails, Rollback
    <3>2. CASE CommitTx(n)
      BY <3>2, Zenon DEF CommitTx
    <3>3. CASE RollbackTx(n)
      BY <3>3, Zenon DEF RollbackTx, Rollback
    <3>. QED BY Zenon, <1>5, <3>1, <3>2, <3>3
  <2>3. \A m \in Notifications : stored[m] = "committed" => stored'[m] = "committed"
    BY Zenon, <1>0, <2>1, <2>2 DEF TypeOK
  <2>4. UNCHANGED <<pc, job, seen, result, tries, accepted, refused>>
    BY Zenon, <1>5 DEF ScheduleFails, CommitTx, RollbackTx, senderVars, ghostVars
  <2>. QED BY Zenon, <1>0, <1>2, <2>3, <2>4, SenderKept
<1>. QED BY <1>3, <1>4, <1>5, Zenon DEF CallerStep

(* A step of a sender keeps what is known of each sender: it writes only    *)
(* the row it holds, and no other sender holds that one.                   *)
LEMMA SenderSenderInv ==
    ASSUME IInv, NEW s \in Senders, SenderStep(s) \/ LockTimeout(s) \/ SenderDbError(s),
           NEW r \in Senders
    PROVE  SenderInv(r)'
<1>0. TypeOK /\ SenderInv(r) /\ SenderInv(s)
  BY Zenon DEF IInv
<1>1. pc[r] # "idle" => job[r] \in Notifications
  BY Zenon, BusyJob
<1>2. CASE GetForUpdate(s)
  <2>1. UNCHANGED <<job, result, stored, tries, accepted, refused>>
    BY Zenon, <1>2 DEF GetForUpdate, rowVars, ghostVars
  <2>2. CASE r = s
    <3>1. pc'[r] = "sending" /\ seen'[r] = tries[job[r]] /\ stored[job[r]] = "committed"
          /\ pc[r] = "getting"
      BY Zenon, <1>0, <1>2, <2>2 DEF TypeOK, GetForUpdate
    <3>. QED BY Zenon, <1>0, <2>1, <3>1 DEF SenderInv
  <2>3. CASE r # s
    <3>1. pc'[r] = pc[r] /\ seen'[r] = seen[r]
      BY Zenon, <1>0, <1>2, <2>3 DEF TypeOK, GetForUpdate
    <3>. QED BY Zenon, <1>0, <2>1, <3>1, SenderKept
  <2>. QED BY Zenon, <2>2, <2>3
<1>3. CASE NotFound(s) \/ UrlRefused(s) \/ LockTimeout(s) \/ SenderDbError(s)
  <2>1. Finish(s) /\ UNCHANGED <<stored, tries, accepted, refused>>
    <3>1. Finish(s)
      BY <1>3, Zenon DEF NotFound, UrlRefused, LockTimeout, SenderDbError
    <3>2. UNCHANGED <<stored, tries, accepted, refused>>
      BY Zenon, <1>3 DEF NotFound, UrlRefused, LockTimeout, SenderDbError, rowVars, ghostVars
    <3>. QED BY Zenon, <3>1, <3>2
  <2>2. CASE r = s
    BY Zenon, <1>0, <2>1, <2>2, SenderFinished
  <2>3. CASE r # s
    <3>1. pc'[r] = pc[r] /\ job'[r] = job[r] /\ seen'[r] = seen[r] /\ result'[r] = result[r]
      BY Zenon, <1>0, <2>1, <2>3, OthersUnfinished
    <3>. QED BY ZenonT(40), <1>0, <2>1, <3>1, SenderKept
  <2>. QED BY <2>2, <2>3
<1>4. CASE SendRequest(s)
  <2>1. job[s] \in Notifications
    BY Zenon, <1>4, BusyJob DEF SendRequest
  <2>2. UNCHANGED <<job, seen, stored, tries, refused>>
    BY Zenon, <1>4 DEF SendRequest, rowVars
  <2>3. \/ accepted' = accepted
        \/ accepted' = [accepted EXCEPT ![job[s]] = @ + 1]
    BY Zenon, <1>4 DEF SendRequest
  <2>4. accepted \in [Notifications -> Nat]
    BY Zenon, <1>0 DEF TypeOK
  <2>5. CASE r = s
    <3>1. pc'[r] = "settling" /\ pc[r] = "sending" /\ job[r] \notin refused
      BY Zenon, <1>0, <1>4, <2>5 DEF TypeOK, SendRequest
    <3>2. result'[r] = "Delivered" => accepted'[job[r]] > 0
      <4>1. \/ accepted' = [accepted EXCEPT ![job[s]] = @ + 1]
            \/ result'[s] # "Delivered"
        BY Zenon, <1>0, <1>4 DEF TypeOK, SendRequest
      <4>. QED BY <2>1, <2>4, <2>5, <4>1
    <3>. QED BY Zenon, <1>0, <2>2, <3>1, <3>2 DEF SenderInv
  <2>6. CASE r # s
    <3>1. pc'[r] = pc[r] /\ result'[r] = result[r]
      BY ZenonT(40), <1>0, <1>4, <2>6 DEF TypeOK, SendRequest
    <3>2. \A n \in Notifications : accepted[n] > 0 => accepted'[n] > 0
      BY <2>1, <2>3, <2>4, CountUp
    <3>. QED BY ZenonT(40), <1>0, <1>1, <2>2, <3>1, <3>2, SenderKept
  <2>. QED BY <2>5, <2>6
<1>5. CASE Reschedule(s) \/ Conclude(s)
  <2>1. Finish(s) /\ Holds(s, job[s]) /\ job[s] \in Notifications
    <3>1. Finish(s) /\ pc[s] = "settling"
      BY <1>5, Zenon DEF Reschedule, Conclude
    <3>. QED BY Zenon, <3>1, BusyJob DEF Holds
  <2>2. CASE r = s
    BY Zenon, <1>0, <2>1, <2>2, SenderFinished
  <2>3. CASE r # s
    <3>1. ~Holds(r, job[s])
      BY Zenon, <2>1, <2>3 DEF IInv, OneHolder
    <3>2. pc'[r] = pc[r] /\ job'[r] = job[r] /\ seen'[r] = seen[r] /\ result'[r] = result[r]
      BY Zenon, <1>0, <2>1, <2>3, OthersUnfinished
    <3>3. ASSUME NEW m \in Notifications, m # job[s]
          PROVE  stored'[m] = stored[m] /\ tries'[m] = tries[m]
      <4>1. CASE Reschedule(s)
        BY Zenon, <1>0, <3>3, <4>1 DEF TypeOK, Reschedule
      <4>2. CASE Conclude(s)
        BY Zenon, <1>0, <3>3, <4>2 DEF TypeOK, Conclude
      <4>. QED BY Zenon, <1>5, <4>1, <4>2
    <3>4. accepted' = accepted /\ refused' = refused
      <4>1. UNCHANGED <<ghostVars, refused>>
        BY <1>5, Zenon DEF Reschedule, Conclude
      <4>. QED BY Zenon, <4>1 DEF ghostVars
    <3>5. pc[r] \in {"sending", "settling"} => job[r] # job[s]
      BY Zenon, <3>1 DEF Holds
    <3>. QED BY Zenon, <1>0, <1>1, <3>2, <3>3, <3>4, <3>5, SenderKept
  <2>. QED BY <2>2, <2>3
<1>. QED BY <1>2, <1>3, <1>4, <1>5, Zenon DEF SenderStep

(* Every step keeps what is known of each sender: a row it holds stays      *)
(* committed and its count unchanged, because others cannot touch it.      *)
LEMMA NextSenderInv ==
    ASSUME IInv, [Next]_vars, NEW r \in Senders PROVE SenderInv(r)'
<1>0. TypeOK /\ SenderInv(r)
  BY Zenon DEF IInv
<1>1. CASE UNCHANGED vars
  <2>1. UNCHANGED <<pc, job, seen, result, stored, tries, accepted, refused>>
    BY Zenon, <1>1 DEF vars, rowVars, senderVars, ghostVars
  <2>. QED BY Zenon, <1>0, <2>1, SenderKept
<1>2. ASSUME NEW t \in TaskRuns, TaskList(t) PROVE SenderInv(r)'
  <2>1. UNCHANGED <<pc, job, seen, result, stored, tries, accepted, refused>>
    BY Zenon, <1>2 DEF TaskList, rowVars, senderVars, ghostVars
  <2>. QED BY Zenon, <1>0, <2>1, SenderKept
<1>3. ASSUME NEW t \in TaskRuns, TaskSend(t) PROVE SenderInv(r)'
  <2>1. PICK n \in listed[t] : job' = [job EXCEPT ![t] = n]
    BY <1>3, Zenon DEF TaskSend
  <2>2. n \in Notifications /\ t \in Senders /\ t \notin Notifications
    BY Zenon, <1>0, ConstantsAssumption DEF TypeOK, Senders
  <2>3. UNCHANGED <<seen, result, stored, tries, accepted, refused>>
    BY Zenon, <1>3 DEF TaskSend, rowVars, ghostVars
  <2>4. CASE r = t
    <3>1. pc'[r] = "getting" /\ job'[r] = n
      BY Zenon, <1>0, <1>3, <2>1, <2>2, <2>4 DEF TypeOK, TaskSend
    <3>. QED BY Zenon, <2>2, <2>4, <3>1, ConstantsAssumption DEF SenderInv
  <2>5. CASE r # t
    <3>1. pc'[r] = pc[r] /\ job'[r] = job[r]
      BY Zenon, <1>0, <1>3, <2>1, <2>2, <2>5 DEF TypeOK, TaskSend
    <3>. QED BY Zenon, <1>0, <2>3, <3>1, SenderKept
  <2>. QED BY Zenon, <2>4, <2>5
<1>4. CASE Tick
  <2>1. UNCHANGED <<pc, job, seen, result, stored, tries, accepted, refused>>
    BY Zenon, <1>4 DEF Tick, senderVars, ghostVars
  <2>. QED BY <1>0, <2>1, SenderKept
<1>5. CASE Crash
  <2>1. pc'[r] = "idle" /\ job'[r] = NoJob
    BY Zenon, <1>5 DEF Crash
  <2>. QED BY Zenon, <2>1, ConstantsAssumption DEF SenderInv
<1>. QED
  BY <1>1, <1>2, <1>3, <1>4, <1>5, CallerSenderInv, SenderSenderInv, Zenon
  DEF Next, TaskStep

(* Every step keeps the row locks exclusive. *)
LEMMA NextOneHolder == IInv /\ [Next]_vars => OneHolder'
<1> SUFFICES ASSUME IInv, [Next]_vars,
                    NEW s1 \in Senders, NEW s2 \in Senders, NEW n \in Notifications,
                    Holds(s1, n)', Holds(s2, n)'
             PROVE  s1 = s2
  BY Zenon DEF OneHolder
<1>0. TypeOK /\ OneHolder
  BY Zenon DEF IInv
<1>1. ASSUME NEW s \in Senders, GetForUpdate(s) PROVE s1 = s2
  <2>1. \A r \in Senders : Holds(r, n)' => Holds(r, n) \/ (r = s /\ job[s] = n)
    BY Zenon, <1>0, <1>1 DEF TypeOK, GetForUpdate, Holds
  <2>2. job[s] = n => \A r \in Senders : ~Holds(r, n)
    BY Zenon, <1>1 DEF GetForUpdate, Locked
  <2>. QED BY Zenon, <1>0, <2>1, <2>2 DEF OneHolder
<1>2. ASSUME \A s \in Senders : ~GetForUpdate(s) PROVE s1 = s2
  <2>1. ASSUME NEW r \in Senders, Holds(r, n)' PROVE Holds(r, n)
    <3>1. CASE UNCHANGED <<pc, job>>
      BY Zenon, <2>1, <3>1 DEF Holds
    <3>2. ASSUME NEW m \in Notifications, Schedule(m) PROVE Holds(r, n)
      BY Zenon, <1>0, <2>1, <3>2 DEF TypeOK, Schedule, Holds
    <3>3. ASSUME NEW s \in Senders, SendRequest(s) PROVE Holds(r, n)
      BY Zenon, <1>0, <2>1, <3>3 DEF TypeOK, SendRequest, Holds
    <3>4. ASSUME NEW s \in Senders, Finish(s) PROVE Holds(r, n)
      BY Zenon, <1>0, <2>1, <3>4 DEF TypeOK, Finish, Holds
    <3>5. ASSUME NEW t \in TaskRuns, TaskSend(t) PROVE Holds(r, n)
      BY ZenonT(40), <1>0, <2>1, <3>5 DEF TypeOK, TaskSend, Holds
    <3>6. CASE Crash
      BY Zenon, <2>1, <3>6 DEF Crash, Holds
    <3>. QED
      BY <1>2, <3>1, <3>2, <3>3, <3>4, <3>5, <3>6, Zenon
      DEF Next, CallerStep, SenderStep, TaskStep, vars, senderVars, UpdateStatus,
          ScheduleFails, CommitTx, RollbackTx, NotFound, UrlRefused, LockTimeout, Reschedule,
          Conclude, SenderDbError, TaskList, Tick
  <2>. QED BY Zenon, <1>0, <2>1 DEF OneHolder
<1>. QED BY Zenon, <1>1, <1>2

----------------------------------------------------------------------------
(* The inductive invariant holds in every reachable state, for any number   *)
(* of notifications, task runs, attempts, crashes and database failures.    *)
THEOREM Invariance == Spec => []IInv
<1>1. IInv /\ [Next]_vars => IInv'
  BY Zenon, NextTypeOK, NextSenderInv, NextOneHolder, NextNotificationInv DEF IInv, Senders
<1>. QED BY InitIInv, <1>1, PTL DEF Spec

(* The state of scheduler, senders and task keeps its type. *)
THEOREM TypeCorrect == Spec => []TypeOK
<1>1. IInv => TypeOK
  BY Zenon DEF IInv
<1>. QED BY Invariance, <1>1, PTL

(* No receiver hears of a status change that is not committed. *)
THEOREM AnnouncedAfterCommit == Spec => []NeverAnnouncedEarly
<1>1. IInv => NeverAnnouncedEarly
  BY DEF IInv, TypeOK, NotificationInv, ProgressInv, AccountInv, NeverAnnouncedEarly
<1>. QED BY Invariance, <1>1, PTL

(* A committed notification has its row or exactly one final entry. *)
THEOREM NeitherLostNorDoubled == Spec => []RowOrFinalEntry
<1>1. ASSUME IInv, NEW n \in Notifications
      PROVE  /\ Len(history[n]) <= 1
             /\ change[n] = "committed" /\ Scheduled(n)
                  <=> stored[n] = "committed" \/ Settled(n)
             /\ ~(stored[n] = "committed" /\ Settled(n))
  <2>1. NotificationInv(n)
    BY Zenon, <1>1 DEF IInv
  <2>2. Settled(n) \/ Len(history[n]) = 0
    BY DEF Settled
  <2>3. Settled(n) => Len(history[n]) = 1
    BY Zenon, <2>1 DEF NotificationInv, ProgressInv
  <2>4. Len(history[n]) <= 1
    <3>1. CASE Len(history[n]) = 0
      BY <3>1
    <3>2. CASE Len(history[n]) = 1
      BY <3>2
    <3>. QED BY Zenon, <2>2, <2>3, <3>1, <3>2
  <2>. QED BY Zenon, <2>1, <2>4 DEF NotificationInv, ProgressInv
<1>2. IInv => RowOrFinalEntry
  BY Zenon, <1>1 DEF RowOrFinalEntry
<1>. QED BY Invariance, <1>2, PTL

(* Inside a transaction a status and its notification commit together. *)
THEOREM ChangeAndRowTogether == Spec => []TxChangeIsAnnounced
<1>1. IInv => TxChangeIsAnnounced
  BY Zenon DEF IInv, TypeOK, NotificationInv, ProgressInv, TxChangeIsAnnounced
<1>. QED BY Invariance, <1>1, PTL

(* The receiver sees at most max_attempts requests, lost ones aside. *)
THEOREM BoundedAttempts == Spec => []AttemptsBounded
<1>1. ASSUME IInv, NEW n \in Notifications PROVE posts[n] <= MaxAttempts + lost[n]
  <2>1. NotificationInv(n) /\ posts[n] \in Nat /\ lost[n] \in Nat /\ tries[n] \in Nat
        /\ MaxAttempts \in Nat
    BY Zenon, <1>1, ConstantsAssumption DEF IInv, TypeOK
  <2>2. CASE stored[n] = "committed"
    <3>1. CASE Posted(n)
      BY <2>1, <2>2, <3>1 DEF NotificationInv, AccountInv
    <3>2. CASE ~Posted(n)
      BY <2>1, <2>2, <3>2 DEF NotificationInv, AccountInv
    <3>. QED BY Zenon, <3>1, <3>2
  <2>3. CASE stored[n] # "committed"
    BY <2>1, <2>3 DEF NotificationInv, AccountInv
  <2>. QED BY Zenon, <2>2, <2>3
<1>2. IInv => AttemptsBounded
  BY Zenon, <1>1 DEF AttemptsBounded
<1>. QED BY Invariance, <1>2, PTL

(* History says Delivered only of what the receiver accepted. *)
THEOREM HistoryIsTrue == Spec => []DeliveredWasAccepted
<1>1. IInv => DeliveredWasAccepted
  BY Zenon DEF IInv, NotificationInv, ProgressInv, DeliveredWasAccepted
<1>. QED BY Invariance, <1>1, PTL

-----------------------------------------------------------------------------
(* What a single step may do to the row and the history of a notification. *)
LEMMA StepOfNotification ==
    ASSUME IInv, [Next]_vars, NEW n \in Notifications
    PROVE  /\ Settled(n) => posts'[n] = posts[n] /\ history'[n] = history[n]
           /\ tries'[n] # tries[n] => tries'[n] = tries[n] + 1 /\ dueIn'[n] >= dueIn[n]
<1>0. TypeOK /\ NotificationInv(n)
  BY Zenon DEF IInv
<1>1. CASE \E m \in Notifications : CallerStep(m)
  <2>. PICK m \in Notifications : CallerStep(m)
    BY Zenon, <1>1
  <2>1. UNCHANGED <<posts, history>>
    BY ZenonT(40) DEF CallerStep, UpdateStatus, Schedule, ScheduleFails, CommitTx, RollbackTx, ghostVars
  <2>2. CASE Schedule(m)
    <3>1. tries[m] = 0
      BY <2>2, ConstantsAssumption, ZenonT(30) DEF IInv, NotificationInv, ProgressInv, AccountInv, Schedule, Settled, Scheduled
    <3>2. tries'[n] = tries[n]
      BY Zenon, <1>0, <2>2, <3>1 DEF Schedule, TypeOK
    <3>. QED BY Zenon, <2>1, <3>2
  <2>3. CASE UpdateStatus(m) \/ ScheduleFails(m) \/ CommitTx(m) \/ RollbackTx(m)
    BY <2>1, <2>3, Zenon DEF UpdateStatus, ScheduleFails, CommitTx, RollbackTx, rowVars
  <2>. QED BY <2>2, <2>3, Zenon DEF CallerStep
<1>2. CASE \E s \in Senders : SenderStep(s) \/ LockTimeout(s) \/ SenderDbError(s)
  <2>. PICK s \in Senders : SenderStep(s) \/ LockTimeout(s) \/ SenderDbError(s)
    BY Zenon, <1>2
  <2>0. pc[s] # "idle" /\ job[s] \in Notifications
    BY BusyJob, Zenon DEF SenderStep, GetForUpdate, NotFound, UrlRefused, SendRequest, Reschedule, Conclude,
                   LockTimeout, SenderDbError
  <2>1. pc[s] \in {"sending", "settling"} =>
           ~Settled(job[s]) /\ seen[s] = tries[job[s]] /\ tries[job[s]] < MaxAttempts
    BY <2>0, ZenonT(30) DEF IInv, SenderInv, NotificationInv, ProgressInv, AccountInv
  <2>2. CASE SendRequest(s)
    BY ZenonT(40), <1>0, <2>0, <2>1, <2>2 DEF TypeOK, SendRequest, rowVars
  <2>3. CASE Reschedule(s)
    <3>1. UNCHANGED <<posts, history>>
      BY ZenonT(40), <2>3 DEF Reschedule, ghostVars
    <3>2. CASE n = job[s]
      <4>1. seen[s] \in 0..MaxAttempts /\ dueIn[n] \in Int
        BY <1>0, <2>1, <2>3, ConstantsAssumption DEF TypeOK, Reschedule
      <4>2. tries'[n] = tries[n] + 1 /\ dueIn'[n] = NextTry(dueIn[n], seen[s])
        BY Zenon, <1>0, <2>1, <2>3, <3>2 DEF TypeOK, Reschedule
      <4>. QED BY ZenonT(40), <3>1, <4>1, <4>2, NextTryType
    <3>3. CASE n # job[s]
      BY Zenon, <1>0, <2>3, <3>1, <3>3 DEF TypeOK, Reschedule
    <3>. QED BY <3>2, <3>3, ZenonT(30)
  <2>4. CASE Conclude(s)
    BY Zenon, <1>0, <2>0, <2>1, <2>4 DEF TypeOK, Conclude, ghostVars
  <2>5. CASE GetForUpdate(s) \/ NotFound(s) \/ UrlRefused(s) \/ LockTimeout(s)
             \/ SenderDbError(s)
    BY <2>5, ZenonT(30) DEF GetForUpdate, NotFound, UrlRefused, LockTimeout, SenderDbError, rowVars, ghostVars
  <2>. QED BY <2>2, <2>3, <2>4, <2>5, Zenon DEF SenderStep
<1>3. CASE \E t \in TaskRuns : TaskStep(t)
  BY Zenon, <1>3 DEF TaskStep, TaskList, TaskSend, rowVars, ghostVars
<1>4. CASE Tick \/ Crash \/ UNCHANGED vars
  BY Zenon, <1>4 DEF Tick, Crash, vars, rowVars, ghostVars
<1>. QED BY Zenon, <1>1, <1>2, <1>3, <1>4 DEF Next

(* After the final entry nothing is sent or recorded any more. *)
THEOREM FinalIsFinal == Spec => NothingAfterFinal
<1>1. IInv /\ [Next]_vars =>
        [\A n \in Notifications :
           Settled(n) => posts'[n] = posts[n] /\ history'[n] = history[n]]_vars
  BY Zenon, StepOfNotification
<1>. QED BY Invariance, <1>1, PTL DEF Spec, NothingAfterFinal

(* The attempt counter of a row goes up by one at a time, its date forward. *)
THEOREM AttemptsCounted == Spec => RescheduleMovesOn
<1>1. IInv /\ [Next]_vars =>
        [\A n \in Notifications :
           tries'[n] # tries[n] => tries'[n] = tries[n] + 1 /\ dueIn'[n] >= dueIn[n]]_vars
  BY Zenon, StepOfNotification
<1>. QED BY Invariance, <1>1, PTL DEF Spec, RescheduleMovesOn

-----------------------------------------------------------------------------
(* Initially nothing is queued. *)
LEMMA ContractInit ==
    ASSUME Init PROVE Contract!Init
  BY Zenon DEF Init, Contract!Init, ContractStatus, Settled

(* A step that commits no row, settles none and counts no attempt is a      *)
(* stuttering step of the contract.                                        *)
LEMMA ContractStutter ==
    ASSUME UNCHANGED <<history, tries>>,
           \A n \in Notifications : stored'[n] = "committed" <=> stored[n] = "committed"
    PROVE  UNCHANGED Contract!vars
  BY Zenon DEF Contract!vars, ContractStatus, Settled

(* A step that commits a row queues its notification. *)
LEMMA ContractQueue ==
    ASSUME IInv, UNCHANGED <<history, tries>>, NEW m \in Notifications,
           stored[m] # "committed", ~Settled(m),
           stored' = [stored EXCEPT ![m] = "committed"]
    PROVE  Contract!Queue(m)
<1>1. ContractStatus[m] = "silent"
  BY Zenon DEF ContractStatus
<1>2. ContractStatus' = [ContractStatus EXCEPT ![m] = "queued"]
  BY Zenon DEF ContractStatus, Settled, IInv, TypeOK
<1>. QED BY Zenon, <1>1, <1>2 DEF Contract!Queue

(* Every step of the detailed specification is one of the contract's. *)
LEMMA ContractNext == IInv /\ [Next]_vars => [Contract!Next]_(Contract!vars)
<1> SUFFICES ASSUME IInv, [Next]_vars PROVE [Contract!Next]_(Contract!vars)
  OBVIOUS
<1>0. TypeOK
  BY Zenon DEF IInv
<1>1. CASE \E m \in Notifications : CallerStep(m)
  <2>. PICK m \in Notifications : CallerStep(m)
    BY Zenon, <1>1
  <2>0. NotificationInv(m)
    BY Zenon DEF IInv
  <2>1. CASE Schedule(m)
    <3>1. stored[m] = "absent" /\ tries[m] = 0 /\ ~Settled(m)
      BY <2>0, <2>1, Zenon DEF NotificationInv, ProgressInv, AccountInv, Schedule
    <3>2. UNCHANGED <<history, tries>>
      BY Zenon, <1>0, <2>1, <3>1 DEF TypeOK, Schedule
    <3>3. CASE inTx[m]
      <4>1. \A n \in Notifications : stored'[n] = "committed" <=> stored[n] = "committed"
        BY Zenon, <1>0, <2>1, <3>1, <3>3 DEF TypeOK, Schedule
      <4>. QED BY Zenon, <3>2, <4>1, ContractStutter
    <3>4. CASE ~inTx[m]
      <4>1. stored' = [stored EXCEPT ![m] = "committed"]
        BY Zenon, <1>0, <2>1, <3>4 DEF TypeOK, Schedule
      <4>. QED BY <3>1, <3>2, <4>1, ContractQueue, Zenon DEF Contract!Next
    <3>. QED BY Zenon, <3>3, <3>4
  <2>2. CASE CommitTx(m)
    <3>1. stored[m] = "uncommitted" /\ ~Settled(m)
      BY Zenon, <2>0, <2>2 DEF NotificationInv, ProgressInv, CommitTx
    <3>. QED BY Zenon, <2>2, <3>1, ContractQueue DEF CommitTx, Contract!Next
  <2>3. CASE UpdateStatus(m) \/ ScheduleFails(m) \/ RollbackTx(m)
    <3>1. stored[m] # "committed" /\ UNCHANGED <<history, tries>>
      BY <2>0, <2>3, ZenonT(30)
      DEF NotificationInv, ProgressInv, UpdateStatus, ScheduleFails, RollbackTx, rowVars
    <3>2. \A n \in Notifications : stored'[n] = "committed" <=> stored[n] = "committed"
      BY SMTT(40), <1>0, <2>3, <3>1
      DEF TypeOK, UpdateStatus, ScheduleFails, RollbackTx, Rollback, rowVars
    <3>. QED BY Zenon, <3>1, <3>2, ContractStutter
  <2>. QED BY Zenon, <2>1, <2>2, <2>3 DEF CallerStep
<1>2. CASE \E s \in Senders : SenderStep(s) \/ LockTimeout(s) \/ SenderDbError(s)
  <2>. PICK s \in Senders : SenderStep(s) \/ LockTimeout(s) \/ SenderDbError(s)
    BY Zenon, <1>2
  <2>1. CASE Reschedule(s)
    <3>1. /\ job[s] \in Notifications /\ stored[job[s]] = "committed"
          /\ seen[s] = tries[job[s]] /\ ~Settled(job[s]) /\ job[s] \notin refused
      BY <2>1, BusyJob, Zenon DEF IInv, SenderInv, NotificationInv, ProgressInv, Reschedule
    <3>2. ContractStatus[job[s]] = "queued" /\ ContractStatus' = ContractStatus
      BY <2>1, <3>1, ZenonT(30) DEF ContractStatus, Settled, Reschedule
    <3>3. tries[job[s]] + 1 < MaxAttempts
      BY <1>0, <2>1, <3>1, ConstantsAssumption DEF TypeOK, Reschedule, MayRetry
    <3>4. tries' = [tries EXCEPT ![job[s]] = @ + 1]
      BY Zenon, <1>0, <2>1, <3>1 DEF TypeOK, Reschedule
    <3>. QED BY <3>1, <3>2, <3>3, <3>4, Zenon DEF Contract!Next, Contract!Rescheduled
  <2>2. CASE Conclude(s)
    <3>. PICK k \in Notifications : job[s] = k
      BY Zenon, <2>2, BusyJob DEF Conclude
    <3>1. stored[k] = "committed" /\ ~Settled(k) /\ k \notin refused
      BY Zenon, <2>2 DEF IInv, SenderInv, NotificationInv, ProgressInv, Conclude
    <3> DEFINE action == IF result[s] = "Delivered" THEN "Delivered" ELSE "Errored"
    <3>2. history' = [history EXCEPT ![k] = <<action>>]
      BY SMTT(40), <1>0, <2>2, <3>1 DEF TypeOK, Conclude, Settled
    <3>3. ContractStatus[k] = "queued" /\ UNCHANGED tries
      BY Zenon, <2>2, <3>1 DEF ContractStatus, Conclude
    <3>4. ContractStatus' = [ContractStatus EXCEPT ![k] = action]
      <4>1. history'[k] = <<action>> /\ <<action>> # <<>> /\ <<action>>[1] = action
        BY Zenon, <1>0, <3>2 DEF TypeOK
      <4>2. \A n \in Notifications \ {k} : history'[n] = history[n] /\ stored'[n] = stored[n]
        BY Zenon, <1>0, <2>2, <3>2 DEF TypeOK, Conclude
      <4>. HIDE DEF action
      <4>3. ContractStatus'[k] = action
        BY <4>1, Zenon DEF ContractStatus, Settled
      <4>4. \A n \in Notifications \ {k} : ContractStatus'[n] = ContractStatus[n]
        BY Zenon, <4>2 DEF ContractStatus, Settled
      <4>. QED BY <4>3, <4>4, ZenonT(30) DEF ContractStatus
    <3>. QED BY <3>1, <3>3, <3>4, Zenon DEF Contract!Next, Contract!Final
  <2>3. CASE GetForUpdate(s) \/ NotFound(s) \/ UrlRefused(s) \/ SendRequest(s)
             \/ LockTimeout(s) \/ SenderDbError(s)
    BY <2>3, ContractStutter, Zenon
    DEF GetForUpdate, NotFound, UrlRefused, SendRequest, LockTimeout, SenderDbError, rowVars
  <2>. QED BY Zenon, <2>1, <2>2, <2>3 DEF SenderStep
<1>3. CASE (\E t \in TaskRuns : TaskStep(t)) \/ Tick \/ Crash \/ UNCHANGED vars
  BY <1>3, ContractStutter, ZenonT(30) DEF TaskStep, TaskList, TaskSend, Tick, Crash, vars, rowVars
<1>. QED BY Zenon, <1>1, <1>2, <1>3 DEF Next

(* Scheduler, senders, task and crashes together do only what the contract  *)
(* of the webhook subsystem allows: the safety half of ImplementsContract.  *)
THEOREM ContractSafety == Spec => Contract!Init /\ [][Contract!Next]_(Contract!vars)
  BY Invariance, ContractInit, ContractNext, PTL DEF Spec
=============================================================================
