--------------------------- MODULE DeliveryContract ---------------------------
(***************************************************************************)
(* What the webhook subsystem promises for each notification, without       *)
(* senders, tasks, transactions or crashes: once queued it is attempted a   *)
(* bounded number of times, never while the configuration refuses its URL,  *)
(* and if it is not refused it ends up delivered or errored, for good.     *)
(***************************************************************************)
EXTENDS Naturals

CONSTANTS Notifications, MaxAttempts

VARIABLES
    status,     \* "silent", "queued", or the action of the final history entry
    attempts,   \* failed attempts that have been accounted for
    refused     \* input: notifications whose URL the configuration refuses

(* The configuration changes as it likes: [][Next]_vars does not bind it. *)
vars == <<status, attempts>>

Init ==
    /\ status = [n \in Notifications |-> "silent"]
    /\ attempts = [n \in Notifications |-> 0]

(* The change is committed together with its notification. *)
Queue(n) ==
    /\ status[n] = "silent"
    /\ status' = [status EXCEPT ![n] = "queued"]
    /\ UNCHANGED attempts

(* NotificationResult::Rescheduled *)
Rescheduled(n) ==
    /\ status[n] = "queued"
    /\ n \notin refused
    /\ attempts[n] + 1 < MaxAttempts
    /\ attempts' = [attempts EXCEPT ![n] = @ + 1]
    /\ UNCHANGED status

(* NotificationResult::Delivered and ::Failed *)
Final(n) ==
    /\ status[n] = "queued"
    /\ n \notin refused
    /\ \E action \in {"Delivered", "Errored"} : status' = [status EXCEPT ![n] = action]
    /\ UNCHANGED attempts

Next == \E n \in Notifications : Queue(n) \/ Rescheduled(n) \/ Final(n)

Spec ==
    /\ Init /\ [][Next]_vars
    /\ \A n \in Notifications : WF_vars(Rescheduled(n) \/ Final(n))
=============================================================================
