--------------------------- MODULE ProofLifecycle ---------------------------
(***************************************************************************)
(* One proof request on the verifier: created, shared (again and again),   *)
(* answered by wallets over OpenID4VP or over the MQTT proximity flow,     *)
(* expired, deleted or retracted by an operator, and stripped of its claim *)
(* data by an operator or by the retention task.                           *)
(*                                                                         *)
(* Every service call is a sequence of separate database statements; only  *)
(* the acceptance of a submission is one transaction (it locks the proof   *)
(* row first), so it is one step.  A call may act on a state it read       *)
(* several steps ago.                                                      *)
(*                                                                         *)
(* A submission s is also the name of the proof blob stored for it and of  *)
(* the credentials created from it; a share call h is also the name of the *)
(* interaction it creates.                                                 *)
(***************************************************************************)
EXTENDS Integers, FiniteSets

CONSTANTS Subs,       \* wallet submissions
          Shares,     \* share_proof calls
          Cleaners,   \* delete_proof_claims calls
          MaxFailures \* database errors that may hit a deletion of claim data

ASSUME FailuresAssumption == MaxFailures \in Nat
ASSUME FiniteAssumption == IsFiniteSet(Subs) /\ IsFiniteSet(Shares)

None == "none"
Retention == "retention"    \* the retention task, a cleaner like the others

\* The retention task's name is not the name of an API call, and none is the
\* name of no interaction and of no blob.
ASSUME NamesAssumption == Retention \notin Cleaners /\ None \notin Shares \cup Subs

AllCleaners == Cleaners \cup {Retention}

\* States in which a submission may decide the proof.
Open == {"pending", "requested"}

\* States delete_proof answers by removing the row.
Removable == {"created", "pending", "expired"}

States == {"none", "created", "pending", "requested", "accepted", "rejected",
           "retracted", "error", "expired", "deleted"}

VARIABLES
  row,        \* the proof row: state, interaction, proof blob, linked claims
  transport,  \* how the proof is exchanged, fixed when it is created
  inters,     \* interaction rows
  blobs,      \* proof blobs
  credData,   \* submissions whose credential claims are stored
  removed,    \* a ClaimsRemoved history entry exists
  aged,       \* expire_duration has passed since completed_date
  share, flow, sub, del, clean, failures,
  raced       \* auxiliary: submissions accepted between the read of a deletion
              \* of claim data and its unlinking

vars == <<row, transport, inters, blobs, credData, removed, aged,
          share, flow, sub, del, clean, failures, raced>>

data == <<inters, blobs, credData, removed, aged, raced>>

Exists == row.state \notin {"none", "deleted"}

Sub(pc, seen, result) == [pc |-> pc, seen |-> seen, result |-> result]
Clean(pc, creds, blob) ==
  [pc |-> pc, creds |-> creds, blob |-> blob, quiet |-> FALSE, result |-> None]
NoFlow == [pc |-> "off", inter |-> None, sub |-> None]
NoDelete == [pc |-> "idle", seen |-> None, inter |-> None, blob |-> None]

Init ==
  /\ row = [state |-> "none", inter |-> None, blob |-> None, claims |-> {}]
  /\ transport \in {"http", "mqtt"}
  /\ inters = {}
  /\ blobs = {}
  /\ credData = {}
  /\ removed = FALSE
  /\ aged = FALSE
  /\ share = [h \in Shares |-> [pc |-> "idle", prev |-> None, inter |-> None]]
  /\ flow = NoFlow
  /\ sub = [s \in Subs |-> Sub("idle", None, None)]
  /\ del = NoDelete
  /\ clean = [c \in AllCleaners |-> Clean("idle", {}, None)]
  /\ failures = 0
  /\ raced = {}

(***************************************************************************)
(* create_proof: the row appears in state Created.                         *)
(***************************************************************************)
Create ==
  /\ row.state = "none"
  /\ row' = [row EXCEPT !.state = "created"]
  /\ UNCHANGED <<transport, data, share, flow, sub, del, clean, failures>>

(***************************************************************************)
(* share_proof: load and check the state; let the protocol start (over     *)
(* MQTT it spawns the verifier flow and aborts the one of an earlier       *)
(* share) and add the interaction; point the proof to it, setting Pending  *)
(* unless the state LOADED was already Pending; delete the interaction     *)
(* loaded with the proof.                                                  *)
(***************************************************************************)
ShareLoad(h) ==
  /\ share[h].pc = "idle"
  /\ row.state \in Removable
  /\ share' = [share EXCEPT ![h] =
                 [pc |-> "loaded", prev |-> row.state, inter |-> row.inter]]
  /\ UNCHANGED <<row, transport, data, flow, sub, del, clean, failures>>

\* Aborting the flow task also ends the submission it is working on.
CutOff(subs) ==
  IF flow.sub = None THEN subs
  ELSE IF subs[flow.sub].pc = "done" THEN subs
  ELSE [subs EXCEPT ![flow.sub] = Sub("cut", None, None)]

\* The foreign key of the proof keeps the interaction it points to: deleting
\* that one is refused (deleting one that is gone already is not).
Held(i) == i # None /\ row.inter = i

\* Mutant: the previous interaction is cleared before the proof is updated.
ShareStartClearing(h) ==
  /\ share[h].pc = "loaded"
  /\ share' = [share EXCEPT ![h].pc = IF Held(share[h].inter) THEN "refused" ELSE "started"]
  /\ inters' = IF Held(share[h].inter) THEN inters
               ELSE (inters \cup {h}) \ {share[h].inter}
  /\ IF transport = "mqtt"
       THEN /\ flow' = [pc |-> "listening", inter |-> h, sub |-> None]
            /\ sub' = CutOff(sub)
       ELSE UNCHANGED <<flow, sub>>
  /\ UNCHANGED <<row, transport, blobs, credData, removed, aged, del, clean,
                 failures, raced>>

ShareStart(h) ==
  /\ share[h].pc = "loaded"
  /\ share' = [share EXCEPT ![h].pc = "started"]
  /\ inters' = inters \cup {h}
  /\ IF transport = "mqtt"
       THEN /\ flow' = [pc |-> "listening", inter |-> h, sub |-> None]
            /\ sub' = CutOff(sub)
       ELSE UNCHANGED <<flow, sub>>
  /\ UNCHANGED <<row, transport, blobs, credData, removed, aged, del, clean,
                 failures, raced>>

ShareUpdate(h) ==
  /\ share[h].pc = "started"
  /\ IF Exists
       THEN /\ row' = [row EXCEPT !.inter = h,
                         !.state = IF share[h].prev = "pending" THEN row.state ELSE "pending"]
            /\ share' = [share EXCEPT ![h].pc = "updated"]
       ELSE /\ share' = [share EXCEPT ![h] =
                            [pc |-> "failed", prev |-> None, inter |-> None]]
            /\ UNCHANGED row
  /\ UNCHANGED <<transport, data, flow, sub, del, clean, failures>>

ShareClear(h) ==
  /\ share[h].pc = "updated"
  /\ IF Held(share[h].inter)
       THEN /\ share' = [share EXCEPT ![h] =
                            [pc |-> "refused", prev |-> None, inter |-> None]]
            /\ UNCHANGED inters
       ELSE /\ share' = [share EXCEPT ![h] =
                            [pc |-> "shared", prev |-> None, inter |-> None]]
            /\ inters' = inters \ {share[h].inter}
  /\ UNCHANGED <<row, transport, blobs, credData, removed, aged, flow, sub, del,
                 clean, failures, raced>>

(***************************************************************************)
(* The MQTT verifier flow (verifier_flow): the wallet connects and gets    *)
(* the request, the proof becomes Requested; the wallet rejects, or sends  *)
(* a presentation that is stored in the flow's interaction; the submission *)
(* callback then reads the proof, with the interaction the proof points to *)
(* by then.  Any failure makes the proof Error.  None of these updates     *)
(* looks at the state of the proof.                                        *)
(***************************************************************************)
FlowRequest ==
  /\ flow.pc = "listening"
  /\ share[flow.inter].pc = "shared"
  /\ Exists
  /\ row' = [row EXCEPT !.state = "requested"]
  /\ flow' = [flow EXCEPT !.pc = "requested"]
  /\ UNCHANGED <<transport, data, share, sub, del, clean, failures>>

FlowReject ==
  /\ flow.pc = "requested"
  /\ flow' = NoFlow
  /\ row' = IF Exists THEN [row EXCEPT !.state = "rejected"] ELSE row
  /\ UNCHANGED <<transport, data, share, sub, del, clean, failures>>

FlowFail ==
  /\ flow.pc \in {"listening", "requested"}
  /\ flow' = NoFlow
  /\ row' = IF Exists THEN [row EXCEPT !.state = "error"] ELSE row
  /\ UNCHANGED <<transport, data, share, sub, del, clean, failures>>

FlowSubmit(s) ==
  /\ flow.pc = "requested"
  /\ flow.inter \in inters
  /\ Exists
  /\ sub[s].pc = "idle"
  /\ flow' = [flow EXCEPT !.pc = "callback", !.sub = s]
  /\ sub' = [sub EXCEPT ![s] = IF row.inter = flow.inter THEN Sub("read", row.state, None)
                              ELSE Sub("unparsed", None, None)]
  /\ UNCHANGED <<row, transport, data, share, del, clean, failures>>

(***************************************************************************)
(* direct_post over HTTP: the proof is found by the interaction the wallet *)
(* was given when the share call returned.                                 *)
(***************************************************************************)
DirectPost(s) ==
  /\ transport = "http"
  /\ sub[s].pc = "idle"
  /\ Exists
  /\ row.inter # None
  /\ share[row.inter].pc = "shared"
  /\ sub' = [sub EXCEPT ![s] = Sub("read", row.state, None)]
  /\ UNCHANGED <<row, transport, data, share, flow, del, clean, failures>>

(***************************************************************************)
(* verify_submission: store the presentation as a blob, validate it        *)
(* against the proof as it was read (its state is checked first), then     *)
(* either accept it or mark the proof as failed.                           *)
(***************************************************************************)
SubStore(s) ==
  /\ sub[s].pc = "read"
  /\ sub' = [sub EXCEPT ![s].pc = "stored"]
  /\ blobs' = blobs \cup {s}
  /\ UNCHANGED <<row, transport, inters, credData, removed, aged, share, flow, del,
                 clean, failures, raced>>

SubValidate(s) ==
  /\ sub[s].pc = "stored"
  /\ \/ /\ sub[s].seen \in Open
        /\ sub' = [sub EXCEPT ![s] = Sub("valid", None, None)]
     \/ sub' = [sub EXCEPT ![s] = Sub("invalid", None, None)]
  /\ UNCHANGED <<row, transport, data, share, flow, del, clean, failures>>

\* Mutant: the state is not checked again under the lock.
SubAcceptUnchecked(s) ==
  /\ sub[s].pc = "valid"
  /\ row' = [row EXCEPT !.state = "accepted", !.blob = s, !.claims = @ \cup {s}]
  /\ credData' = credData \cup {s}
  /\ aged' = FALSE
  /\ raced' = raced \cup {t \in {s} : \E c \in AllCleaners : clean[c].pc = "loaded"}
  /\ sub' = [sub EXCEPT ![s] = Sub("done", None, "ok")]
  /\ UNCHANGED <<transport, inters, blobs, removed, share, flow, del, clean, failures>>

\* persist_accepted_proof: lock the row, check its state again, create the
\* credentials, link their claims, set Accepted - all or nothing.
SubAccept(s) ==
  /\ sub[s].pc = "valid"
  /\ IF row.state \in Open
       THEN /\ row' = [row EXCEPT !.state = "accepted", !.blob = s,
                         !.claims = @ \cup {s}]
            /\ credData' = credData \cup {s}
            /\ aged' = FALSE
            /\ raced' = raced \cup
                          {t \in {s} : \E c \in AllCleaners : clean[c].pc = "loaded"}
            /\ sub' = [sub EXCEPT ![s] = Sub("done", None, "ok")]
       ELSE /\ sub' = [sub EXCEPT ![s] = Sub("done", None, "error")]
            /\ UNCHANGED <<row, credData, aged, raced>>
  /\ UNCHANGED <<transport, inters, blobs, removed, share, flow, del, clean, failures>>

\* mark_proof_as_failed: no lock, no look at the state.  The callback uses it
\* without a blob when the proof's interaction does not hold a submission.
SubMarkFailed(s) ==
  /\ sub[s].pc \in {"invalid", "unparsed"}
  /\ row' = IF Exists
              THEN [row EXCEPT !.state = "error",
                               !.blob = IF sub[s].pc = "invalid" THEN s ELSE row.blob]
              ELSE row
  /\ sub' = [sub EXCEPT ![s] = Sub("done", None, "error")]
  /\ UNCHANGED <<transport, data, share, flow, del, clean, failures>>

(***************************************************************************)
(* The interaction expiry task: one UPDATE, guarded by state = Pending.    *)
(***************************************************************************)
Expire ==
  /\ row.state = "pending"
  /\ row.inter # None
  /\ row' = [row EXCEPT !.state = "expired"]
  /\ UNCHANGED <<transport, data, share, flow, sub, del, clean, failures>>

(***************************************************************************)
(* delete_proof: load the proof; retract it from the exchange (over MQTT   *)
(* abort the flow); then, by the state loaded, delete the row and the      *)
(* interaction loaded, or set Retracted; last delete the blob loaded.      *)
(* Other states are refused.                                               *)
(***************************************************************************)
DelLoad ==
  /\ del.pc = "idle"
  /\ row.state \in Removable \cup {"requested"}
  /\ del' = [pc |-> "loaded", seen |-> row.state, inter |-> row.inter,
             blob |-> row.blob]
  /\ UNCHANGED <<row, transport, data, share, flow, sub, clean, failures>>

DelRetract ==
  /\ del.pc = "loaded"
  /\ del' = [del EXCEPT !.pc = IF del.seen = "requested" THEN "mark" ELSE "row",
                         !.seen = None]
  /\ flow' = NoFlow
  /\ sub' = CutOff(sub)
  /\ UNCHANGED <<row, transport, data, share, clean, failures>>

\* Mutant: the deletion of the row cascades to the links of its claims.
DelRowCascade ==
  /\ del.pc = "row"
  /\ row' = [state |-> "deleted", inter |-> None, blob |-> None, claims |-> {}]
  /\ removed' = FALSE
  /\ del' = [del EXCEPT !.pc = "inter"]
  /\ UNCHANGED <<transport, inters, blobs, credData, aged, share, flow, sub, clean,
                 failures, raced>>

\* The claims linked to the proof hold the row by a foreign key: the DELETE
\* fails, and the call with it.  The history goes with the row.
DelRow ==
  /\ del.pc = "row"
  /\ IF row.claims = {}
       THEN /\ row' = [state |-> "deleted", inter |-> None, blob |-> None,
                       claims |-> {}]
            /\ removed' = FALSE
            /\ del' = [del EXCEPT !.pc = "inter"]
       ELSE /\ del' = NoDelete
            /\ UNCHANGED <<row, removed>>
  /\ UNCHANGED <<transport, inters, blobs, credData, aged, share, flow, sub, clean,
                 failures, raced>>

DelInteraction ==
  /\ del.pc = "inter"
  /\ IF Held(del.inter)
       THEN del' = NoDelete /\ UNCHANGED inters
       ELSE /\ del' = [del EXCEPT !.pc = "blob"]
            /\ inters' = inters \ {del.inter}
  /\ UNCHANGED <<row, transport, blobs, credData, removed, aged, share, flow, sub,
                 clean, failures, raced>>

DelMark ==
  /\ del.pc = "mark"
  /\ row' = [row EXCEPT !.state = "retracted"]
  /\ del' = [del EXCEPT !.pc = "blob"]
  /\ UNCHANGED <<transport, data, share, flow, sub, clean, failures>>

\* Deleting a blob sets the proof's reference to it to null.
EraseBlob(b) ==
  /\ blobs' = blobs \ {b}
  /\ row' = [row EXCEPT !.blob = IF @ = b THEN None ELSE @]

DelBlob ==
  /\ del.pc = "blob"
  /\ del' = NoDelete
  /\ EraseBlob(del.blob)
  /\ UNCHANGED <<transport, inters, credData, removed, aged, share, flow, sub, clean,
                 failures, raced>>

(***************************************************************************)
(* delete_proof_claims (the API call) and RetainProofCheck::run (the       *)
(* retention task).  Both read the credentials behind the linked claims,   *)
(* then unlink the claims, then (in the history decorator) record          *)
(* ClaimsRemoved, then erase the credentials' claims, then the proof blob; *)
(* no transaction spans these statements.  (quiet is auxiliary: the call   *)
(* began after the last wallet had its answer.)                            *)
(***************************************************************************)
\* Where a call that ended leaves its cleaner: the task runs again later.
Ended(c, outcome) ==
  [pc |-> IF c = Retention THEN "idle" ELSE "done", creds |-> {}, blob |-> None,
   quiet |-> clean[c].quiet, result |-> IF c = Retention THEN None ELSE outcome]

CleanLoad(c) ==
  /\ c # Retention
  /\ clean[c].pc = "idle"
  /\ Exists
  /\ clean' = [clean EXCEPT ![c] =
                 [pc |-> "loaded", creds |-> row.claims, blob |-> row.blob,
                  quiet |-> \A s \in Subs : sub[s].pc = "done", result |-> None]]
  /\ UNCHANGED <<row, transport, data, share, flow, sub, del, failures>>

\* The task reads which proofs were processed before, lists the accepted ones
\* that are due, and reads each one's claims.
RetainHistory ==
  /\ clean[Retention].pc = "idle"
  /\ ~removed
  /\ clean' = [clean EXCEPT ![Retention].pc = "history"]
  /\ UNCHANGED <<row, transport, data, share, flow, sub, del, failures>>

RetainList ==
  /\ clean[Retention].pc = "history"
  /\ clean' = [clean EXCEPT ![Retention] =
                 IF row.state = "accepted" /\ aged THEN Clean("listed", {}, row.blob)
                 ELSE Clean("idle", {}, None)]
  /\ UNCHANGED <<row, transport, data, share, flow, sub, del, failures>>

\* Mutant: the proof is read without its claims.
RetainLoadBare ==
  /\ clean[Retention].pc = "listed"
  /\ clean' = [clean EXCEPT ![Retention] =
                 IF Exists THEN Clean("loaded", {}, clean[Retention].blob)
                 ELSE Ended(Retention, "error")]
  /\ UNCHANGED <<row, transport, data, share, flow, sub, del, failures>>

RetainLoad ==
  /\ clean[Retention].pc = "listed"
  /\ clean' = [clean EXCEPT ![Retention] =
                 IF Exists THEN Clean("loaded", row.claims, clean[Retention].blob)
                 ELSE Ended(Retention, "error")]
  /\ UNCHANGED <<row, transport, data, share, flow, sub, del, failures>>

CleanUnlink(c) ==
  /\ clean[c].pc = "loaded"
  /\ IF Exists
       THEN /\ row' = [row EXCEPT !.claims = {}]
            /\ clean' = [clean EXCEPT ![c].pc = "unlinked"]
       ELSE /\ clean' = [clean EXCEPT ![c] = Ended(c, "error")]
            /\ UNCHANGED row
  /\ UNCHANGED <<transport, data, share, flow, sub, del, failures>>

\* An error of the history insert is logged and swallowed.
CleanRecord(c) ==
  /\ clean[c].pc = "unlinked"
  /\ clean' = [clean EXCEPT ![c].pc = "recorded"]
  /\ \/ /\ removed' = TRUE
        /\ UNCHANGED failures
     \/ /\ failures < MaxFailures
        /\ failures' = failures + 1
        /\ UNCHANGED removed
  /\ UNCHANGED <<row, transport, inters, blobs, credData, aged, share, flow, sub, del, raced>>

CleanClaims(c) ==
  /\ clean[c].pc = "recorded"
  /\ clean' = [clean EXCEPT ![c].pc = "erased"]
  /\ credData' = credData \ clean[c].creds
  /\ UNCHANGED <<row, transport, inters, blobs, removed, aged, share, flow, sub, del,
                 failures, raced>>

CleanBlob(c) ==
  /\ clean[c].pc = "erased"
  /\ clean' = [clean EXCEPT ![c] = Ended(c, "ok")]
  /\ EraseBlob(clean[c].blob)
  /\ UNCHANGED <<transport, inters, credData, removed, aged, share, flow, sub, del,
                 failures, raced>>

\* A statement fails (or the process stops): what was done stays done.
CleanFail(c) ==
  /\ clean[c].pc \in {"loaded", "unlinked", "recorded", "erased"}
  /\ failures < MaxFailures
  /\ failures' = failures + 1
  /\ clean' = [clean EXCEPT ![c] = Ended(c, "error")]
  /\ UNCHANGED <<row, transport, data, share, flow, sub, del>>

\* Time passes: the retention period of the accepted proof ends.
Age ==
  /\ row.state = "accepted"
  /\ ~aged
  /\ aged' = TRUE
  /\ UNCHANGED <<row, transport, inters, blobs, credData, removed, share, flow, sub,
                 del, clean, failures, raced>>

ShareStep(h) == ShareLoad(h) \/ ShareStart(h) \/ ShareUpdate(h) \/ ShareClear(h)
FlowStep == FlowRequest \/ FlowReject \/ FlowFail \/ \E s \in Subs : FlowSubmit(s)
SubStep(s) == SubStore(s) \/ SubValidate(s) \/ SubAccept(s) \/ SubMarkFailed(s)
DelStep == DelRetract \/ DelRow \/ DelInteraction \/ DelMark \/ DelBlob
CleanStep(c) ==
  CleanUnlink(c) \/ CleanRecord(c) \/ CleanClaims(c) \/ CleanBlob(c)
RetainStep == RetainHistory \/ RetainList \/ RetainLoad

Next ==
  \/ Create
  \/ \E h \in Shares : ShareStep(h)
  \/ FlowStep
  \/ \E s \in Subs : DirectPost(s) \/ SubStep(s)
  \/ Expire
  \/ DelLoad \/ DelStep
  \/ \E c \in AllCleaners : CleanLoad(c) \/ CleanStep(c) \/ CleanFail(c)
  \/ RetainStep
  \/ Age

Spec == Init /\ [][Next]_vars

-----------------------------------------------------------------------------
(***************************************************************************)
(* Properties.                                                             *)
(***************************************************************************)

\* Every variable holds a value of its kind.
TypeOK ==
  /\ row \in [state : States, inter : Shares \cup {None},
              blob : Subs \cup {None}, claims : SUBSET Subs]
  /\ transport \in {"http", "mqtt"}
  /\ inters \subseteq Shares
  /\ blobs \subseteq Subs
  /\ credData \subseteq Subs
  /\ removed \in BOOLEAN
  /\ aged \in BOOLEAN
  /\ share \in [Shares ->
        [pc : {"idle", "loaded", "started", "updated", "shared", "refused", "failed"},
         prev : Removable \cup {None}, inter : Shares \cup {None}]]
  /\ flow \in [pc : {"off", "listening", "requested", "callback"},
               inter : Shares \cup {None}, sub : Subs \cup {None}]
  /\ sub \in [Subs ->
        [pc : {"idle", "read", "unparsed", "stored", "valid", "invalid", "cut", "done"},
         seen : States \cup {None}, result : {None, "ok", "error"}]]
  /\ del \in [pc : {"idle", "loaded", "row", "inter", "mark", "blob"},
              seen : States \cup {None}, inter : Shares \cup {None},
              blob : Subs \cup {None}]
  /\ clean \in [AllCleaners ->
        [pc : {"idle", "history", "listed", "loaded", "unlinked", "recorded",
               "erased", "done"},
         creds : SUBSET Subs, blob : Subs \cup {None}, quiet : BOOLEAN,
         result : {None, "ok", "error"}]]
  /\ failures \in 0..MaxFailures
  /\ raced \subseteq Subs

Succeeded == {s \in Subs : sub[s].result = "ok"}
Spent == {h \in Shares : share[h].pc \in {"updated", "shared", "refused"}}

\* However many wallets answer, and however their calls interleave, at most
\* one submission succeeds for each time the proof was shared: the row lock
\* and the second state check of persist_accepted_proof let a share be used
\* once.  (A second share that read the proof before the decision may reopen
\* it, so one success per proof does not hold.)
SuccessPerShare == Cardinality(Succeeded) <= Cardinality(Spent)

\* A claim linked to the proof is a claim that is stored: the transaction of
\* an acceptance creates it first, and both deletions unlink it first.
LinkedClaimsStored == row.claims \subseteq credData

\* Credentials a deletion of claim data has taken over: unlinked from the
\* proof, not erased yet.
InHand == {s \in Subs : \E c \in AllCleaners :
             clean[c].pc \in {"unlinked", "recorded"} /\ s \in clean[c].creds}

\* Stored claim data is either still linked to the proof, so the next deletion
\* finds it, or a deletion that is running erases it, however the API call, the
\* retention task and delete_proof overlap.  Two things break this, and nothing
\* else does: a statement of a deletion failed, or the submission was accepted
\* after a deletion had read the linked claims and before it unlinked them (the
\* unlinking goes by the proof, so it takes the new claims too).
NoStrandedClaims ==
  failures = 0 => credData \subseteq row.claims \cup InHand \cup raced

\* A share call that has moved the proof never fails at its last statement,
\* the deletion of the interaction it read at the start: however many calls
\* overlap, read the same predecessor or replace each other's interaction, the
\* proof has left it for good and the foreign key lets it go.
PredecessorReleased == \A h \in Shares : share[h].pc # "refused"

-----------------------------------------------------------------------------
(* The inductive invariant behind these properties.  Interactions: the proof *)
(* points only to one whose share call has moved it there, calls remember   *)
(* only such ones, and a call about to delete its predecessor knows the     *)
(* proof has left it.                                                       *)
Reached(h) == share[h].pc \in {"updated", "shared", "refused"}

InteractionInv ==
  /\ row.inter # None => Reached(row.inter) /\ row.inter \in inters
  /\ \A h \in Shares :
       /\ share[h].pc = "started" => h \in inters
       /\ share[h].pc \in {"loaded", "started", "updated"} /\ share[h].inter # None =>
            share[h].inter # h /\ Reached(share[h].inter)
       /\ share[h].pc # "refused"
       /\ share[h].pc = "updated" => row.inter # share[h].inter \/ row.inter = None
  /\ del.inter # None => Reached(del.inter)
  /\ row.state \in {"none", "deleted"} => row.inter = None /\ row.claims = {}
  /\ del.pc = "inter" => row.state = "deleted"
  /\ del.pc \in {"loaded", "row", "mark"} => Exists

\* Claim data: it stems from submissions that are through, a deletion holds
\* credentials the proof is no longer linked to, and one that is about to
\* unlink has read every linked claim but those accepted since.
ClaimsInv ==
  /\ \A s \in Subs : s \in row.claims \cup credData => sub[s].pc = "done"
  /\ \A c \in AllCleaners :
       /\ \A s \in clean[c].creds : sub[s].pc = "done"
       /\ clean[c].pc \in {"unlinked", "recorded"} => row.claims \cap clean[c].creds = {}
       /\ clean[c].pc = "loaded" => row.claims \subseteq clean[c].creds \cup raced

\* What is left of the latest share: over HTTP the proof is open; over MQTT the
\* flow of a share that went through has no submission yet that ended.
Usable ==
  IF transport = "http" THEN row.state \in Open
  ELSE /\ flow.pc # "off" /\ flow.inter \in Spent
       /\ flow.pc = "callback" => sub[flow.sub].pc \notin {"done", "cut"}

\* Over MQTT only the flow's own submission is at work.
Working == {"read", "unparsed", "stored", "valid", "invalid"}

\* Each share pays for one success: those there were, and the one that may come.
ReuseInv ==
  /\ \A s \in Subs : sub[s].result = "ok" => sub[s].pc = "done"
  /\ transport = "http" => flow.pc = "off"
  /\ transport = "mqtt" =>
       \A s \in Subs : sub[s].pc \in Working => flow.pc = "callback" /\ flow.sub = s
  /\ flow.pc # "off" => flow.inter \in Shares
  /\ flow.pc \in {"requested", "callback"} => flow.inter \in Spent
  /\ Cardinality(Succeeded) + (IF Usable THEN 1 ELSE 0) <= Cardinality(Spent)

(* All of it, with the types: the strengthening under which the properties  *)
(* of sharing, acceptance and the deletions of claim data are inductive.    *)
IInv ==
  /\ TypeOK /\ InteractionInv /\ ClaimsInv
  /\ LinkedClaimsStored /\ NoStrandedClaims /\ ReuseInv

-----------------------------------------------------------------------------
\* What the API's documentation says of delete_proof_claims: once it answered,
\* nothing remains of what wallets had shared before it was called.
ClaimDataGone ==
  \A c \in Cleaners :
    clean[c].result = "ok" /\ clean[c].quiet => blobs \cup credData = {}
=============================================================================
