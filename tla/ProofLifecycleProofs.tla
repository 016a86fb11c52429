------------------------ MODULE ProofLifecycleProofs ------------------------
(***************************************************************************)
(* Proofs about ProofLifecycle, for any number of submissions, shares,     *)
(* deletions of claim data and failures: the interaction the proof points  *)
(* to exists, linked claims are stored, no claim data is stranded but for  *)
(* the two reasons that NoStrandedClaims names, and each share lets at     *)
(* most one submission succeed.                                            *)
(***************************************************************************)
EXTENDS ProofLifecycle, FiniteSetTheorems, TLAPS

\* Steps of the verifier flow and of a submission, but for the acceptance.
SubOther(s) == DirectPost(s) \/ SubStore(s) \/ SubValidate(s) \/ SubMarkFailed(s)

\* Steps of a deletion of claim data that only read or record.
CleanRead == RetainHistory \/ RetainList \/ RetainLoad \/ \E c \in AllCleaners : CleanLoad(c)

(* Every step is one of these (Next). *)
LEMMA Steps ==
    ASSUME Next
    PROVE  \/ Create \/ Expire \/ Age \/ FlowStep \/ DelLoad \/ DelStep \/ CleanRead
           \/ \E h \in Shares : ShareStep(h)
           \/ \E s \in Subs : SubOther(s) \/ SubAccept(s)
           \/ \E c \in AllCleaners : CleanStep(c) \/ CleanFail(c)
BY Zenon DEF Next, SubStep, SubOther, RetainStep, CleanRead

(* Aborting a flow ends at most the submission it works on, and no         *)
(* submission that is through (CutOff).                                    *)
LEMMA CutOffType ==
    ASSUME TypeOK
    PROVE  /\ CutOff(sub) \in [Subs ->
                [pc : {"idle", "read", "unparsed", "stored", "valid", "invalid", "cut", "done"},
                 seen : States \cup {None}, result : {None, "ok", "error"}]]
           /\ \A s \in Subs : sub[s].pc = "done" => CutOff(sub)[s] = sub[s]
<1>1. CASE flow.sub = None
  BY Zenon, <1>1 DEF CutOff, TypeOK
<1>2. CASE flow.sub # None
  BY ZenonT(40), <1>2 DEF CutOff, Sub, TypeOK
<1> QED
  BY Zenon, <1>1, <1>2

(* The row's state is a proof state. *)
LEMMA RowFields ==
    ASSUME TypeOK
    PROVE  row.state \in States
BY Zenon DEF TypeOK

(* Steps of a share call keep the types (share_proof). *)
LEMMA ShareType ==
    ASSUME TypeOK, NEW h \in Shares, ShareStep(h)
    PROVE  TypeOK'
<1> USE NamesAssumption DEF TypeOK, data, Removable, States
<1>1. CASE ShareLoad(h)
  BY <1>1 DEF ShareLoad
<1>2. CASE ShareStart(h)
  <2>1. CASE transport = "mqtt"
    <3>1. sub' = CutOff(sub) /\ flow' = [pc |-> "listening", inter |-> h, sub |-> None]
      BY Zenon, <1>2, <2>1 DEF ShareStart
    <3>2. sub' \in [Subs ->
            [pc : {"idle", "read", "unparsed", "stored", "valid", "invalid", "cut", "done"},
             seen : States \cup {None}, result : {None, "ok", "error"}]]
      BY Zenon, <3>1, CutOffType
    <3>3. flow' \in [pc : {"off", "listening", "requested", "callback"},
                     inter : Shares \cup {None}, sub : Subs \cup {None}]
      BY Zenon, <3>1
    <3>4. share' = [share EXCEPT ![h].pc = "started"] /\ inters' = inters \cup {h}
      BY Zenon, <1>2 DEF ShareStart
    <3>5. UNCHANGED <<row, transport, blobs, credData, removed, aged, del, clean,
                      failures, raced>>
      BY Zenon, <1>2 DEF ShareStart
    <3>6. /\ inters' \subseteq Shares
          /\ share' \in [Shares ->
                [pc : {"idle", "loaded", "started", "updated", "shared", "refused", "failed"},
                 prev : Removable \cup {None}, inter : Shares \cup {None}]]
      BY <3>4
    <3> QED
      BY <3>2, <3>3, <3>5, <3>6
  <2>2. CASE transport # "mqtt"
    BY <1>2, <2>2 DEF ShareStart
  <2> QED
    BY Zenon, <2>1, <2>2
<1>3. CASE ShareUpdate(h)
  <2>1. CASE Exists
    <3>1. row' \in [state : States, inter : Shares \cup {None},
                     blob : Subs \cup {None}, claims : SUBSET Subs]
      <4>1. PICK st \in States : row' = [row EXCEPT !.inter = h, !.state = st]
        <5>1. CASE share[h].prev = "pending"
          BY Zenon, <1>3, <2>1, <5>1, RowFields DEF ShareUpdate
        <5>2. CASE share[h].prev # "pending"
          BY Zenon, <1>3, <2>1, <5>2 DEF ShareUpdate
        <5> QED
          BY Zenon, <5>1, <5>2
      <4> QED
        BY Zenon, <4>1
    <3>2. share' = [share EXCEPT ![h].pc = "updated"]
      BY Zenon, <1>3, <2>1 DEF ShareUpdate
    <3> QED
      BY <1>3, <3>1, <3>2 DEF ShareUpdate
  <2>2. CASE ~Exists
    BY <1>3, <2>2 DEF ShareUpdate
  <2> QED
    BY Zenon, <2>1, <2>2
<1>4. CASE ShareClear(h)
  <2>1. CASE Held(share[h].inter)
    BY <1>4, <2>1 DEF ShareClear
  <2>2. CASE ~Held(share[h].inter)
    BY <1>4, <2>2 DEF ShareClear
  <2> QED
    BY Zenon, <2>1, <2>2
<1> QED
  BY Zenon, <1>1, <1>2, <1>3, <1>4 DEF ShareStep

\* The two outcomes of persist_accepted_proof.
Accepted(s) ==
  /\ row' = [row EXCEPT !.state = "accepted", !.blob = s, !.claims = row.claims \cup {s}]
  /\ credData' = credData \cup {s}
  /\ aged' = FALSE
  /\ raced \subseteq raced' /\ raced' \subseteq raced \cup {s}
  /\ (\E c \in AllCleaners : clean[c].pc = "loaded") => s \in raced'
  /\ sub' = [sub EXCEPT ![s] = Sub("done", None, "ok")]

Refused(s) ==
  /\ UNCHANGED <<row, credData, aged, raced>>
  /\ sub' = [sub EXCEPT ![s] = Sub("done", None, "error")]

(* What an acceptance changes (persist_accepted_proof). *)
LEMMA AcceptEffect ==
    ASSUME NEW s \in Subs, SubAccept(s)
    PROVE  /\ sub[s].pc = "valid"
           /\ UNCHANGED <<transport, inters, blobs, removed, share, flow, del, clean, failures>>
           /\ (row.state \in Open /\ Accepted(s)) \/ Refused(s)
<1>1. CASE row.state \in Open
  <2>1. raced' = raced \cup {t \in {s} : \E c \in AllCleaners : clean[c].pc = "loaded"}
    BY <1>1, Zenon DEF SubAccept
  <2>2. /\ raced \subseteq raced' /\ raced' \subseteq raced \cup {s}
        /\ (\E c \in AllCleaners : clean[c].pc = "loaded") => s \in raced'
    BY Zenon, <2>1
  <2> QED
    BY <1>1, <2>2, Zenon DEF SubAccept, Accepted
<1>2. CASE row.state \notin Open
  BY <1>2, Zenon DEF SubAccept, Refused
<1> QED
  BY Zenon, <1>1, <1>2

(* Steps of the verifier flow and of submissions keep the types            *)
(* (verifier_flow, verify_submission, persist_accepted_proof).             *)
LEMMA SubType ==
    ASSUME TypeOK, FlowStep \/ \E s \in Subs : SubOther(s) \/ SubAccept(s)
    PROVE  TypeOK'
<1> USE NamesAssumption DEF TypeOK, data, States, NoFlow, Sub
<1>1. CASE FlowRequest
  BY SMTT(40), <1>1 DEF FlowRequest
<1>2. CASE FlowReject
  BY <1>2 DEF FlowReject
<1>3. CASE FlowFail
  BY <1>3 DEF FlowFail
<1>4. ASSUME NEW s \in Subs, FlowSubmit(s)
      PROVE  TypeOK'
  <2>1. sub' \in [Subs ->
          [pc : {"idle", "read", "unparsed", "stored", "valid", "invalid", "cut", "done"},
           seen : States \cup {None}, result : {None, "ok", "error"}]]
    BY Zenon, <1>4 DEF FlowSubmit
  <2>2. flow' \in [pc : {"off", "listening", "requested", "callback"},
                  inter : Shares \cup {None}, sub : Subs \cup {None}]
    BY Zenon, <1>4 DEF FlowSubmit
  <2> QED
    BY <1>4, <2>1, <2>2 DEF FlowSubmit
<1>5. ASSUME NEW s \in Subs, DirectPost(s)
      PROVE  TypeOK'
  BY <1>5 DEF DirectPost
<1>6. ASSUME NEW s \in Subs, SubStore(s)
      PROVE  TypeOK'
  BY <1>6 DEF SubStore
<1>7. ASSUME NEW s \in Subs, SubValidate(s)
      PROVE  TypeOK'
  BY <1>7 DEF SubValidate
<1>8. ASSUME NEW s \in Subs, SubAccept(s)
      PROVE  TypeOK'
  <2>1. UNCHANGED <<transport, inters, blobs, removed, share, flow, del, clean, failures>>
    BY Zenon, <1>8, AcceptEffect
  <2>2. CASE Accepted(s)
    <3>1. aged' \in BOOLEAN
      BY <2>2, Zenon DEF Accepted
    <3>2. /\ row' = [row EXCEPT !.state = "accepted", !.blob = s, !.claims = row.claims \cup {s}]
          /\ credData' = credData \cup {s}
          /\ raced' \subseteq raced \cup {s}
          /\ sub' = [sub EXCEPT ![s] = Sub("done", None, "ok")]
      BY <2>2, Zenon DEF Accepted
    <3>3. row' \in [state : States, inter : Shares \cup {None},
                    blob : Subs \cup {None}, claims : SUBSET Subs]
      BY ZenonT(40), <3>2
    <3>4. sub' \in [Subs ->
            [pc : {"idle", "read", "unparsed", "stored", "valid", "invalid", "cut", "done"},
             seen : States \cup {None}, result : {None, "ok", "error"}]]
      BY Zenon, <3>2
    <3>5. credData' \subseteq Subs /\ raced' \subseteq Subs
      BY <3>2
    <3> QED
      BY <2>1, <3>1, <3>3, <3>4, <3>5
  <2>3. CASE Refused(s)
    BY <2>1, <2>3 DEF Refused
  <2> QED
    BY Zenon, <1>8, <2>2, <2>3, AcceptEffect
<1>9. ASSUME NEW s \in Subs, SubMarkFailed(s)
      PROVE  TypeOK'
  <2>1. row' \in [state : States, inter : Shares \cup {None},
                     blob : Subs \cup {None}, claims : SUBSET Subs]
    BY ZenonT(40), <1>9 DEF SubMarkFailed
  <2> QED
    BY <1>9, <2>1 DEF SubMarkFailed
<1> QED
  BY Zenon, <1>1, <1>2, <1>3, <1>4, <1>5, <1>6, <1>7, <1>8, <1>9 DEF FlowStep, SubOther

(* Steps of a deletion keep the types (delete_proof). *)
LEMMA DelType ==
    ASSUME TypeOK, DelLoad \/ DelStep
    PROVE  TypeOK'
<1> USE NamesAssumption DEF TypeOK, data, States, NoFlow, NoDelete
<1>1. CASE DelLoad
  BY <1>1 DEF DelLoad
<1>2. CASE DelRetract
  <2>1. del' \in [pc : {"idle", "loaded", "row", "inter", "mark", "blob"},
                 seen : States \cup {None}, inter : Shares \cup {None},
                 blob : Subs \cup {None}]
    BY ZenonT(40), <1>2 DEF DelRetract
  <2>2. sub' \in [Subs ->
          [pc : {"idle", "read", "unparsed", "stored", "valid", "invalid", "cut", "done"},
           seen : States \cup {None}, result : {None, "ok", "error"}]]
    BY Zenon, <1>2, CutOffType DEF DelRetract
  <2> QED
    BY <1>2, <2>1, <2>2 DEF DelRetract
<1>3. CASE DelRow
  <2>1. CASE row.claims = {}
    <3>1. removed' \in BOOLEAN
      BY Zenon, <1>3, <2>1 DEF DelRow
    <3>2. /\ row' = [state |-> "deleted", inter |-> None, blob |-> None, claims |-> {}]
          /\ del' = [del EXCEPT !.pc = "inter"]
      BY Zenon, <1>3, <2>1 DEF DelRow
    <3> QED
      BY ZenonT(40), <1>3, <3>1, <3>2 DEF DelRow
  <2>2. CASE row.claims # {}
    BY <1>3, <2>2 DEF DelRow
  <2> QED
    BY Zenon, <2>1, <2>2
<1>4. CASE DelInteraction
  <2>1. del' \in [pc : {"idle", "loaded", "row", "inter", "mark", "blob"},
                 seen : States \cup {None}, inter : Shares \cup {None},
                 blob : Subs \cup {None}]
    <3>1. del' = NoDelete \/ del' = [del EXCEPT !.pc = "blob"]
      BY Zenon, <1>4 DEF DelInteraction
    <3> QED
      BY <3>1 DEF NoDelete
  <2>2. inters' \subseteq Shares
    BY Zenon, <1>4 DEF DelInteraction
  <2> QED
    BY <1>4, <2>1, <2>2 DEF DelInteraction
<1>5. CASE DelMark
  BY SMTT(40), <1>5 DEF DelMark
<1>6. CASE DelBlob
  BY SMTT(40), <1>6 DEF DelBlob, EraseBlob
<1> QED
  BY ZenonT(40), <1>1, <1>2, <1>3, <1>4, <1>5, <1>6 DEF DelStep

(* Steps of a deletion of claim data keep the types (delete_proof_claims,  *)
(* RetainProofCheck::run).                                                 *)
LEMMA CleanType ==
    ASSUME TypeOK, CleanRead \/ \E c \in AllCleaners : CleanStep(c) \/ CleanFail(c)
    PROVE  TypeOK'
<1> USE NamesAssumption, FailuresAssumption DEF TypeOK, data
<1>0. Retention \in AllCleaners
  BY Zenon DEF AllCleaners
<1>1. ASSUME NEW c \in AllCleaners, CleanLoad(c)
      PROVE  TypeOK'
  BY <1>1 DEF CleanLoad
<1>2. CASE RetainHistory
  BY <1>0, <1>2 DEF RetainHistory
<1>3. CASE RetainList
  <2>1. PICK x \in {Clean("listed", {}, row.blob), Clean("idle", {}, None)} :
          clean' = [clean EXCEPT ![Retention] = x]
    BY Zenon, <1>3 DEF RetainList
  <2> QED
    BY <1>0, <1>3, <2>1 DEF RetainList, Clean
<1>4. CASE RetainLoad
  <2>1. PICK x \in {Clean("loaded", row.claims, clean[Retention].blob), Ended(Retention, "error")} :
          clean' = [clean EXCEPT ![Retention] = x]
    BY Zenon, <1>4 DEF RetainLoad
  <2> QED
    BY <1>0, <1>4, <2>1 DEF RetainLoad, Clean, Ended
<1>5. ASSUME NEW c \in AllCleaners, CleanUnlink(c)
      PROVE  TypeOK'
  <2>1. CASE Exists
    <3>1. row' = [row EXCEPT !.claims = {}] /\ clean' = [clean EXCEPT ![c].pc = "unlinked"]
      BY Zenon, <1>5, <2>1 DEF CleanUnlink
    <3>2. row' \in [state : States, inter : Shares \cup {None},
                     blob : Subs \cup {None}, claims : SUBSET Subs]
      BY Zenon, <3>1
    <3>3. clean' \in [AllCleaners ->
            [pc : {"idle", "history", "listed", "loaded", "unlinked", "recorded",
                   "erased", "done"},
             creds : SUBSET Subs, blob : Subs \cup {None}, quiet : BOOLEAN,
             result : {None, "ok", "error"}]]
      BY <3>1
    <3> QED
      BY <1>5, <3>2, <3>3 DEF CleanUnlink
  <2>2. CASE ~Exists
    BY SMTT(40), <1>5, <2>2 DEF CleanUnlink, Ended
  <2> QED
    BY Zenon, <2>1, <2>2
<1>6. ASSUME NEW c \in AllCleaners, CleanRecord(c)
      PROVE  TypeOK'
  <2>1. removed' \in BOOLEAN
    BY <1>6, Zenon DEF CleanRecord
  <2>2. failures' \in 0..MaxFailures
    BY <1>6 DEF CleanRecord
  <2> QED
    BY SMTT(40), <1>6, <2>1, <2>2 DEF CleanRecord
<1>7. ASSUME NEW c \in AllCleaners, CleanClaims(c)
      PROVE  TypeOK'
  BY SMTT(40), <1>7 DEF CleanClaims
<1>8. ASSUME NEW c \in AllCleaners, CleanBlob(c)
      PROVE  TypeOK'
  BY SMTT(40), <1>8 DEF CleanBlob, EraseBlob, Ended
<1>9. ASSUME NEW c \in AllCleaners, CleanFail(c)
      PROVE  TypeOK'
  BY <1>9 DEF CleanFail, Ended
<1> QED
  BY Zenon, <1>1, <1>2, <1>3, <1>4, <1>5, <1>6, <1>7, <1>8, <1>9 DEF CleanRead, CleanStep

(* Every step keeps the types. *)
LEMMA TypeStep ==
    ASSUME TypeOK, [Next]_vars
    PROVE  TypeOK'
<1>1. CASE Create
  BY <1>1 DEF Create, TypeOK, States, data
<1>2. CASE Expire
  <2>1. row' \in [state : States, inter : Shares \cup {None},
                   blob : Subs \cup {None}, claims : SUBSET Subs]
    BY Zenon, <1>2 DEF Expire, TypeOK, States
  <2> QED
    BY <1>2, <2>1 DEF Expire, TypeOK, data
<1>3. CASE Age
  BY <1>3 DEF Age, TypeOK
<1>4. CASE UNCHANGED vars
  BY <1>4 DEF vars, TypeOK
<1> QED
  BY Zenon, <1>1, <1>2, <1>3, <1>4, Steps, ShareType, SubType, DelType, CleanType

(* A step that leaves the interaction rows, the calls that remember one    *)
(* and the proof's interaction alone, and neither removes the proof nor    *)
(* brings it back.                                                         *)
LEMMA InteractionFrame ==
    ASSUME InteractionInv, UNCHANGED <<inters, share, del>>, row'.inter = row.inter,
           \/ row'.state = row.state /\ row'.claims = row.claims
           \/ row.state # "deleted" /\ row'.state \notin {"none", "deleted"}
    PROVE  InteractionInv'
BY Zenon DEF InteractionInv, Reached, Exists

(* Share calls move the proof to their interaction before they delete the  *)
(* one they read (share_proof, clear_previous_interaction).                *)
LEMMA ShareInteraction ==
    ASSUME TypeOK, InteractionInv, NEW h \in Shares, ShareStep(h)
    PROVE  InteractionInv'
<1> USE NamesAssumption DEF TypeOK
<1>1. CASE ShareLoad(h)
  <2>1. /\ UNCHANGED <<row, inters, del>> /\ Exists /\ share[h].pc = "idle"
        /\ \A g \in Shares \ {h} : share'[g] = share[g]
        /\ share'[h].pc = "loaded" /\ share'[h].inter = row.inter
    BY ZenonT(40), <1>1 DEF ShareLoad, data, Exists, Removable
  <2> QED
    BY SMTT(40), <2>1 DEF InteractionInv, Reached, Exists
<1>2. CASE ShareStart(h)
  <2>1. /\ UNCHANGED <<row, del>> /\ inters' = inters \cup {h} /\ share[h].pc = "loaded"
        /\ \A g \in Shares \ {h} : share'[g] = share[g]
        /\ share'[h].pc = "started" /\ share'[h].inter = share[h].inter
    BY <1>2 DEF ShareStart
  <2> QED
    BY SMTT(40), <2>1 DEF InteractionInv, Reached, Exists
<1>3. CASE ShareUpdate(h)
  <2>1. /\ UNCHANGED <<inters, del>> /\ share[h].pc = "started"
        /\ \A g \in Shares \ {h} : share'[g] = share[g]
    BY <1>3 DEF ShareUpdate, data
  <2>2. CASE Exists
    <3>1. /\ row' = [row EXCEPT !.inter = h,
                       !.state = IF share[h].prev = "pending" THEN row.state ELSE "pending"]
          /\ share' = [share EXCEPT ![h].pc = "updated"]
      BY Zenon, <1>3, <2>2 DEF ShareUpdate
    <3>2. /\ row'.inter = h /\ row'.state \notin {"none", "deleted"}
          /\ share'[h].pc = "updated" /\ share'[h].inter = share[h].inter
      BY <2>2, <3>1 DEF Exists
    <3>3. h \in inters /\ row.state # "deleted"
      BY Zenon, <2>1, <2>2 DEF InteractionInv, Exists
    <3> QED
      BY <2>1, <3>2, <3>3 DEF InteractionInv, Reached, Exists
  <2>3. CASE ~Exists
    <3>1. /\ row' = row
          /\ share' = [share EXCEPT ![h] = [pc |-> "failed", prev |-> None, inter |-> None]]
      BY Zenon, <1>3, <2>3 DEF ShareUpdate
    <3>2. share'[h].pc = "failed"
      BY Zenon, <3>1
    <3> QED
      BY <2>1, <3>1, <3>2 DEF InteractionInv, Reached, Exists
  <2> QED
    BY Zenon, <2>2, <2>3
<1>4. CASE ShareClear(h)
  <2>0. ~Held(share[h].inter)
    BY Zenon, <1>4 DEF ShareClear, InteractionInv, Held
  <2>a. /\ UNCHANGED <<row, del>> /\ inters' = inters \ {share[h].inter} /\ share[h].pc = "updated"
        /\ share' = [share EXCEPT ![h] = [pc |-> "shared", prev |-> None, inter |-> None]]
    BY Zenon, <1>4, <2>0 DEF ShareClear
  <2>1. /\ UNCHANGED <<row, del>> /\ inters' = inters \ {share[h].inter} /\ share[h].pc = "updated"
        /\ \A g \in Shares \ {h} : share'[g] = share[g]
        /\ share'[h].pc = "shared"
    BY Zenon, <2>a
  <2>2. \A g \in Shares : share[g].pc = "started" => g # share[h].inter
    BY <2>1 DEF InteractionInv, Reached
  <2> QED
    BY SMTT(40), <2>1, <2>2 DEF InteractionInv, Reached, Exists
<1> QED
  BY ZenonT(40), <1>1, <1>2, <1>3, <1>4 DEF ShareStep

(* delete_proof removes the row before the interaction, and the row with   *)
(* its interaction reference.                                              *)
LEMMA DelInteractionStep ==
    ASSUME TypeOK, InteractionInv, DelLoad \/ DelStep
    PROVE  InteractionInv'
<1> USE NamesAssumption DEF TypeOK, NoDelete
<1>1. CASE DelLoad
  BY <1>1 DEF DelLoad, data, InteractionInv, Reached, Exists, Removable
<1>2. CASE DelRetract
  <2>1. /\ UNCHANGED <<row, inters, share>> /\ del.pc = "loaded" /\ del'.inter = del.inter
        /\ del'.pc \in {"mark", "row"}
    BY Zenon, <1>2 DEF DelRetract, data
  <2> QED
    BY <2>1 DEF InteractionInv, Reached, Exists
<1>3. CASE DelRow
  <2>1. CASE row.claims = {}
    <3>1. /\ UNCHANGED <<inters, share>> /\ del'.pc = "inter" /\ del'.inter = del.inter
          /\ row'.state = "deleted" /\ row'.inter = None /\ row'.claims = {}
      BY <1>3, <2>1 DEF DelRow
    <3> QED
      BY <3>1 DEF InteractionInv, Reached, Exists
  <2>2. CASE row.claims # {}
    BY <1>3, <2>2 DEF DelRow, InteractionInv, Reached, Exists
  <2> QED
    BY Zenon, <2>1, <2>2
<1>4. CASE DelInteraction
  <2>0. ~Held(del.inter)
    BY Zenon, <1>4 DEF DelInteraction, InteractionInv, Held
  <2>1. /\ UNCHANGED <<row, share>> /\ inters' = inters \ {del.inter} /\ del.pc = "inter"
        /\ del'.pc = "blob" /\ del'.inter = del.inter
    BY Zenon, <1>4, <2>0 DEF DelInteraction
  <2>2. row.inter = None /\ \A g \in Shares : share[g].pc = "started" => g # del.inter
    BY <2>1 DEF InteractionInv, Reached
  <2> QED
    BY <2>1, <2>2 DEF InteractionInv, Reached, Exists
<1>5. CASE DelMark
  <2>1. /\ UNCHANGED <<inters, share>> /\ del.pc = "mark" /\ del'.pc = "blob" /\ del'.inter = del.inter
        /\ row'.inter = row.inter /\ row'.state = "retracted"
    BY Zenon, <1>5 DEF DelMark, data
  <2> QED
    BY <2>1 DEF InteractionInv, Reached, Exists
<1>6. CASE DelBlob
  <2>1. /\ UNCHANGED <<inters, share>> /\ del'.pc = "idle" /\ del'.inter = None
        /\ row'.inter = row.inter /\ row'.state = row.state /\ row'.claims = row.claims
    BY Zenon, <1>6 DEF DelBlob, EraseBlob
  <2> QED
    BY <2>1 DEF InteractionInv, Reached, Exists
<1> QED
  BY Zenon, <1>1, <1>2, <1>3, <1>4, <1>5, <1>6 DEF DelStep

(* Every step keeps the interactions in order. *)
LEMMA InteractionStep ==
    ASSUME TypeOK, InteractionInv, [Next]_vars
    PROVE  InteractionInv'
<1> USE DEF TypeOK, data
<1>1. CASE Create
  BY Zenon, <1>1, InteractionFrame DEF Create
<1>2. CASE Expire
  BY Zenon, <1>2, InteractionFrame DEF Expire
<1>3. CASE FlowStep
  BY ZenonT(40), <1>3, InteractionFrame DEF FlowStep, FlowRequest, FlowReject, FlowFail, FlowSubmit, Exists
<1>4. ASSUME NEW s \in Subs, SubAccept(s)
      PROVE  InteractionInv'
  <2>1. UNCHANGED <<inters, share, del>>
    BY ZenonT(40), <1>4, AcceptEffect
  <2>2. \/ row' = row
        \/ row.state \in Open /\ row'.inter = row.inter /\ row'.state = "accepted"
    <3>1. \/ row' = row
          \/ /\ row.state \in Open
             /\ row' = [row EXCEPT !.state = "accepted", !.blob = s, !.claims = row.claims \cup {s}]
      BY <1>4, AcceptEffect, Zenon DEF Accepted, Refused
    <3>2. ASSUME row' = [row EXCEPT !.state = "accepted", !.blob = s, !.claims = row.claims \cup {s}]
          PROVE  row'.inter = row.inter /\ row'.state = "accepted"
      BY ZenonT(40), <3>2
    <3> QED
      BY <3>1, <3>2, Zenon
  <2> QED
    BY ZenonT(40), <2>1, <2>2, InteractionFrame DEF Open
<1>5. ASSUME NEW s \in Subs, SubOther(s)
      PROVE  InteractionInv'
  BY ZenonT(40), <1>5, InteractionFrame DEF SubOther, DirectPost, SubStore, SubValidate, SubMarkFailed, Exists
<1>6. ASSUME NEW c \in AllCleaners, CleanUnlink(c)
      PROVE  InteractionInv'
  BY <1>6, InteractionFrame DEF CleanUnlink, Exists
<1>7. ASSUME NEW c \in AllCleaners, CleanBlob(c)
      PROVE  InteractionInv'
  BY Zenon, <1>7, InteractionFrame DEF CleanBlob, EraseBlob
<1>8. ASSUME UNCHANGED <<row, inters, share, del>>
      PROVE  InteractionInv'
  BY Zenon, <1>8, InteractionFrame
<1>9. ASSUME NEW c \in AllCleaners, CleanRecord(c) \/ CleanClaims(c) \/ CleanFail(c)
      PROVE  UNCHANGED <<row, inters, share, del>>
  BY Zenon, <1>9 DEF CleanRecord, CleanClaims, CleanFail
<1>10. ASSUME CleanRead \/ Age \/ UNCHANGED vars
       PROVE  UNCHANGED <<row, inters, share, del>>
  BY Zenon, <1>10 DEF CleanRead, CleanLoad, RetainHistory, RetainList, RetainLoad, Age, vars
<1> HIDE DEF TypeOK
<1> QED
  BY Zenon, <1>1, <1>2, <1>3, <1>4, <1>5, <1>6, <1>7, <1>8, <1>9, <1>10, Steps, ShareInteraction,
     DelInteractionStep DEF CleanStep

(* The properties of claim data, together. *)
ClaimData == ClaimsInv /\ LinkedClaimsStored /\ NoStrandedClaims

(* A step that leaves claims, credentials and deletions of claim data      *)
(* alone, and submissions that are through.                                *)
LEMMA ClaimFrame ==
    ASSUME TypeOK, ClaimData, UNCHANGED <<credData, clean, raced, failures>>,
           row'.claims = row.claims,
           \A s \in Subs : sub[s].pc = "done" => sub'[s].pc = "done"
    PROVE  ClaimData'
<1>1. ClaimsInv'
  BY DEF ClaimData, ClaimsInv, TypeOK
<1>2. InHand' = InHand
  BY Zenon DEF InHand
<1> QED
  BY Zenon, <1>1, <1>2 DEF ClaimData, LinkedClaimsStored, NoStrandedClaims

(* An acceptance links the claims it stores; one that a deletion of claim  *)
(* data has not seen is recorded as raced (persist_accepted_proof).        *)
LEMMA AcceptClaims ==
    ASSUME TypeOK, ClaimData, NEW s \in Subs, SubAccept(s)
    PROVE  ClaimData'
<1>1. sub[s].pc = "valid" /\ clean' = clean /\ failures' = failures
  BY AcceptEffect, Zenon
<1>2. InHand' = InHand
  BY Zenon, <1>1 DEF InHand
<1>3. CASE Refused(s)
  <2>1. UNCHANGED <<row, credData, raced>> /\ sub' = [sub EXCEPT ![s] = Sub("done", None, "error")]
    BY <1>3, Zenon DEF Refused
  <2> QED
    BY ZenonT(40), <1>1, <2>1, ClaimFrame DEF Sub, TypeOK
<1>4. CASE Accepted(s)
  <2>1. /\ row' = [row EXCEPT !.state = "accepted", !.blob = s, !.claims = row.claims \cup {s}]
        /\ credData' = credData \cup {s}
        /\ raced \subseteq raced'
        /\ (\E c \in AllCleaners : clean[c].pc = "loaded") => s \in raced'
        /\ sub' = [sub EXCEPT ![s] = Sub("done", None, "ok")]
    BY <1>4, Zenon DEF Accepted
  <2>2. row'.claims = row.claims \cup {s}
    BY Zenon, <2>1 DEF TypeOK
  <2>3. \A t \in Subs : sub'[t].pc = "done" <=> sub[t].pc = "done" \/ t = s
    BY ZenonT(40), <2>1 DEF Sub, TypeOK
  <2>4. \A c \in AllCleaners : clean[c].creds \subseteq Subs /\ s \notin clean[c].creds
    BY Zenon, <1>1 DEF ClaimData, ClaimsInv, TypeOK
  <2>5. ClaimsInv'
    BY <1>1, <2>1, <2>2, <2>3, <2>4 DEF ClaimData, ClaimsInv, TypeOK
  <2> QED
    BY Zenon, <1>1, <1>2, <2>1, <2>2, <2>5 DEF ClaimData, LinkedClaimsStored, NoStrandedClaims
<1> QED
  BY Zenon, <1>3, <1>4, AcceptEffect

(* Deletions of claim data read, unlink, record and erase in this order    *)
(* (delete_proof_claims, RetainProofCheck::run).                           *)
LEMMA CleanClaimsStep ==
    ASSUME TypeOK, ClaimData, NEW c \in AllCleaners,
           \/ CleanLoad(c) \/ CleanStep(c) \/ CleanFail(c)
           \/ c = Retention /\ (RetainHistory \/ RetainList \/ RetainLoad)
    PROVE  ClaimData'
<1> USE DEF TypeOK, data
<1>0. sub' = sub /\ \A d \in AllCleaners \ {c} : clean'[d] = clean[d]
  BY DEF CleanLoad, CleanStep, CleanUnlink, CleanRecord, CleanClaims, CleanBlob, CleanFail,
         RetainHistory, RetainList, RetainLoad
<1>1. CASE CleanLoad(c)
  <2>1. /\ UNCHANGED <<row, credData, raced, failures>>
        /\ clean[c].pc = "idle" /\ clean'[c].pc = "loaded" /\ clean'[c].creds = row.claims
    BY Zenon, <1>1 DEF CleanLoad
  <2>2. ClaimsInv'
    BY SMTT(40), <1>0, <2>1 DEF ClaimData, ClaimsInv, LinkedClaimsStored
  <2>3. InHand \subseteq InHand'
    BY ZenonT(40), <1>0, <2>1 DEF InHand
  <2> QED
    BY Zenon, <2>1, <2>2, <2>3 DEF ClaimData, LinkedClaimsStored, NoStrandedClaims
<1>2. CASE c = Retention /\ (RetainHistory \/ RetainList \/ RetainLoad)
  <2>1. UNCHANGED <<row, credData, raced, failures>>
    BY Zenon, <1>2 DEF RetainHistory, RetainList, RetainLoad
  <2>2. /\ clean[c].pc \notin {"unlinked", "recorded"}
        /\ clean'[c].pc \in {"history", "listed", "loaded", "idle"}
        /\ clean'[c].creds \in {clean[c].creds, {}, row.claims}
        /\ clean'[c].pc = "loaded" => clean'[c].creds = row.claims
    BY SMTT(40), <1>2 DEF RetainHistory, RetainList, RetainLoad, Clean, Ended
  <2>3. ClaimsInv'
    BY SMTT(40), <1>0, <2>1, <2>2 DEF ClaimData, ClaimsInv
  <2>4. InHand \subseteq InHand'
    BY ZenonT(40), <1>0, <2>2 DEF InHand
  <2> QED
    BY Zenon, <2>1, <2>3, <2>4 DEF ClaimData, LinkedClaimsStored, NoStrandedClaims
<1>3. CASE CleanUnlink(c)
  <2>1. UNCHANGED <<credData, raced, failures>> /\ clean[c].pc = "loaded"
    BY Zenon, <1>3 DEF CleanUnlink
  <2>2. CASE Exists
    <3>1. /\ row' = [row EXCEPT !.claims = {}]
          /\ clean' = [clean EXCEPT ![c].pc = "unlinked"]
      BY ZenonT(40), <1>3, <2>2 DEF CleanUnlink
    <3>2. row'.claims = {} /\ clean'[c].pc = "unlinked" /\ clean'[c].creds = clean[c].creds
      BY <3>1
    <3>3. row.claims \subseteq clean[c].creds \cup raced
      BY Zenon, <2>1 DEF ClaimData, ClaimsInv
    <3>4. ClaimsInv'
      BY SMTT(40), <1>0, <2>1, <3>2 DEF ClaimData, ClaimsInv
    <3>5. InHand \cup clean[c].creds \subseteq InHand'
      BY ZenonT(40), <1>0, <2>1, <3>2 DEF InHand
    <3> QED
      BY ZenonT(40), <2>1, <3>2, <3>3, <3>4, <3>5 DEF ClaimData, LinkedClaimsStored, NoStrandedClaims
  <2>3. CASE ~Exists
    <3>1. row' = row /\ clean' = [clean EXCEPT ![c] = Ended(c, "error")]
      BY Zenon, <1>3, <2>3 DEF CleanUnlink
    <3>2. clean'[c].pc \in {"idle", "done"} /\ clean'[c].creds = {}
      BY Zenon, <3>1 DEF Ended
    <3> QED
      BY <1>0, <2>1, <3>1, <3>2 DEF ClaimData, ClaimsInv, LinkedClaimsStored, NoStrandedClaims, InHand
  <2> QED
    BY Zenon, <2>2, <2>3
<1>4. CASE CleanRecord(c)
  <2>1. /\ UNCHANGED <<row, credData, raced>> /\ clean[c].pc = "unlinked"
        /\ clean'[c].pc = "recorded" /\ clean'[c].creds = clean[c].creds
        /\ failures' = 0 => failures = 0
    BY SMTT(40), <1>4 DEF CleanRecord
  <2> QED
    BY SMTT(40), <1>0, <2>1 DEF ClaimData, ClaimsInv, LinkedClaimsStored, NoStrandedClaims, InHand
<1>5. CASE CleanClaims(c)
  <2>1. /\ UNCHANGED <<row, raced, failures>> /\ clean[c].pc = "recorded"
        /\ clean'[c].pc = "erased" /\ clean'[c].creds = clean[c].creds
        /\ credData' = credData \ clean[c].creds
    BY SMTT(40), <1>5 DEF CleanClaims
  <2>2. ClaimsInv'
    BY SMTT(40), <1>0, <2>1 DEF ClaimData, ClaimsInv
  <2>3. InHand \subseteq InHand' \cup clean[c].creds
    BY ZenonT(40), <1>0, <2>1 DEF InHand
  <2>4. row.claims \cap clean[c].creds = {}
    BY Zenon, <2>1 DEF ClaimData, ClaimsInv
  <2> QED
    BY Zenon, <2>1, <2>2, <2>3, <2>4 DEF ClaimData, LinkedClaimsStored, NoStrandedClaims
<1>6. CASE CleanBlob(c)
  <2>1. /\ UNCHANGED <<credData, raced, failures>> /\ clean[c].pc = "erased"
        /\ clean'[c].pc \in {"idle", "done"} /\ clean'[c].creds = {}
        /\ row'.claims = row.claims
    BY ZenonT(40), <1>6 DEF CleanBlob, EraseBlob, Ended
  <2>2. ClaimsInv'
    BY <1>0, <2>1 DEF ClaimData, ClaimsInv
  <2>3. InHand \subseteq InHand'
    BY ZenonT(40), <1>0, <2>1 DEF InHand
  <2> QED
    BY Zenon, <2>1, <2>2, <2>3 DEF ClaimData, LinkedClaimsStored, NoStrandedClaims
<1>7. CASE CleanFail(c)
  <2>1. /\ UNCHANGED <<row, credData, raced>> /\ failures' # 0
        /\ clean'[c].pc \in {"idle", "done"} /\ clean'[c].creds = {}
    BY <1>7, FailuresAssumption DEF CleanFail, Ended
  <2> QED
    BY SMTT(40), <1>0, <2>1 DEF ClaimData, ClaimsInv, LinkedClaimsStored, NoStrandedClaims
<1> QED
  BY ZenonT(40), <1>1, <1>2, <1>3, <1>4, <1>5, <1>6, <1>7 DEF CleanStep

(* Every step keeps the properties of claim data; delete_proof removes a   *)
(* proof only when no claims are linked.                                   *)
LEMMA ClaimsStep ==
    ASSUME TypeOK, ClaimData, [Next]_vars
    PROVE  ClaimData'
<1>1. CASE Create \/ Expire \/ FlowStep \/ DelLoad
  <2>1. UNCHANGED <<credData, clean, raced, failures>>
    BY Zenon, <1>1 DEF Create, Expire, FlowStep, FlowRequest, FlowReject, FlowFail,
                       FlowSubmit, DelLoad, data
  <2>2. row' = row \/ \E st : row' = [row EXCEPT !.state = st]
    BY Zenon, <1>1 DEF Create, Expire, FlowStep, FlowRequest, FlowReject, FlowFail,
                       FlowSubmit, DelLoad
  <2>3. row'.claims = row.claims
    BY Zenon, <2>2 DEF TypeOK
  <2>4. sub' = sub \/ \E s \in Subs : sub[s].pc = "idle" /\ \E v : sub' = [sub EXCEPT ![s] = v]
    BY Zenon, <1>1 DEF Create, Expire, FlowStep, FlowRequest, FlowReject, FlowFail,
                       FlowSubmit, DelLoad
  <2>5. \A s \in Subs : sub[s].pc = "done" => sub'[s].pc = "done"
    BY <2>4 DEF TypeOK
  <2> QED
    BY Zenon, <2>1, <2>3, <2>5, ClaimFrame
<1>2. ASSUME NEW h \in Shares, ShareStep(h)
      PROVE  ClaimData'
  <2>1. UNCHANGED <<credData, clean, raced, failures>> /\ row'.claims = row.claims
    BY ZenonT(40), <1>2 DEF ShareStep, ShareLoad, ShareStart, ShareUpdate, ShareClear, data, TypeOK
  <2>2. sub' = sub \/ sub' = CutOff(sub)
    BY Zenon, <1>2 DEF ShareStep, ShareLoad, ShareStart, ShareUpdate, ShareClear
  <2> QED
    BY Zenon, <2>1, <2>2, ClaimFrame, CutOffType
<1>3. ASSUME NEW s \in Subs, SubOther(s)
      PROVE  ClaimData'
  BY ZenonT(40), <1>3, ClaimFrame
     DEF SubOther, DirectPost, SubStore, SubValidate, SubMarkFailed, Sub, TypeOK, data
<1>4. CASE DelStep
  <2>1. UNCHANGED <<credData, clean, raced, failures>>
    BY Zenon, <1>4 DEF DelStep, DelRetract, DelRow, DelInteraction, DelMark, DelBlob, data
  <2>0. row'.claims = row.claims
    <3>1. CASE DelRow
      BY <3>1 DEF DelRow
    <3>2. CASE DelMark \/ DelBlob
      BY ZenonT(40), <3>2 DEF DelMark, DelBlob, EraseBlob, TypeOK
    <3>3. CASE DelRetract \/ DelInteraction
      BY Zenon, <3>3 DEF DelRetract, DelInteraction
    <3> QED
      BY ZenonT(40), <1>4, <3>1, <3>2, <3>3 DEF DelStep
  <2>2. sub' = sub \/ sub' = CutOff(sub)
    BY Zenon, <1>4 DEF DelStep, DelRetract, DelRow, DelInteraction, DelMark, DelBlob
  <2> QED
    BY ZenonT(40), <2>0, <2>1, <2>2, ClaimFrame, CutOffType
<1>5. ASSUME Age \/ UNCHANGED vars
      PROVE  ClaimData'
  BY Zenon, <1>5, ClaimFrame DEF Age, vars
<1>6. CASE CleanRead
  BY Zenon, <1>6, CleanClaimsStep DEF CleanRead, AllCleaners
<1> QED
  BY Zenon, <1>1, <1>2, <1>3, <1>4, <1>5, <1>6, Steps, AcceptClaims, CleanClaimsStep

-----------------------------------------------------------------------------
(* One success per share *)

(* There are finitely many successes and shares. *)
LEMMA Counts ==
    /\ IsFiniteSet(Succeeded) /\ Cardinality(Succeeded) \in Nat
    /\ IsFiniteSet(Spent) /\ Cardinality(Spent) \in Nat
BY Zenon, FiniteAssumption, FS_Subset, FS_CardinalityType DEF Succeeded, Spent

(* A step that adds neither a success nor a share, and makes no share      *)
(* usable again.                                                           *)
LEMMA CountKept ==
    ASSUME ReuseInv, Succeeded' = Succeeded, Spent' = Spent, Usable' => Usable
    PROVE  Cardinality(Succeeded') + (IF Usable' THEN 1 ELSE 0) <= Cardinality(Spent')
<1>1. /\ Cardinality(Succeeded) + (IF Usable THEN 1 ELSE 0) <= Cardinality(Spent)
      /\ Cardinality(Succeeded) \in Nat /\ Cardinality(Spent) \in Nat
  BY Zenon, Counts DEF ReuseInv
<1> QED
  BY <1>1

(* A step that leaves shares, flow and submissions alone and does not open *)
(* the proof (create_proof, update_expired_proofs, the deletions).         *)
LEMMA QuietReuse ==
    ASSUME ReuseInv, UNCHANGED <<transport, share, flow, sub>>,
           row'.state \in Open => row.state \in Open
    PROVE  ReuseInv'
<1>1. Succeeded' = Succeeded /\ Spent' = Spent
  BY Zenon DEF Succeeded, Spent
<1>2. Usable' => Usable
  BY Zenon, <1>1 DEF Usable
<1> QED
  BY Zenon, <1>1, <1>2, CountKept DEF ReuseInv

(* Deletions, expiry and time open no proof. *)
LEMMA QuietStep ==
    ASSUME TypeOK, ReuseInv,
           \/ Create \/ Expire \/ Age \/ DelLoad \/ DelRow \/ DelInteraction \/ DelMark \/ DelBlob
           \/ CleanRead \/ (\E c \in AllCleaners : CleanStep(c) \/ CleanFail(c))
           \/ UNCHANGED vars
    PROVE  ReuseInv'
<1> USE DEF Open, TypeOK
<1>1. CASE Create \/ Expire \/ Age \/ DelLoad \/ UNCHANGED vars
  <2>1. UNCHANGED <<transport, share, flow, sub>>
    BY ZenonT(40), <1>1 DEF Create, Expire, Age, DelLoad, vars
  <2>2. row' = row \/ row'.state \in {"created", "expired"}
    BY ZenonT(40), <1>1 DEF Create, Expire, Age, DelLoad, vars
  <2> QED
    BY ZenonT(40), <2>1, <2>2, QuietReuse
<1>2. CASE DelRow \/ DelInteraction \/ DelMark
  <2>1. UNCHANGED <<transport, share, flow, sub>>
    BY ZenonT(40), <1>2 DEF DelRow, DelInteraction, DelMark
  <2>2. row' = row \/ row'.state \in {"deleted", "retracted"}
    BY <1>2 DEF DelRow, DelInteraction, DelMark
  <2> QED
    BY ZenonT(40), <2>1, <2>2, QuietReuse
<1>3. CASE DelBlob
  <2>1. UNCHANGED <<transport, share, flow, sub>> /\ row'.state = row.state
    BY ZenonT(40), <1>3 DEF DelBlob, EraseBlob
  <2> QED
    BY ZenonT(40), <2>1, QuietReuse
<1>4. CASE CleanRead
  <2>1. UNCHANGED <<transport, share, flow, sub, row>>
    BY ZenonT(40), <1>4 DEF CleanRead, CleanLoad, RetainHistory, RetainList, RetainLoad
  <2> QED
    BY ZenonT(40), <2>1, QuietReuse
<1>5. ASSUME NEW c \in AllCleaners, CleanStep(c) \/ CleanFail(c)
      PROVE  ReuseInv'
  <2>1. UNCHANGED <<transport, share, flow, sub>>
    BY Zenon, <1>5 DEF CleanStep, CleanUnlink, CleanRecord, CleanClaims, CleanBlob, CleanFail
  <2>2. \/ row' = row \/ row' = [row EXCEPT !.claims = {}]
        \/ \E b : row' = [row EXCEPT !.blob = b]
    BY Zenon, <1>5 DEF CleanStep, CleanUnlink, CleanRecord, CleanClaims, CleanBlob, CleanFail, EraseBlob
  <2>3. row'.state = row.state
    BY ZenonT(40), <2>2
  <2> QED
    BY ZenonT(40), <2>1, <2>3, QuietReuse
<1> QED
  BY ZenonT(40), <1>1, <1>2, <1>3, <1>4, <1>5

(* A submission at work ends or moves on without success                   *)
(* (verify_submission, mark_proof_as_failed).                              *)
LEMMA SubmissionReuse ==
    ASSUME TypeOK, ReuseInv, NEW s \in Subs, sub[s].pc \in Working,
           UNCHANGED <<transport, share, flow>>, row'.state \in Open => row.state \in Open,
           \A t \in Subs \ {s} : sub'[t] = sub[t],
           sub'[s].result # "ok"
    PROVE  ReuseInv'
<1>1. Succeeded' = Succeeded /\ Spent' = Spent
  BY SMTT(40) DEF Succeeded, Spent, ReuseInv, Working
<1>2. Usable' => Usable
  <2>1. CASE transport = "http"
    BY Zenon, <2>1 DEF Usable
  <2>2. CASE transport # "http"
    <3>1. flow.sub = s /\ flow.inter \in Spent /\ flow.pc = "callback"
      BY Zenon, <2>2 DEF TypeOK, ReuseInv
    <3> QED
      BY Zenon, <2>2, <3>1 DEF Usable, Working
  <2> QED
    BY Zenon, <2>1, <2>2
<1>3. \A t \in Subs : sub'[t].result = "ok" => sub'[t].pc = "done"
  BY Zenon DEF ReuseInv
<1>4. transport = "mqtt" =>
         \A t \in Subs : sub'[t].pc \in Working => flow.pc = "callback" /\ flow.sub = t
  BY Zenon DEF ReuseInv
<1> QED
  BY Zenon, <1>1, <1>2, <1>3, <1>4, CountKept DEF ReuseInv

(* An acceptance uses up what was left of a share (persist_accepted_proof). *)
LEMMA AcceptReuse ==
    ASSUME TypeOK, ReuseInv, NEW s \in Subs, SubAccept(s)
    PROVE  ReuseInv'
<1>1. sub[s].pc = "valid" /\ UNCHANGED <<transport, share, flow>>
  BY AcceptEffect, Zenon
<1>2. CASE Refused(s)
  <2>1. row' = row /\ sub' = [sub EXCEPT ![s] = Sub("done", None, "error")]
    BY <1>2, Zenon DEF Refused
  <2>2. sub'[s].result # "ok" /\ \A t \in Subs \ {s} : sub'[t] = sub[t]
    BY ZenonT(40), <2>1 DEF Sub, TypeOK
  <2> QED
    BY Zenon, <1>1, <2>1, <2>2, SubmissionReuse DEF Working
<1>3. CASE row.state \in Open /\ Accepted(s)
  <2>1. /\ row' = [row EXCEPT !.state = "accepted", !.blob = s, !.claims = row.claims \cup {s}]
        /\ sub' = [sub EXCEPT ![s] = Sub("done", None, "ok")]
    BY <1>3, Zenon DEF Accepted
  <2>2. row'.state \notin Open
    BY ZenonT(40), <2>1 DEF TypeOK, Open
  <2>3. /\ sub'[s].pc = "done" /\ sub'[s].result = "ok"
        /\ \A t \in Subs \ {s} : sub'[t] = sub[t]
    BY ZenonT(40), <2>1 DEF Sub, TypeOK
  <2>4. sub[s].result # "ok" /\ (transport = "mqtt" => flow.pc = "callback" /\ flow.sub = s)
    BY Zenon, <1>1 DEF ReuseInv, Working
  <2>5. Succeeded' = Succeeded \cup {s} /\ s \notin Succeeded /\ Spent' = Spent
    BY Zenon, <1>1, <2>3, <2>4 DEF Succeeded, Spent
  <2>6. transport = "http" \/ transport = "mqtt"
    BY ZenonT(40) DEF TypeOK
  <2>7. Usable
    BY Zenon, <1>1, <1>3, <2>4, <2>6 DEF Usable, ReuseInv
  <2>8. ~Usable'
    BY ZenonT(40), <1>1, <2>2, <2>3, <2>4, <2>6 DEF Usable
  <2>9. Cardinality(Succeeded') + (IF Usable' THEN 1 ELSE 0) <= Cardinality(Spent')
    <3>1. Cardinality(Succeeded') = Cardinality(Succeeded) + 1
      BY ZenonT(40), <2>5, Counts, FS_AddElement
    <3>2. Cardinality(Succeeded) + 1 <= Cardinality(Spent)
      BY Zenon, <2>7 DEF ReuseInv
    <3> QED
      BY <2>5, <2>8, <3>1, <3>2, Counts
  <2>10. \A t \in Subs : sub'[t].result = "ok" => sub'[t].pc = "done"
    BY Zenon, <2>3 DEF ReuseInv
  <2>11. \A t \in Subs : sub'[t].pc \in Working => sub[t].pc \in Working
    BY ZenonT(40), <2>3 DEF Working
  <2> QED
    BY Zenon, <1>1, <2>5, <2>9, <2>10, <2>11 DEF ReuseInv
<1> QED
  BY Zenon, <1>2, <1>3, AcceptEffect

(* Submissions, but for the acceptance (direct_post, verify_submission). *)
LEMMA SubReuse ==
    ASSUME TypeOK, ReuseInv, NEW s \in Subs, SubOther(s)
    PROVE  ReuseInv'
<1>1. CASE DirectPost(s)
  <2>1. /\ transport = "http" /\ sub[s].pc = "idle" /\ UNCHANGED <<row, transport, share, flow>>
        /\ sub' = [sub EXCEPT ![s] = Sub("read", row.state, None)]
    BY <1>1, Zenon DEF DirectPost
  <2>2. /\ sub'[s].result = None /\ \A t \in Subs \ {s} : sub'[t] = sub[t]
    BY ZenonT(40), <2>1 DEF Sub, TypeOK
  <2>3. sub[s].result # "ok"
    BY Zenon, <2>1 DEF ReuseInv
  <2>4. Succeeded' = Succeeded /\ Spent' = Spent
    BY Zenon, <2>1, <2>2, <2>3 DEF Succeeded, Spent, None
  <2>5. Usable' => Usable
    BY Zenon, <2>1 DEF Usable
  <2>6. \A t \in Subs : sub'[t].result = "ok" => sub'[t].pc = "done"
    BY ZenonT(40), <2>2 DEF ReuseInv, None
  <2> QED
    BY Zenon, <2>1, <2>4, <2>5, <2>6, CountKept DEF ReuseInv
<1>2. CASE SubStore(s)
  <2>1. /\ sub[s].pc = "read" /\ UNCHANGED <<row, transport, share, flow>>
        /\ sub' = [sub EXCEPT ![s].pc = "stored"]
    BY <1>2, Zenon DEF SubStore
  <2>2. /\ sub'[s].result = sub[s].result /\ \A t \in Subs \ {s} : sub'[t] = sub[t]
    BY <2>1 DEF TypeOK
  <2>3. sub[s].result # "ok"
    BY Zenon, <2>1 DEF ReuseInv
  <2> QED
    BY Zenon, <2>1, <2>2, <2>3, SubmissionReuse DEF Working
<1>3. CASE SubValidate(s)
  <2>1. /\ sub[s].pc = "stored" /\ UNCHANGED <<row, transport, share, flow>>
        /\ sub' = [sub EXCEPT ![s] = Sub("valid", None, None)]
             \/ sub' = [sub EXCEPT ![s] = Sub("invalid", None, None)]
    BY <1>3, Zenon DEF SubValidate
  <2>2. /\ sub'[s].result = None /\ \A t \in Subs \ {s} : sub'[t] = sub[t]
    BY <2>1 DEF Sub, TypeOK
  <2> QED
    BY Zenon, <2>1, <2>2, SubmissionReuse DEF Working, None
<1>4. CASE SubMarkFailed(s)
  <2>1. /\ sub[s].pc \in {"invalid", "unparsed"} /\ UNCHANGED <<transport, share, flow>>
        /\ sub' = [sub EXCEPT ![s] = Sub("done", None, "error")]
    BY <1>4, Zenon DEF SubMarkFailed
  <2>2. /\ sub'[s].result = "error" /\ \A t \in Subs \ {s} : sub'[t] = sub[t]
    BY ZenonT(40), <2>1 DEF Sub, TypeOK
  <2>3. row' = row \/ \E b : row' = [row EXCEPT !.state = "error", !.blob = b]
    BY <1>4, Zenon DEF SubMarkFailed
  <2>4. row'.state \in Open => row.state \in Open
    BY ZenonT(40), <2>3 DEF TypeOK, Open
  <2> QED
    BY Zenon, <2>1, <2>2, <2>4, SubmissionReuse DEF Working
<1> QED
  BY ZenonT(40), <1>1, <1>2, <1>3, <1>4 DEF SubOther

(* The flow takes one submission, of a share that went through             *)
(* (verifier_flow).                                                        *)
LEMMA FlowReuse ==
    ASSUME TypeOK, ReuseInv, FlowStep
    PROVE  ReuseInv'
<1>1. CASE FlowRequest
  <2>1. /\ flow.pc = "listening" /\ share[flow.inter].pc = "shared"
        /\ flow' = [flow EXCEPT !.pc = "requested"]
        /\ UNCHANGED <<transport, share, sub>>
    BY <1>1, Zenon DEF FlowRequest
  <2>2. flow'.pc = "requested" /\ flow'.inter = flow.inter /\ flow'.sub = flow.sub
    BY Zenon, <2>1 DEF TypeOK
  <2>3. flow.inter \in Spent /\ transport # "http"
    BY Zenon, <2>1 DEF ReuseInv, Spent
  <2>4. Succeeded' = Succeeded /\ Spent' = Spent
    BY Zenon, <2>1 DEF Succeeded, Spent
  <2>5. Usable' => Usable
    BY Zenon, <2>1, <2>3 DEF Usable
  <2> QED
    BY <2>1, <2>2, <2>3, <2>4, <2>5, CountKept DEF ReuseInv
<1>2. CASE FlowReject \/ FlowFail
  <2>1. /\ flow.pc \in {"listening", "requested"} /\ flow' = NoFlow
        /\ UNCHANGED <<transport, share, sub>>
    BY Zenon, <1>2 DEF FlowReject, FlowFail
  <2>2. flow'.pc = "off" /\ transport = "mqtt"
    BY Zenon, <2>1 DEF NoFlow, ReuseInv, TypeOK
  <2>3. Succeeded' = Succeeded /\ Spent' = Spent
    BY Zenon, <2>1 DEF Succeeded, Spent
  <2>4. ~Usable'
    BY Zenon, <2>1, <2>2 DEF Usable
  <2> QED
    BY Zenon, <2>1, <2>2, <2>3, <2>4, CountKept DEF ReuseInv
<1>3. ASSUME NEW s \in Subs, FlowSubmit(s)
      PROVE  ReuseInv'
  <2>1. /\ flow.pc = "requested" /\ sub[s].pc = "idle"
        /\ flow' = [flow EXCEPT !.pc = "callback", !.sub = s]
        /\ UNCHANGED <<transport, share>>
    BY <1>3, Zenon DEF FlowSubmit
  <2>2. \E v \in {Sub("read", row.state, None), Sub("unparsed", None, None)} :
           sub' = [sub EXCEPT ![s] = v]
    BY <1>3, Zenon DEF FlowSubmit
  <2>3. flow'.pc = "callback" /\ flow'.inter = flow.inter /\ flow'.sub = s
    BY Zenon, <2>1 DEF TypeOK
  <2>4. /\ sub'[s].result = None /\ \A t \in Subs \ {s} : sub'[t] = sub[t]
    BY <2>2 DEF Sub, TypeOK
  <2>5. /\ sub[s].result # "ok" /\ transport = "mqtt"
        /\ flow.inter \in Spent /\ flow.inter \in Shares
        /\ \A t \in Subs : sub[t].pc \notin Working
    BY Zenon, <2>1 DEF ReuseInv, TypeOK
  <2>6. Succeeded' = Succeeded /\ Spent' = Spent
    BY Zenon, <2>1, <2>4, <2>5 DEF Succeeded, Spent, None
  <2>7. Usable
    BY Zenon, <2>1, <2>5 DEF Usable
  <2>8. \A t \in Subs : sub'[t].result = "ok" => sub'[t].pc = "done"
    BY Zenon, <2>4 DEF ReuseInv, None
  <2>9. \A t \in Subs : sub'[t].pc \in Working => t = s
    BY Zenon, <2>4, <2>5
  <2> QED
    BY <2>1, <2>3, <2>5, <2>6, <2>7, <2>8, <2>9, CountKept DEF ReuseInv
<1> QED
  BY Zenon, <1>1, <1>2, <1>3 DEF FlowStep

(* An abort cuts the flow's submission off, and does away with no success. *)
LEMMA CutOffReuse ==
    ASSUME TypeOK, ReuseInv, sub' = CutOff(sub)
    PROVE  /\ Succeeded' = Succeeded
           /\ \A s \in Subs : sub'[s].result = "ok" => sub'[s].pc = "done"
           /\ transport = "mqtt" => \A s \in Subs : sub'[s].pc \notin Working
           /\ flow.sub = None => sub' = sub
<1>1. CASE flow.sub = None \/ sub[flow.sub].pc = "done"
  <2>1. sub' = sub
    BY Zenon, <1>1 DEF CutOff
  <2>2. transport = "mqtt" => \A s \in Subs : sub[s].pc \notin Working
    BY Zenon, <1>1, NamesAssumption DEF ReuseInv, Working
  <2> QED
    BY Zenon, <2>1, <2>2 DEF ReuseInv, Succeeded
<1>2. CASE flow.sub # None /\ sub[flow.sub].pc # "done"
  <2>1. sub' = [sub EXCEPT ![flow.sub] = Sub("cut", None, None)] /\ flow.sub \in Subs
    BY Zenon, <1>2 DEF CutOff, TypeOK
  <2>2. /\ sub'[flow.sub].pc = "cut" /\ sub'[flow.sub].result = None
        /\ \A s \in Subs \ {flow.sub} : sub'[s] = sub[s]
    BY <2>1 DEF Sub, TypeOK
  <2>3. sub[flow.sub].result # "ok"
    BY Zenon, <1>2, <2>1 DEF ReuseInv
  <2> QED
    BY <1>2, <2>1, <2>2, <2>3 DEF ReuseInv, Succeeded, Working, None
<1> QED
  BY Zenon, <1>1, <1>2

(* Retracting ends the flow (retract_proof). *)
LEMMA RetractReuse ==
    ASSUME TypeOK, ReuseInv, DelRetract
    PROVE  ReuseInv'
<1>1. flow' = NoFlow /\ sub' = CutOff(sub) /\ UNCHANGED <<row, transport, share>>
  BY Zenon DEF DelRetract
<1>2. flow'.pc = "off"
  BY Zenon, <1>1 DEF NoFlow
<1>3. Spent' = Spent
  BY Zenon, <1>1 DEF Spent
<1>4. Usable' => Usable
  BY Zenon, <1>1, <1>2 DEF Usable
<1>5. transport = "http" \/ transport = "mqtt"
  BY Zenon DEF TypeOK
<1> QED
  BY Zenon, <1>1, <1>2, <1>3, <1>4, <1>5, CutOffReuse, CountKept DEF ReuseInv

(* A share call that went through pays for one more success (share_proof). *)
LEMMA ShareReuse ==
    ASSUME TypeOK, ReuseInv, NEW h \in Shares, ShareStep(h)
    PROVE  ReuseInv'
<1>1. CASE ShareLoad(h) \/ ShareClear(h)
  <2>1. UNCHANGED <<row, transport, flow, sub>>
    BY ZenonT(40), <1>1 DEF ShareLoad, ShareClear
  <2>2. /\ share'[h].pc \in {"updated", "shared", "refused"} <=>
             share[h].pc \in {"updated", "shared", "refused"}
        /\ \A g \in Shares \ {h} : share'[g] = share[g]
    BY <1>1 DEF ShareLoad, ShareClear, TypeOK
  <2>3. Succeeded' = Succeeded /\ Spent' = Spent
    BY Zenon, <2>1, <2>2 DEF Succeeded, Spent
  <2>4. Usable' => Usable
    BY Zenon, <2>1, <2>3 DEF Usable
  <2> QED
    BY Zenon, <2>1, <2>3, <2>4, CountKept DEF ReuseInv
<1>2. CASE ShareStart(h)
  <2>1. /\ share[h].pc = "loaded" /\ UNCHANGED <<row, transport>>
        /\ share' = [share EXCEPT ![h].pc = "started"]
    BY <1>2, Zenon DEF ShareStart
  <2>2. /\ share'[h].pc = "started"
        /\ \A g \in Shares \ {h} : share'[g] = share[g]
    BY <2>1 DEF TypeOK
  <2>3. Spent' = Spent /\ h \notin Spent
    BY Zenon, <2>1, <2>2 DEF Spent
  <2>4. CASE transport = "mqtt"
    <3>1. flow' = [pc |-> "listening", inter |-> h, sub |-> None] /\ sub' = CutOff(sub)
      BY Zenon, <1>2, <2>4 DEF ShareStart
    <3>2. flow'.pc = "listening" /\ flow'.inter = h
      BY Zenon, <3>1
    <3>3. ~Usable'
      BY Zenon, <2>1, <2>3, <2>4, <3>2 DEF Usable
    <3> QED
      BY Zenon, <2>1, <2>3, <2>4, <3>1, <3>2, <3>3, CutOffReuse, CountKept DEF ReuseInv
  <2>5. CASE transport # "mqtt"
    <3>1. UNCHANGED <<flow, sub>>
      BY ZenonT(40), <1>2, <2>5 DEF ShareStart
    <3>2. Succeeded' = Succeeded /\ (Usable' => Usable)
      BY ZenonT(40), <2>1, <2>3, <3>1 DEF Succeeded, Usable
    <3> QED
      BY ZenonT(40), <2>1, <2>3, <3>1, <3>2, CountKept DEF ReuseInv
  <2> QED
    BY Zenon, <2>4, <2>5
<1>3. CASE ShareUpdate(h) /\ ~Exists
  <2>1. /\ share[h].pc = "started" /\ UNCHANGED <<row, transport, flow, sub>>
        /\ share' = [share EXCEPT ![h] = [pc |-> "failed", prev |-> None, inter |-> None]]
    BY ZenonT(40), <1>3 DEF ShareUpdate
  <2>2. /\ share'[h].pc = "failed"
        /\ \A g \in Shares \ {h} : share'[g] = share[g]
    BY ZenonT(40), <2>1 DEF TypeOK
  <2>3. Succeeded' = Succeeded /\ Spent' = Spent
    BY ZenonT(40), <2>1, <2>2 DEF Succeeded, Spent
  <2>4. Usable' => Usable
    BY Zenon, <2>1, <2>3 DEF Usable
  <2> QED
    BY ZenonT(40), <2>1, <2>3, <2>4, CountKept DEF ReuseInv
<1>4. CASE ShareUpdate(h) /\ Exists
  <2>1. /\ share[h].pc = "started" /\ UNCHANGED <<transport, flow, sub>>
        /\ share' = [share EXCEPT ![h].pc = "updated"]
    BY ZenonT(40), <1>4 DEF ShareUpdate
  <2>2. /\ share'[h].pc = "updated"
        /\ \A g \in Shares \ {h} : share'[g] = share[g]
    BY <2>1 DEF TypeOK
  <2>3. Succeeded' = Succeeded /\ Spent' = Spent \cup {h} /\ h \notin Spent
    BY ZenonT(40), <2>1, <2>2 DEF Succeeded, Spent
  <2>4. Cardinality(Succeeded') + (IF Usable' THEN 1 ELSE 0) <= Cardinality(Spent')
    <3>1. Cardinality(Spent') = Cardinality(Spent) + 1
      BY Zenon, <2>3, Counts, FS_AddElement
    <3>2. /\ Cardinality(Succeeded) + (IF Usable THEN 1 ELSE 0) <= Cardinality(Spent)
          /\ Cardinality(Succeeded) \in Nat /\ Cardinality(Spent) \in Nat
      BY ZenonT(40), Counts DEF ReuseInv
    <3> QED
      BY <2>3, <3>1, <3>2
  <2> QED
    BY ZenonT(40), <2>1, <2>3, <2>4 DEF ReuseInv
<1> QED
  BY Zenon, <1>1, <1>2, <1>3, <1>4 DEF ShareStep

(* Every step keeps the account of shares and successes. *)
LEMMA ReuseStep ==
    ASSUME TypeOK, ReuseInv, [Next]_vars
    PROVE  ReuseInv'
BY ZenonT(40), Steps, QuietStep, ShareReuse, FlowReuse, SubReuse, AcceptReuse, RetractReuse DEF DelStep

-----------------------------------------------------------------------------
(* The theorems *)

(* The initial state satisfies the invariant. *)
LEMMA InitInv == Init => IInv
<1> SUFFICES ASSUME Init
             PROVE  IInv
  BY Zenon
<1> USE NamesAssumption, FailuresAssumption DEF Init
<1>1. TypeOK
  <2>1. removed \in BOOLEAN /\ aged \in BOOLEAN
    BY Zenon
  <2>2. /\ row \in [state : States, inter : Shares \cup {None},
                    blob : Subs \cup {None}, claims : SUBSET Subs]
        /\ flow \in [pc : {"off", "listening", "requested", "callback"},
                     inter : Shares \cup {None}, sub : Subs \cup {None}]
        /\ del \in [pc : {"idle", "loaded", "row", "inter", "mark", "blob"},
                    seen : States \cup {None}, inter : Shares \cup {None},
                    blob : Subs \cup {None}]
    BY Zenon DEF NoFlow, NoDelete, States
  <2>3. /\ share \in [Shares ->
              [pc : {"idle", "loaded", "started", "updated", "shared", "refused", "failed"},
               prev : Removable \cup {None}, inter : Shares \cup {None}]]
        /\ sub \in [Subs ->
              [pc : {"idle", "read", "unparsed", "stored", "valid", "invalid", "cut", "done"},
               seen : States \cup {None}, result : {None, "ok", "error"}]]
        /\ clean \in [AllCleaners ->
              [pc : {"idle", "history", "listed", "loaded", "unlinked", "recorded", "erased", "done"},
               creds : SUBSET Subs, blob : Subs \cup {None}, quiet : BOOLEAN,
               result : {None, "ok", "error"}]]
    BY Zenon DEF Sub, Clean
  <2> QED
    BY <2>1, <2>2, <2>3 DEF TypeOK
<1>2. InteractionInv
  BY Zenon DEF InteractionInv, NoDelete, Exists
<1>3. ClaimsInv
  BY ZenonT(40) DEF ClaimsInv, Clean
<1>4. ReuseInv
  <2>1. \A s \in Subs : sub[s].pc = "idle" /\ sub[s].result = None
    BY Zenon DEF Sub
  <2>2. flow.pc = "off" /\ row.state = "none"
    BY Zenon DEF NoFlow
  <2>3. Succeeded = {} /\ Spent = {}
    BY Zenon, <2>1 DEF Succeeded, Spent, None
  <2>4. ~Usable
    BY Zenon, <2>2 DEF Usable, Open
  <2>5. Cardinality({}) = 0
    BY Zenon, FS_EmptySet
  <2> QED
    BY <2>1, <2>2, <2>3, <2>4, <2>5 DEF ReuseInv, Working, None
<1> QED
  BY ZenonT(40), <1>1, <1>2, <1>3, <1>4 DEF IInv, LinkedClaimsStored, NoStrandedClaims

(* Types, interactions and claim data stay consistent in every reachable   *)
(* state of a proof.                                                       *)
THEOREM Invariant == Spec => []IInv
<1>1. ASSUME IInv, [Next]_vars
      PROVE  IInv'
  BY ZenonT(40), <1>1, TypeStep, InteractionStep, ClaimsStep, ReuseStep DEF IInv, ClaimData
<1> QED
  BY <1>1, InitInv, PTL DEF Spec

(* However many wallets answer and however share calls, flows and           *)
(* deletions interleave, each share lets at most one submission succeed    *)
(* (share_proof, verifier_flow, persist_accepted_proof).                   *)
THEOREM OneSuccessPerShare == Spec => []SuccessPerShare
<1>1. IInv => SuccessPerShare
  <2> SUFFICES ASSUME ReuseInv
               PROVE  Cardinality(Succeeded) <= Cardinality(Spent)
    BY ZenonT(40) DEF IInv, SuccessPerShare
  <2> QED
    BY Counts DEF ReuseInv
<1> QED
  BY <1>1, Invariant, PTL

(* Calls, rows and blobs keep their types. *)
THEOREM TypeCorrect == Spec => []TypeOK
<1>1. IInv => TypeOK
  BY ZenonT(40) DEF IInv
<1> QED
  BY <1>1, Invariant, PTL

(* A share call's deletion of the interaction it replaced is never refused  *)
(* by the foreign key, however many share calls and deletions overlap.      *)
THEOREM NeverRefused == Spec => []PredecessorReleased
<1>1. IInv => PredecessorReleased
  BY ZenonT(40) DEF IInv, InteractionInv, PredecessorReleased
<1> QED
  BY <1>1, Invariant, PTL

(* A claim linked to the proof is stored. *)
THEOREM ClaimsStored == Spec => []LinkedClaimsStored
<1>1. IInv => LinkedClaimsStored
  BY Zenon DEF IInv
<1> QED
  BY <1>1, Invariant, PTL

(* No claim data is stranded by overlapping deletions but for a failed     *)
(* statement or an acceptance between reading and unlinking.               *)
THEOREM NothingStranded == Spec => []NoStrandedClaims
<1>1. IInv => NoStrandedClaims
  BY Zenon DEF IInv
<1> QED
  BY <1>1, Invariant, PTL
=============================================================================
