---------------------- MODULE CredentialLifecycleProofs ----------------------
(***************************************************************************)
(* Second part of the proof that IInv is an invariant of                    *)
(* CredentialLifecycle: nonces, deliveries and status list entries, the    *)
(* credential state; and the theorems that follow.                         *)
(***************************************************************************)
EXTENDS LifecycleStepProofs, FiniteSetTheorems

(* IssueInv speaks of the credential requests, the nonce, the number of      *)
(* entries, and of a code that was used.                                   *)
LEMMA IssueFrame ==
    ASSUME IInv, Same(CredentialRequests), nonceId' = nonceId,
           Len(entries') = Len(entries), data.codeUsed => data'.codeUsed
    PROVE  IssueInv' /\ Issued' = Issued
<1>0. IssueInv
  BY Zenon DEF IInv
<1>1. Issued' = Issued
  BY Zenon DEF Issued, Same
<1>2. \A r \in CredentialRequests :
         /\ InFlight(r)' <=> InFlight(r)
         /\ PastNonce(r)' <=> PastNonce(r)
         /\ input'[r] = input[r] /\ pc'[r] = pc[r]
  BY ZenonT(40) DEF InFlight, PastNonce, Same
<1>3. \A r \in Issued : r \in CredentialRequests
  BY ZenonT(40) DEF Issued
<1>4. NonceIssuesOnce'
  BY <1>0, <1>1, <1>2, <1>3 DEF IssueInv, NonceIssuesOnce
<1>5. NoOrphanEntries'
  BY ZenonT(40), <1>0, <1>1 DEF IssueInv, NoOrphanEntries
<1>. QED BY ZenonT(40), <1>0, <1>1, <1>2, <1>4, <1>5 DEF IssueInv

(* A credential request that neither spends its nonce nor delivers. *)
LEMMA IssueAside ==
    ASSUME IInv, NEW r \in CredentialRequests, Same(CredentialRequests \ {r}),
           data' = data, nonceId' = nonceId, entries' = entries,
           r \notin Issued, answer'[r] # "credential",
           InFlight(r)' => input'[r] # None /\ input'[r].nonce \in Nonces /\ data.codeUsed,
           PastNonce(r)' => PastNonce(r)
    PROVE  IssueInv' /\ Issued' = Issued
<1>0. IssueInv
  BY Zenon DEF IInv
<1>1. Issued' = Issued
  BY Zenon DEF Issued, Same
<1>2. \A q \in CredentialRequests \ {r} :
         /\ InFlight(q)' <=> InFlight(q)
         /\ PastNonce(q)' <=> PastNonce(q)
         /\ input'[q] = input[q] /\ pc'[q] = pc[q]
  BY ZenonT(40) DEF InFlight, PastNonce, Same
<1>3. \A q \in Issued : q \in CredentialRequests \ {r}
  BY ZenonT(40) DEF Issued
<1>4. NonceIssuesOnce'
  BY <1>0, <1>1, <1>2, <1>3 DEF IssueInv, NonceIssuesOnce
<1>5. NoOrphanEntries'
  BY Zenon, <1>0, <1>1 DEF IssueInv, NoOrphanEntries
<1>6. \A q \in CredentialRequests : PastNonce(q)' => PastNonce(q)
  BY Zenon, <1>2
<1>. QED BY ZenonT(40), <1>0, <1>1, <1>2, <1>3, <1>4, <1>5, <1>6 DEF IssueInv

(* Storing a nonce: no request had spent one before. *)
LEMMA MarkIssueInv ==
    ASSUME IInv, NEW r \in CredentialRequests, MarkNonce(r)
    PROVE  IssueInv' /\ Issued' = Issued
<1>0. TypeOK /\ IssueInv /\ r \in Requests /\ Same(CredentialRequests \ {r})
  BY ZenonT(40), Kinds, CredentialStepLocal DEF IInv, CredentialStep, Same
<1>1. /\ pc[r] = "marking" /\ pc'[r] = "attesting" /\ answer' = answer /\ input' = input
      /\ data' = data /\ entries' = entries /\ nonceId = None /\ nonceId' = input[r].nonce
  BY Zenon, <1>0 DEF MarkNonce, Goto, TypeOK
<1>2. input[r] # None /\ input[r].nonce \in Nonces /\ data.codeUsed /\ r \notin Issued
  BY Zenon, <1>0, <1>1 DEF IssueInv, InFlight
<1>3. Issued' = Issued
  BY ZenonT(40), <1>1 DEF Issued
<1>4. nonceId' # None
  BY ZenonT(40), <1>1, <1>2, KindsAssumption
<1>5. \A q \in CredentialRequests \ {r} :
         /\ InFlight(q)' <=> InFlight(q)
         /\ ~PastNonce(q)'
         /\ pc'[q] = pc[q]
  BY ZenonT(40), <1>0, <1>1 DEF InFlight, PastNonce, Same, IssueInv
<1>6. NonceIssuesOnce' /\ NoOrphanEntries'
  BY ZenonT(40), <1>0, <1>1, <1>3 DEF IssueInv, NonceIssuesOnce, NoOrphanEntries
<1>7. \A q \in CredentialRequests : PastNonce(q)' => q = r
  BY ZenonT(40), <1>5
<1>8. \A q \in CredentialRequests : InFlight(q)' => input'[q] # None /\ input'[q].nonce \in Nonces
  BY ZenonT(40), <1>0, <1>1, <1>2, <1>5 DEF IssueInv
<1>9. \A q \in CredentialRequests : InFlight(q)' \/ q \in Issued' => data'.codeUsed
  BY ZenonT(40), <1>1, <1>2
<1>10. \A q \in CredentialRequests : q \in Issued' => pc'[q] = "done" /\ input'[q] # None
  BY <1>0, <1>1, <1>2, <1>3, <1>5 DEF IssueInv
<1>11. \A p, q \in CredentialRequests : PastNonce(p)' /\ PastNonce(q)' => p = q
  BY ZenonT(40), <1>7
<1>12. IssueInv'
  BY <1>4, <1>6, <1>8, <1>9, <1>10, <1>11 DEF IssueInv
<1>. QED BY Zenon, <1>3, <1>12

(* A delivery: one more credential, one more entry, and a nonce that no      *)
(* delivered credential was asked for with.                                *)
LEMMA CommitIssueInv ==
    ASSUME IInv, NEW r \in CredentialRequests, IssueCommit(r)
    PROVE  IssueInv' /\ r \notin Issued /\ Issued' = Issued \cup {r}
<1>0. TypeOK /\ LockInv /\ IssueInv /\ r \in Requests /\ Same(CredentialRequests \ {r})
  BY ZenonT(40), Kinds, CredentialStepLocal DEF IInv, CredentialStep, Same
<1>1. /\ pc[r] = "issuing" /\ pc'[r] = "done" /\ answer'[r] = "credential"
      /\ input' = input /\ nonceId' = nonceId
  BY ZenonT(40), <1>0 DEF IssueCommit, Answer, Goto, TypeOK
<1>2. InFlight(r) /\ PastNonce(r)
  BY ZenonT(40), <1>1 DEF InFlight, PastNonce
<1>3. /\ input[r] # None /\ input[r].nonce \in Nonces /\ data.codeUsed
      /\ nonceId # None /\ r \notin Issued
  BY ZenonT(40), <1>0, <1>1, <1>2 DEF IssueInv
<1>4. Issued' = Issued \cup {r}
  BY <1>0, <1>1 DEF Issued, Same
<1>5. copy[r] = data
  BY ZenonT(40), <1>0, <1>1, Kinds DEF LockInv
<1>6. data'.codeUsed
  BY ZenonT(40), <1>0, <1>3, <1>5 DEF IssueCommit, TypeOK, InteractionData
<1>7. \A q \in CredentialRequests \ {r} :
         /\ InFlight(q)' <=> InFlight(q)
         /\ PastNonce(q)' <=> PastNonce(q)
         /\ pc'[q] = pc[q]
  BY ZenonT(40), <1>0 DEF InFlight, PastNonce, Same
<1>8. ASSUME NEW q \in Issued, input[q].nonce = input[r].nonce PROVE FALSE
  <2>1. q \in CredentialRequests /\ PastNonce(q)
    BY ZenonT(40), <1>3, <1>8, KindsAssumption DEF Issued, PastNonce
  <2>. QED BY ZenonT(40), <1>0, <1>2, <1>3, <1>8, <2>1 DEF IssueInv
<1>9. NonceIssuesOnce'
  BY <1>0, <1>1, <1>4, <1>8 DEF IssueInv, NonceIssuesOnce
<1>10. NoOrphanEntries'
  <2>1. SUFFICES ASSUME Revocation = "list" PROVE Len(entries') = Cardinality(Issued')
    BY Zenon DEF NoOrphanEntries
  <2>2. Len(entries') = Len(entries) + 1
    BY <1>0, <2>1 DEF IssueCommit, TypeOK
  <2>3. IsFiniteSet(Issued)
    BY Zenon, FS_Subset, KindsAssumption DEF Issued
  <2>4. Cardinality(Issued') = Cardinality(Issued) + 1
    BY Zenon, <1>3, <1>4, <2>3, FS_AddElement
  <2>. QED BY ZenonT(40), <1>0, <2>1, <2>2, <2>4 DEF IssueInv, NoOrphanEntries
<1>11. ~InFlight(r)'
  BY ZenonT(40), <1>1 DEF InFlight
<1>12. \A q \in CredentialRequests : PastNonce(q)' => PastNonce(q)
  BY ZenonT(40), <1>2, <1>7
<1>13. \A q \in CredentialRequests : InFlight(q)' => input'[q] # None /\ input'[q].nonce \in Nonces
  BY ZenonT(40), <1>0, <1>1, <1>7, <1>11 DEF IssueInv
<1>14. \A q \in CredentialRequests : q \in Issued' => pc'[q] = "done" /\ input'[q] # None
  BY ZenonT(40), <1>0, <1>1, <1>3, <1>4, <1>7 DEF IssueInv
<1>15. \A q \in CredentialRequests : PastNonce(q)' => nonceId' # None
  BY ZenonT(40), <1>1, <1>3
<1>16. \A p, q \in CredentialRequests : PastNonce(p)' /\ PastNonce(q)' => p = q
  BY <1>0, <1>12 DEF IssueInv
<1>17. IssueInv'
  BY <1>6, <1>9, <1>10, <1>13, <1>14, <1>15, <1>16 DEF IssueInv
<1>. QED BY ZenonT(40), <1>3, <1>4, <1>17

(* Every step keeps IssueInv, and only a commit delivers. *)
LEMMA NextIssueInv ==
    IInv /\ [Next]_vars
      => /\ IssueInv'
         /\ \/ Issued' = Issued
            \/ \E r \in CredentialRequests :
                  IssueCommit(r) /\ r \notin Issued /\ Issued' = Issued \cup {r}
<1> SUFFICES ASSUME IInv, [Next]_vars, ~\E r \in CredentialRequests : IssueCommit(r)
             PROVE  IssueInv' /\ Issued' = Issued
  BY ZenonT(40), CommitIssueInv
<1>0. TypeOK /\ IssueInv /\ TokenInv
  BY ZenonT(40) DEF IInv
<1>1. CASE UNCHANGED vars \/ ExpireOffer \/ Tick
  <2>1. Same(CredentialRequests) /\ data' = data /\ nonceId' = nonceId /\ entries' = entries
    BY ZenonT(40), <1>1 DEF Same, vars, rowVars, requestVars, ExpireOffer, Tick
  <2>. QED BY ZenonT(40), <2>1, IssueFrame
<1>2. ASSUME NEW r \in TokenRequests, TokenStep(r) PROVE IssueInv' /\ Issued' = Issued
  <2>1. Same(CredentialRequests) /\ nonceId' = nonceId /\ entries' = entries
           /\ (TokenGrant(r) \/ data' = data)
    BY Zenon, <1>0, <1>2, TokenLeaves
  <2>2. data.codeUsed => data'.codeUsed
    BY <2>1 DEF TokenGrant
  <2>. QED BY ZenonT(40), <2>1, <2>2, IssueFrame
<1>3. ASSUME NEW r \in CredentialRequests, CredentialStep(r) PROVE IssueInv' /\ Issued' = Issued
  <2>0. Same(CredentialRequests \ {r}) /\ r \in Requests /\ pc[r] # "done"
    BY Zenon, <1>0, <1>3, CredentialLeaves
  <2>1. CASE MarkNonce(r)
    BY ZenonT(40), <2>1, MarkIssueInv
  <2>2. CASE ~MarkNonce(r)
    <3>1. data' = data /\ nonceId' = nonceId /\ entries' = entries
      BY Zenon, <1>0, <1>3, <2>2, CredentialLeaves
    <3>3. r \notin Issued /\ answer[r] # "credential"
      BY <1>0, <2>0 DEF IssueInv, Issued
    <3>4. CASE CredentialCheck(r)
      <4>1. /\ input'[r] \in CredentialInputs /\ input'[r].nonce \in Nonces
            /\ data.codeUsed /\ pc'[r] = "marking" /\ answer' = answer
        BY <1>0, <2>0, <3>4 DEF CredentialCheck, AccessTokenValid, Goto, TypeOK,
                                CredentialInputs, Granted
      <4>2. input'[r] # None
        BY ZenonT(40), <4>1, NoneAssumption
      <4>3. ~PastNonce(r)'
        BY ZenonT(40), <3>3, <4>1 DEF PastNonce
      <4>. QED BY <2>0, <3>1, <3>3, <4>1, <4>2, <4>3, IssueAside
    <3>5. CASE IssueLock(r) \/ IssueRead(r)
      <4>1. /\ pc[r] \in {"attesting", "locked"} /\ pc'[r] \in {"locked", "issuing"}
            /\ input' = input /\ answer' = answer
        BY ZenonT(40), <1>0, <2>0, <3>5 DEF IssueLock, IssueRead, Goto, TypeOK
      <4>2. InFlight(r) /\ PastNonce(r)
        BY ZenonT(40), <4>1 DEF InFlight, PastNonce
      <4>3. input'[r] # None /\ input'[r].nonce \in Nonces /\ data.codeUsed
        BY ZenonT(40), <1>0, <4>1, <4>2 DEF IssueInv
      <4>. QED BY ZenonT(40), <2>0, <3>1, <3>3, <4>1, <4>2, <4>3, IssueAside
    <3>6. CASE AccessRefused(r) \/ NonceRefused(r) \/ AttestationRefused(r)
                 \/ RefreshRefused(r) \/ IssueFails(r)
      <4>1. pc'[r] = "done" /\ answer'[r] # "credential"
        BY ZenonT(40), <1>0, <2>0, <3>6 DEF AccessRefused, NonceRefused, AttestationRefused,
                                RefreshRefused, IssueFails, Answer, Goto, TypeOK
      <4>2. ~InFlight(r)' /\ ~PastNonce(r)'
        BY ZenonT(40), <4>1 DEF InFlight, PastNonce
      <4>. QED BY <2>0, <3>1, <3>3, <4>1, <4>2, IssueAside
    <3>. QED BY <1>3, <2>2, <3>4, <3>5, <3>6 DEF CredentialStep
  <2>. QED BY ZenonT(40), <2>1, <2>2
<1>4. ASSUME NEW r \in NotificationRequests, NotificationStep(r)
      PROVE  IssueInv' /\ Issued' = Issued
  <2>1. Same(CredentialRequests) /\ data' = data /\ nonceId' = nonceId
           /\ (entries' = entries \/ MarkAs("Revoked"))
    BY Zenon, <1>0, <1>4, NotificationLeaves
  <2>2. Len(entries') = Len(entries)
    BY ZenonT(40), <1>0, <2>1, MarkType
  <2>. QED BY ZenonT(40), <2>1, <2>2, IssueFrame
<1>5. ASSUME NEW r \in ValidityRequests, ValidityStep(r) PROVE IssueInv' /\ Issued' = Issued
  <2>1. Same(CredentialRequests) /\ data' = data /\ nonceId' = nonceId
           /\ (ValidityMark(r) \/ entries' = entries)
    BY Zenon, <1>0, <1>5, ValidityLeaves
  <2>2. Len(entries') = Len(entries)
    <3>1. CASE ValidityMark(r)
      <4>1. input[r].target \in {"Accepted", "Suspended", "Revoked"}
        BY ZenonT(40), <1>0, <3>1, InputTypes DEF ValidityMark, IInv, StateInv, ValidityInputs
      <4>. QED BY ZenonT(40), <1>0, <3>1, <4>1, MarkType DEF ValidityMark
    <3>. QED BY ZenonT(40), <2>1, <3>1
  <2>. QED BY ZenonT(40), <2>1, <2>2, IssueFrame
<1>6. ASSUME NEW r \in Requests, Abort(r) PROVE IssueInv' /\ Issued' = Issued
  <2>0. /\ Same(Requests \ {r}) /\ data' = data /\ nonceId' = nonceId /\ entries' = entries
        /\ pc[r] # "done" /\ pc'[r] = "done" /\ answer'[r] = "aborted"
    BY Zenon, <1>0, <1>6, AbortLocal DEF Abort, Answer, Goto, TypeOK, rowVars
  <2>1. CASE r \in CredentialRequests
    <3>1. Same(CredentialRequests \ {r}) /\ r \notin Issued
      BY ZenonT(40), <1>0, <2>0, <2>1, Kinds DEF Same, IssueInv
    <3>2. ~InFlight(r)' /\ ~PastNonce(r)'
      BY ZenonT(40), <2>0 DEF InFlight, PastNonce
    <3>. QED BY <2>0, <2>1, <3>1, <3>2, IssueAside
  <2>2. CASE r \notin CredentialRequests
    <3>1. Same(CredentialRequests)
      BY ZenonT(40), <2>0, <2>2, Kinds DEF Same
    <3>. QED BY ZenonT(40), <2>0, <3>1, IssueFrame
  <2>. QED BY <2>1, <2>2
<1>. QED BY ZenonT(40), <1>1, <1>2, <1>3, <1>4, <1>5, <1>6 DEF Next, RequestStep

(* StateInv, when the state is left alone or moved by a step that may. *)
LEMMA StateFrame ==
    ASSUME IInv, Issued # {} => Issued' # {},
           state' \in {"Pending", "InteractionExpired"} => ~data'.codeUsed,
           \/ state' = state
           \/ state' \notin {"Accepted", "Suspended", "Revoked", "Rejected"}
           \/ Issued' # {},
           \A r \in NotificationRequests :
              pc'[r] \in {"checked", "rejecting", "revoking"}
                => \/ pc[r] \in {"checked", "rejecting", "revoking"} /\ input'[r] = input[r]
                   \/ input'[r] # None /\ Issued # {},
           \A r \in ValidityRequests :
              pc'[r] \in {"validated", "updating"}
                => \/ pc[r] \in {"validated", "updating"} /\ input'[r] = input[r]
                   \/ input'[r] # None /\ Issued # {}
    PROVE  StateInv'
<1>1. AcceptedWasIssued'
  BY ZenonT(40) DEF IInv, StateInv, AcceptedWasIssued
<1>. QED BY ZenonT(40), <1>1 DEF IInv, StateInv

(* Every step keeps StateInv. *)
LEMMA NextStateInv == IInv /\ [Next]_vars => StateInv'
<1> SUFFICES ASSUME IInv, [Next]_vars PROVE StateInv'
  OBVIOUS
<1>0. TypeOK /\ LockInv /\ TokenInv /\ IssueInv /\ StateInv
  BY ZenonT(40) DEF IInv
<1>a. Issued # {} => Issued' # {}
  BY ZenonT(40), NextIssueInv
<1>1. CASE UNCHANGED vars \/ ExpireOffer \/ Tick
  <2>1. Same(NotificationRequests) /\ Same(ValidityRequests) /\ data' = data
    BY ZenonT(40), <1>1 DEF Same, vars, rowVars, requestVars, ExpireOffer, Tick
  <2>2. state' = state \/ (state = "Pending" /\ state' = "InteractionExpired")
    BY ZenonT(40), <1>1 DEF vars, rowVars, ExpireOffer, Tick
  <2>. QED BY ZenonT(40), <1>0, <1>a, <2>1, <2>2, StateFrame DEF Same, StateInv
<1>2. ASSUME NEW r \in TokenRequests, TokenStep(r) PROVE StateInv'
  <2>1. Same(NotificationRequests) /\ Same(ValidityRequests)
    BY Zenon, <1>0, <1>2, TokenLeaves
  <2>2. CASE TokenGrant(r)
    <3>1. input[r].grant \in {"code", "refresh"}
      BY ZenonT(40), <2>2, GrantFacts DEF TokenInputs
    <3>2. CASE input[r].grant = "code"
      <4>1. state' = "Offered"
        BY ZenonT(40), <2>2, <3>2 DEF TokenGrant
      <4>. QED BY ZenonT(40), <1>a, <2>1, <4>1, StateFrame DEF Same
    <3>3. CASE input[r].grant = "refresh"
      <4>1. state' = state /\ data.codeUsed
        BY SMTT(40), <1>0, <2>2, <3>3, GrantFacts DEF TokenGrant, TokenInv
      <4>. QED BY <1>0, <1>a, <2>1, <4>1, StateFrame DEF Same, StateInv
    <3>. QED BY ZenonT(40), <3>1, <3>2, <3>3
  <2>3. CASE ~TokenGrant(r)
    <3>1. data' = data /\ state' \in {state, "Error"}
      BY Zenon, <1>0, <1>2, <2>3, TokenLeaves
    <3>. QED BY ZenonT(40), <1>0, <1>a, <2>1, <3>1, StateFrame DEF Same, StateInv
  <2>. QED BY ZenonT(40), <2>2, <2>3
<1>3. ASSUME NEW r \in CredentialRequests, CredentialStep(r) PROVE StateInv'
  <2>1. Same(NotificationRequests) /\ Same(ValidityRequests)
    BY Zenon, <1>0, <1>3, CredentialLeaves
  <2>2. CASE IssueCommit(r)
    <3>1. data.codeUsed
      BY ZenonT(40), <1>0, <2>2 DEF IssueCommit, IssueInv, InFlight
    <3>2. Issued' # {}
      BY ZenonT(40), <2>2, CommitIssueInv
    <3>3. state' \in {"Accepted", state}
      BY ZenonT(40), <2>2 DEF IssueCommit
    <3>4. state' \notin {"Pending", "InteractionExpired"}
      BY ZenonT(40), <1>0, <3>1, <3>3 DEF StateInv
    <3>. QED BY ZenonT(40), <1>a, <2>1, <3>2, <3>4, StateFrame DEF Same
  <2>3. CASE ~IssueCommit(r)
    <3>1. data' = data /\ state' = state
      BY Zenon, <1>0, <1>3, <2>3, CredentialLeaves
    <3>. QED BY ZenonT(40), <1>0, <1>a, <2>1, <3>1, StateFrame DEF Same, StateInv
  <2>. QED BY <2>2, <2>3
<1>4. ASSUME NEW r \in NotificationRequests, NotificationStep(r) PROVE StateInv'
  <2>1. /\ Same(NotificationRequests \ {r}) /\ Same(ValidityRequests) /\ r \in Requests
    BY Zenon, <1>0, <1>4, NotificationLeaves
  <2>2. data' = data
    BY Zenon, <1>0, <1>4, NotificationLeaves
  <2>3. CASE NotifyCheck(r)
    <3>1. state' = state /\ Issued # {} /\ input'[r] \in NotificationInputs
      BY <1>0, <2>1, <2>3 DEF NotifyCheck, NotificationInputs, Granted, Issued, TypeOK, rowVars
    <3>2. input'[r] # None
      BY ZenonT(40), <3>1, NoneAssumption
    <3>. QED BY ZenonT(40), <1>0, <1>a, <2>1, <2>2, <3>1, <3>2, StateFrame DEF Same, StateInv
  <2>4. CASE AccessRefused(r) \/ NotifyIdRefused(r)
    <3>1. state' = state /\ pc'[r] = "done"
      BY ZenonT(40), <1>0, <2>1, <2>4 DEF AccessRefused, NotifyIdRefused, Answer, Goto, TypeOK, rowVars
    <3>. QED BY ZenonT(40), <1>0, <1>a, <2>1, <2>2, <3>1, StateFrame DEF Same, StateInv
  <2>5. CASE NotifyRead(r) \/ NotifyUpdate(r) \/ NotifyRevoke(r)
    <3>1. /\ pc[r] \in {"checked", "rejecting", "revoking"} /\ input' = input
          /\ state' \in {state, "Error", "Rejected"}
      BY ZenonT(40), <2>5 DEF NotifyRead, NotifyUpdate, NotifyRevoke, rowVars
    <3>2. Issued' # {}
      BY ZenonT(40), <1>0, <1>a, <3>1 DEF StateInv
    <3>3. state' \in {"Pending", "InteractionExpired"} => ~data'.codeUsed
      BY ZenonT(40), <1>0, <2>2, <3>1 DEF StateInv
    <3>. QED BY ZenonT(40), <1>a, <2>1, <3>1, <3>2, <3>3, StateFrame DEF Same
  <2>. QED BY ZenonT(40), <1>4, <2>3, <2>4, <2>5 DEF NotificationStep
<1>5. ASSUME NEW r \in ValidityRequests, ValidityStep(r) PROVE StateInv'
  <2>1. /\ Same(ValidityRequests \ {r}) /\ Same(NotificationRequests) /\ r \in Requests
    BY Zenon, <1>0, <1>5, ValidityLeaves
  <2>2. data' = data
    BY Zenon, <1>0, <1>5, ValidityLeaves
  <2>3. CASE ValidityRead(r)
    <3>1. state' = state /\ input'[r] \in ValidityInputs
      BY <1>0, <2>1, <2>3 DEF ValidityRead, ValidityInputs, TypeOK, rowVars
    <3>2. input'[r] # None
      BY Zenon, <3>1, NoneAssumption
    <3>3. pc'[r] = "validated" => state \in {"Accepted", "Suspended"}
      BY ZenonT(40), <1>0, <2>1, <2>3 DEF ValidityRead, AllowedFrom, Answer, Goto, TypeOK
    <3>4. pc'[r] \in {"validated", "done"}
      BY ZenonT(40), <1>0, <2>1, <2>3 DEF ValidityRead, Answer, Goto, TypeOK
    <3>5. pc'[r] = "validated" => Issued # {}
      BY ZenonT(40), <1>0, <3>3 DEF StateInv, AcceptedWasIssued
    <3>. QED BY ZenonT(40), <1>0, <1>a, <2>1, <2>2, <3>1, <3>2, <3>4, <3>5, StateFrame DEF Same, StateInv
  <2>4. CASE ValidityMark(r) \/ ValidityRefused(r) \/ ValidityUpdate(r)
    <3>1. /\ pc[r] \in {"validated", "updating"} /\ input' = input
          /\ state' \in {state, input[r].target}
      BY ZenonT(40), <2>4 DEF ValidityMark, ValidityRefused, ValidityUpdate, rowVars
    <3>2. Issued' # {} /\ input[r] \in ValidityInputs
      BY ZenonT(40), <1>0, <1>a, <3>1, InputTypes DEF StateInv
    <3>3. input[r].target \notin {"Pending", "InteractionExpired"}
      BY ZenonT(40), <3>2 DEF ValidityInputs
    <3>4. state' \in {"Pending", "InteractionExpired"} => ~data'.codeUsed
      BY ZenonT(40), <1>0, <2>2, <3>1, <3>3 DEF StateInv
    <3>. QED BY ZenonT(40), <1>a, <2>1, <3>1, <3>2, <3>4, StateFrame DEF Same
  <2>. QED BY ZenonT(40), <1>5, <2>3, <2>4 DEF ValidityStep
<1>6. ASSUME NEW r \in Requests, Abort(r) PROVE StateInv'
  <2>1. Same(Requests \ {r}) /\ data' = data /\ state' = state /\ pc'[r] = "done"
    BY Zenon, <1>0, <1>6, AbortLocal DEF Abort, Answer, Goto, TypeOK, rowVars
  <2>. QED BY ZenonT(40), <1>0, <1>a, <2>1, Kinds, StateFrame DEF Same, StateInv
<1>. QED BY ZenonT(40), <1>1, <1>2, <1>3, <1>4, <1>5, <1>6 DEF Next, RequestStep

(* The open offer, and the credential from before the migration. *)
LEMMA InitIInv == Init => IInv
<1> SUFFICES ASSUME Init PROVE IInv
  OBVIOUS
<1>0. nonceId = None /\ lock = None /\ copy = [r \in Requests |-> Offer]
         /\ seen = [r \in Requests |-> "Pending"] /\ Offer \in InteractionData
  BY ZenonT(40), SchemaAssumption DEF Init, Offer, InteractionData
<1>1. CASE Shared
  <2>1. TypeOK
    BY <1>0, <1>1, KindSets DEF Shared, TypeOK, States, Answers, Steps, Inputs
  <2>2. Granted = {} /\ Issued = {}
    BY ZenonT(40), <1>1, Kinds DEF Shared, Granted, Issued
  <2>3. LockInv
    BY Zenon, <1>0, <1>1, Kinds DEF Shared, LockInv
  <2>4. TokenInv
    BY ZenonT(40), <1>1, <2>2, Kinds, SchemaAssumption
       DEF Shared, TokenInv, Offer, OneRedemption, RefreshTokenUsedOnce
  <2>5. \A r \in CredentialRequests : ~InFlight(r) /\ ~PastNonce(r)
    BY Zenon, <1>1, Kinds DEF Shared, InFlight, PastNonce
  <2>6. NonceIssuesOnce /\ NoOrphanEntries
    BY ZenonT(40), <1>1, <2>2, FS_EmptySet DEF Shared, NonceIssuesOnce, NoOrphanEntries
  <2>7. IssueInv
    BY ZenonT(40), <2>2, <2>5, <2>6 DEF IssueInv
  <2>8. StateInv
    BY ZenonT(40), <1>1, Kinds DEF Shared, StateInv, Offer, AcceptedWasIssued
  <2>. QED BY ZenonT(40), <2>1, <2>3, <2>4, <2>7, <2>8 DEF IInv
<1>2. ASSUME NEW t \in TokenRequests, NEW c \in CredentialRequests, Migrated(t, c) PROVE IInv
  <2>0. /\ t \in Requests /\ c \in Requests /\ t # c /\ t # None /\ c # None
        /\ t \notin CredentialRequests /\ c \notin TokenRequests
    BY ZenonT(40), Kinds
  <2>1. /\ \A r \in Requests : pc[r] \in {"idle", "done"}
        /\ pc[t] = "done" /\ pc[c] = "done"
        /\ input[t] = [grant |-> "code", token |-> None,
                       code |-> IF HasTxCode THEN "right" ELSE "none"]
        /\ input[c] = [token |-> t, nonce |-> None]
        /\ \A r \in Requests \ {t, c} : input[r] = None
        /\ answer[t] = "token" /\ answer[c] = "credential"
        /\ \A r \in Requests \ {t, c} : answer[r] = "none"
        /\ DOMAIN pc = Requests /\ DOMAIN input = Requests
    BY ZenonT(40), <1>2, <2>0 DEF Migrated
  <2>2. Granted = {t} /\ Issued = {c}
    BY ZenonT(40), <2>0, <2>1, Kinds DEF Granted, Issued
  <2>3. input[t] \in TokenInputs /\ input[c] \in CredentialInputs
    BY SMTT(40), <2>1 DEF TokenInputs, CredentialInputs
  <2>4. TypeOK
    <3>1. \A r \in Requests : input[r] \in Inputs(r) /\ pc[r] \in Steps(r)
      BY <2>0, <2>1, <2>3, KindSets DEF Inputs, Steps
    <3>2. data \in InteractionData /\ answer \in [Requests -> Answers]
      BY Zenon, <1>2 DEF Migrated, InteractionData, Answers
    <3>3. state \in States /\ clock = "late"
      BY Zenon, <1>2 DEF Migrated, States
    <3>a. entries = <<>> \/ entries = <<"Accepted">>
      BY Zenon, <1>2 DEF Migrated
    <3>b. entries \in Seq({"Accepted", "Suspended", "Revoked"})
      <4>1. ASSUME NEW S, NEW x \in S PROVE <<>> \in Seq(S) /\ <<x>> \in Seq(S)
        OBVIOUS
      <4>2. "Accepted" \in {"Accepted", "Suspended", "Revoked"}
        OBVIOUS
      <4>. QED BY ZenonT(40), <3>a, <4>1, <4>2
    <3>4. seen \in [Requests -> States] /\ copy \in [Requests -> InteractionData]
      BY Zenon, <1>0 DEF States
    <3>. QED BY Zenon, <1>0, <2>1, <3>1, <3>2, <3>3, <3>4, <3>b DEF TypeOK
  <2>5. LockInv
    BY Zenon, <1>0, <2>1, Kinds DEF LockInv
  <2>6. OneRedemption /\ RefreshTokenUsedOnce
    BY <2>1, <2>2 DEF OneRedemption, RefreshTokenUsedOnce
  <2>7. input[t] # None /\ input[c] # None
    BY Zenon, <2>3, NoneAssumption
  <2>8. TokenInv
    <3>1. data.codeUsed = TRUE /\ data.txCode = FALSE /\ data.access = t /\ data.refresh = t
      BY Zenon, <1>2 DEF Migrated
    <3>2. input[t].grant = "code"
      BY <2>1
    <3>3. \A r \in TokenRequests : pc[r] \notin {"granting", "failing"}
      BY Zenon, <2>1, Kinds
    <3>. QED BY Zenon, <2>0, <2>1, <2>2, <2>6, <2>7, <3>1, <3>2, <3>3 DEF TokenInv
  <2>9. \A r \in CredentialRequests : ~InFlight(r) /\ ~PastNonce(r)
    BY <2>0, <2>1, Kinds DEF InFlight, PastNonce
  <2>10. NonceIssuesOnce /\ NoOrphanEntries
    <3>1. Cardinality({c}) = 1
      BY Zenon, FS_Singleton
    <3>. QED BY Zenon, <1>2, <2>2, <3>1 DEF Migrated, NonceIssuesOnce, NoOrphanEntries
  <2>11. IssueInv
    BY Zenon, <1>2, <2>1, <2>2, <2>7, <2>9, <2>10 DEF IssueInv, Migrated
  <2>12. StateInv
    BY Zenon, <1>2, <2>1, <2>2, Kinds DEF StateInv, Migrated, AcceptedWasIssued
  <2>. QED BY ZenonT(40), <2>4, <2>5, <2>8, <2>11, <2>12 DEF IInv
<1>. QED BY Zenon, <1>1, <1>2 DEF Init

(* IInv is an invariant of the issuer's side of the credential. *)
THEOREM Invariance == Spec => []IInv
<1>1. IInv /\ [Next]_vars => IInv'
  BY ZenonT(40), NextTypeOK, NextLockInv, NextTokenInv, NextIssueInv, NextStateInv DEF IInv
<1>. QED BY InitIInv, <1>1, PTL DEF Spec

(* The rows and the requests keep their types. *)
THEOREM TypeCorrect == Spec => []TypeOK
<1>1. IInv => TypeOK
  BY Zenon DEF IInv
<1>. QED BY Invariance, <1>1, PTL

(* However many token requests race, the code is redeemed once (create_token). *)
THEOREM CodeRedeemedOnce == Spec => []OneRedemption
<1>1. IInv => OneRedemption
  BY Zenon DEF IInv, TokenInv
<1>. QED BY Invariance, <1>1, PTL

(* However many refresh requests race, each refresh token is exchanged once  *)
(* (validate_refresh_token under the lock).                                *)
THEOREM RefreshedOnce == Spec => []RefreshTokenUsedOnce
<1>1. IInv => RefreshTokenUsedOnce
  BY ZenonT(40) DEF IInv, TokenInv
<1>. QED BY Invariance, <1>1, PTL

(* One nonce yields at most one credential (mark_nonce_as_used). *)
THEOREM NonceSpentOnce == Spec => []NonceIssuesOnce
<1>1. IInv => NonceIssuesOnce
  BY ZenonT(40) DEF IInv, IssueInv
<1>. QED BY Invariance, <1>1, PTL

(* There are as many status list entries as delivered credentials, whatever  *)
(* issuance failed or was aborted (issue_tx).                              *)
THEOREM EntriesMatchDeliveries == Spec => []NoOrphanEntries
<1>1. IInv => NoOrphanEntries
  BY ZenonT(40) DEF IInv, IssueInv
<1>. QED BY Invariance, <1>1, PTL

(* What counts as accepted, suspended, revoked or rejected was delivered. *)
THEOREM AcceptedDelivered == Spec => []AcceptedWasIssued
<1>1. IInv => AcceptedWasIssued
  BY ZenonT(40) DEF IInv, StateInv
<1>. QED BY Invariance, <1>1, PTL

(* The access token in use is replaced only by the token of a new grant: no  *)
(* issuance brings back an older one (issue_tx against create_token).      *)
THEOREM AccessTokenMonotone == Spec => TokenNeverReverts
<1>1. IInv /\ [Next]_vars => [data'.access # data.access => data'.access \in Granted' \ Granted]_vars
  <2> SUFFICES ASSUME IInv, [Next]_vars, data'.access # data.access
               PROVE  data'.access \in Granted' \ Granted
    OBVIOUS
  <2>1. PICK r \in TokenRequests : TokenGrant(r)
    BY ZenonT(40), NextTokenInv DEF TokensKept
  <2>2. data'.access = r
    BY ZenonT(40), <2>1 DEF TokenGrant
  <2>. QED BY ZenonT(40), <2>1, <2>2, GrantFacts, GrantTokenInv
<1>. QED BY Invariance, <1>1, PTL DEF Spec, TokenNeverReverts

(* A closed offer whose code has run out stays closed, although a token      *)
(* request may still carry a state it read while the offer was open.       *)
THEOREM ClosedOfferStaysClosed == Spec => LateOfferStaysClosed
<1>1. IInv /\ [Next]_vars
        => [clock = "late" /\ state = "InteractionExpired"
              => state' \in {"InteractionExpired", "Error"}]_vars
  <2> SUFFICES ASSUME IInv, [Next]_vars, clock = "late", state = "InteractionExpired"
               PROVE  state' \in {"InteractionExpired", "Error"}
    OBVIOUS
  <2>0. ~data.codeUsed /\ data.access = None /\ Issued = {}
    <3>1. ~data.codeUsed
      BY ZenonT(40) DEF IInv, StateInv
    <3>2. data.access = None
      BY ZenonT(40), <3>1 DEF IInv, TokenInv
    <3>3. Issued = {}
      BY ZenonT(40), <3>1 DEF IInv, IssueInv, Issued
    <3>. QED BY ZenonT(40), <3>1, <3>2, <3>3
  <2>1. CASE UNCHANGED vars \/ ExpireOffer \/ Tick
    BY ZenonT(40), <2>1 DEF vars, rowVars, ExpireOffer, Tick
  <2>2. ASSUME NEW r \in TokenRequests, TokenStep(r) PROVE state' \in {state, "Error"}
    <3>1. ~TokenGrant(r)
      BY ZenonT(40), <2>0, GrantFacts DEF TokenInputs
    <3>. QED BY Zenon, <2>2, <3>1, TokenLeaves DEF IInv
  <2>3. ASSUME NEW r \in CredentialRequests, CredentialStep(r) PROVE state' = state
    <3>1. ~IssueCommit(r)
      BY ZenonT(40), <2>0 DEF IssueCommit, IInv, IssueInv, InFlight
    <3>. QED BY Zenon, <2>3, <3>1, CredentialLeaves DEF IInv
  <2>4. ASSUME NEW r \in NotificationRequests, NotificationStep(r) PROVE state' = state
    <3>1. ~NotifyUpdate(r)
      BY ZenonT(40), <2>0 DEF NotifyUpdate, IInv, StateInv
    <3>. QED BY Zenon, <2>4, <3>1, NotificationLeaves DEF IInv
  <2>5. ASSUME NEW r \in ValidityRequests, ValidityStep(r) PROVE state' = state
    <3>1. ~ValidityUpdate(r)
      BY ZenonT(40), <2>0 DEF ValidityUpdate, IInv, StateInv
    <3>. QED BY Zenon, <2>5, <3>1, ValidityLeaves DEF IInv
  <2>6. ASSUME NEW r \in Requests, Abort(r) PROVE state' = state
    BY ZenonT(40), <2>6 DEF Abort, rowVars
  <2>. QED BY ZenonT(40), <2>1, <2>2, <2>3, <2>4, <2>5, <2>6 DEF Next, RequestStep
<1>. QED BY Invariance, <1>1, PTL DEF Spec, LateOfferStaysClosed

(* The tokens that were refreshed away. *)
Spent == {input[r].token : r \in {q \in Granted : input[q].grant = "refresh"}}

(* A grant redeems the offer, or rotates the token in use. *)
LEMMA GrantContract ==
    ASSUME IInv, NEW r \in TokenRequests, TokenGrant(r), Issued' = Issued
    PROVE  Contract!Redeem(r) \/ Contract!Rotate(r)
<1>0. TypeOK /\ TokenInv
  BY ZenonT(40) DEF IInv
<1>1. /\ Granted' = Granted \cup {r} /\ r \notin Granted
      /\ input' = input /\ data'.access = r
  BY ZenonT(40), GrantTokenInv, GrantFacts DEF TokenGrant
<1>2. input[r].grant \in {"code", "refresh"}
  BY ZenonT(40), GrantFacts DEF TokenInputs
<1>3. CASE input[r].grant = "code"
  <2>1. data.access = None /\ Granted = {}
    BY ZenonT(40), <1>0, <1>3, GrantFacts DEF TokenInv
  <2>2. Spent' = Spent
    BY ZenonT(40), <1>1, <1>3, <2>1 DEF Spent
  <2>. QED BY ZenonT(40), <1>1, <2>1, <2>2 DEF Contract!Redeem, Spent
<1>4. CASE input[r].grant = "refresh"
  <2>1. data.access # None /\ data.access = input[r].token /\ data.access \in Granted
    BY ZenonT(40), <1>0, <1>4, GrantFacts DEF TokenInv
  <2>2. Spent' = Spent \cup {data.access}
    BY ZenonT(40), <1>1, <1>4, <2>1 DEF Spent
  <2>3. Spent \subseteq Granted
    BY ZenonT(40), <1>0 DEF Spent, TokenInv
  <2>4. r \notin Spent \cup {data.access}
    BY ZenonT(40), <1>1, <2>1, <2>3
  <2>. QED BY ZenonT(40), <1>1, <2>1, <2>2, <2>4 DEF Contract!Rotate, Spent
<1>. QED BY ZenonT(40), <1>2, <1>3, <1>4

(* Every step is a step of the contract or leaves its variables alone. *)
LEMMA NextContract == IInv /\ [Next]_vars => [Contract!Next]_(Contract!vars)
<1> SUFFICES ASSUME IInv, [Next]_vars PROVE Contract!Next \/ UNCHANGED Contract!vars
  OBVIOUS
<1>1. CASE TokensKept
  <2>1. Spent' = Spent
    BY ZenonT(40), <1>1 DEF TokensKept, Spent
  <2>2. CASE Issued' = Issued
    BY ZenonT(40), <1>1, <2>1, <2>2 DEF TokensKept, Contract!vars, Spent
  <2>3. ASSUME NEW r \in CredentialRequests, IssueCommit(r), r \notin Issued,
               Issued' = Issued \cup {r}
        PROVE  Contract!Next
    <3>1. data.access # None
      BY ZenonT(40), <2>3 DEF IssueCommit, IInv, IssueInv, InFlight, TokenInv
    <3>2. Contract!Deliver(r)
      BY ZenonT(40), <1>1, <2>1, <2>3, <3>1 DEF Contract!Deliver, TokensKept, Spent
    <3>. QED BY ZenonT(40), <3>2 DEF Contract!Next
  <2>. QED BY ZenonT(40), <2>2, <2>3, NextIssueInv
<1>2. ASSUME NEW r \in TokenRequests, TokenGrant(r) PROVE Contract!Next
  <2>1. Issued' = Issued
    <3>1. Same(CredentialRequests)
      BY Zenon, <1>2, TokenLeaves DEF IInv, TokenStep
    <3>. QED BY ZenonT(40), <3>1 DEF Same, Issued
  <2>. QED BY ZenonT(40), <1>2, <2>1, GrantContract DEF Contract!Next
<1>. QED BY ZenonT(40), <1>1, <1>2, NextTokenInv

(* Grants, refreshes and deliveries of the issuer, with all their races and  *)
(* failures, implement the promise made to the wallet (create_token and    *)
(* issue_tx).                                                              *)
THEOREM ContractHolds == Spec => ImplementsContract
<1>1. Init => Contract!Init
  <2> SUFFICES ASSUME Init PROVE Contract!Init
    OBVIOUS
  <2>0. IInv
    BY ZenonT(40), InitIInv
  <2>1. data.access \in TokenRequests \cup {None} /\ Issued \in SUBSET CredentialRequests
    BY ZenonT(40), <2>0 DEF IInv, TypeOK, InteractionData, Issued
  <2>2. data.access = None => Issued = {}
    BY ZenonT(40), <2>0 DEF IInv, TokenInv, IssueInv, Issued
  <2>3. \A r \in Granted : input[r].grant # "refresh"
    <3>1. CASE Shared
      BY ZenonT(40), <3>1, Kinds DEF Shared, Granted
    <3>2. ASSUME NEW t \in TokenRequests, NEW c \in CredentialRequests, Migrated(t, c),
                 NEW r \in Granted
          PROVE  input[r].grant # "refresh"
      <4>1. r \in Requests /\ t \in Requests /\ r \notin CredentialRequests /\ answer[r] = "token"
        BY ZenonT(40), Kinds DEF Granted
      <4>2. r = t
        BY ZenonT(40), <3>2, <4>1 DEF Migrated
      <4>. QED BY ZenonT(40), <3>2, <4>1, <4>2 DEF Migrated
    <3>. QED BY ZenonT(40), <3>1, <3>2 DEF Init
  <2>4. Spent = {}
    BY Zenon, <2>3 DEF Spent
  <2>. QED BY ZenonT(40), <2>1, <2>2, <2>4 DEF Contract!Init, Spent
<1>. QED BY Invariance, <1>1, NextContract, PTL DEF Spec, ImplementsContract, Contract!Spec

============================================================================
