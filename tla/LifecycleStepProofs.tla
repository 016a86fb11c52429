----------------------- MODULE LifecycleStepProofs ------------------------
(***************************************************************************)
(* First part of the proof that IInv is an invariant of                    *)
(* CredentialLifecycle: what a step leaves alone, the types, the lock on   *)
(* the interaction and the tokens.                                         *)
(***************************************************************************)
EXTENDS CredentialLifecycle, TLAPS

(* A step leaves the requests in set R as they are. *)
Same(R) ==
    \A q \in R : /\ pc'[q] = pc[q] /\ input'[q] = input[q] /\ seen'[q] = seen[q]
                 /\ copy'[q] = copy[q] /\ answer'[q] = answer[q]

(* The four kinds of requests do not overlap. *)
LEMMA Kinds ==
    /\ \A r \in TokenRequests :
          r \in Requests /\ r \notin CredentialRequests \cup NotificationRequests \cup ValidityRequests
    /\ \A r \in CredentialRequests :
          r \in Requests /\ r \notin TokenRequests \cup NotificationRequests \cup ValidityRequests
    /\ \A r \in NotificationRequests :
          r \in Requests /\ r \notin TokenRequests \cup CredentialRequests \cup ValidityRequests
    /\ \A r \in ValidityRequests :
          r \in Requests /\ r \notin TokenRequests \cup CredentialRequests \cup NotificationRequests
    /\ \A r \in Requests :
          r # None /\ (r \in TokenRequests \/ r \in CredentialRequests
                         \/ r \in NotificationRequests \/ r \in ValidityRequests)
  BY Zenon, KindsAssumption DEF Requests

(* A step of a token request concerns that request only. *)
LEMMA TokenStepLocal ==
    ASSUME TypeOK, NEW r \in TokenRequests, TokenStep(r)
    PROVE  Same(Requests \ {r})
<1>0. r \in Requests
  BY Zenon, Kinds
<1>. USE <1>0 DEF Same, TypeOK, Goto, Answer
<1>1. CASE TokenRead(r)
  BY Zenon, <1>1 DEF TokenRead
<1>2. CASE TokenGrant(r)
  BY Zenon, <1>2 DEF TokenGrant
<1>3. CASE TokenRefuse(r)
  BY Zenon, <1>3 DEF TokenRefuse
<1>4. CASE RefreshLapsed(r)
  BY Zenon, <1>4 DEF RefreshLapsed
<1>5. CASE TokenSetError(r)
  BY Zenon, <1>5 DEF TokenSetError
<1>. QED BY Zenon, <1>1, <1>2, <1>3, <1>4, <1>5 DEF TokenStep

(* So does a step of a credential request. *)
LEMMA CredentialStepLocal ==
    ASSUME TypeOK, NEW r \in CredentialRequests, CredentialStep(r)
    PROVE  Same(Requests \ {r})
<1>0. r \in Requests
  BY Zenon, Kinds
<1>. USE <1>0 DEF Same, TypeOK, Goto, Answer
<1>1. CASE CredentialCheck(r)
  BY Zenon, <1>1 DEF CredentialCheck
<1>2. CASE AccessRefused(r)
  BY Zenon, <1>2 DEF AccessRefused
<1>3. CASE MarkNonce(r) \/ NonceRefused(r)
  BY Zenon, <1>3 DEF MarkNonce, NonceRefused
<1>4. CASE AttestationRefused(r) \/ IssueLock(r)
  BY Zenon, <1>4 DEF AttestationRefused, IssueLock
<1>5. CASE IssueRead(r) \/ RefreshRefused(r)
  BY Zenon, <1>5 DEF IssueRead, RefreshRefused
<1>6. CASE IssueFails(r) \/ IssueCommit(r)
  BY Zenon, <1>6 DEF IssueFails, IssueCommit
<1>. QED BY Zenon, <1>1, <1>2, <1>3, <1>4, <1>5, <1>6 DEF CredentialStep

(* So does a step of a notification request. *)
LEMMA NotificationStepLocal ==
    ASSUME TypeOK, NEW r \in NotificationRequests, NotificationStep(r)
    PROVE  Same(Requests \ {r})
<1>0. r \in Requests
  BY Zenon, Kinds
<1>. USE <1>0 DEF Same, TypeOK, Goto, Answer
<1>1. CASE NotifyCheck(r)
  BY Zenon, <1>1 DEF NotifyCheck
<1>2. CASE AccessRefused(r) \/ NotifyIdRefused(r)
  BY Zenon, <1>2 DEF AccessRefused, NotifyIdRefused
<1>3. CASE NotifyRead(r)
  BY Zenon, <1>3 DEF NotifyRead
<1>4. CASE NotifyUpdate(r) \/ NotifyRevoke(r)
  BY Zenon, <1>4 DEF NotifyUpdate, NotifyRevoke
<1>. QED BY Zenon, <1>1, <1>2, <1>3, <1>4 DEF NotificationStep

(* So does a step of a call that changes the validity. *)
LEMMA ValidityStepLocal ==
    ASSUME TypeOK, NEW r \in ValidityRequests, ValidityStep(r)
    PROVE  Same(Requests \ {r})
<1>0. r \in Requests
  BY Zenon, Kinds
<1>. USE <1>0 DEF Same, TypeOK, Goto, Answer
<1>1. CASE ValidityRead(r)
  BY ZenonT(40), <1>1 DEF ValidityRead
<1>2. CASE ValidityMark(r) \/ ValidityRefused(r) \/ ValidityUpdate(r)
  BY Zenon, <1>2 DEF ValidityMark, ValidityRefused, ValidityUpdate
<1>. QED BY Zenon, <1>1, <1>2 DEF ValidityStep

(* What a step of a token request leaves alone besides: the requests of the  *)
(* other kinds, the lock, the nonce and the entries; all but a grant leave *)
(* the data.                                                               *)
LEMMA TokenLeaves ==
    ASSUME TypeOK, NEW r \in TokenRequests, TokenStep(r)
    PROVE  /\ r \in Requests /\ pc[r] # "done"
           /\ Same(TokenRequests \ {r}) /\ Same(CredentialRequests)
           /\ Same(NotificationRequests) /\ Same(ValidityRequests)
           /\ lock' = lock /\ nonceId' = nonceId /\ entries' = entries
           /\ ~TokenGrant(r) => data' = data /\ state' \in {state, "Error"}
<1>1. /\ r \in Requests /\ Same(TokenRequests \ {r}) /\ Same(CredentialRequests)
      /\ Same(NotificationRequests) /\ Same(ValidityRequests)
  BY Zenon, Kinds, TokenStepLocal DEF Same
<1>2. pc[r] # "done" /\ lock' = lock /\ nonceId' = nonceId /\ entries' = entries
  BY Zenon DEF TokenStep, TokenRead, TokenGrant, TokenRefuse, RefreshLapsed, TokenSetError, rowVars
<1>3. ~TokenGrant(r) => data' = data /\ state' \in {state, "Error"}
  BY Zenon DEF TokenStep, TokenRead, TokenRefuse, RefreshLapsed, TokenSetError, rowVars
<1>. QED BY Zenon, <1>1, <1>2, <1>3

(* A credential request: all but a commit leave the data, the state and the  *)
(* entries, all but marking the nonce leave the nonce.                     *)
LEMMA CredentialLeaves ==
    ASSUME TypeOK, NEW r \in CredentialRequests, CredentialStep(r)
    PROVE  /\ r \in Requests /\ pc[r] # "done"
           /\ Same(CredentialRequests \ {r}) /\ Same(TokenRequests)
           /\ Same(NotificationRequests) /\ Same(ValidityRequests)
           /\ ~IssueCommit(r) => data' = data /\ state' = state /\ entries' = entries
           /\ ~MarkNonce(r) => nonceId' = nonceId
<1>1. /\ r \in Requests /\ Same(CredentialRequests \ {r}) /\ Same(TokenRequests)
      /\ Same(NotificationRequests) /\ Same(ValidityRequests)
  BY Zenon, Kinds, CredentialStepLocal DEF Same
<1>2. CASE CredentialCheck(r) \/ AccessRefused(r) \/ MarkNonce(r) \/ NonceRefused(r)
             \/ AttestationRefused(r)
  BY Zenon, <1>1, <1>2 DEF CredentialCheck, AccessRefused, MarkNonce, NonceRefused, AttestationRefused,
                    rowVars
<1>3. CASE IssueLock(r) \/ IssueRead(r) \/ RefreshRefused(r) \/ IssueFails(r) \/ IssueCommit(r)
  BY Zenon, <1>1, <1>3 DEF IssueLock, IssueRead, RefreshRefused, IssueFails, IssueCommit, rowVars
<1>. QED BY Zenon, <1>2, <1>3 DEF CredentialStep

(* A notification: only its update writes the state. *)
LEMMA NotificationLeaves ==
    ASSUME TypeOK, NEW r \in NotificationRequests, NotificationStep(r)
    PROVE  /\ r \in Requests
           /\ Same(NotificationRequests \ {r}) /\ Same(TokenRequests)
           /\ Same(CredentialRequests) /\ Same(ValidityRequests)
           /\ lock' = lock /\ data' = data /\ nonceId' = nonceId
           /\ ~NotifyUpdate(r) => state' = state
           /\ entries' = entries \/ MarkAs("Revoked")
<1>1. /\ r \in Requests /\ Same(NotificationRequests \ {r}) /\ Same(TokenRequests)
      /\ Same(CredentialRequests) /\ Same(ValidityRequests)
  BY Zenon, Kinds, NotificationStepLocal DEF Same
<1>. QED BY Zenon, <1>1 DEF NotificationStep, NotifyCheck, AccessRefused, NotifyIdRefused, NotifyRead,
                     NotifyUpdate, NotifyRevoke, rowVars

(* A change of the validity: the mark changes the entries, the update the    *)
(* state.                                                                  *)
LEMMA ValidityLeaves ==
    ASSUME TypeOK, NEW r \in ValidityRequests, ValidityStep(r)
    PROVE  /\ r \in Requests
           /\ Same(ValidityRequests \ {r}) /\ Same(TokenRequests)
           /\ Same(CredentialRequests) /\ Same(NotificationRequests)
           /\ lock' = lock /\ data' = data /\ nonceId' = nonceId
           /\ ~ValidityUpdate(r) => state' = state
           /\ ~ValidityMark(r) => entries' = entries
<1>1. /\ r \in Requests /\ Same(ValidityRequests \ {r}) /\ Same(TokenRequests)
      /\ Same(CredentialRequests) /\ Same(NotificationRequests)
  BY Zenon, Kinds, ValidityStepLocal DEF Same
<1>. QED BY Zenon, <1>1 DEF ValidityStep, ValidityRead, ValidityMark, ValidityRefused, ValidityUpdate,
                     rowVars

(* Aborting a request concerns that request only. *)
LEMMA AbortLocal ==
    ASSUME TypeOK, NEW r \in Requests, Abort(r) PROVE Same(Requests \ {r})
  BY Zenon DEF Abort, Same, TypeOK, Goto, Answer

(* The steps and inputs of each kind of request. *)
LEMMA KindSets ==
    /\ \A r \in TokenRequests :
          /\ Steps(r) = {"idle", "done", "granting", "failing"}
          /\ Inputs(r) = {None} \cup TokenInputs
    /\ \A r \in CredentialRequests :
          /\ Steps(r) = {"idle", "done", "marking", "attesting", "locked", "issuing"}
          /\ Inputs(r) = {None} \cup CredentialInputs
    /\ \A r \in NotificationRequests :
          /\ Steps(r) = {"idle", "done", "checked", "rejecting", "revoking"}
          /\ Inputs(r) = {None} \cup NotificationInputs
    /\ \A r \in ValidityRequests :
          /\ Steps(r) = {"idle", "done", "validated", "updating"}
          /\ Inputs(r) = {None} \cup ValidityInputs
    /\ \A r \in Requests : "done" \in Steps(r)
  BY Zenon, Kinds DEF Steps, Inputs

(* What a request that has begun carries. *)
LEMMA InputTypes ==
    ASSUME TypeOK
    PROVE  /\ \A r \in TokenRequests : input[r] # None => input[r] \in TokenInputs
           /\ \A r \in CredentialRequests : input[r] # None => input[r] \in CredentialInputs
           /\ \A r \in NotificationRequests : input[r] # None => input[r] \in NotificationInputs
           /\ \A r \in ValidityRequests : input[r] # None => input[r] \in ValidityInputs
  BY Kinds, KindSets DEF TypeOK

(* A verdict on a token request is one of the answers. *)
LEMMA VerdictType ==
    ASSUME NEW r \in TokenRequests PROVE TokenVerdict(r) \in Answers
  BY Zenon DEF TokenVerdict, TxCodeCheck, CodeCheck, RefreshCheck, Answers

(* Every step of a token request keeps the types. *)
LEMMA TokenTypeOK ==
    ASSUME IInv, NEW r \in TokenRequests, TokenStep(r) PROVE TypeOK'
<1>0. TypeOK /\ r \in Requests
  BY Zenon, Kinds DEF IInv
<1>. USE <1>0, Kinds, KindSets DEF Goto, Answer, rowVars
<1>1. CASE TokenRead(r)
  <2>1. input'[r] \in TokenInputs /\ DOMAIN input' = Requests
    BY <1>1 DEF TokenRead, TokenInputs, Granted, TypeOK
  <2>2. \A q \in Requests : input'[q] \in Inputs(q)
    BY <1>1, <2>1, TokenStepLocal DEF TokenStep, Same, TypeOK
  <2>. QED BY <1>1, <2>1, <2>2 DEF TokenRead, TypeOK
<1>2. CASE TokenGrant(r)
  <2>1. data' \in InteractionData /\ state' \in States
    BY Zenon, <1>2 DEF TokenGrant, TypeOK, InteractionData, States
  <2>. QED BY Zenon, <1>2, <2>1 DEF TokenGrant, TypeOK, Answers
<1>3. CASE TokenRefuse(r)
  BY <1>3, VerdictType DEF TokenRefuse, TypeOK
<1>4. CASE RefreshLapsed(r)
  BY Zenon, <1>4 DEF RefreshLapsed, TypeOK, Answers
<1>5. CASE TokenSetError(r)
  BY Zenon, <1>5 DEF TokenSetError, TypeOK, Answers, States
<1>. QED BY Zenon, <1>1, <1>2, <1>3, <1>4, <1>5, TokenStep(r) DEF TokenStep

(* Every step of a credential request keeps the types. *)
LEMMA CredentialTypeOK ==
    ASSUME IInv, NEW r \in CredentialRequests, CredentialStep(r) PROVE TypeOK'
<1>0. TypeOK /\ r \in Requests
  BY Zenon, Kinds DEF IInv
<1>. USE <1>0, Kinds, KindSets DEF Goto, Answer, rowVars
<1>1. CASE CredentialCheck(r)
  <2>1. input'[r] \in CredentialInputs /\ DOMAIN input' = Requests
    BY <1>1 DEF CredentialCheck, CredentialInputs, Granted, TypeOK
  <2>2. \A q \in Requests : input'[q] \in Inputs(q)
    BY <1>1, <2>1, CredentialStepLocal DEF CredentialStep, Same, TypeOK
  <2>. QED BY <1>1, <2>1, <2>2 DEF CredentialCheck, TypeOK
<1>2. CASE AccessRefused(r)
  BY Zenon, <1>2 DEF AccessRefused, TypeOK, Answers
<1>3. CASE MarkNonce(r)
  <2>1. input[r] \in CredentialInputs
    BY Zenon, <1>3, InputTypes DEF MarkNonce, IInv, IssueInv, InFlight
  <2>. QED BY <1>3, <2>1 DEF MarkNonce, TypeOK, CredentialInputs
<1>4. CASE NonceRefused(r) \/ AttestationRefused(r)
  BY <1>4 DEF NonceRefused, AttestationRefused, TypeOK, Answers
<1>5. CASE IssueLock(r)
  BY <1>5 DEF IssueLock, TypeOK
<1>6. CASE IssueRead(r)
  BY <1>6 DEF IssueRead, TypeOK
<1>7. CASE RefreshRefused(r)
  BY <1>7 DEF RefreshRefused, TypeOK, Answers
<1>8. CASE IssueFails(r)
  BY Zenon, <1>8 DEF IssueFails, TypeOK, Answers
<1>9. CASE IssueCommit(r)
  <2>1. data' \in InteractionData
    BY ZenonT(40), <1>9 DEF IssueCommit, TypeOK, InteractionData
  <2>2. state' \in States
    BY Zenon, <1>9 DEF IssueCommit, TypeOK, States
  <2>3. entries' \in Seq({"Accepted", "Suspended", "Revoked"})
    BY <1>9 DEF IssueCommit, TypeOK
  <2>. QED BY Zenon, <1>9, <2>1, <2>2, <2>3 DEF IssueCommit, TypeOK, Answers
<1>. QED BY Zenon, <1>1, <1>2, <1>3, <1>4, <1>5, <1>6, <1>7, <1>8, <1>9 DEF CredentialStep

(* Marking the entries keeps their number and gives them a status. *)
LEMMA MarkType ==
    ASSUME TypeOK, NEW status \in {"Accepted", "Suspended", "Revoked"}, MarkAs(status)
    PROVE  /\ entries' \in Seq({"Accepted", "Suspended", "Revoked"})
           /\ Len(entries') = Len(entries)
  BY DEF TypeOK, MarkAs

(* Every step of a notification request keeps the types. *)
LEMMA NotificationTypeOK ==
    ASSUME IInv, NEW r \in NotificationRequests, NotificationStep(r) PROVE TypeOK'
<1>0. TypeOK /\ r \in Requests
  BY Zenon, Kinds DEF IInv
<1>. USE <1>0, Kinds, KindSets DEF Goto, Answer, rowVars
<1>1. CASE NotifyCheck(r)
  <2>1. input'[r] \in NotificationInputs /\ DOMAIN input' = Requests
    BY SMTT(40), <1>1 DEF NotifyCheck, NotificationInputs, Granted, Issued, TypeOK
  <2>2. \A q \in Requests : input'[q] \in Inputs(q)
    BY <1>1, <2>1, NotificationStepLocal, SMTT(30) DEF NotificationStep, Same, TypeOK
  <2>. QED BY <1>1, <2>1, <2>2 DEF NotifyCheck, TypeOK
<1>2. CASE AccessRefused(r) \/ NotifyIdRefused(r)
  BY <1>2 DEF AccessRefused, NotifyIdRefused, TypeOK, Answers
<1>3. CASE NotifyRead(r)
  BY <1>3 DEF NotifyRead, TypeOK, Answers
<1>4. CASE NotifyUpdate(r)
  BY SMTT(40), <1>4 DEF NotifyUpdate, TypeOK, Answers, States
<1>5. CASE NotifyRevoke(r)
  BY Zenon, <1>5, MarkType DEF NotifyRevoke, TypeOK, Answers
<1>. QED BY Zenon, <1>1, <1>2, <1>3, <1>4, <1>5 DEF NotificationStep

(* Every step of a call that changes the validity keeps the types. *)
LEMMA ValidityTypeOK ==
    ASSUME IInv, NEW r \in ValidityRequests, ValidityStep(r) PROVE TypeOK'
<1>0. TypeOK /\ r \in Requests
  BY Zenon, Kinds DEF IInv
<1>. USE <1>0, Kinds, KindSets DEF Goto, Answer, rowVars
<1>1. CASE ValidityRead(r)
  <2>1. input'[r] \in ValidityInputs /\ DOMAIN input' = Requests
    BY SMTT(40), <1>1 DEF ValidityRead, ValidityInputs, TypeOK
  <2>2. \A q \in Requests : input'[q] \in Inputs(q)
    BY <1>1, <2>1, ValidityStepLocal DEF ValidityStep, Same, TypeOK
  <2>. QED BY <1>1, <2>1, <2>2 DEF ValidityRead, TypeOK, Answers
<1>2. CASE ValidityRefused(r)
  BY Zenon, <1>2 DEF ValidityRefused, TypeOK, Answers
<1>3. ASSUME ValidityMark(r) \/ ValidityUpdate(r)
      PROVE  input[r].target \in {"Accepted", "Suspended", "Revoked"}
  BY Zenon, <1>3, InputTypes DEF ValidityMark, ValidityUpdate, IInv, StateInv, ValidityInputs
<1>4. CASE ValidityMark(r)
  BY <1>3, <1>4, MarkType DEF ValidityMark, TypeOK
<1>5. CASE ValidityUpdate(r)
  BY Zenon, <1>3, <1>5 DEF ValidityUpdate, TypeOK, Answers, States
<1>. QED BY Zenon, <1>1, <1>2, <1>4, <1>5 DEF ValidityStep

----------------------------------------------------------------------------
(* Every step keeps the types. *)
LEMMA NextTypeOK == IInv /\ [Next]_vars => TypeOK'
<1> SUFFICES ASSUME IInv, [Next]_vars PROVE TypeOK'
  OBVIOUS
<1>0. TypeOK
  BY Zenon DEF IInv
<1>1. CASE UNCHANGED vars
  BY Zenon, <1>0, <1>1 DEF TypeOK, vars, rowVars, requestVars, Steps, Inputs
<1>2. CASE ExpireOffer
  BY Zenon, <1>0, <1>2 DEF TypeOK, ExpireOffer, requestVars, States
<1>3. CASE Tick
  BY Zenon, <1>0, <1>3 DEF TypeOK, Tick, rowVars, requestVars
<1>4. ASSUME NEW r \in Requests, Abort(r) PROVE TypeOK'
  BY Zenon, <1>0, <1>4, Kinds, KindSets DEF TypeOK, Abort, Goto, Answer, Answers, rowVars
<1>. QED BY Zenon, <1>1, <1>2, <1>3, <1>4, TokenTypeOK, CredentialTypeOK,
            NotificationTypeOK, ValidityTypeOK DEF Next, RequestStep

(* A request of another kind leaves the lock's holder and its copy alone. *)
LEMMA LockFrame ==
    ASSUME IInv, Same(CredentialRequests), lock' = lock, data' = data
    PROVE  LockInv'
<1>1. lock # None => lock \in CredentialRequests
  BY Zenon DEF IInv, TypeOK
<1>. QED BY Zenon, <1>1 DEF IInv, LockInv, Same

(* A step of a credential request keeps LockInv. *)
LEMMA CredentialLockInv ==
    ASSUME IInv, NEW r \in CredentialRequests, CredentialStep(r) PROVE LockInv'
<1>0. /\ TypeOK /\ LockInv /\ r \in Requests /\ r # None
      /\ Same(CredentialRequests \ {r})
  BY Zenon, Kinds, CredentialStepLocal DEF IInv, Same
<1>a. lock \in CredentialRequests \cup {None} /\ \A q \in CredentialRequests : q # None
  BY Zenon, <1>0, Kinds DEF TypeOK
<1>. USE <1>0, <1>a DEF LockInv, Same, Goto, Answer
<1>1. CASE CredentialCheck(r)
  BY ZenonT(40), <1>1 DEF CredentialCheck, TypeOK, rowVars
<1>2. CASE AccessRefused(r)
  BY ZenonT(40), <1>2 DEF AccessRefused, TypeOK, rowVars
<1>3. CASE MarkNonce(r)
  BY Zenon, <1>3 DEF MarkNonce, TypeOK
<1>4. CASE NonceRefused(r)
  BY ZenonT(40), <1>4 DEF NonceRefused, TypeOK, rowVars
<1>5. CASE AttestationRefused(r)
  BY ZenonT(40), <1>5 DEF AttestationRefused, TypeOK, rowVars
<1>6. CASE IssueLock(r)
  <2>1. /\ pc'[r] = "locked" /\ lock = None /\ lock' = r
        /\ copy'[r] = data /\ data' = data
    BY Zenon, <1>6 DEF IssueLock, TypeOK, rowVars
  <2>. QED BY Zenon, <2>1
<1>7. CASE IssueRead(r)
  BY ZenonT(40), <1>7 DEF IssueRead, TypeOK, rowVars
<1>8. CASE RefreshRefused(r) \/ IssueFails(r) \/ IssueCommit(r)
  <2>1. pc[r] \in {"locked", "issuing"} /\ pc'[r] = "done" /\ lock' = None
    BY Zenon, <1>8 DEF RefreshRefused, IssueFails, IssueCommit, TypeOK
  <2>2. lock = r
    BY Zenon, <2>1
  <2>. QED BY Zenon, <2>1, <2>2
<1>. QED BY ZenonT(40), <1>1, <1>2, <1>3, <1>4, <1>5, <1>6, <1>7, <1>8 DEF CredentialStep

(* Every step keeps LockInv. *)
LEMMA NextLockInv == IInv /\ [Next]_vars => LockInv'
<1> SUFFICES ASSUME IInv, [Next]_vars PROVE LockInv'
  OBVIOUS
<1>0. TypeOK /\ LockInv
  BY Zenon DEF IInv
<1>1. CASE UNCHANGED vars
  BY Zenon, <1>0, <1>1 DEF LockInv, vars, rowVars, requestVars
<1>2. CASE ExpireOffer \/ Tick
  BY Zenon, <1>0, <1>2 DEF LockInv, ExpireOffer, Tick, rowVars, requestVars
<1>3. ASSUME NEW r \in TokenRequests, TokenStep(r) PROVE LockInv'
  <2>1. Same(CredentialRequests) /\ lock' = lock /\ (TokenGrant(r) \/ data' = data)
    BY Zenon, <1>0, <1>3, TokenLeaves
  <2>2. CASE TokenGrant(r)
    BY Zenon, <1>0, <2>1, <2>2, Kinds DEF TokenGrant, LockInv, Same
  <2>3. CASE ~TokenGrant(r)
    BY Zenon, <2>1, <2>3, LockFrame
  <2>. QED BY Zenon, <2>2, <2>3
<1>4. ASSUME NEW r \in NotificationRequests, NotificationStep(r) PROVE LockInv'
  <2>1. Same(CredentialRequests) /\ lock' = lock /\ data' = data
    BY Zenon, <1>0, <1>4, NotificationLeaves
  <2>. QED BY Zenon, <2>1, LockFrame
<1>5. ASSUME NEW r \in ValidityRequests, ValidityStep(r) PROVE LockInv'
  <2>1. Same(CredentialRequests) /\ lock' = lock /\ data' = data
    BY Zenon, <1>0, <1>5, ValidityLeaves
  <2>. QED BY <2>1, LockFrame
<1>6. ASSUME NEW r \in Requests, Abort(r) PROVE LockInv'
  <2>0. Same(Requests \ {r}) /\ data' = data /\ pc'[r] = "done"
    BY Zenon, <1>0, <1>6, AbortLocal DEF Abort, Answer, Goto, TypeOK, rowVars
  <2>1. copy' = copy /\ lock' = IF lock = r THEN None ELSE lock
    BY Zenon, <1>6 DEF Abort
  <2>2. lock \in CredentialRequests \cup {None}
    BY Zenon, <1>0 DEF TypeOK
  <2>. QED BY Zenon, <1>0, <2>0, <2>1, <2>2, Kinds DEF LockInv, Same
<1>. QED BY Zenon, <1>1, <1>2, <1>3, <1>4, <1>5, <1>6, CredentialLockInv DEF Next, RequestStep

(* What the grant of a token has checked. *)
LEMMA GrantFacts ==
    ASSUME IInv, NEW r \in TokenRequests, TokenGrant(r)
    PROVE  /\ input[r] \in TokenInputs
           /\ r \notin Granted
           /\ input[r].grant = "code" =>
                 /\ ~data.codeUsed /\ clock # "late"
                 /\ HasTxCode => input[r].code = "right"
           /\ input[r].grant = "refresh" =>
                 /\ data.access # None
                 /\ data.access = input[r].token
<1>0. TypeOK /\ TokenInv /\ pc[r] = "granting" /\ TokenVerdict(r) = "token"
  BY Zenon DEF IInv, TokenGrant
<1>1. input[r] \in TokenInputs
  BY Zenon, <1>0, InputTypes DEF TokenInv
<1>2. r \notin Granted
  BY Zenon, <1>0 DEF TokenInv
<1>3. TxCodeCheck(input[r].code) = "ok"
  BY Zenon, <1>0 DEF TokenVerdict, TxCodeCheck
<1>4. ASSUME input[r].grant = "code"
      PROVE  ~data.codeUsed /\ clock # "late" /\ (HasTxCode => input[r].code = "right")
  <2>1. CodeCheck(r) = "token"
    BY Zenon, <1>0, <1>3, <1>4 DEF TokenVerdict
  <2>2. ~data.codeUsed /\ clock # "late"
    BY Zenon, <2>1 DEF CodeCheck
  <2>3. HasTxCode => data.txCode
    BY Zenon, <1>0, <2>2 DEF TokenInv
  <2>4. input[r].code \in {"none", "right", "wrong"}
    BY Zenon, <1>1 DEF TokenInputs
  <2>5. data.txCode => input[r].code = "right"
    BY Zenon, <1>3, <2>4 DEF TxCodeCheck
  <2>. QED BY Zenon, <2>2, <2>3, <2>5
<1>5. ASSUME input[r].grant = "refresh"
      PROVE  data.access # None /\ data.access = input[r].token
  <2>1. RefreshCheck(r) = "token"
    BY Zenon, <1>0, <1>3, <1>5 DEF TokenVerdict
  <2>2. data.refresh # None /\ data.refresh = input[r].token
    BY Zenon, <2>1 DEF RefreshCheck
  <2>. QED BY Zenon, <1>0, <2>2 DEF TokenInv
<1>. QED BY Zenon, <1>1, <1>2, <1>4, <1>5

(* A step grants no token and replaces none. *)
TokensKept ==
    /\ data'.access = data.access
    /\ Granted' = Granted
    /\ \A r \in Granted : input'[r] = input[r]

(* TokenInv speaks of the token requests and of four fields of the data. *)
LEMMA TokenFrame ==
    ASSUME TokenInv, Same(TokenRequests),
           data'.codeUsed = data.codeUsed, data'.txCode = data.txCode,
           data'.access = data.access, data'.refresh = data.refresh
    PROVE  TokenInv' /\ TokensKept
<1>1. Granted' = Granted
  BY Zenon DEF Granted, Same
<1>2. \A r \in TokenRequests : pc'[r] = pc[r] /\ input'[r] = input[r]
  BY Zenon DEF Same
<1>3. \A r \in Granted : r \in TokenRequests
  BY Zenon DEF Granted
<1>4. OneRedemption'
  BY <1>1, <1>2, <1>3 DEF TokenInv, OneRedemption
<1>5. RefreshTokenUsedOnce'
  BY <1>1, <1>2, <1>3 DEF TokenInv, RefreshTokenUsedOnce
<1>. QED BY <1>1, <1>2, <1>3, <1>4, <1>5 DEF TokenInv, TokensKept

(* A token request that is answered otherwise, or that only begins, leaves   *)
(* the tokens as they are.                                                 *)
LEMMA TokenAside ==
    ASSUME IInv, NEW r \in TokenRequests, Same(TokenRequests \ {r}), data' = data,
           r \notin Granted, answer'[r] # "token",
           pc'[r] \in {"granting", "failing"} => input'[r] # None
    PROVE  TokenInv' /\ TokensKept
<1>0. TokenInv
  BY Zenon DEF IInv
<1>1. Granted' = Granted
  BY Zenon DEF Granted, Same
<1>2. \A q \in Granted : q \in TokenRequests \ {r} /\ pc'[q] = pc[q] /\ input'[q] = input[q]
  BY Zenon DEF Granted, Same
<1>3. OneRedemption'
  BY <1>0, <1>1, <1>2 DEF TokenInv, OneRedemption
<1>4. RefreshTokenUsedOnce'
  BY <1>0, <1>1, <1>2 DEF TokenInv, RefreshTokenUsedOnce
<1>5. \A q \in TokenRequests : pc'[q] \in {"granting", "failing"} => input'[q] # None
  BY ZenonT(40), <1>0 DEF TokenInv, Same
<1>. QED BY <1>0, <1>1, <1>2, <1>3, <1>4, <1>5 DEF TokenInv, TokensKept

(* The grant of a token keeps TokenInv. *)
LEMMA GrantTokenInv ==
    ASSUME IInv, NEW r \in TokenRequests, TokenGrant(r)
    PROVE  TokenInv' /\ Granted' = Granted \cup {r}
<1>0. TypeOK /\ TokenInv /\ r \in Requests /\ r # None /\ Same(TokenRequests \ {r})
  BY Zenon, Kinds, TokenStepLocal DEF IInv, TokenStep, Same
<1>1. /\ pc'[r] = "done" /\ answer'[r] = "token" /\ input' = input
      /\ data'.codeUsed = TRUE /\ data'.txCode = FALSE /\ data'.access = r
      /\ data'.refresh \in {None, r}
  BY Zenon, <1>0 DEF TokenGrant, Answer, Goto, TypeOK
<1>2. Granted' = Granted \cup {r}
  BY ZenonT(40), <1>0, <1>1 DEF Granted, Same
<1>3. input[r] # None /\ r \notin Granted
  BY Zenon, <1>0, GrantFacts DEF TokenGrant, TokenInv
<1>4. \A q \in Granted : q \in TokenRequests \ {r} /\ pc'[q] = "done" /\ input[q] # None
  BY <1>0, <1>3 DEF Granted, Same, TokenInv
<1>5. \A q \in Granted' : input'[q].grant = "refresh"
         => input'[q].token \in Granted' /\ input'[q].token # data'.access
  <2>1. ASSUME NEW q \in Granted, input[q].grant = "refresh"
        PROVE  input[q].token \in Granted
    BY Zenon, <1>0, <2>1 DEF TokenInv
  <2>2. input[r].grant = "refresh" => input[r].token \in Granted
    BY Zenon, <1>0, GrantFacts DEF TokenInv
  <2>. QED BY Zenon, <1>1, <1>2, <1>3, <2>1, <2>2
<1>6. OneRedemption'
  <2>1. input[r].grant = "code" => Granted = {}
    BY Zenon, <1>0, GrantFacts DEF TokenInv
  <2>2. input[r].grant = "code" /\ HasTxCode => input[r].code = "right"
    BY Zenon, GrantFacts
  <2>3. OneRedemption
    BY Zenon, <1>0 DEF TokenInv
  <2>. QED BY <1>1, <1>2, <2>1, <2>2, <2>3 DEF OneRedemption
<1>7. RefreshTokenUsedOnce'
  <2>1. ASSUME input[r].grant = "refresh", NEW q \in Granted, input[q].grant = "refresh"
        PROVE  input[q].token # input[r].token
    BY Zenon, <1>0, <2>1, GrantFacts DEF TokenInv
  <2>2. RefreshTokenUsedOnce
    BY Zenon, <1>0 DEF TokenInv
  <2>. QED BY <1>1, <1>2, <2>1, <2>2 DEF RefreshTokenUsedOnce
<1>8. \A q \in TokenRequests : pc'[q] \in {"granting", "failing"} => input'[q] # None
  BY Zenon, <1>0, <1>1 DEF TokenInv, Same
<1>. QED BY ZenonT(40), <1>0, <1>1, <1>2, <1>3, <1>4, <1>5, <1>6, <1>7, <1>8 DEF TokenInv

(* Every step keeps TokenInv.  Only a grant changes the tokens: issuing      *)
(* writes back the data it read under the lock, which are the current ones.*)
LEMMA NextTokenInv ==
    IInv /\ [Next]_vars
      => TokenInv' /\ (TokensKept \/ \E r \in TokenRequests : TokenGrant(r))
<1> DEFINE Goal == TokenInv' /\ (TokensKept \/ \E r \in TokenRequests : TokenGrant(r))
<1> SUFFICES ASSUME IInv, [Next]_vars PROVE Goal
  OBVIOUS
<1>0. TypeOK /\ LockInv /\ TokenInv
  BY Zenon DEF IInv
<1>1. CASE UNCHANGED vars \/ ExpireOffer \/ Tick
  <2>1. Same(TokenRequests) /\ data' = data
    BY Zenon, <1>1 DEF Same, vars, rowVars, requestVars, ExpireOffer, Tick
  <2>. QED BY Zenon, <1>0, <2>1, TokenFrame
<1>2. ASSUME NEW r \in TokenRequests, TokenStep(r) PROVE Goal
  <2>0. Same(TokenRequests \ {r}) /\ r \in Requests /\ pc[r] # "done"
           /\ (TokenGrant(r) \/ data' = data)
    BY Zenon, <1>0, <1>2, TokenLeaves
  <2>1. CASE TokenGrant(r)
    BY Zenon, <2>1, GrantTokenInv
  <2>2. CASE ~TokenGrant(r)
    <3>1. data' = data
      BY Zenon, <2>0, <2>2
    <3>3. r \notin Granted /\ answer[r] # "token"
      BY Zenon, <1>0, <2>0 DEF TokenInv, Granted
    <3>4. CASE TokenRead(r)
      <4>1. input'[r] # None
        <5>1. input'[r] \in TokenInputs
          BY <1>0, <2>0, <3>4 DEF TokenRead, TypeOK, TokenInputs, Granted
        <5>. QED BY Zenon, <5>1, NoneAssumption
      <4>. QED BY Zenon, <2>0, <3>1, <3>3, <3>4, <4>1, TokenAside DEF TokenRead
    <3>5. CASE TokenRefuse(r) \/ RefreshLapsed(r) \/ TokenSetError(r)
      <4>1. answer'[r] # "token" /\ input' = input /\ input[r] # None
        BY Zenon, <1>0, <2>0, <3>3, <3>5
           DEF TokenRefuse, RefreshLapsed, TokenSetError, TokenInv, Answer, Goto, TypeOK
      <4>. QED BY Zenon, <2>0, <3>1, <3>3, <4>1, TokenAside
    <3>. QED BY Zenon, <1>2, <2>2, <3>4, <3>5 DEF TokenStep
  <2>. QED BY Zenon, <2>1, <2>2
<1>3. ASSUME NEW r \in CredentialRequests, CredentialStep(r) PROVE Goal
  <2>1. Same(TokenRequests) /\ (IssueCommit(r) \/ data' = data)
    BY Zenon, <1>0, <1>3, CredentialLeaves
  <2>2. CASE IssueCommit(r)
    <3>1. copy[r] = data /\ r # None
      BY Zenon, <1>0, <2>2, Kinds DEF IssueCommit, LockInv
    <3>2. /\ data'.codeUsed = data.codeUsed /\ data'.txCode = data.txCode
          /\ data'.access = data.access /\ data'.refresh = data.refresh
      BY Zenon, <1>0, <2>2, <3>1 DEF IssueCommit, TypeOK, InteractionData
    <3>. QED BY Zenon, <1>0, <2>1, <3>2, TokenFrame
  <2>3. CASE ~IssueCommit(r)
    <3>. QED BY Zenon, <1>0, <2>1, <2>3, TokenFrame
  <2>. QED BY Zenon, <2>2, <2>3
<1>4. ASSUME NEW r \in NotificationRequests, NotificationStep(r) PROVE Goal
  <2>1. Same(TokenRequests) /\ data' = data
    BY Zenon, <1>0, <1>4, NotificationLeaves
  <2>. QED BY Zenon, <1>0, <2>1, TokenFrame
<1>5. ASSUME NEW r \in ValidityRequests, ValidityStep(r) PROVE Goal
  <2>1. Same(TokenRequests) /\ data' = data
    BY Zenon, <1>0, <1>5, ValidityLeaves
  <2>. QED BY <1>0, <2>1, TokenFrame
<1>6. ASSUME NEW r \in Requests, Abort(r) PROVE Goal
  <2>0. Same(Requests \ {r}) /\ data' = data /\ pc[r] # "done" /\ pc'[r] = "done"
           /\ answer'[r] = "aborted"
    BY Zenon, <1>0, <1>6, AbortLocal DEF Abort, Answer, Goto, TypeOK, rowVars
  <2>1. CASE r \in TokenRequests
    <3>1. Same(TokenRequests \ {r}) /\ r \notin Granted
      BY Zenon, <1>0, <2>0, <2>1, Kinds DEF Same, TokenInv
    <3>. QED BY Zenon, <2>0, <2>1, <3>1, TokenAside
  <2>2. CASE r \notin TokenRequests
    <3>1. Same(TokenRequests)
      BY Zenon, <2>0, <2>2, Kinds DEF Same
    <3>. QED BY Zenon, <1>0, <2>0, <3>1, TokenFrame
  <2>. QED BY Zenon, <2>1, <2>2
<1>. QED BY Zenon, <1>1, <1>2, <1>3, <1>4, <1>5, <1>6 DEF Next, RequestStep

============================================================================
