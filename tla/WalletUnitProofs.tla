-------------------------- MODULE WalletUnitProofs --------------------------
(***************************************************************************)
(* Proofs about WalletUnit, for any number of registrations, issuances,    *)
(* revocations and failures: the parts of the inductive invariant one by   *)
(* one, and from them the properties of registration, issuance and         *)
(* revocation.                                                             *)
(***************************************************************************)
EXTENDS WalletUnit, TLAPS

\* The steps of a registration, of an issuance, of a revocation.
Register(u) ==
  \/ RegisterCheck(u) \/ RegisterAtProvider(u) \/ RegisterFail(u) \/ AttestationKey(u)
  \/ ActivateLoad(u) \/ ActivateCommit(u) \/ ActivateError(u) \/ ActivateRefused(u)
  \/ AgainLoad(u) \/ AgainEnd(u) \/ RegisterStore(u)

Issue(i) == IssueAsk(i) \/ IssueLoad(i) \/ IssueCommit(i) \/ IssueFail(i)

Revoke(r) == RevokeLoad(r) \/ RevokeMark(r) \/ RevokeEntries(r) \/ RevokeFail(r)

UnitType == [status : {"absent", "Pending", "Active", "Error", "Revoked"}, key : Units \cup {None}]

(* Every step is one of these (Next). *)
LEMMA Steps ==
    ASSUME Next
    PROVE  \/ \E u \in Units : Register(u) \/ DeleteLoad(u)
           \/ \E i \in Issues : Issue(i)
           \/ \E r \in Revocations : Revoke(r)
           \/ DeleteUnit \/ CheckAsk \/ CheckStore
BY Zenon DEF Next, Register, Issue, Revoke

(* The outcome of an activation, written to a unit that exists whatever its *)
(* status (update_wallet_unit).                                            *)
LEMMA SettleUnit ==
    ASSUME TypeOK, NEW u \in Units, NEW o \in UnitType, Settle(u, o)
    PROVE  /\ \A v \in Units \ {u} : unit'[v] = unit[v]
           /\ unit'[u] = IF Exists(u) THEN o ELSE unit[u]
           /\ unit' \in [Units -> UnitType]
           /\ overwritten \subseteq overwritten' /\ overwritten' \subseteq Units
           /\ u \in overwritten' \/ unit[u].status \in {"absent", "Pending", o.status}
<1>1. CASE Exists(u)
  <2>1. unit' = [unit EXCEPT ![u] = o]
    BY Zenon, <1>1 DEF Settle
  <2> QED
    BY <1>1, <2>1 DEF Settle, TypeOK, UnitType
<1>2. CASE ~Exists(u)
  <2>1. unit' = unit
    BY Zenon, <1>2 DEF Settle
  <2> QED
    BY <1>2, <2>1 DEF Settle, TypeOK, UnitType
<1> QED
  BY Zenon, <1>1, <1>2

(* The two outcomes (activate_wallet_unit, set_wallet_unit_to_error). *)
LEMMA Outcomes ==
    ASSUME TypeOK, NEW u \in Units
    PROVE  Activated(u) \in UnitType /\ Errored(u) \in UnitType
BY DEF Activated, Errored, UnitType, TypeOK

(* A step of a registration leaves the other registrations alone, and the  *)
(* calls of the other kinds (holder_register, activate_wallet_unit).       *)
LEMMA RegisterFrame ==
    ASSUME TypeOK, NEW u \in Units, Register(u)
    PROVE  /\ UNCHANGED <<integrity, rows, entry, issue, check, rev, del, crossed>>
           /\ overwritten \subseteq overwritten'
           /\ \A v \in Units \ {u} : unit'[v] = unit[v] /\ reg'[v] = reg[v] /\ again'[v] = again[v]
<1>1. SameOthers
  BY Zenon DEF Register, RegisterCheck, RegisterAtProvider, RegisterFail, AttestationKey,
        ActivateLoad, ActivateCommit, ActivateError, ActivateRefused, AgainLoad, AgainEnd,
        RegisterStore
<1>2. overwritten \subseteq overwritten' /\ \A v \in Units \ {u} : unit'[v] = unit[v]
  <2>1. CASE \E o \in UnitType : Settle(u, o)
    BY Zenon, <2>1, SettleUnit
  <2>2. CASE overwritten' = overwritten /\ \A v \in Units \ {u} : unit'[v] = unit[v]
    BY Zenon, <2>2
  <2>3. CASE RegisterAtProvider(u)
    <3>1. PICK o : unit' = [unit EXCEPT ![u] = o]
      BY Zenon, <2>3 DEF RegisterAtProvider
    <3> QED
      BY Zenon, <2>2, <2>3, <3>1 DEF RegisterAtProvider, activation, TypeOK
  <2>4. CASE ActivateCommit(u) \/ ActivateError(u) \/ AgainEnd(u)
    BY Zenon, <2>1, <2>2, <2>4, Outcomes DEF ActivateCommit, ActivateError, AgainEnd
  <2> QED
    BY Zenon, <2>2, <2>3, <2>4 DEF Register, RegisterCheck, RegisterFail, AttestationKey,
          ActivateLoad, ActivateRefused, AgainLoad, RegisterStore, activation
<1>3. \A v \in Units \ {u} : reg'[v] = reg[v]
  <2>1. reg' = reg \/ (\E p : reg' = [reg EXCEPT ![u] = p]) \/ (\E p : reg' = [reg EXCEPT ![u].pc = p])
    BY Zenon DEF Register, RegisterCheck, RegisterAtProvider, RegisterFail, AttestationKey,
          ActivateLoad, ActivateCommit, ActivateError, ActivateRefused, AgainLoad, AgainEnd,
          RegisterStore, RegTo, GiveUp
  <2> QED
    BY Zenon, <2>1 DEF TypeOK
<1>4. \A v \in Units \ {u} : again'[v] = again[v]
  <2>1. again' = again \/ \E p : again' = [again EXCEPT ![u] = p]
    BY Zenon DEF Register, RegisterCheck, RegisterAtProvider, RegisterFail, AttestationKey,
          ActivateLoad, ActivateCommit, ActivateError, ActivateRefused, AgainLoad, AgainEnd,
          RegisterStore, activation, AgainTo
  <2> QED
    BY Zenon, <2>1 DEF TypeOK
<1> QED
  BY Zenon, <1>1, <1>2, <1>3, <1>4 DEF SameOthers

(* A registration never removes a unit. *)
LEMMA RegisterExists ==
    ASSUME TypeOK, NEW u \in Units, Register(u), NEW v \in Units, Exists(v)
    PROVE  unit'[v].status # "absent"
<1>1. CASE u # v
  BY Zenon, <1>1, RegisterFrame DEF Exists
<1>2. CASE Settle(v, Activated(v)) \/ Settle(v, Errored(v))
  <2>1. unit'[v] = Activated(v) \/ unit'[v] = Errored(v)
    BY Zenon, <1>2, SettleUnit, Outcomes
  <2> QED
    BY <2>1 DEF Activated, Errored
<1>3. CASE RegisterAtProvider(v)
  BY <1>3 DEF RegisterAtProvider, TypeOK
<1>4. CASE unit' = unit
  BY Zenon, <1>4 DEF Exists
<1> QED
  BY Zenon, <1>1, <1>2, <1>3, <1>4
     DEF Register, RegisterCheck, RegisterFail, AttestationKey, ActivateLoad, ActivateCommit,
         ActivateError, ActivateRefused, AgainLoad, AgainEnd, RegisterStore

(* Steps of a registration keep the types (holder_register, register_wallet_unit, *)
(* activate_wallet_unit).                                                  *)
LEMMA RegisterType ==
    ASSUME TypeOK, NEW u \in Units, Register(u)
    PROVE  TypeOK'
<1> USE WalletAssumption
<1>1. CASE RegisterCheck(u)
  BY <1>1 DEF RegisterCheck, TypeOK, SameOthers, RegTo, activation
<1>2. CASE RegisterAtProvider(u)
  BY <1>2 DEF RegisterAtProvider, TypeOK, SameOthers, RegTo, Failure, activation
<1>3. CASE RegisterFail(u)
  BY <1>3 DEF RegisterFail, TypeOK, SameOthers, RegTo, Failure, activation
<1>4. CASE AttestationKey(u)
  BY SMTT(40), <1>4 DEF AttestationKey, TypeOK, SameOthers, RegTo, Failure, activation
<1>5. CASE ActivateLoad(u)
  BY SMTT(40), <1>5 DEF ActivateLoad, Verdicts, TypeOK, SameOthers, RegTo, activation
<1>6. CASE ActivateCommit(u)
  <2>1. unit' \in [Units -> UnitType] /\ overwritten' \subseteq Units
    BY Zenon, <1>6, SettleUnit, Outcomes DEF ActivateCommit
  <2> QED
    BY <1>6, <2>1 DEF ActivateCommit, TypeOK, UnitType, SameOthers, RegTo, Failure
<1>7. CASE ActivateError(u)
  <2>1. unit' \in [Units -> UnitType] /\ overwritten' \subseteq Units
    BY Zenon, <1>7, SettleUnit, Outcomes DEF ActivateError
  <2> QED
    BY <1>7, <2>1 DEF ActivateError, TypeOK, UnitType, SameOthers, RegTo, Failure
<1>8. CASE ActivateRefused(u)
  BY <1>8 DEF ActivateRefused, TypeOK, SameOthers, RegTo, Failure, activation
<1>9. CASE AgainLoad(u)
  BY <1>9 DEF AgainLoad, AgainTo, Verdicts, TypeOK, SameOthers, Failure
<1>10. CASE AgainEnd(u)
  <2>1. unit' \in [Units -> UnitType] /\ overwritten' \subseteq Units
    <3>1. CASE UNCHANGED <<unit, overwritten>>
      BY Zenon, <3>1 DEF TypeOK, UnitType
    <3> QED
      BY Zenon, <1>10, <3>1, SettleUnit, Outcomes DEF AgainEnd
  <2> QED
    BY ZenonT(40), <1>10, <2>1 DEF AgainEnd, AgainTo, TypeOK, UnitType, SameOthers
<1>11. CASE RegisterStore(u)
  <2>1. holder' \in [unit : Units \cup {None}, status : {"none", "Unattested", "Active", "Revoked"},
                     key : Units \cup {None}]
    BY <1>11 DEF RegisterStore, TypeOK
  <2> QED
    BY <1>11, <2>1 DEF RegisterStore, TypeOK, SameOthers, RegTo, GiveUp, Failure, activation
<1> QED
  BY Zenon, <1>1, <1>2, <1>3, <1>4, <1>5, <1>6, <1>7, <1>8, <1>9, <1>10, <1>11 DEF Register

(* Steps of an issuance keep the types (issue_attestation). *)
LEMMA IssueType ==
    ASSUME TypeOK, NEW i \in Issues, Issue(i)
    PROVE  TypeOK'
<1> USE WalletAssumption DEF SameButIssue, wallet, activation
<1>1. CASE IssueAsk(i)
  BY <1>1 DEF IssueAsk, Request, TypeOK
<1>2. CASE IssueLoad(i)
  <2>1. CASE issue' = [issue EXCEPT ![i] = NoIssue("over")]
    BY <1>2, <2>1 DEF IssueLoad, NoIssue, TypeOK
  <2>2. CASE \E j \in RowChoices(i) : Loaded(i, j)
    <3>1. PICK j \in RowChoices(i), b \in BOOLEAN :
            issue' = [issue EXCEPT ![i].pc = "loaded", ![i].row = j, ![i].bare = b]
      BY Zenon, <2>2 DEF Loaded
    <3>2. j \in Issues \cup {None}
      BY Zenon, <3>1 DEF RowChoices, RowsFor, TypeOK
    <3> QED
      BY <1>2, <3>1, <3>2 DEF IssueLoad, TypeOK
  <2> QED
    BY Zenon, <1>2, <2>1, <2>2 DEF IssueLoad
<1>3. CASE IssueCommit(i)
  <2>1. \/ issue' = [issue EXCEPT ![i].pc = "issued"]
        \/ issue' = [issue EXCEPT ![i] = NoIssue("over")]
    BY Zenon, <1>3 DEF IssueCommit
  <2>2. rows' \subseteq Issues /\ crossed' \subseteq Issues
    BY <1>3 DEF IssueCommit, TypeOK
  <2>3. entry' = entry \/ entry' = [entry EXCEPT ![i] = "active"]
    BY <1>3 DEF IssueCommit, TypeOK
  <2>4. issue' \in [Issues -> [pc : {"idle", "asked", "loaded", "issued", "over"},
                              unit : Units \cup {None}, key : Keys \cup {None},
                              row : Issues \cup {None}, bare : BOOLEAN]]
    <3>1. CASE issue' = [issue EXCEPT ![i].pc = "issued"]
      BY <3>1 DEF TypeOK
    <3>2. CASE issue' = [issue EXCEPT ![i] = NoIssue("over")]
      BY <3>2 DEF NoIssue, TypeOK
    <3> QED
      BY Zenon, <2>1, <3>1, <3>2
  <2>6. entry' \in [Issues -> {"none", "active", "revoked"}]
    BY Zenon, <2>3 DEF TypeOK
  <2>5. UNCHANGED <<wallet, unit, activation, rev, del, failures>>
    BY Zenon, <1>3 DEF IssueCommit
  <2> QED
    BY Zenon, <2>2, <2>4, <2>5, <2>6 DEF TypeOK
<1>4. CASE IssueFail(i)
  BY <1>4 DEF IssueFail, NoIssue, Failure, TypeOK
<1> QED
  BY Zenon, <1>1, <1>2, <1>3, <1>4 DEF Issue

(* The update of the unit, which fails when it is gone (update_wallet_unit). *)
LEMMA RevokeMarkUnit ==
    ASSUME TypeOK, NEW r \in Revocations, RevokeMark(r)
    PROVE  \/ ~Exists(rev[r].unit) /\ unit' = unit
           \/ Exists(rev[r].unit) /\ unit' = [unit EXCEPT ![rev[r].unit].status = "Revoked"]
<1> DEFINE u == rev[r].unit
<1>1. unit' = [unit EXCEPT ![u].status = IF Exists(u) THEN "Revoked" ELSE @]
  BY Zenon DEF RevokeMark
<1>2. CASE Exists(u)
  BY Zenon, <1>1, <1>2
<1>3. CASE ~Exists(u)
  <2>1. unit' = [unit EXCEPT ![u].status = @]
    BY Zenon, <1>1, <1>3
  <2> QED
    BY <1>3, <2>1 DEF TypeOK
<1> QED
  BY Zenon, <1>2, <1>3

(* Steps of a revocation keep the types (revoke_wallet_unit). *)
LEMMA RevokeType ==
    ASSUME TypeOK, NEW r \in Revocations, Revoke(r)
    PROVE  TypeOK'
<1> USE WalletAssumption DEF TypeOK, SameButRevoke, wallet, activation, Failure, NoRevoke
<1>1. CASE RevokeLoad(r)
  BY <1>1 DEF RevokeLoad
<1>2. CASE RevokeMark(r)
  <2>1. unit' \in [Units -> UnitType]
    <3>1. unit' = unit \/ unit' = [unit EXCEPT ![rev[r].unit].status = "Revoked"]
      BY Zenon, <1>2, RevokeMarkUnit
    <3> QED
      BY <3>1 DEF UnitType
  <2>2. rev' \in [Revocations -> [pc : {"idle", "loaded", "marked", "done", "failed"},
                                  unit : Units \cup {None}, keys : SUBSET Issues]]
    <3>1. \/ rev' = [rev EXCEPT ![r] = [@ EXCEPT !.pc = "marked"]]
          \/ rev' = [rev EXCEPT ![r] = NoRevoke("failed")]
      BY Zenon, <1>2 DEF RevokeMark
    <3> QED
      BY <3>1
  <2>3. crossed' \subseteq Issues
    BY Zenon, <1>2 DEF RevokeMark
  <2> QED
    BY <1>2, <2>1, <2>2, <2>3 DEF RevokeMark, UnitType
<1>3. CASE RevokeEntries(r)
  BY <1>3 DEF RevokeEntries
<1>4. CASE RevokeFail(r)
  BY <1>4 DEF RevokeFail
<1> QED
  BY Zenon, <1>1, <1>2, <1>3, <1>4 DEF Revoke

(* Every step keeps the types. *)
LEMMA TypeStep ==
    ASSUME TypeOK, [Next]_vars
    PROVE  TypeOK'
<1>1. CASE Next
  <2>1. CASE \E u \in Units : DeleteLoad(u)
    BY <2>1 DEF DeleteLoad, SameButDelete, wallet, activation, TypeOK
  <2>2. CASE DeleteUnit
    BY ZenonT(40), <2>2 DEF DeleteUnit, NoDelete, SameButDelete, wallet, activation, TypeOK
  <2>3. CASE CheckAsk
    BY Zenon, <2>3 DEF CheckAsk, SameButCheck, provider, activation, TypeOK
  <2>4. CASE CheckStore
    BY Zenon, <2>4 DEF CheckStore, NoCheck, SameButCheck, provider, activation, TypeOK
  <2> QED
    BY Zenon, <1>1, <2>1, <2>2, <2>3, <2>4, Steps, RegisterType, IssueType, RevokeType
<1>2. CASE UNCHANGED vars
  BY ZenonT(40), <1>2 DEF vars, TypeOK
<1> QED
  BY Zenon, <1>1, <1>2

\* What registrations, and the records made of them, depend on.
registered == <<unit, again, reg, overwritten>>

(* Most steps outside a registration leave units and registrations alone:  *)
(* all but the mark of a revocation and a deletion.                        *)
LEMMA RegisteredFrame ==
    ASSUME [Next]_vars, \A u \in Units : ~Register(u), ~DeleteUnit,
           \A r \in Revocations : ~RevokeMark(r)
    PROVE  UNCHANGED registered
<1>1. CASE \E u \in Units : DeleteLoad(u)
  BY Zenon, <1>1 DEF DeleteLoad, SameButDelete, wallet, activation, registered
<1>2. CASE \E i \in Issues : Issue(i)
  <2>1. SameButIssue
    BY Zenon, <1>2 DEF Issue, IssueAsk, IssueLoad, IssueCommit, IssueFail
  <2> QED
    BY Zenon, <2>1 DEF SameButIssue, wallet, activation, registered
<1>3. CASE \E r \in Revocations : Revoke(r)
  <2>1. SameButRevoke /\ unit' = unit
    BY Zenon, <1>3 DEF Revoke, RevokeLoad, RevokeEntries, RevokeFail
  <2> QED
    BY Zenon, <2>1 DEF SameButRevoke, wallet, activation, registered
<1>4. CASE CheckAsk \/ CheckStore
  BY Zenon, <1>4 DEF CheckAsk, CheckStore, SameButCheck, provider, activation, registered
<1>5. CASE UNCHANGED vars
  BY Zenon, <1>5 DEF vars, registered
<1> QED
  BY Zenon, <1>1, <1>2, <1>3, <1>4, <1>5, Steps

(* The status of a unit in registration, and the key of the registration.  *)
(* Outside the registration only a revocation and a deletion touch a unit. *)
LEMMA RegistrationStep ==
    ASSUME IInv, [Next]_vars
    PROVE  RegistrationInv'
<1>0. TypeOK /\ RegistrationInv /\ RevocationInv /\ TypeOK'
  BY Zenon, TypeStep DEF IInv
<1>1. ASSUME NEW u \in Units, Register(u)
      PROVE  Registration(u)'
  <2>0. Registration(u) /\ unit[u] \in UnitType /\ u # None
    BY <1>0, WalletAssumption DEF RegistrationInv, TypeOK, UnitType
  <2> USE DEF RegTo
  <2>1. CASE RegisterCheck(u)
    BY <1>0, <2>0, <2>1 DEF RegisterCheck, activation, Registration, TypeOK
  <2>2. CASE RegisterAtProvider(u)
    BY <1>0, <2>0, <2>2 DEF RegisterAtProvider, activation, Registration, Settled, TypeOK
  <2>3. CASE RegisterFail(u)
    BY <1>0, <2>0, <2>3 DEF RegisterFail, activation, Registration, TypeOK
  <2>4. CASE AttestationKey(u)
    <3>1. PICK q \in {"activating", "storing", "failed"} : reg' = [reg EXCEPT ![u].pc = q]
      BY Zenon, <2>4 DEF AttestationKey
    <3>2. UNCHANGED <<unit, again, overwritten>> /\ reg[u].pc = "attesting"
      BY Zenon, <2>4 DEF AttestationKey, activation
    <3> QED
      BY <1>0, <2>0, <3>1, <3>2 DEF Registration, TypeOK
  <2>5. CASE ActivateLoad(u)
    <3>1. PICK q \in {"storing", "valid", "invalid"} :
            /\ reg' = [reg EXCEPT ![u].pc = q]
            /\ q # "storing" => unit[u].status = "Pending"
      BY Zenon, <2>5 DEF ActivateLoad, Verdicts
    <3>2. UNCHANGED <<unit, again, overwritten>> /\ reg[u].pc = "activating"
      BY Zenon, <2>5 DEF ActivateLoad, activation
    <3> QED
      BY <1>0, <2>0, <3>1, <3>2 DEF Registration, TypeOK
  <2>6. CASE ActivateCommit(u)
    <3>1. unit'[u] = IF Exists(u) THEN Activated(u) ELSE unit[u]
      BY Zenon, <1>0, <2>6, SettleUnit, Outcomes DEF ActivateCommit
    <3>2. /\ reg[u].pc = "valid" /\ reg'[u].key \in {None, u}
          /\ reg'[u].pc \in {"storing", "failed"}
          /\ reg'[u].key = u => Exists(u)
      BY <1>0, <2>0, <2>6 DEF ActivateCommit, Registration, TypeOK
    <3> QED
      BY <2>0, <3>1, <3>2 DEF Registration, Activated, Exists, Settled
  <2>7. CASE ActivateError(u)
    <3>1. unit'[u] = IF Exists(u) THEN Errored(u) ELSE unit[u]
      BY Zenon, <1>0, <2>7, SettleUnit, Outcomes DEF ActivateError
    <3>2. reg[u].pc = "invalid" /\ reg'[u].key = None /\ reg'[u].pc \in {"storing", "failed"}
      BY <1>0, <2>0, <2>7 DEF ActivateError, Registration, TypeOK
    <3> QED
      BY <2>0, <3>1, <3>2 DEF Registration, Errored
  <2>8. CASE ActivateRefused(u)
    BY <1>0, <2>0, <2>8 DEF ActivateRefused, activation, Registration, TypeOK
  <2>9. CASE AgainLoad(u)
    <3>1. /\ UNCHANGED <<unit, reg, overwritten>> /\ unit[u].status = "Pending"
          /\ reg[u].pc \in {"activating", "valid", "invalid"}
      BY Zenon, <2>9 DEF AgainLoad
    <3> QED
      BY <2>0, <3>1 DEF Registration
  <2>10. CASE AgainEnd(u)
    <3>1. reg' = reg /\ again'[u] = "done" /\ again[u] # "none"
      BY <1>0, <2>10 DEF AgainEnd, AgainTo, TypeOK
    <3>2. CASE UNCHANGED <<unit, overwritten>>
      BY <2>0, <3>1, <3>2 DEF Registration
    <3>3. CASE Settle(u, Activated(u))
      <4>1. unit'[u] = IF Exists(u) THEN Activated(u) ELSE unit[u]
        BY Zenon, <1>0, <3>3, SettleUnit, Outcomes
      <4> QED
        BY <2>0, <3>1, <4>1 DEF Registration, Activated, Exists, Settled
    <3>4. CASE Settle(u, Errored(u))
      <4>1. /\ unit'[u] = IF Exists(u) THEN Errored(u) ELSE unit[u]
            /\ u \in overwritten' \/ unit[u].status \in {"absent", "Pending", Errored(u).status}
            /\ overwritten \subseteq overwritten'
        BY Zenon, <1>0, <3>4, SettleUnit, Outcomes
      <4> QED
        BY <2>0, <3>1, <4>1 DEF Registration, Errored, Exists, Settled
    <3> QED
      BY Zenon, <2>10, <3>2, <3>3, <3>4 DEF AgainEnd
  <2>11. CASE RegisterStore(u)
    <3>1. /\ reg'[u].pc \in {"done", "failed"} /\ reg'[u].key \in {None, reg[u].key}
          /\ reg[u].pc = "storing" /\ UNCHANGED <<unit, again, overwritten>>
      BY <1>0, <2>11 DEF RegisterStore, GiveUp, activation, TypeOK
    <3> QED
      BY <2>0, <3>1 DEF Registration
  <2> QED
    BY Zenon, <1>1, <2>1, <2>2, <2>3, <2>4, <2>5, <2>6, <2>7, <2>8, <2>9, <2>10, <2>11
       DEF Register
<1>2. ASSUME NEW u \in Units, Register(u), NEW v \in Units \ {u}
      PROVE  Registration(v)'
  <2>1. /\ unit'[v] = unit[v] /\ reg'[v] = reg[v] /\ again'[v] = again[v]
        /\ overwritten \subseteq overwritten'
    BY Zenon, <1>0, <1>2, RegisterFrame
  <2>2. Registration(v)
    BY Zenon, <1>0 DEF RegistrationInv
  <2> QED
    BY Zenon, <2>1, <2>2 DEF Registration
<1>3. ASSUME NEW r \in Revocations, RevokeMark(r)
      PROVE  RegistrationInv'
  <2>1. UNCHANGED <<reg, again, overwritten>>
    BY Zenon, <1>3 DEF RevokeMark, SameButRevoke, wallet, activation
  <2>2. PICK w \in Units :
          /\ w = rev[r].unit /\ reg[w].pc \notin {"idle", "checked"}
          /\ Exists(w) => unit[w].key = w
    BY Zenon, <1>0, <1>3 DEF RevocationInv, RevokeMark
  <2>3. CASE Exists(w)
    <3>1. unit' = [unit EXCEPT ![w].status = "Revoked"]
      BY Zenon, <1>0, <1>3, <2>2, <2>3, RevokeMarkUnit
    <3>2. w # None /\ Registration(w)
      BY <1>0, WalletAssumption DEF RegistrationInv
    <3>6. unit[w].status \notin {"Pending", "absent"}
      BY Zenon, <2>2, <2>3, <3>2 DEF Registration, Exists
    <3>3. Registration(w)'
      BY <1>0, <2>1, <2>2, <2>3, <3>1, <3>2, <3>6 DEF Registration, Settled, TypeOK
    <3>4. \A v \in Units \ {w} : unit'[v] = unit[v]
      BY <1>0, <3>1 DEF TypeOK
    <3>5. ASSUME NEW v \in Units \ {w}
          PROVE  Registration(v)'
      <4>1. Registration(v) /\ unit'[v] = unit[v]
        BY Zenon, <1>0, <3>4 DEF RegistrationInv
      <4> QED
        BY Zenon, <2>1, <4>1 DEF Registration
    <3> QED
      BY Zenon, <3>3, <3>5 DEF RegistrationInv
  <2>4. CASE ~Exists(w)
    <3>1. unit' = unit
      BY Zenon, <1>0, <1>3, <2>2, <2>4, RevokeMarkUnit
    <3> QED
      BY Zenon, <1>0, <2>1, <3>1 DEF RegistrationInv, Registration
  <2> QED
    BY Zenon, <2>3, <2>4
<1>4. CASE DeleteUnit
  <2>1. UNCHANGED <<reg, again, overwritten>>
    BY Zenon, <1>4 DEF DeleteUnit, SameButDelete, wallet, activation
  <2>2. \A v \in Units : unit'[v] = unit[v] \/ unit'[v] = [status |-> "absent", key |-> None]
    BY ZenonT(40), <1>0, <1>4 DEF DeleteUnit, TypeOK
  <2> QED
    BY <1>0, <2>1, <2>2 DEF RegistrationInv, Registration, Settled
<1>5. CASE UNCHANGED registered
  BY Zenon, <1>0, <1>5 DEF RegistrationInv, Registration, registered
<1> QED
  BY Zenon, <1>1, <1>2, <1>3, <1>4, <1>5, RegisteredFrame DEF RegistrationInv

(* A unit that is revoked, gone or overwritten remains so: an activation   *)
(* that still changes it is recorded as overwriting it, provided that the  *)
(* registration has got past its creation (activate_wallet_unit).          *)
LEMMA RevokedKept ==
    ASSUME IInv, [Next]_vars, NEW v \in Units, RevokedAt(v), reg[v].pc \notin {"idle", "checked"}
    PROVE  RevokedAt(v)'
<1>0. TypeOK
  BY Zenon DEF IInv
<1>1. ASSUME NEW u \in Units, Register(u), u # v
      PROVE  RevokedAt(v)'
  <2>1. unit'[v] = unit[v] /\ overwritten \subseteq overwritten'
    BY Zenon, <1>0, <1>1, RegisterFrame
  <2> QED
    BY Zenon, <2>1 DEF RevokedAt
<1>2. CASE Register(v)
  <2>1. overwritten \subseteq overwritten'
    BY Zenon, <1>0, <1>2, RegisterFrame
  <2>2. ASSUME NEW o \in UnitType, Settle(v, o)
        PROVE  RevokedAt(v)'
    <3>1. /\ unit'[v] = IF Exists(v) THEN o ELSE unit[v]
          /\ v \in overwritten' \/ unit[v].status \in {"absent", "Pending", o.status}
      BY Zenon, <1>0, <2>2, SettleUnit
    <3>2. CASE unit[v].status = "absent"
      BY Zenon, <3>1, <3>2 DEF RevokedAt, Exists
    <3>3. CASE v \in overwritten
      BY Zenon, <2>1, <3>3 DEF RevokedAt
    <3>4. CASE unit[v].status = "Revoked"
      BY <3>1, <3>4 DEF RevokedAt, Exists
    <3> QED
      BY Zenon, <3>2, <3>3, <3>4 DEF RevokedAt
  <2>3. CASE unit' = unit
    BY Zenon, <2>1, <2>3 DEF RevokedAt
  <2>4. ~RegisterAtProvider(v)
    BY Zenon DEF RegisterAtProvider
  <2> QED
    BY Zenon, <1>0, <1>2, <2>2, <2>3, <2>4, Outcomes
       DEF Register, RegisterCheck, RegisterFail, AttestationKey, ActivateLoad, ActivateCommit,
           ActivateError, ActivateRefused, AgainLoad, AgainEnd, RegisterStore
<1>3. ASSUME NEW r \in Revocations, RevokeMark(r)
      PROVE  RevokedAt(v)'
  <2>1. unit' = unit \/ unit' = [unit EXCEPT ![rev[r].unit].status = "Revoked"]
    BY Zenon, <1>0, <1>3, RevokeMarkUnit
  <2>2. overwritten' = overwritten
    BY Zenon, <1>3 DEF RevokeMark, SameButRevoke, activation
  <2> QED
    BY <1>0, <2>1, <2>2 DEF RevokedAt, TypeOK
<1>4. CASE DeleteUnit
  <2>1. unit'[v] = unit[v] \/ unit'[v].status = "absent"
    BY Zenon, <1>0, <1>4 DEF DeleteUnit, TypeOK
  <2>2. overwritten' = overwritten
    BY Zenon, <1>4 DEF DeleteUnit, SameButDelete, activation
  <2> QED
    BY Zenon, <2>1, <2>2 DEF RevokedAt
<1>5. CASE UNCHANGED registered
  BY Zenon, <1>5 DEF RevokedAt, registered
<1> QED
  BY Zenon, <1>1, <1>2, <1>3, <1>4, <1>5, RegisteredFrame

(* The wallet's record and the registration that stored it; the status     *)
(* check works on that record (holder_register, holder_wallet_unit_status). *)
LEMMA HolderStep ==
    ASSUME IInv, [Next]_vars
    PROVE  HolderInv'
<1>0. TypeOK /\ RegistrationInv /\ HolderInv /\ TypeOK'
  BY Zenon, TypeStep DEF IInv
<1>1. ASSUME UNCHANGED <<holder, check>>,
             \A v \in Units : reg[v].pc \in {"done", "failed"} => reg'[v] = reg[v],
             \A v \in Units : reg'[v].pc = "done" => reg[v].pc = "done"
      PROVE  HolderInv'
  <2>1. holder.unit # None =>
          /\ holder.unit \in Units /\ reg'[holder.unit] = reg[holder.unit]
          /\ reg[holder.unit].pc \in {"done", "failed"}
    BY ZenonT(40), <1>0, <1>1 DEF HolderInv, TypeOK
  <2>2. ASSUME holder.unit # None, RevokedAt(holder.unit)
        PROVE  RevokedAt(holder.unit)'
    <3>1. PICK h \in Units : h = holder.unit
      BY Zenon, <2>1, <2>2
    <3>2. RevokedAt(h) /\ reg[h].pc \notin {"idle", "checked"}
      BY <2>1, <2>2, <3>1
    <3>3. RevokedAt(h)'
      BY Zenon, <3>2, RevokedKept
    <3> QED
      BY Zenon, <1>1, <3>1, <3>3 DEF RevokedAt
  <2>3. OneRegistration'
    BY Zenon, <1>0, <1>1 DEF HolderInv, OneRegistration
  <2>4. /\ holder'.unit # None => /\ reg'[holder'.unit].pc \in {"done", "failed"}
                                  /\ holder'.key = reg'[holder'.unit].key
        /\ holder'.status = "none" <=> holder'.unit = None
        /\ holder'.status \in {"Active", "Revoked"} => holder'.key # None
    BY Zenon, <1>0, <1>1, <2>1 DEF HolderInv
  <2>5. holder.status \in {"Active", "Revoked"} => holder.unit # None
    BY <1>0 DEF HolderInv
  <2>6. holder'.status = "Revoked" => RevokedAt(holder.unit)'
    BY Zenon, <1>0, <1>1, <2>2, <2>5 DEF HolderInv
  <2>7. check'.pc = "revoked" => /\ check'.unit = holder'.unit /\ RevokedAt(holder.unit)'
                                 /\ holder'.status \in {"Active", "Revoked"}
    BY Zenon, <1>0, <1>1, <2>2, <2>5 DEF HolderInv
  <2> QED
    BY Zenon, <1>1, <2>3, <2>4, <2>6, <2>7 DEF HolderInv, RevokedAt
<1>2. ASSUME NEW u \in Units, RegisterStore(u)
      PROVE  HolderInv'
  <2>0. /\ UNCHANGED <<unit, overwritten, check>> /\ reg[u].pc = "storing"
        /\ holder.unit # u
    BY <1>0, <1>2, WalletAssumption DEF RegisterStore, activation, SameOthers, HolderInv
  <2>1. \A v \in Units \ {u} : reg'[v] = reg[v]
    BY Zenon, <1>0, <1>2, RegisterFrame DEF Register
  <2>2. CASE holder' = holder /\ GiveUp(u)
    <3>1. reg'[u].pc = "failed"
      BY <1>0, <2>2 DEF GiveUp, TypeOK
    <3> QED
      BY <1>1, <2>0, <2>1, <2>2, <3>1
  <2>3. CASE ~(holder' = holder /\ GiveUp(u))
    <3>1. /\ holder.unit = None
          /\ holder' = [unit |-> u, key |-> reg[u].key,
                        status |-> IF reg[u].key = None THEN "Unattested" ELSE "Active"]
          /\ reg' = [reg EXCEPT ![u].pc = "done"] \/ reg' = [reg EXCEPT ![u].pc = "failed"]
      BY Zenon, <1>2, <2>3 DEF RegisterStore, RegTo
    <3>2. reg'[u].pc \in {"done", "failed"} /\ reg'[u].key = reg[u].key
      BY <1>0, <3>1 DEF TypeOK
    <3>3. check.pc # "revoked" /\ \A v \in Units : reg[v].pc # "done"
      BY <1>0, <3>1, WalletAssumption DEF HolderInv, OneRegistration
    <3>4. OneRegistration'
      BY <2>1, <3>1, <3>3 DEF OneRegistration
    <3>5. /\ holder'.unit = u /\ holder'.key = reg[u].key
          /\ holder'.status = (IF reg[u].key = None THEN "Unattested" ELSE "Active")
      BY Zenon, <3>1
    <3> QED
      BY <2>0, <3>2, <3>3, <3>4, <3>5, WalletAssumption DEF HolderInv
  <2> QED
    BY Zenon, <2>2, <2>3
<1>3. ASSUME NEW u \in Units, Register(u), ~RegisterStore(u)
      PROVE  HolderInv'
  <2>1. holder' = holder
    BY Zenon, <1>3 DEF Register, RegisterCheck, RegisterAtProvider, RegisterFail,
          AttestationKey, ActivateLoad, ActivateCommit, ActivateError, ActivateRefused,
          AgainLoad, AgainEnd
  <2>2. check' = check /\ \A v \in Units \ {u} : reg'[v] = reg[v]
    BY Zenon, <1>0, <1>3, RegisterFrame
  <2>3. \/ reg' = reg
        \/ reg[u].pc \notin {"done", "failed"} /\ reg'[u].pc # "done"
    BY <1>0, <1>3 DEF Register, RegisterCheck, RegisterAtProvider, RegisterFail,
          AttestationKey, ActivateLoad, Verdicts, ActivateCommit, ActivateError, ActivateRefused,
          AgainLoad, AgainEnd, RegTo, TypeOK
  <2> QED
    BY <1>1, <2>1, <2>2, <2>3
<1>4. ASSUME NEW r \in Revocations, RevokeMark(r)
      PROVE  UNCHANGED <<reg, holder, check>>
  BY Zenon, <1>4 DEF RevokeMark, SameButRevoke, wallet
<1>5. ASSUME DeleteUnit
      PROVE  UNCHANGED <<reg, holder, check>>
  BY Zenon, <1>5 DEF DeleteUnit, SameButDelete, wallet
<1>6. CASE CheckAsk
  <2>1. /\ holder' = holder /\ reg' = reg /\ unit' = unit /\ overwritten' = overwritten
        /\ check'.pc = "revoked" /\ check'.unit = holder.unit
        /\ holder.status = "Active" /\ Exists(holder.unit) /\ unit[holder.unit].status # "Active"
    BY Zenon, <1>6 DEF CheckAsk, CheckDue, SameButCheck, provider, activation
  <2>2. holder.unit \in Units /\ reg[holder.unit].key # None
    BY <1>0, <2>1 DEF HolderInv, TypeOK
  <2>3. unit[holder.unit].status \in Settled \/ holder.unit \in overwritten
    BY Zenon, <1>0, <2>2 DEF RegistrationInv, Registration
  <2>4. RevokedAt(holder.unit)
    BY <2>1, <2>3 DEF RevokedAt, Settled, Exists
  <2> QED
    BY <1>0, <2>1, <2>4 DEF HolderInv, OneRegistration, RevokedAt
<1>7. CASE CheckStore
  <2>1. /\ reg' = reg /\ unit' = unit /\ overwritten' = overwritten
        /\ holder'.unit = holder.unit /\ holder'.key = holder.key /\ holder'.status = "Revoked"
        /\ check'.pc = "idle" /\ check.pc = "revoked"
    BY <1>0, <1>7 DEF CheckStore, NoCheck, SameButCheck, provider, activation, TypeOK
  <2> QED
    BY <1>0, <2>1 DEF HolderInv, OneRegistration, RevokedAt
<1>8. CASE UNCHANGED <<reg, holder, check>>
  BY Zenon, <1>1, <1>8
<1>9. ASSUME \/ \E u \in Units : DeleteLoad(u)
             \/ \E i \in Issues : Issue(i)
             \/ \E r \in Revocations : Revoke(r)
             \/ UNCHANGED vars
      PROVE  UNCHANGED <<reg, holder, check>>
  BY Zenon, <1>9 DEF DeleteLoad, SameButDelete, Issue, IssueAsk, IssueLoad, IssueCommit,
        IssueFail, SameButIssue, Revoke, RevokeLoad, RevokeMark, RevokeEntries, RevokeFail,
        SameButRevoke, wallet, vars
<1> QED
  BY Zenon, <1>2, <1>3, <1>4, <1>5, <1>6, <1>7, <1>8, <1>9, Steps

(* An issuance that ends without a key attestation leaves nothing behind.  *)
LEMMA IssueOver ==
    ASSUME TypeOK, NEW i \in Issues, issue' = [issue EXCEPT ![i] = NoIssue("over")]
    PROVE  /\ \A j \in Issues \ {i} : issue'[j] = issue[j]
           /\ issue'[i].pc = "over" /\ ~issue'[i].bare
BY DEF TypeOK, NoIssue

(* A step of one issuance that stores no row concerns only what is known   *)
(* of that issuance (issue_attestation).                                   *)
LEMMA IssueRow ==
    ASSUME TypeOK, RowInv, NEW i \in Issues, i \notin rows, UNCHANGED <<rows, entry, unit>>,
           \A j \in Issues \ {i} : issue'[j] = issue[j],
           issue'[i].unit \in Units \/ issue'[i].pc = "over",
           issue'[i].pc \in {"loaded", "issued"} => RowOf(i)',
           issue'[i].bare => issue'[i].row = i
    PROVE  RowInv'
<1>1. \A j \in rows : j \in Issues /\ issue'[j] = issue[j]
  BY Zenon DEF TypeOK
<1>2. \A j \in rows' : /\ issue'[j].pc = "issued" /\ issue'[j].row = j /\ issue'[j].key # None
                       /\ issue'[j].unit \in Units /\ Exists(issue[j].unit)'
  BY <1>1 DEF RowInv, Exists
<1>3. /\ \A j \in Issues : issue'[j].pc \notin {"idle", "over"} => issue'[j].unit \in Units
      /\ \A j \in Issues : issue'[j].bare => issue'[j].row = j
  BY Zenon DEF RowInv
<1>4. ASSUME NEW j \in Issues, issue'[j].pc \in {"loaded", "issued"}, j # i
      PROVE  RowOf(j)'
  <2>1. RowOf(j) /\ issue'[j] = issue[j]
    BY Zenon, <1>4 DEF RowInv
  <2> QED
    BY Zenon, <1>1, <2>1 DEF RowOf
<1> QED
  BY ZenonT(40), <1>2, <1>3, <1>4 DEF RowInv

(* Attested key rows and their status list entries.  Rows are only added,  *)
(* by the issuance they are named for, and keep their unit from being      *)
(* deleted (issue_attestation, delete_wallet_unit).                        *)
LEMMA RowStep ==
    ASSUME IInv, [Next]_vars
    PROVE  RowInv'
<1>0. TypeOK /\ RegistrationInv /\ HolderInv /\ RowInv /\ RevocationInv
  BY Zenon DEF IInv
<1>1. ASSUME UNCHANGED <<rows, entry, issue>>,
             \A u \in Units : Exists(u) =>
                unit'[u].status # "absent" \/ \A j \in rows : issue[j].unit # u
      PROVE  RowInv'
  BY ZenonT(40), <1>0, <1>1 DEF RowInv, RowOf, Exists
<1>2. ASSUME NEW i \in Issues, IssueAsk(i)
      PROVE  RowInv'
  <2>1. PICK k \in Keys \cup {None} :
          issue' = [issue EXCEPT ![i] =
                      [pc |-> "asked", unit |-> holder.unit, key |-> k, row |-> None,
                       bare |-> FALSE]]
    BY Zenon, <1>2 DEF IssueAsk, Request
  <2>2. /\ issue[i].pc = "idle" /\ i \notin rows
        /\ holder.unit \in Units
        /\ UNCHANGED <<rows, entry, unit>>
    BY Zenon, <1>0, <1>2 DEF IssueAsk, SameButIssue, RowInv, HolderInv, TypeOK
  <2>3. /\ \A j \in Issues \ {i} : issue'[j] = issue[j]
        /\ issue'[i].pc = "asked" /\ issue'[i].unit = holder.unit /\ ~issue'[i].bare
    BY ZenonT(40), <1>0, <2>1 DEF TypeOK
  <2> QED
    BY Zenon, <1>0, <2>2, <2>3, IssueRow
<1>3. ASSUME NEW i \in Issues, IssueLoad(i)
      PROVE  RowInv'
  <2> DEFINE u == issue[i].unit
             k == issue[i].key
  <2>1. /\ issue[i].pc = "asked" /\ i \notin rows
        /\ UNCHANGED <<rows, entry, unit>>
        /\ rows \subseteq Issues
    BY Zenon, <1>0, <1>3 DEF IssueLoad, SameButIssue, RowInv, TypeOK
  <2>2. CASE issue' = [issue EXCEPT ![i] = NoIssue("over")]
    BY Zenon, <1>0, <2>1, <2>2, IssueOver, IssueRow
  <2>3. CASE issue' # [issue EXCEPT ![i] = NoIssue("over")]
    <3>1. PICK j \in RowChoices(i), b \in BOOLEAN :
            /\ issue' = [issue EXCEPT ![i].pc = "loaded", ![i].row = j, ![i].bare = b]
            /\ b => j = i
      BY Zenon, <1>3, <2>3 DEF IssueLoad, Loaded
    <3>2. /\ \A l \in Issues \ {i} : issue'[l] = issue[l]
          /\ issue'[i].pc = "loaded" /\ issue'[i].unit = u
          /\ issue'[i].key = k /\ issue'[i].row = j /\ issue'[i].bare = b
      BY <1>0, <3>1 DEF TypeOK
    <3>3. IF k = None THEN j = None
          ELSE j = i \/ (j \in rows /\ issue[j].unit = u /\ issue[j].key = k)
      BY Zenon, <3>1 DEF RowChoices, RowsFor
    <3>4. RowOf(i)'
      BY Zenon, <2>1, <3>2, <3>3 DEF RowOf
    <3>5. issue'[i].unit \in Units /\ (issue'[i].bare => issue'[i].row = i)
      BY <1>0, <2>1, <3>1, <3>2 DEF RowInv
    <3> QED
      BY Zenon, <1>0, <2>1, <3>2, <3>4, <3>5, IssueRow
  <2> QED
    BY Zenon, <2>2, <2>3
<1>4. ASSUME NEW i \in Issues, IssueCommit(i)
      PROVE  RowInv'
  <2>1. issue[i].pc = "loaded" /\ i \notin rows /\ unit' = unit /\ rows \subseteq Issues
    BY Zenon, <1>0, <1>4 DEF IssueCommit, SameButIssue, RowInv, TypeOK
  <2>2. CASE issue' = [issue EXCEPT ![i].pc = "issued"]
    <3>0. issue[i].key # None /\ issue[i].unit \in Units /\ Exists(issue[i].unit)
      <4>1. issue'[i].pc = "issued"
        BY <1>0, <2>2 DEF TypeOK
      <4>2. ~(issue' = [issue EXCEPT ![i] = NoIssue("over")])
        BY <1>0, <4>1, IssueOver
      <4> QED
        BY Zenon, <1>0, <1>4, <2>1, <4>2 DEF IssueCommit, RowInv
    <3>1. /\ \A j \in Issues \ {i} : issue'[j] = issue[j]
          /\ issue'[i].unit = issue[i].unit /\ issue'[i].key = issue[i].key
          /\ issue'[i].row = issue[i].row /\ issue'[i].bare = issue[i].bare
          /\ issue'[i].pc = "issued"
      BY <1>0, <2>2 DEF TypeOK
    <3>2. CASE issue[i].row = i
      <4>1. rows' = rows \cup {i} /\ entry' = [entry EXCEPT ![i] = "active"]
        BY <1>0, <1>4, <3>0, <3>2 DEF IssueCommit, TypeOK
      <4>2. \A j \in rows : j # i /\ j \in Issues
        BY Zenon, <2>1
      <4>3. \A j \in Issues : issue'[j].pc \in {"loaded", "issued"} => RowOf(j)'
        BY <1>0, <2>1, <3>0, <3>1, <3>2, <4>1, <4>2 DEF RowInv, RowOf
      <4> QED
        BY SMTT(40), <1>0, <2>1, <3>0, <3>1, <3>2, <4>1, <4>2, <4>3 DEF RowInv, Exists, TypeOK
    <3>3. CASE issue[i].row # i
      <4>1. rows' = rows /\ entry' = entry
        BY <1>0, <1>4, <3>0, <3>3 DEF IssueCommit, TypeOK
      <4>2. RowOf(i)'
        BY <1>0, <2>1, <3>0, <3>1, <3>3, <4>1 DEF RowInv, RowOf
      <4> QED
        BY ZenonT(40), <1>0, <2>1, <3>0, <3>1, <4>1, <4>2, IssueRow DEF RowInv
    <3> QED
      BY Zenon, <3>2, <3>3
  <2>3. CASE issue' # [issue EXCEPT ![i].pc = "issued"]
    <3>1. UNCHANGED <<rows, entry>> /\ issue' = [issue EXCEPT ![i] = NoIssue("over")]
      BY Zenon, <1>4, <2>3 DEF IssueCommit
    <3> QED
      BY Zenon, <1>0, <2>1, <3>1, IssueOver, IssueRow
  <2> QED
    BY Zenon, <2>2, <2>3
<1>5. ASSUME NEW i \in Issues, IssueFail(i)
      PROVE  RowInv'
  <2>1. /\ i \notin rows /\ UNCHANGED <<rows, entry, unit>>
        /\ issue' = [issue EXCEPT ![i] = NoIssue("over")]
    BY Zenon, <1>0, <1>5 DEF IssueFail, SameButIssue, RowInv
  <2> QED
    BY Zenon, <1>0, <2>1, IssueOver, IssueRow
<1>6. ASSUME NEW r \in Revocations, RevokeEntries(r)
      PROVE  RowInv'
  <2>1. UNCHANGED <<rows, issue, unit>> /\ rev[r].keys \subseteq rows
    BY Zenon, <1>0, <1>6 DEF RevokeEntries, SameButRevoke, RevocationInv
  <2>2. \A i \in Issues : entry'[i] = "none" <=> entry[i] = "none"
    BY Zenon, <1>0, <1>6, <2>1 DEF RevokeEntries, RowInv, TypeOK
  <2> QED
    BY <1>0, <2>1, <2>2 DEF RowInv, RowOf, Exists, TypeOK
<1>7. ASSUME NEW r \in Revocations, RevokeMark(r)
      PROVE  RowInv'
  <2>1. unit' = unit \/ unit' = [unit EXCEPT ![rev[r].unit].status = "Revoked"]
    BY Zenon, <1>0, <1>7, RevokeMarkUnit
  <2>2. UNCHANGED <<rows, entry, issue>>
    BY Zenon, <1>7 DEF RevokeMark, SameButRevoke
  <2>3. \A u \in Units : Exists(u) => unit'[u].status # "absent"
    <3>1. CASE unit' = unit
      BY Zenon, <3>1 DEF Exists
    <3>2. CASE unit' = [unit EXCEPT ![rev[r].unit].status = "Revoked"]
      BY <1>0, <3>2 DEF Exists, TypeOK
    <3> QED
      BY Zenon, <2>1, <3>1, <3>2
  <2> QED
    BY Zenon, <1>1, <2>2, <2>3
<1>8. CASE DeleteUnit
  <2>1. UNCHANGED <<rows, entry, issue>>
    BY Zenon, <1>8 DEF DeleteUnit, SameButDelete
  <2>2. \A u \in Units : Exists(u) =>
          unit'[u].status # "absent" \/ \A j \in rows : issue[j].unit # u
    BY <1>0, <1>8 DEF DeleteUnit, Exists, TypeOK
  <2> QED
    BY Zenon, <1>1, <2>1, <2>2
<1>9. ASSUME NEW u \in Units, Register(u)
      PROVE  RowInv'
  <2>1. UNCHANGED <<rows, entry, issue>>
    BY Zenon, <1>0, <1>9, RegisterFrame
  <2>2. \A v \in Units : Exists(v) => unit'[v].status # "absent"
    BY Zenon, <1>0, <1>9, RegisterExists
  <2> QED
    BY Zenon, <1>1, <2>1, <2>2
<1>10. CASE UNCHANGED <<rows, entry, issue, unit>>
  BY Zenon, <1>1, <1>10 DEF Exists
<1>11. ASSUME NEW r \in Revocations, RevokeLoad(r) \/ RevokeFail(r)
       PROVE  UNCHANGED <<rows, entry, issue, unit>>
  BY Zenon, <1>11 DEF RevokeLoad, RevokeFail, SameButRevoke
<1>12. ASSUME (\E u \in Units : DeleteLoad(u)) \/ CheckAsk \/ CheckStore \/ UNCHANGED vars
       PROVE  UNCHANGED <<rows, entry, issue, unit>>
  BY Zenon, <1>12 DEF DeleteLoad, CheckAsk, CheckStore, SameButDelete, SameButCheck,
               provider, vars
<1> QED
  BY Zenon, <1>2, <1>3, <1>4, <1>5, <1>6, <1>7, <1>8, <1>9, <1>10, <1>11, <1>12, Steps
     DEF Issue, Revoke

(* The steps of an issuance: rows and crossings are only added, other      *)
(* issuances are left alone, a key is loaded only for an Active unit and   *)
(* attested only after it was loaded (issue_attestation).                  *)
LEMMA IssueFrame ==
    ASSUME TypeOK, RowInv, NEW i \in Issues, Issue(i)
    PROVE  /\ rows \subseteq rows' /\ crossed \subseteq crossed'
           /\ \A j \in Issues \ {i} : issue'[j] = issue[j]
           /\ \A j \in rows : entry'[j] = entry[j]
           /\ issue'[i].pc = "loaded" => /\ IssueLoad(i) /\ issue'[i].unit = issue[i].unit
                                         /\ unit[issue[i].unit].status = "Active"
           /\ issue'[i].pc = "issued" =>
                /\ IssueCommit(i) /\ Exists(issue[i].unit) /\ KeyLoaded(i)
                /\ issue'[i].unit = issue[i].unit
                /\ crossed' = IF Reading(issue[i].unit) THEN crossed \cup {i} ELSE crossed
<1>1. CASE issue' = [issue EXCEPT ![i] = NoIssue("over")] /\ UNCHANGED <<rows, entry, crossed>>
  BY Zenon, <1>1, IssueOver
<1>2. CASE IssueAsk(i)
  <2>1. UNCHANGED <<rows, entry, crossed>>
    BY Zenon, <1>2 DEF IssueAsk
  <2>2. issue'[i].pc = "asked" /\ \A j \in Issues \ {i} : issue'[j] = issue[j]
    BY <1>2 DEF IssueAsk, Request, TypeOK
  <2> QED
    BY <2>1, <2>2
<1>3. CASE IssueLoad(i)
  <2>1. UNCHANGED <<rows, entry, crossed>>
    BY Zenon, <1>3 DEF IssueLoad
  <2>2. CASE issue' = [issue EXCEPT ![i] = NoIssue("over")]
    BY Zenon, <1>1, <2>1, <2>2
  <2>3. CASE issue' # [issue EXCEPT ![i] = NoIssue("over")]
    <3>1. PICK k, b : issue' = [issue EXCEPT ![i].pc = "loaded", ![i].row = k, ![i].bare = b]
      BY Zenon, <1>3, <2>3 DEF IssueLoad, Loaded
    <3>2. /\ \A j \in Issues \ {i} : issue'[j] = issue[j]
          /\ issue'[i].pc = "loaded" /\ issue'[i].unit = issue[i].unit
      BY <3>1 DEF TypeOK
    <3>3. unit[issue[i].unit].status = "Active"
      BY Zenon, <1>3, <2>3 DEF IssueLoad
    <3> QED
      BY <1>3, <2>1, <3>2, <3>3
  <2> QED
    BY Zenon, <2>2, <2>3
<1>4. CASE IssueCommit(i)
  <2>1. CASE ~(Exists(issue[i].unit) /\ issue[i].key # None)
    BY Zenon, <1>1, <1>4, <2>1 DEF IssueCommit
  <2>2. CASE Exists(issue[i].unit) /\ issue[i].key # None
    <3>1. /\ issue' = [issue EXCEPT ![i].pc = "issued"] /\ KeyLoaded(i)
          /\ rows' = IF issue[i].row = i THEN rows \cup {i} ELSE rows
          /\ entry' = [entry EXCEPT ![i] = IF issue[i].row = i THEN "active" ELSE @]
          /\ crossed' = IF Reading(issue[i].unit) THEN crossed \cup {i} ELSE crossed
      BY Zenon, <1>4, <2>2 DEF IssueCommit, KeyLoaded
    <3>2. /\ \A j \in Issues \ {i} : issue'[j] = issue[j]
          /\ issue'[i].pc = "issued" /\ issue'[i].unit = issue[i].unit
      BY <3>1 DEF TypeOK
    <3>3. i \notin rows
      BY <1>4 DEF IssueCommit, RowInv
    <3>4. \A j \in rows : entry'[j] = entry[j]
      BY Zenon, <3>1, <3>3 DEF TypeOK
    <3>5. rows \subseteq rows' /\ crossed \subseteq crossed'
      BY Zenon, <3>1
    <3> QED
      BY <1>4, <2>2, <3>1, <3>2, <3>4, <3>5
  <2> QED
    BY Zenon, <2>1, <2>2
<1>5. CASE IssueFail(i)
  BY Zenon, <1>1, <1>5 DEF IssueFail
<1> QED
  BY Zenon, <1>2, <1>3, <1>4, <1>5 DEF Issue

(* A unit whose registration has got past its creation, and that has the   *)
(* wallet's key, keeps it while it exists (activate_wallet_unit).          *)
LEMMA UnitKey ==
    ASSUME TypeOK, [Next]_vars, NEW v \in Units, reg[v].pc \notin {"idle", "checked"},
           Exists(v) => unit[v].key = v
    PROVE  reg'[v].pc \notin {"idle", "checked"} /\ (Exists(v)' => unit'[v].key = v)
<1>1. ASSUME NEW u \in Units, Register(u), u # v
      PROVE  unit'[v] = unit[v] /\ reg'[v] = reg[v]
  BY Zenon, <1>1, RegisterFrame
<1>2. ASSUME Register(v)
      PROVE  Exists(v)' => unit'[v].key = v
  <2>1. CASE Settle(v, Activated(v)) \/ Settle(v, Errored(v))
    <3>1. \/ unit'[v] = unit[v]
          \/ Exists(v) /\ (unit'[v] = Activated(v) \/ unit'[v] = Errored(v))
      BY Zenon, <2>1, SettleUnit, Outcomes
    <3> QED
      BY <3>1 DEF Exists, Activated, Errored
  <2>2. CASE unit' = unit
    BY Zenon, <2>2 DEF Exists
  <2> QED
    BY Zenon, <1>2, <2>1, <2>2
       DEF Register, RegisterCheck, RegisterAtProvider, RegisterFail, AttestationKey,
           ActivateLoad, ActivateCommit, ActivateError, ActivateRefused, AgainLoad, AgainEnd,
           RegisterStore
<1>3. ASSUME Register(v)
      PROVE  reg'[v].pc \notin {"idle", "checked"}
  BY <1>3 DEF Register, RegisterCheck, RegisterAtProvider, RegisterFail, AttestationKey,
        ActivateLoad, Verdicts, ActivateCommit, ActivateError, ActivateRefused, AgainLoad,
        AgainEnd, RegisterStore, RegTo, GiveUp, TypeOK
<1>4. ASSUME NEW r \in Revocations, RevokeMark(r)
      PROVE  reg' = reg /\ (Exists(v)' => Exists(v) /\ unit'[v].key = unit[v].key)
  <2>1. \/ unit' = unit
        \/ Exists(rev[r].unit) /\ unit' = [unit EXCEPT ![rev[r].unit].status = "Revoked"]
    BY Zenon, <1>4, RevokeMarkUnit
  <2>2. reg' = reg
    BY Zenon, <1>4 DEF RevokeMark, SameButRevoke, wallet
  <2> QED
    BY <2>1, <2>2 DEF Exists, TypeOK
<1>5. CASE DeleteUnit
  <2>1. unit'[v] = unit[v] \/ unit'[v].status = "absent"
    BY Zenon, <1>5 DEF DeleteUnit, TypeOK
  <2>2. reg' = reg
    BY Zenon, <1>5 DEF DeleteUnit, SameButDelete, wallet
  <2> QED
    BY Zenon, <2>1, <2>2 DEF Exists
<1>6. CASE UNCHANGED registered
  BY Zenon, <1>6 DEF registered, Exists
<1>7. CASE \E u \in Units : Register(u)
  BY Zenon, <1>1, <1>2, <1>3, <1>7 DEF Exists
<1> QED
  BY Zenon, <1>4, <1>5, <1>6, <1>7, RegisteredFrame

(* What a revocation covers.  It reads the rows of its unit and then marks *)
(* the unit; an issuance that loaded the unit before the mark and commits  *)
(* after the read is in crossed, and none loads the unit after the mark    *)
(* unless an activation has reopened it (revoke_wallet_unit,               *)
(* issue_attestation).                                                     *)
LEMMA RevocationStep ==
    ASSUME IInv, [Next]_vars
    PROVE  RevocationInv'
<1>0. TypeOK /\ RegistrationInv /\ RowInv /\ RevocationInv /\ RegistrationInv'
  BY Zenon, RegistrationStep DEF IInv
<1> DEFINE Under(r) == rev[r].pc \in {"loaded", "marked", "done"}
           Reg(r) == /\ rev[r].unit \in Units /\ reg[rev[r].unit].pc \notin {"idle", "checked"}
                     /\ Exists(rev[r].unit) => unit[rev[r].unit].key = rev[r].unit
(* A unit under revocation keeps its key; one marked stays revoked, gone or overwritten. *)
<1>1. ASSUME NEW r \in Revocations, rev'[r] = rev[r], Under(r)
      PROVE  Reg(r)' /\ (rev[r].pc \in {"marked", "done"} => RevokedAt(rev[r].unit)')
  <2>1. PICK w \in Units : /\ w = rev[r].unit /\ reg[w].pc \notin {"idle", "checked"}
                           /\ Exists(w) => unit[w].key = w
    BY Zenon, <1>0, <1>1 DEF RevocationInv
  <2>2. w = rev'[r].unit /\ (rev[r].pc \in {"marked", "done"} => RevokedAt(w))
    BY Zenon, <1>0, <1>1, <2>1 DEF RevocationInv
  <2>3. rev[r].pc \in {"marked", "done"} => RevokedAt(w)'
    BY Zenon, <2>1, <2>2, RevokedKept
  <2>4. reg'[w].pc \notin {"idle", "checked"} /\ (Exists(w)' => unit'[w].key = w)
    BY Zenon, <1>0, <2>1, UnitKey
  <2> QED
    BY Zenon, <2>2, <2>3, <2>4 DEF Exists, RevokedAt
<1>2. ASSUME UNCHANGED <<rows, entry, issue, rev, crossed>>, overwritten \subseteq overwritten'
      PROVE  RevocationInv'
  <2>1. ASSUME NEW r \in Revocations
        PROVE  /\ Under(r) => Reg(r)'
               /\ rev[r].pc \in {"marked", "done"} => RevokedAt(rev[r].unit)'
    BY Zenon, <1>1, <1>2
  <2> QED
    BY <1>0, <1>2, <2>1 DEF RevocationInv, KeyLoaded
<1>3. ASSUME NEW i \in Issues, Issue(i)
      PROVE  RevocationInv'
  <2>0. UNCHANGED <<reg, unit, rev, overwritten>>
    BY Zenon, <1>3 DEF Issue, IssueAsk, IssueLoad, IssueCommit, IssueFail, SameButIssue, wallet,
          activation
  <2>1. /\ rows \subseteq rows' /\ crossed \subseteq crossed'
        /\ \A j \in Issues \ {i} : issue'[j] = issue[j]
        /\ \A j \in rows : entry'[j] = entry[j]
    BY Zenon, <1>0, <1>3, IssueFrame
  <2>2. ASSUME NEW r \in Revocations, rev[r].pc \in {"marked", "done"},
               KeyLoaded(i)', issue'[i].unit = rev[r].unit
        PROVE  i \in crossed' \/ rev[r].unit \in overwritten
    <3>1. RevokedAt(rev[r].unit)
      BY Zenon, <1>0, <2>2 DEF RevocationInv
    <3>2. IssueLoad(i) /\ unit[issue[i].unit].status = "Active" /\ issue'[i].unit = issue[i].unit
      BY Zenon, <1>0, <1>3, <2>2, IssueFrame DEF KeyLoaded
    <3> QED
      BY <2>2, <3>1, <3>2 DEF RevokedAt
  <2>3. ASSUME NEW r \in Revocations, Under(r),
               issue'[i].pc = "issued", issue'[i].unit = rev[r].unit
        PROVE  issue'[i].row \in rev[r].keys \/ i \in crossed' \/ rev[r].unit \in overwritten
    <3>1. /\ IssueCommit(i) /\ Exists(issue[i].unit) /\ KeyLoaded(i)
          /\ issue'[i].unit = issue[i].unit
          /\ crossed' = IF Reading(issue[i].unit) THEN crossed \cup {i} ELSE crossed
      BY Zenon, <1>0, <1>3, <2>3, IssueFrame
    <3>2. CASE rev[r].pc = "loaded"
      BY Zenon, <2>3, <3>1, <3>2 DEF Reading
    <3>3. CASE rev[r].pc \in {"marked", "done"}
      BY ZenonT(40), <1>0, <2>1, <2>3, <3>1, <3>3 DEF RevocationInv
    <3> QED
      BY Zenon, <2>3, <3>2, <3>3
  <2>4. ASSUME NEW r \in Revocations
        PROVE  /\ rev[r].keys \subseteq rows'
               /\ rev[r].pc = "done" => \A j \in rev[r].keys : entry'[j] = "revoked"
    BY Zenon, <1>0, <2>1 DEF RevocationInv
  <2>5. ASSUME NEW r \in Revocations, NEW j \in Issues \ {i}
        PROVE  /\ rev[r].pc \in {"marked", "done"} /\ KeyLoaded(j)'
                  /\ issue'[j].unit = rev[r].unit => j \in crossed' \/ rev[r].unit \in overwritten
               /\ Under(r) /\ issue'[j].pc = "issued" /\ issue'[j].unit = rev[r].unit
                    => issue'[j].row \in rev[r].keys \/ j \in crossed' \/ rev[r].unit \in overwritten
    BY <1>0, <2>1 DEF RevocationInv, KeyLoaded
  <2>6. ASSUME NEW r \in Revocations
        PROVE  /\ Under(r) => Reg(r)'
               /\ rev[r].pc \in {"marked", "done"} => RevokedAt(rev[r].unit)'
    BY Zenon, <1>1, <2>0
  <2> QED
    BY <2>0, <2>2, <2>3, <2>4, <2>5, <2>6 DEF RevocationInv
<1>4. ASSUME NEW r \in Revocations, RevokeLoad(r)
      PROVE  RevocationInv'
  <2>1. PICK u \in Units :
          /\ unit[u].status = "Active"
          /\ rev' = [rev EXCEPT ![r] =
                       [pc |-> "loaded", unit |-> u, keys |-> {j \in rows : issue[j].unit = u}]]
    BY ZenonT(40), <1>4 DEF RevokeLoad
  <2>2. UNCHANGED <<reg, unit, rows, entry, issue, crossed, overwritten>>
    BY Zenon, <1>4 DEF RevokeLoad, SameButRevoke, wallet, activation
  <2>3. \A s \in Revocations \ {r} : rev'[s] = rev[s]
    BY Zenon, <1>0, <2>1 DEF TypeOK
  <2>4. /\ rev'[r].pc = "loaded" /\ rev'[r].unit = u
        /\ rev'[r].keys = {j \in rows : issue[j].unit = u}
    BY Zenon, <1>0, <2>1 DEF TypeOK
  <2>5. reg[u].pc \notin {"idle", "checked"} /\ unit[u].key = u
    BY <1>0, <2>1 DEF RegistrationInv, Registration
  <2>6. \A i \in Issues : issue[i].pc = "issued" /\ issue[i].unit = u => issue[i].row \in rev'[r].keys
    BY ZenonT(40), <1>0, <2>4 DEF RowInv, RowOf
  <2> QED
    BY <1>0, <2>2, <2>3, <2>4, <2>5, <2>6 DEF RevocationInv, KeyLoaded, Exists, RevokedAt
<1>5. ASSUME NEW r \in Revocations, RevokeMark(r)
      PROVE  RevocationInv'
  <2> DEFINE u == rev[r].unit
  <2>1. UNCHANGED <<reg, rows, entry, issue, overwritten>> /\ rev[r].pc = "loaded"
    BY Zenon, <1>5 DEF RevokeMark, SameButRevoke, wallet, activation
  <2>2. crossed' = crossed \cup {i \in Issues : KeyLoaded(i) /\ issue[i].unit = u}
    BY Zenon, <1>5 DEF RevokeMark
  <2>3. \A s \in Revocations \ {r} : rev'[s] = rev[s]
    BY Zenon, <1>0, <1>5 DEF RevokeMark, TypeOK
  <2>4. \/ ~Exists(u) /\ rev'[r] = NoRevoke("failed")
        \/ /\ Exists(u) /\ rev'[r].pc = "marked" /\ rev'[r].unit = u /\ rev'[r].keys = rev[r].keys
           /\ unit'[u].status = "Revoked" /\ unit'[u].key = unit[u].key
    <3>1. CASE Exists(u)
      <4>1. rev' = [rev EXCEPT ![r] = [@ EXCEPT !.pc = "marked"]]
        BY Zenon, <1>5, <3>1 DEF RevokeMark
      <4>2. unit' = [unit EXCEPT ![u].status = "Revoked"] /\ u \in Units
        BY Zenon, <1>0, <1>5, <2>1, <3>1, RevokeMarkUnit DEF RevocationInv
      <4> QED
        BY <1>0, <3>1, <4>1, <4>2 DEF TypeOK
    <3>2. CASE ~Exists(u)
      <4>1. rev' = [rev EXCEPT ![r] = NoRevoke("failed")]
        BY Zenon, <1>5, <3>2 DEF RevokeMark
      <4> QED
        BY Zenon, <1>0, <3>2, <4>1 DEF TypeOK
    <3> QED
      BY Zenon, <3>1, <3>2
  <2>5. ASSUME NEW s \in Revocations \ {r}
        PROVE  /\ Under(s) => Reg(s)'
               /\ rev[s].pc \in {"marked", "done"} => RevokedAt(rev[s].unit)'
    BY ZenonT(40), <1>1, <2>3
  <2>6. CASE rev'[r] = NoRevoke("failed")
    <3>1. rev'[r].pc = "failed" /\ rev'[r].keys = {}
      BY <2>6 DEF NoRevoke
    <3> QED
      BY SMTT(40), <1>0, <2>1, <2>2, <2>3, <2>5, <3>1 DEF RevocationInv, KeyLoaded
  <2>7. CASE rev'[r] # NoRevoke("failed")
    <3>1. Reg(r)' /\ RevokedAt(rev[r].unit)' /\ rev'[r].pc = "marked" /\ rev'[r].unit = u /\ rev'[r].keys = rev[r].keys
      BY <1>0, <2>1, <2>4, <2>7 DEF RevocationInv, RevokedAt
    <3> QED
      BY SMTT(40), <1>0, <2>1, <2>2, <2>3, <2>5, <3>1 DEF RevocationInv, KeyLoaded
  <2> QED
    BY Zenon, <2>6, <2>7
<1>6. ASSUME NEW r \in Revocations, RevokeEntries(r)
      PROVE  RevocationInv'
  <2>1. UNCHANGED <<reg, unit, rows, issue, crossed, overwritten>>
    BY Zenon, <1>6 DEF RevokeEntries, SameButRevoke, wallet, activation
  <2>2. /\ \A s \in Revocations \ {r} : rev'[s] = rev[s]
        /\ rev'[r].unit = rev[r].unit /\ rev'[r].keys = rev[r].keys
        /\ rev'[r].pc = "done" /\ rev[r].pc = "marked"
    BY <1>0, <1>6 DEF RevokeEntries, TypeOK
  <2>3. /\ \A j \in rev[r].keys : entry'[j] = "revoked"
        /\ \A j \in rows : entry[j] = "revoked" => entry'[j] = "revoked"
    BY Zenon, <1>0, <1>6 DEF RevokeEntries, TypeOK
  <2> QED
    BY <1>0, <2>1, <2>2, <2>3 DEF RevocationInv, KeyLoaded, Exists, RevokedAt
<1>7. ASSUME NEW r \in Revocations, RevokeFail(r)
      PROVE  RevocationInv'
  <2>1. UNCHANGED <<reg, unit, rows, entry, issue, crossed, overwritten>>
    BY Zenon, <1>7 DEF RevokeFail, SameButRevoke, wallet, activation
  <2>2. /\ \A s \in Revocations \ {r} : rev'[s] = rev[s]
        /\ rev'[r].pc = "failed" /\ rev'[r].keys = {}
    BY <1>0, <1>7 DEF RevokeFail, NoRevoke, TypeOK
  <2> QED
    BY <1>0, <2>1, <2>2 DEF RevocationInv, KeyLoaded, Exists, RevokedAt
<1>8. ASSUME NEW u \in Units, Register(u)
      PROVE  RevocationInv'
  BY Zenon, <1>0, <1>2, <1>8, RegisterFrame
<1>9. ASSUME \/ \E u \in Units : DeleteLoad(u)
             \/ DeleteUnit \/ CheckAsk \/ CheckStore \/ UNCHANGED vars
      PROVE  UNCHANGED <<rows, entry, issue, rev, crossed>> /\ overwritten \subseteq overwritten'
  BY Zenon, <1>9 DEF DeleteLoad, DeleteUnit, CheckAsk, CheckStore, SameButDelete, SameButCheck,
        provider, activation, vars
<1> QED
  BY Zenon, <1>2, <1>3, <1>4, <1>5, <1>6, <1>7, <1>8, <1>9, Steps DEF Revoke

(* The initial state satisfies the invariant. *)
LEMMA InitInv == Init => IInv
BY WalletAssumption
   DEF Init, IInv, TypeOK, RegistrationInv, HolderInv, RowInv, RowOf, RevocationInv, NoCheck,
       NoDelete, NoIssue, NoRevoke, Registration, RevokedAt, OneRegistration, Settled

(* Types, registrations, the wallet's record, rows and revocations stay    *)
(* consistent in every reachable state of the two instances.               *)
THEOREM Invariant == Spec => []IInv
<1>1. ASSUME IInv, [Next]_vars
      PROVE  IInv'
  BY Zenon, <1>1, TypeStep, RegistrationStep, HolderStep, RowStep, RevocationStep DEF IInv
<1> QED
  BY <1>1, InitInv, PTL DEF Spec

(* Rows, registrations and units keep their types. *)
THEOREM TypeCorrect == Spec => []TypeOK
<1>1. IInv => TypeOK
  BY ZenonT(40) DEF IInv
<1> QED
  BY <1>1, Invariant, PTL

(* Every key attestation that issue_attestation handed out can be found    *)
(* and revoked later, whatever calls overlapped; only the repetition of a  *)
(* new key in one request has no entry of its own.                         *)
THEOREM Revocable == Spec => []AttestationsRevocable
<1>1. IInv => AttestationsRevocable
  BY SMTT(40) DEF IInv, TypeOK, RowInv, RowOf, AttestationsRevocable
<1> QED
  BY <1>1, Invariant, PTL

(* A revocation that answered Ok has revoked every key attestation of the  *)
(* unit but those that crossed it, unless an overlapping activation        *)
(* reopened the unit (revoke_wallet_unit).                                 *)
THEOREM RevocationCovers == Spec => []RevocationCoversSettled
<1>1. IInv => RevocationCoversSettled
  BY Zenon DEF IInv, RevocationInv, RevocationCoversSettled
<1> QED
  BY <1>1, Invariant, PTL

(* The wallet's record agrees with the provider's, unless the unit was     *)
(* deleted or an overlapping activation overwrote it (holder_register,     *)
(* activate_wallet_unit, holder_wallet_unit_status).                       *)
THEOREM HolderRecord == Spec => []HolderAgrees
<1>1. ASSUME IInv, holder.status \in {"Active", "Revoked"}
      PROVE  HolderAgrees
  <2>0. TypeOK /\ RegistrationInv /\ HolderInv
    BY Zenon, <1>1 DEF IInv
  <2>1. PICK h \in Units : h = holder.unit
    BY <1>1, <2>0 DEF HolderInv, TypeOK
  <2>2. holder.key # None /\ holder.key = reg[h].key
    BY <1>1, <2>0, <2>1, WalletAssumption DEF HolderInv
  <2>3. Registration(h)
    BY Zenon, <2>0 DEF RegistrationInv
  <2>4. holder.key = h /\ (unit[h].status \in Settled \/ h \in overwritten)
    BY Zenon, <2>2, <2>3 DEF Registration
  <2>5. holder.status = "Revoked" => RevokedAt(h)
    BY Zenon, <2>0, <2>1 DEF HolderInv
  <2> QED
    BY <1>1, <2>1, <2>3, <2>4, <2>5 DEF HolderAgrees, Registration, RevokedAt, Settled
<1>2. IInv => HolderAgrees
  BY Zenon, <1>1 DEF HolderAgrees
<1> QED
  BY <1>2, Invariant, PTL

(* A registration that reports success is the stored one, now and later    *)
(* (create_holder_wallet_unit).                                            *)
THEOREM SingleRegistration == Spec => []OneRegistration
<1>1. IInv => OneRegistration
  BY Zenon DEF IInv, HolderInv
<1> QED
  BY <1>1, Invariant, PTL

(* No late write brings a revoked unit back but that of one of two         *)
(* overlapping activations, and one with key attestations is never deleted *)
(* (activate_wallet_unit, delete_wallet_unit).                             *)
THEOREM RevocationFinal == Spec => RevokedIsFinal
<1> DEFINE Kept(v) == unit[v].status = "Revoked" =>
                        \/ unit'[v].status = "Revoked"
                        \/ unit'[v].status \in {"Active", "Error"} /\ Overlapped(v)
                        \/ /\ unit'[v].status = "absent"
                           /\ \A i \in Issues : issue[i].pc = "issued" => issue[i].unit # v
<1>1. ASSUME IInv, [Next]_vars, NEW v \in Units
      PROVE  Kept(v)
  <2>0. TypeOK /\ RegistrationInv /\ RowInv /\ Registration(v)
    BY Zenon, <1>1 DEF IInv, RegistrationInv
  <2>1. ASSUME NEW u \in Units, Register(u), u # v
        PROVE  unit'[v] = unit[v]
    BY Zenon, <2>0, <2>1, RegisterFrame
  <2>2. ASSUME Register(v), unit[v].status = "Revoked", unit' # unit
        PROVE  unit'[v].status \in {"Active", "Error"} /\ Overlapped(v)
    <3>1. reg[v].pc \notin {"idle", "checked"}
      BY Zenon, <2>0, <2>2 DEF Registration
    <3>2. \/ ActivateCommit(v) \/ ActivateError(v)
          \/ AgainEnd(v) /\ (Settle(v, Activated(v)) \/ Settle(v, Errored(v)))
      BY Zenon, <2>2, <3>1 DEF Register, RegisterCheck, RegisterAtProvider, RegisterFail,
            AttestationKey, ActivateLoad, ActivateRefused, AgainLoad, AgainEnd, RegisterStore
    <3>3. unit'[v] = Activated(v) \/ unit'[v] = Errored(v)
      <4>1. Settle(v, Activated(v)) \/ Settle(v, Errored(v))
        BY Zenon, <3>2 DEF ActivateCommit, ActivateError
      <4>2. Exists(v)
        BY <2>2 DEF Exists
      <4> QED
        BY Zenon, <2>0, <4>1, <4>2, SettleUnit, Outcomes
    <3>4. CASE AgainEnd(v)
      <4>1. again[v] \in {"valid", "invalid"}
        BY Zenon, <3>4 DEF AgainEnd
      <4> QED
        BY <3>3, <4>1 DEF Activated, Errored, Overlapped
    <3>5. CASE ActivateCommit(v) \/ ActivateError(v)
      <4>1. reg[v].pc \in {"valid", "invalid"}
        BY Zenon, <3>5 DEF ActivateCommit, ActivateError
      <4>2. again[v] = "done"
        BY <2>0, <2>2, <4>1 DEF Registration
      <4> QED
        BY <3>3, <4>1, <4>2 DEF Activated, Errored, Overlapped
    <3> QED
      BY Zenon, <3>2, <3>4, <3>5
  <2>3. ASSUME NEW r \in Revocations, RevokeMark(r), unit[v].status = "Revoked"
        PROVE  unit'[v].status = "Revoked"
    <3>1. unit' = unit \/ unit' = [unit EXCEPT ![rev[r].unit].status = "Revoked"]
      BY Zenon, <2>0, <2>3, RevokeMarkUnit
    <3> QED
      BY <2>0, <2>3, <3>1 DEF TypeOK
  <2>4. CASE DeleteUnit
    <3>1. CASE \E j \in rows : issue[j].unit = del.unit
      BY Zenon, <2>4, <3>1 DEF DeleteUnit
    <3>2. CASE ~\E j \in rows : issue[j].unit = del.unit
      <4>1. \A i \in Issues : issue[i].pc = "issued" => issue[i].unit # del.unit
        BY <2>0, <3>2 DEF RowInv, RowOf
      <4>2. unit' = [unit EXCEPT ![del.unit] = [status |-> "absent", key |-> None]]
        BY Zenon, <2>4, <3>2 DEF DeleteUnit
      <4> QED
        BY <2>0, <4>1, <4>2 DEF TypeOK
    <3> QED
      BY Zenon, <3>1, <3>2
  <2>5. \/ \E u \in Units : Register(u)
        \/ \E r \in Revocations : RevokeMark(r)
        \/ DeleteUnit \/ unit' = unit
    BY Zenon, <1>1, RegisteredFrame DEF registered
  <2>6. CASE unit'[v] = unit[v]
    BY Zenon, <2>6
  <2>7. CASE Register(v)
    BY Zenon, <2>2, <2>6, <2>7
  <2> QED
    BY Zenon, <2>1, <2>3, <2>4, <2>5, <2>6, <2>7
<1>2. IInv /\ [Next]_vars =>
        [\A u \in Units : unit[u].status = "Revoked" =>
            \/ unit'[u].status = "Revoked"
            \/ unit'[u].status \in {"Active", "Error"} /\ Overlapped(u)
            \/ /\ unit'[u].status = "absent"
               /\ \A i \in Issues : issue[i].pc = "issued" => issue[i].unit # u]_vars
  BY Zenon, <1>1
<1> QED
  BY <1>2, Invariant, PTL DEF Spec, RevokedIsFinal
=============================================================================
