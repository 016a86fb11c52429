----------------------------- MODULE WalletUnit -----------------------------
(***************************************************************************)
(* A wallet and its wallet provider, both of them instances of one-core.   *)
(* The wallet registers itself as a wallet unit (with an app integrity     *)
(* check, which leaves the unit Pending until it is activated, or          *)
(* without), asks for attestations of its keys, and asks now and then      *)
(* whether it has been revoked.  Operators of the provider revoke units    *)
(* and delete pending ones.                                                *)
(*                                                                         *)
(* The two exchange HTTP requests.  A handler of the provider is a         *)
(* sequence of database statements, one step each; only the issuance of    *)
(* attestations and the marking of the status list are transactions.  An   *)
(* error of the network or of a database may hit any call, MaxFailures     *)
(* times in all; the network may also deliver an activation request twice. *)
(*                                                                         *)
(* A registration call is also the name of the unit it creates at the      *)
(* provider and of the authentication key it generates.  An issuance call  *)
(* is also the name of the attested key row, with its status list entry,   *)
(* that it may create.  Signatures and proofs of possession are taken as   *)
(* verified, except those of an activation, which may be invalid.  The     *)
(* provider is configured with a revocation method.                        *)
(***************************************************************************)
EXTENDS Integers, FiniteSets

CONSTANTS Units,          \* holder_register calls of one organisation
          Issues,         \* issue_wallet_attestations calls of the wallet
          Keys,           \* holder keys for which attestations are asked
          Revocations,    \* revoke_wallet_unit calls
          MaxFailures,    \* errors of the network or of a database
          None

ASSUME WalletAssumption ==
  /\ MaxFailures \in Nat
  /\ None \notin Units \cup Issues \cup Keys \cup Revocations

VARIABLES
  integrity, \* does the app integrity check apply (enabled, and not a web wallet)?
  unit,     \* provider: status and authentication key of each unit
  again,    \* provider: progress of a repeated activation of each unit
  rows,     \* provider: attested key rows, named by the issuance that made them
  entry,    \* provider: status list entry of each row, as published
  reg,      \* wallet: progress of each registration, and the key it has
  holder,   \* wallet: the holder wallet unit, its status and key
  issue,    \* both: progress of each issuance
  check,    \* wallet: progress of the status check
  rev, del, \* provider: progress of the operators' calls
  failures,
  overwritten, \* auxiliary: units whose outcome a second activation has changed
  crossed   \* auxiliary: issuances that a revocation of their unit missed: checked
            \* before it marked the unit, not yet committed when it read the keys

vars == <<integrity, unit, again, rows, entry, reg, holder, issue, check, rev, del,
          failures, overwritten, crossed>>

wallet == <<integrity, reg, holder, check>>
activation == <<again, overwritten>>
provider == <<unit, activation, rows, entry, rev, del>>

NoCheck == [pc |-> "idle", unit |-> None]
NoDelete == [pc |-> "idle", unit |-> None]
NoIssue(pc) == [pc |-> pc, unit |-> None, key |-> None, row |-> None, bare |-> FALSE]
NoRevoke(pc) == [pc |-> pc, unit |-> None, keys |-> {}]

Init ==
  /\ integrity \in BOOLEAN
  /\ unit = [u \in Units |-> [status |-> "absent", key |-> None]]
  /\ again = [u \in Units |-> "none"]
  /\ rows = {}
  /\ entry = [i \in Issues |-> "none"]
  /\ reg = [u \in Units |-> [pc |-> "idle", key |-> None]]
  /\ holder = [unit |-> None, status |-> "none", key |-> None]
  /\ issue = [i \in Issues |-> NoIssue("idle")]
  /\ check = NoCheck
  /\ rev = [r \in Revocations |-> NoRevoke("idle")]
  /\ del = NoDelete
  /\ failures = 0
  /\ overwritten = {}
  /\ crossed = {}

Exists(u) == unit[u].status # "absent"

Failure == failures < MaxFailures /\ failures' = failures + 1

RegTo(u, pc) == reg' = [reg EXCEPT ![u].pc = pc]
GiveUp(u) == reg' = [reg EXCEPT ![u] = [pc |-> "failed", key |-> None]]

\* A step of a registration leaves the other calls alone.
SameOthers == UNCHANGED <<integrity, rows, entry, issue, check, rev, del, crossed>>

(***************************************************************************)
(* holder_register: an organisation has one holder wallet unit.            *)
(***************************************************************************)
RegisterCheck(u) ==
  /\ reg[u].pc = "idle"
  /\ RegTo(u, IF holder.unit = None THEN "checked" ELSE "failed")
  /\ UNCHANGED <<unit, activation, holder, failures>>
  /\ SameOthers

\* register_wallet_unit at the provider: Pending with a nonce when the app
\* integrity check is enabled, else Active at once, with the key of the wallet.
RegisterAtProvider(u) ==
  /\ reg[u].pc = "checked"
  /\ unit' = [unit EXCEPT ![u] =
                IF integrity THEN [status |-> "Pending", key |-> None]
                ELSE [status |-> "Active", key |-> u]]
  /\ \/ /\ reg' = [reg EXCEPT ![u] = IF integrity THEN [pc |-> "attesting", key |-> None]
                                     ELSE [pc |-> "storing", key |-> u]]
        /\ UNCHANGED failures
     \/ RegTo(u, "failed") /\ Failure    \* the answer is lost
  /\ UNCHANGED <<activation, holder>>
  /\ SameOthers

\* The request never arrives or is refused.
RegisterFail(u) ==
  /\ reg[u].pc = "checked"
  /\ RegTo(u, "failed")
  /\ Failure
  /\ UNCHANGED <<unit, activation, holder>>
  /\ SameOthers

\* Mutant: the wallet keeps a key although it could not attest it.
AttestationKeyKept(u) ==
  /\ reg[u].pc = "attesting"
  /\ reg' = [reg EXCEPT ![u] = [pc |-> "storing", key |-> u]]
  /\ UNCHANGED <<unit, activation, holder, failures>>
  /\ SameOthers

\* register_with_integrity_check: a key storage without attestation keys
\* leaves the wallet Unattested; otherwise the attestation is sent.
AttestationKey(u) ==
  /\ reg[u].pc = "attesting"
  /\ \/ \E pc \in {"activating", "storing"} : RegTo(u, pc) /\ UNCHANGED failures
     \/ RegTo(u, "failed") /\ Failure    \* no key, or no proof of it
  /\ UNCHANGED <<unit, activation, holder>>
  /\ SameOthers

(***************************************************************************)
(* activate_wallet_unit: load the unit, refuse one that is not Pending,    *)
(* decide on the nonce and on the attestation, and write the outcome       *)
(* whatever the status has become.  A nonce that has timed out and an      *)
(* attestation that does not verify have the same outcome, "invalid".  The *)
(* wallet takes a refusal as "unattested" and gives up on any other error. *)
(***************************************************************************)
Verdicts == {"valid", "invalid"}

ActivateLoad(u) ==
  /\ reg[u].pc = "activating"
  /\ \E pc \in IF unit[u].status = "Pending" THEN Verdicts ELSE {"storing"} : RegTo(u, pc)
  /\ UNCHANGED <<unit, activation, holder, failures>>
  /\ SameOthers

\* The outcome is written to a unit that exists, Pending or not.
Settle(u, outcome) ==
  /\ unit' = IF Exists(u) THEN [unit EXCEPT ![u] = outcome] ELSE unit
  /\ overwritten' = IF unit[u].status \in {"absent", "Pending", outcome.status}
                     THEN overwritten ELSE overwritten \cup {u}

Activated(u) == [status |-> "Active", key |-> u]
Errored(u) == [status |-> "Error", key |-> unit[u].key]

\* The update fails when the unit has been deleted meanwhile.
ActivateCommit(u) ==
  /\ reg[u].pc = "valid"
  /\ Settle(u, Activated(u))
  /\ \/ /\ reg' = [reg EXCEPT ![u] = IF Exists(u) THEN [pc |-> "storing", key |-> u]
                                     ELSE [pc |-> "failed", key |-> None]]
        /\ UNCHANGED failures
     \/ RegTo(u, "failed") /\ Failure    \* the answer is lost
  /\ UNCHANGED <<again, holder>>
  /\ SameOthers

\* set_wallet_unit_to_error, then the refusal.
ActivateError(u) ==
  /\ reg[u].pc = "invalid"
  /\ Settle(u, Errored(u))
  /\ \/ RegTo(u, IF Exists(u) THEN "storing" ELSE "failed") /\ UNCHANGED failures
     \/ RegTo(u, "failed") /\ Failure    \* the answer is lost
  /\ UNCHANGED <<again, holder>>
  /\ SameOthers

\* The key proof is refused, or the request fails before an update.
ActivateRefused(u) ==
  /\ reg[u].pc \in {"activating", "valid", "invalid"}
  /\ \/ RegTo(u, "storing") /\ reg[u].pc = "valid" /\ UNCHANGED failures
     \/ RegTo(u, "failed") /\ Failure
  /\ UNCHANGED <<unit, activation, holder>>
  /\ SameOthers

(***************************************************************************)
(* The same request is delivered once more while the first is under way,   *)
(* and finds the unit still Pending; nobody reads its answer.  (Delivered  *)
(* later it is refused.)                                                   *)
(***************************************************************************)
AgainTo(u, pc) == again' = [again EXCEPT ![u] = pc]

AgainLoad(u) ==
  /\ again[u] = "none"
  /\ reg[u].pc \in {"activating", "valid", "invalid"}
  /\ unit[u].status = "Pending"
  /\ \E pc \in Verdicts : AgainTo(u, pc)
  /\ Failure
  /\ UNCHANGED <<unit, overwritten, reg, holder>>
  /\ SameOthers

\* It writes its outcome, or is refused or fails before.
AgainEnd(u) ==
  /\ \/ again[u] = "valid" /\ Settle(u, Activated(u))
     \/ again[u] = "invalid" /\ Settle(u, Errored(u))
     \/ again[u] \in {"valid", "invalid"} /\ UNCHANGED <<unit, overwritten>>
  /\ AgainTo(u, "done")
  /\ UNCHANGED <<reg, holder, failures>>
  /\ SameOthers

\* Mutant: a refused activation is stored like an accepted one.
RegisterStoreActive(u) ==
  /\ reg[u].pc = "storing"
  /\ IF holder.unit = None
     THEN /\ holder' = [unit |-> u, key |-> reg[u].key, status |-> "Active"]
          /\ RegTo(u, "done")
     ELSE RegTo(u, "failed") /\ UNCHANGED holder
  /\ UNCHANGED <<unit, activation, failures>>
  /\ SameOthers

\* Mutant: no unique index on the organisation.
RegisterStoreAgain(u) ==
  /\ reg[u].pc = "storing"
  /\ holder' = [unit |-> u, key |-> reg[u].key,
                 status |-> IF reg[u].key = None THEN "Unattested" ELSE "Active"]
  /\ RegTo(u, "done")
  /\ UNCHANGED <<unit, activation, failures>>
  /\ SameOthers

\* create_holder_wallet_unit: the unique index on the organisation refuses
\* the second of two registrations that both passed the check.  An error after
\* the insert (history, trust collections) fails the call; the unit stays.
RegisterStore(u) ==
  /\ reg[u].pc = "storing"
  /\ \/ /\ holder.unit = None
        /\ holder' = [unit |-> u, key |-> reg[u].key,
                      status |-> IF reg[u].key = None THEN "Unattested" ELSE "Active"]
        /\ \/ RegTo(u, "done") /\ UNCHANGED failures
           \/ RegTo(u, "failed") /\ Failure
     \/ GiveUp(u) /\ UNCHANGED holder /\ IF holder.unit # None THEN UNCHANGED failures ELSE Failure
  /\ UNCHANGED <<unit, activation>>
  /\ SameOthers

(***************************************************************************)
(* Issuance of attestations.  The wallet asks while its own record says    *)
(* Active: for an instance attestation, with a key also for an attestation *)
(* of that key.  A request is a list; one for the same key twice is        *)
(* accepted as well.                                                       *)
(***************************************************************************)
SameButIssue == UNCHANGED <<wallet, unit, activation, rev, del>>

Request(k) ==
  [pc |-> "asked", unit |-> holder.unit, key |-> k, row |-> None, bare |-> FALSE]

IssueAsk(i) ==
  /\ issue[i].pc = "idle"
  /\ holder.status = "Active"
  /\ \E k \in Keys \cup {None} : issue' = [issue EXCEPT ![i] = Request(k)]
  /\ UNCHANGED <<rows, entry, failures, crossed>>
  /\ SameButIssue

\* Rows of a unit for a key.
RowsFor(u, k) == {j \in rows : issue[j].unit = u /\ issue[j].key = k}

\* A key that has a row keeps it, a new one gets a new row, with no entry as
\* yet: asked for again, it is taken for a reused key without revocation, and
\* that attestation names no entry.
RowChoices(i) ==
  LET old == RowsFor(issue[i].unit, issue[i].key) IN
  IF issue[i].key = None THEN {None} ELSE IF old # {} THEN old ELSE {i}

Loaded(i, j) ==
  \E twice \in BOOLEAN :
    issue' = [issue EXCEPT ![i].pc = "loaded", ![i].row = j, ![i].bare = twice /\ j = i]

\* Mutant: the status is not checked.
IssueLoadUnchecked(i) ==
  /\ issue[i].pc = "asked"
  /\ \E j \in RowChoices(i) : Loaded(i, j)
  /\ UNCHANGED <<rows, entry, failures, crossed>>
  /\ SameButIssue

\* issue_attestation: the unit must be Active and is loaded with its attested
\* keys.
IssueLoad(i) ==
  /\ issue[i].pc = "asked"
  /\ IF unit[issue[i].unit].status = "Active"
     THEN \E j \in RowChoices(i) : Loaded(i, j)
     ELSE issue' = [issue EXCEPT ![i] = NoIssue("over")]
  /\ UNCHANGED <<rows, entry, failures, crossed>>
  /\ SameButIssue

\* A revocation of u has read the keys it will revoke, and not yet marked u.
Reading(u) == \E r \in Revocations : rev[r].unit = u /\ rev[r].pc = "loaded"

\* Mutant: the issuance writes the status it loaded back with the unit.
IssueCommitWhole(i) ==
  /\ issue[i].pc = "loaded"
  /\ Exists(issue[i].unit) /\ issue[i].key # None
  /\ issue' = [issue EXCEPT ![i].pc = "issued"]
  /\ rows' = IF issue[i].row = i THEN rows \cup {i} ELSE rows
  /\ entry' = [entry EXCEPT ![i] = IF issue[i].row = i THEN "active" ELSE @]
  /\ unit' = [unit EXCEPT ![issue[i].unit].status = "Active"]
  /\ crossed' = IF Reading(issue[i].unit) THEN crossed \cup {i} ELSE crossed
  /\ UNCHANGED <<wallet, activation, rev, del, failures>>

\* The transaction of issue_attestation: the unit is updated (an error when it
\* is gone), the rows are written, a new row gets its status list entry, and
\* the attestations are signed.  One of the instance alone leaves no trace.
IssueCommit(i) ==
  /\ issue[i].pc = "loaded"
  /\ IF Exists(issue[i].unit) /\ issue[i].key # None
     THEN /\ issue' = [issue EXCEPT ![i].pc = "issued"]
          /\ rows' = IF issue[i].row = i THEN rows \cup {i} ELSE rows
          /\ entry' = [entry EXCEPT ![i] = IF issue[i].row = i THEN "active" ELSE @]
          /\ crossed' = IF Reading(issue[i].unit) THEN crossed \cup {i} ELSE crossed
     ELSE /\ issue' = [issue EXCEPT ![i] = NoIssue("over")]
          /\ UNCHANGED <<rows, entry, crossed>>
  /\ UNCHANGED failures
  /\ SameButIssue

\* The request is lost, or the transaction fails and is rolled back.
IssueFail(i) ==
  /\ issue[i].pc \in {"asked", "loaded"}
  /\ issue' = [issue EXCEPT ![i] = NoIssue("over")]
  /\ Failure
  /\ UNCHANGED <<rows, entry, crossed>>
  /\ SameButIssue

(***************************************************************************)
(* revoke_wallet_unit: load the unit, which must be Active, with its       *)
(* attested keys; set it to Revoked; mark the entries of the keys loaded   *)
(* in the status list.                                                     *)
(***************************************************************************)
SameButRevoke == UNCHANGED <<wallet, activation, rows, issue, del>>

RevokeLoad(r) ==
  /\ rev[r].pc = "idle"
  /\ \E u \in Units :
       /\ unit[u].status = "Active"
       /\ rev' = [rev EXCEPT ![r] =
                    [pc |-> "loaded", unit |-> u, keys |-> {j \in rows : issue[j].unit = u}]]
  /\ UNCHANGED <<unit, entry, failures, crossed>>
  /\ SameButRevoke

\* Issuances of a key attestation that have passed their check of the unit.
KeyLoaded(i) == issue[i].pc = "loaded" /\ issue[i].key # None

RevokeMark(r) ==
  /\ rev[r].pc = "loaded"
  /\ LET u == rev[r].unit IN
     /\ unit' = [unit EXCEPT ![u].status = IF Exists(u) THEN "Revoked" ELSE @]
     /\ rev' = [rev EXCEPT ![r] = IF Exists(u) THEN [@ EXCEPT !.pc = "marked"]
                                  ELSE NoRevoke("failed")]
     /\ crossed' = crossed \cup {i \in Issues : KeyLoaded(i) /\ issue[i].unit = u}
  /\ UNCHANGED <<entry, failures>>
  /\ SameButRevoke

RevokeEntries(r) ==
  /\ rev[r].pc = "marked"
  /\ entry' = [i \in Issues |-> IF i \in rev[r].keys THEN "revoked" ELSE entry[i]]
  /\ rev' = [rev EXCEPT ![r].pc = "done"]
  /\ UNCHANGED <<unit, failures, crossed>>
  /\ SameButRevoke

RevokeFail(r) ==
  /\ rev[r].pc \in {"loaded", "marked"}
  /\ rev' = [rev EXCEPT ![r] = NoRevoke("failed")]
  /\ Failure
  /\ UNCHANGED <<unit, entry, crossed>>
  /\ SameButRevoke

(***************************************************************************)
(* delete_wallet_unit: only a Pending unit, judged before the deletion;    *)
(* the foreign key of the attested keys keeps a unit that has any.         *)
(***************************************************************************)
SameButDelete == UNCHANGED <<wallet, activation, rows, entry, issue, rev, failures, crossed>>

DeleteLoad(u) ==
  /\ del.pc = "idle"
  /\ unit[u].status = "Pending"
  /\ del' = [pc |-> "loaded", unit |-> u]
  /\ UNCHANGED unit
  /\ SameButDelete

\* Mutant: no foreign key, or one that cascades.
DeleteUnitAlways ==
  /\ del.pc = "loaded"
  /\ unit' = [unit EXCEPT ![del.unit] = [status |-> "absent", key |-> None]]
  /\ del' = NoDelete
  /\ SameButDelete

DeleteUnit ==
  /\ del.pc = "loaded"
  /\ unit' = IF \E j \in rows : issue[j].unit = del.unit THEN unit
             ELSE [unit EXCEPT ![del.unit] = [status |-> "absent", key |-> None]]
  /\ del' = NoDelete
  /\ SameButDelete

(***************************************************************************)
(* holder_wallet_unit_status: only an Active holder unit asks.  It sends   *)
(* an empty issuance request; the provider answers "revoked" for every     *)
(* unit that is not Active, and with another error for an unknown one.     *)
(* (Attestations kept in the holder's database would be checked first;     *)
(* nothing stores any there.)                                              *)
(***************************************************************************)
SameButCheck == UNCHANGED <<integrity, provider, reg, issue, failures, crossed>>

CheckDue == check.pc = "idle" /\ holder.status = "Active"

\* Nothing else changes the holder's record while the request is out, so the
\* reading of it and the provider's answer are one step.
CheckAsk ==
  /\ CheckDue
  /\ Exists(holder.unit) /\ unit[holder.unit].status # "Active"
  /\ check' = [pc |-> "revoked", unit |-> holder.unit]
  /\ UNCHANGED holder
  /\ SameButCheck

CheckStore ==
  /\ check.pc = "revoked"
  /\ holder' = [holder EXCEPT !.status = "Revoked"]
  /\ check' = NoCheck
  /\ SameButCheck

(***************************************************************************)
Next ==
  \/ \E u \in Units :
       \/ RegisterCheck(u) \/ RegisterAtProvider(u) \/ RegisterFail(u)
       \/ AttestationKey(u)
       \/ ActivateLoad(u) \/ ActivateCommit(u) \/ ActivateError(u) \/ ActivateRefused(u)
       \/ AgainLoad(u) \/ AgainEnd(u) \/ RegisterStore(u) \/ DeleteLoad(u)
  \/ \E i \in Issues : IssueAsk(i) \/ IssueLoad(i) \/ IssueCommit(i) \/ IssueFail(i)
  \/ \E r \in Revocations :
       RevokeLoad(r) \/ RevokeMark(r) \/ RevokeEntries(r) \/ RevokeFail(r)
  \/ DeleteUnit \/ CheckAsk \/ CheckStore

Spec == Init /\ [][Next]_vars

-----------------------------------------------------------------------------
(* Types: rows are named by issuance calls, the holder unit by a           *)
(* registration, and the statuses are those of WalletUnitStatus.           *)
TypeOK ==
  /\ integrity \in BOOLEAN
  /\ unit \in [Units -> [status : {"absent", "Pending", "Active", "Error", "Revoked"},
                         key : Units \cup {None}]]
  /\ again \in [Units -> {"none", "valid", "invalid", "done"}]
  /\ rows \subseteq Issues
  /\ entry \in [Issues -> {"none", "active", "revoked"}]
  /\ reg \in [Units -> [pc : {"idle", "checked", "attesting", "activating", "valid",
                              "invalid", "storing", "done", "failed"},
                        key : Units \cup {None}]]
  /\ holder \in [unit : Units \cup {None}, status : {"none", "Unattested", "Active", "Revoked"},
                 key : Units \cup {None}]
  /\ issue \in [Issues -> [pc : {"idle", "asked", "loaded", "issued", "over"},
                           unit : Units \cup {None}, key : Keys \cup {None},
                           row : Issues \cup {None}, bare : BOOLEAN]]
  /\ check \in [pc : {"idle", "revoked"}, unit : Units \cup {None}]
  /\ rev \in [Revocations -> [pc : {"idle", "loaded", "marked", "done", "failed"},
                              unit : Units \cup {None}, keys : SUBSET Issues]]
  /\ del \in [pc : {"idle", "loaded"}, unit : Units \cup {None}]
  /\ failures \in 0 .. MaxFailures
  /\ overwritten \subseteq Units
  /\ crossed \subseteq Issues

(* Every key attestation handed out names the status list entry of a       *)
(* stored row of its own unit and key, and that unit exists: it can be     *)
(* found by a later revocation.  Concurrent issuances for one key, a       *)
(* reused row, and a deletion that read the unit while it was Pending are  *)
(* what could break it.  The one exception: of the two attestations of a   *)
(* request that names a new key twice, the second names no entry.          *)
AttestationsRevocable ==
  \A i \in Issues : issue[i].pc = "issued" =>
    LET j == issue[i].row IN
    /\ j \in rows
    /\ issue[j].unit = issue[i].unit
    /\ issue[j].key = issue[i].key
    /\ entry[j] # "none"
    /\ Exists(issue[i].unit)
    /\ issue[i].bare => j = i

(* After revoke_wallet_unit has answered Ok, every status list entry that  *)
(* an attestation of the unit names is revoked, except those of issuances  *)
(* that had passed their check of the status before a revocation marked    *)
(* the unit and were not committed when it read the keys, and those of a   *)
(* unit that an overlapping activation has reopened.                       *)
RevocationCoversSettled ==
  \A r \in Revocations, i \in Issues :
    rev[r].pc = "done" /\ issue[i].pc = "issued" /\ issue[i].unit = rev[r].unit =>
      entry[issue[i].row] = "revoked" \/ i \in crossed \/ rev[r].unit \in overwritten

(* The wallet's record agrees with the provider's: a unit that the wallet  *)
(* holds as Active is Active or Revoked at the provider, under the         *)
(* wallet's key, and one it holds as Revoked has been revoked; the only    *)
(* exceptions are a unit deleted on the strength of an outdated status,    *)
(* and one whose outcome a second, overlapping activation has changed.     *)
(* The provider answers "revoked" for Pending and Error units as well, so  *)
(* this rests on the order of activation and storing.                      *)
HolderAgrees ==
  holder.status \in {"Active", "Revoked"} =>
    LET p == unit[holder.unit] IN
    \/ p.status = "absent"
    \/ holder.unit \in overwritten
    \/ /\ p.key = holder.key
       /\ p.status \in (IF holder.status = "Active" THEN {"Active", "Revoked"} ELSE {"Revoked"})

(* Two overlapping registrations leave one holder wallet unit: a call that *)
(* reported success is the one whose unit is stored, now and later, even   *)
(* when other calls got as far as storing theirs or failed after it.       *)
OneRegistration == \A u \in Units : reg[u].pc = "done" => holder.unit = u

\* One of two activations of a unit that both read it as Pending is still to
\* write its outcome.
Overlapped(u) ==
  again[u] # "none" /\ (again[u] # "done" \/ reg[u].pc \in {"valid", "invalid"})

(* A revoked unit comes back in one way only: by the second of two         *)
(* overlapping activations, which writes its outcome without looking at    *)
(* the status again.  No other late write changes the status of a revoked  *)
(* unit.  An operator's deletion that read it as Pending may remove it,    *)
(* but only while it has no attested keys.                                 *)
RevokedIsFinal ==
  [][\A u \in Units : unit[u].status = "Revoked" =>
       \/ unit'[u].status = "Revoked"
       \/ unit'[u].status \in {"Active", "Error"} /\ Overlapped(u)
       \/ /\ unit'[u].status = "absent"
          /\ \A i \in Issues : issue[i].pc = "issued" => issue[i].unit # u]_vars

-----------------------------------------------------------------------------
(* The inductive invariant behind these properties, in four parts.  A unit   *)
(* in registration is Pending or gone until its activation is written; a     *)
(* registration has its key only once the unit is Active.                    *)
Settled == {"Active", "Revoked", "absent"}

Registration(u) ==
  /\ reg[u].pc \in {"idle", "checked"} => unit[u].status = "absent"
  /\ reg[u].pc \in {"idle", "checked", "attesting"} => again[u] = "none"
  /\ reg[u].pc \in {"attesting", "activating", "valid", "invalid"} =>
       unit[u].status \in {"Pending", "absent"} \/ again[u] = "done"
  /\ reg[u].key \in {None, u}
  /\ reg[u].key = u => /\ reg[u].pc \in {"storing", "done", "failed"}
                       /\ unit[u].status \in Settled \/ u \in overwritten
  /\ unit[u].status \in {"Active", "Revoked"} => unit[u].key = u
  /\ unit[u].status = "Pending" => unit[u].key = None

RegistrationInv == \A u \in Units : Registration(u)

\* The wallet's record is that of a registration that got to storing it; a
\* status check works on it.
RevokedAt(u) == unit[u].status \in {"Revoked", "absent"} \/ u \in overwritten

HolderInv ==
  /\ OneRegistration
  /\ holder.unit # None => /\ reg[holder.unit].pc \in {"done", "failed"}
                           /\ holder.key = reg[holder.unit].key
  /\ holder.status = "none" <=> holder.unit = None
  /\ holder.status \in {"Active", "Revoked"} => holder.key # None
  /\ holder.status = "Revoked" => RevokedAt(holder.unit)
  /\ check.pc = "revoked" => /\ check.unit = holder.unit /\ RevokedAt(check.unit)
                             /\ holder.status \in {"Active", "Revoked"}

\* Rows stem from issuances that are through.  An issuance under way has its
\* own, not yet stored row, or one that is stored for its unit and key.
RowOf(i) ==
  IF issue[i].key = None THEN issue[i].row = None /\ issue[i].pc = "loaded"
  ELSE \/ issue[i].row = i /\ issue[i].pc = "loaded"
       \/ /\ issue[i].row \in rows
          /\ issue[issue[i].row].unit = issue[i].unit
          /\ issue[issue[i].row].key = issue[i].key

RowInv ==
  /\ \A j \in rows : /\ issue[j].pc = "issued" /\ issue[j].row = j /\ issue[j].key # None
                      /\ issue[j].unit \in Units /\ Exists(issue[j].unit)
  /\ \A i \in Issues : entry[i] = "none" <=> i \notin rows
  /\ \A i \in Issues : issue[i].pc \notin {"idle", "over"} => issue[i].unit \in Units
  /\ \A i \in Issues : issue[i].pc \in {"loaded", "issued"} => RowOf(i)
  /\ \A i \in Issues : issue[i].bare => issue[i].row = i

\* What a revocation will cover, once it has read the keys and once it has
\* marked the unit.
RevocationInv ==
  \A r \in Revocations :
    LET u == rev[r].unit IN
    /\ rev[r].pc \in {"loaded", "marked", "done"} =>
                             /\ u \in Units /\ reg[u].pc \notin {"idle", "checked"}
                             /\ Exists(u) => unit[u].key = u
    /\ rev[r].keys \subseteq rows
    /\ rev[r].pc \in {"marked", "done"} =>
         /\ RevokedAt(u)
         /\ \A i \in Issues : KeyLoaded(i) /\ issue[i].unit = u =>
              i \in crossed \/ u \in overwritten
    /\ rev[r].pc \in {"loaded", "marked", "done"} =>
         \A i \in Issues : issue[i].pc = "issued" /\ issue[i].unit = u =>
           issue[i].row \in rev[r].keys \/ i \in crossed \/ u \in overwritten
    /\ rev[r].pc = "done" => \A j \in rev[r].keys : entry[j] = "revoked"

(* All of it, with the types: the strengthening under which the properties *)
(* of activation, issuance, revocation and deletion are inductive.         *)
IInv == TypeOK /\ RegistrationInv /\ HolderInv /\ RowInv /\ RevocationInv

=============================================================================
