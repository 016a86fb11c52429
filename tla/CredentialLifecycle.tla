------------------------ MODULE CredentialLifecycle ------------------------
(***************************************************************************)
(* The issuer's side of one credential offered with OpenID4VCI 1.0: its    *)
(* row, its issuance interaction, and every request that changes them.     *)
(*                                                                         *)
(* The wallet sends token, credential and notification requests; the       *)
(* operator suspends, reactivates and revokes; tasks expire the offer and  *)
(* end a suspension.  Only the grant of a token and the issuance itself    *)
(* run in a transaction, and those two lock the interaction row.  All      *)
(* other reads and writes stand alone, so any request may act on a         *)
(* credential state that has changed since it read it.                     *)
(*                                                                         *)
(* A request is named once: the access token, the refresh token and the    *)
(* notification id it creates are named after it.  A transaction that      *)
(* holds the interaction row writes when it commits; until then nobody     *)
(* sees its writes, and rolling back leaves none of them.                  *)
(***************************************************************************)
EXTENDS Integers, Sequences, FiniteSets

CONSTANTS
    TokenRequests,         \* calls of create_token
    CredentialRequests,    \* calls of create_credential
    NotificationRequests,  \* calls of handle_notification
    ValidityRequests,      \* calls of change_credential_validity_state
    Nonces,                \* nonces the wallet may put into its proofs
    None,                  \* no token, no nonce, no notification, no lock
    HasTxCode,             \* does the schema ask for a transaction code?
    Mdoc,                  \* is the credential an mdoc?
    Revocation,            \* revocation method: "none", "list" or "mso"
    AllowSuspension        \* allow_suspension of the schema

Requests == TokenRequests \cup CredentialRequests \cup NotificationRequests
              \cup ValidityRequests

ASSUME KindsAssumption ==
    /\ TokenRequests \cap CredentialRequests = {}
    /\ (TokenRequests \cup CredentialRequests) \cap NotificationRequests = {}
    /\ (TokenRequests \cup CredentialRequests \cup NotificationRequests)
          \cap ValidityRequests = {}
    /\ None \notin Requests /\ None \notin Nonces
    /\ IsFiniteSet(CredentialRequests)

ASSUME SchemaAssumption ==
    /\ HasTxCode \in BOOLEAN /\ Mdoc \in BOOLEAN /\ AllowSuspension \in BOOLEAN
    /\ Revocation \in {"none", "list", "mso"}

VARIABLES
    state,      \* CredentialStateEnum of the credential row
    data,       \* the interaction's data column
    nonceId,    \* the interaction's nonce_id column
    lock,       \* the transaction that holds the interaction row
    clock,      \* has the offer run out?
    entries,    \* statuses of the credential's status list entries
    pc,         \* progress of each request
    input,      \* what the request carries
    seen,       \* the credential state a request read
    copy,       \* the interaction data a request read
    answer      \* how a request was answered

rowVars == <<state, data, nonceId, entries>>
requestVars == <<pc, input, seen, copy, answer>>
vars == <<rowVars, lock, clock, requestVars>>

States == {"Pending", "Offered", "Accepted", "Suspended", "Revoked", "Rejected",
           "Error", "InteractionExpired"}

InteractionData ==
    [codeUsed : BOOLEAN, txCode : BOOLEAN, access : TokenRequests \cup {None},
     refresh : TokenRequests \cup {None},
     notification : CredentialRequests \cup {None}]

TokenInputs == [grant : {"code", "refresh"}, code : {"none", "right", "wrong"},
                token : TokenRequests \cup {None}]
CredentialInputs == [token : TokenRequests, nonce : Nonces \cup {None}]
NotificationInputs == [token : TokenRequests, notification : CredentialRequests,
                       event : {"Accepted", "Failure", "Deleted"}]
ValidityInputs == [target : {"Accepted", "Suspended", "Revoked"}]

ASSUME NoneAssumption ==
    None \notin TokenInputs \cup CredentialInputs \cup NotificationInputs \cup ValidityInputs

(* What a request may carry, by its kind. *)
Inputs(r) ==
    {None} \cup CASE r \in TokenRequests -> TokenInputs
                  [] r \in CredentialRequests -> CredentialInputs
                  [] r \in NotificationRequests -> NotificationInputs
                  [] OTHER -> ValidityInputs

(* The steps at which a request may be, by its kind. *)
Steps(r) ==
    {"idle", "done"} \cup
      CASE r \in TokenRequests -> {"granting", "failing"}
        [] r \in CredentialRequests -> {"marking", "attesting", "locked", "issuing"}
        [] r \in NotificationRequests -> {"checked", "rejecting", "revoking"}
        [] OTHER -> {"validated", "updating"}

Answers == {"none", "token", "credential", "ok", "aborted", "InvalidGrant",
            "InvalidRequest", "InvalidToken", "InvalidState", "InvalidNonce",
            "InvalidProof", "InvalidNotification", "RefreshTooSoon",
            "Suspended", "IssuanceFailed"}

TypeOK ==
    /\ state \in States
    /\ data \in InteractionData
    /\ nonceId \in Nonces \cup {None}
    /\ lock \in CredentialRequests \cup {None}
    /\ clock \in {"open", "expiring", "late"}
    /\ entries \in Seq({"Accepted", "Suspended", "Revoked"})
    /\ DOMAIN pc = Requests /\ \A r \in Requests : pc[r] \in Steps(r)
    /\ DOMAIN input = Requests /\ \A r \in Requests : input[r] \in Inputs(r)
    /\ seen \in [Requests -> States]
    /\ copy \in [Requests -> InteractionData]
    /\ answer \in [Requests -> Answers]

Offer == [codeUsed |-> FALSE, txCode |-> HasTxCode, access |-> None,
          refresh |-> None, notification |-> None]

(* issuer_share_credential and share_credential: the offer is out. *)
Shared ==
    /\ state = "Pending"
    /\ data = Offer
    /\ clock = "open"
    /\ entries = <<>>
    /\ pc = [r \in Requests |-> "idle"]
    /\ input = [r \in Requests |-> None]
    /\ answer = [r \in Requests |-> "none"]

(* The migration that adds nonce_id leaves it empty for the interactions    *)
(* that exist: an mdoc that t and c obtained before it.                    *)
Migrated(t, c) ==
    /\ Mdoc
    /\ state = "Accepted"
    /\ data = [codeUsed |-> TRUE, txCode |-> FALSE, access |-> t,
               refresh |-> t, notification |-> c]
    /\ clock = "late"
    /\ entries = IF Revocation = "list" THEN <<"Accepted">> ELSE <<>>
    /\ pc = [r \in Requests |-> IF r \in {t, c} THEN "done" ELSE "idle"]
    /\ input = [r \in Requests |->
                  CASE r = t -> [grant |-> "code", token |-> None,
                                 code |-> IF HasTxCode THEN "right" ELSE "none"]
                    [] r = c -> [token |-> t, nonce |-> None]
                    [] OTHER -> None]
    /\ answer = [r \in Requests |->
                   CASE r = t -> "token" [] r = c -> "credential" [] OTHER -> "none"]

Init ==
    /\ Shared \/ \E t \in TokenRequests, c \in CredentialRequests : Migrated(t, c)
    /\ nonceId = None
    /\ lock = None
    /\ seen = [r \in Requests |-> "Pending"]
    /\ copy = [r \in Requests |-> Offer]

-----------------------------------------------------------------------------
(* Progress of a request. *)

Goto(r, p) == pc' = [pc EXCEPT ![r] = p]

Answer(r, a) == Goto(r, "done") /\ answer' = [answer EXCEPT ![r] = a]

(* mark_credential_as of a status list: all entries of the credential. *)
MarkAs(status) == entries' = [i \in DOMAIN entries |-> status]

Granted == {r \in TokenRequests : answer[r] = "token"}
Issued == {r \in CredentialRequests : answer[r] = "credential"}

-----------------------------------------------------------------------------
(* create_token *)

(* The credentials are read before the transaction begins. *)
TokenRead(r) ==
    /\ pc[r] = "idle"
    /\ \/ \E c \in {"none", "right", "wrong"} :
             input' = [input EXCEPT ![r] = [grant |-> "code", code |-> c, token |-> None]]
       \/ \E t \in Granted :
             input' = [input EXCEPT ![r] = [grant |-> "refresh", code |-> "none", token |-> t]]
    /\ seen' = [seen EXCEPT ![r] = state]
    /\ Goto(r, "granting")
    /\ UNCHANGED <<rowVars, lock, clock, copy, answer>>

(* throw_if_tx_code_invalid *)
TxCodeCheck(code) ==
    CASE data.txCode /\ code = "wrong" -> "InvalidGrant"
      [] data.txCode /\ code = "none"  -> "InvalidRequest"
      [] ~data.txCode /\ code # "none" -> "InvalidRequest"
      [] OTHER -> "ok"

(* Mutants of CodeCheck: a used code passes, a late one passes. *)
CodeCheckReusable(r) ==
    IF clock = "late" THEN "InvalidGrant"
    ELSE IF seen[r] # "Pending" THEN "InvalidState" ELSE "token"

CodeCheckTimeless(r) ==
    IF data.codeUsed THEN "InvalidGrant"
    ELSE IF seen[r] # "Pending" THEN "InvalidState" ELSE "token"

(* throw_if_interaction_created_date, _pre_authorized_code_used and         *)
(* throw_if_credential_state_not_eq, the last on the credentials read      *)
(* before the transaction.                                                 *)
CodeCheck(r) ==
    IF clock = "late" \/ data.codeUsed THEN "InvalidGrant"
    ELSE IF seen[r] # "Pending" THEN "InvalidState" ELSE "token"

(* validate_refresh_token *)
RefreshCheck(r) ==
    IF data.refresh = None THEN "InvalidRequest"
    ELSE IF data.refresh # input[r].token THEN "InvalidToken" ELSE "token"

(* oidc_issuer_create_token *)
TokenVerdict(r) ==
    IF TxCodeCheck(input[r].code) # "ok" THEN TxCodeCheck(input[r].code)
    ELSE IF input[r].grant = "code" THEN CodeCheck(r) ELSE RefreshCheck(r)

(* Mutant of TokenGrant: the interaction is read without its lock. *)
TokenGrantUnlocked(r) ==
    /\ pc[r] = "granting"
    /\ TokenVerdict(r) = "token"
    /\ data' = [codeUsed |-> TRUE, txCode |-> FALSE, access |-> r,
                refresh |-> IF Mdoc \/ input[r].grant = "refresh" THEN r ELSE None,
                notification |-> None]
    /\ state' = IF input[r].grant = "code" THEN "Offered" ELSE state
    /\ Answer(r, "token")
    /\ UNCHANGED <<nonceId, entries, lock, clock, input, seen, copy>>

(* The transaction of create_token: under the lock, the old data is         *)
(* replaced as a whole.                                                    *)
TokenGrant(r) ==
    /\ pc[r] = "granting"
    /\ lock = None
    /\ TokenVerdict(r) = "token"
    /\ data' = [codeUsed |-> TRUE, txCode |-> FALSE, access |-> r,
                refresh |-> IF Mdoc \/ input[r].grant = "refresh" THEN r ELSE None,
                notification |-> None]
    /\ state' = IF input[r].grant = "code" THEN "Offered" ELSE state
    /\ Answer(r, "token")
    /\ UNCHANGED <<nonceId, entries, lock, clock, input, seen, copy>>

(* An invalid grant that came with a transaction code fails the issuance,   *)
(* but only after the transaction has been rolled back.                    *)
TokenRefuse(r) ==
    /\ pc[r] = "granting"
    /\ lock = None
    /\ LET verdict == TokenVerdict(r) IN
          IF verdict = "InvalidGrant" /\ input[r].code # "none"
          THEN Goto(r, "failing") /\ UNCHANGED answer
          ELSE verdict # "token" /\ Answer(r, verdict)
    /\ UNCHANGED <<rowVars, lock, clock, input, seen, copy>>

(* validate_refresh_token: the right refresh token may have run out. *)
RefreshLapsed(r) ==
    /\ pc[r] = "granting"
    /\ lock = None
    /\ input[r].grant = "refresh"
    /\ TokenVerdict(r) = "token"
    /\ Answer(r, "InvalidToken")
    /\ UNCHANGED <<rowVars, lock, clock, input, seen, copy>>

(* The credentials are set to Error outside any transaction. *)
TokenSetError(r) ==
    /\ pc[r] = "failing"
    /\ state' = "Error"
    /\ Answer(r, "InvalidGrant")
    /\ UNCHANGED <<data, nonceId, entries, lock, clock, input, seen, copy>>

-----------------------------------------------------------------------------
(* create_credential *)

(* is_access_token_valid: only the token of the last grant is valid. *)
AccessTokenValid(t) == data.codeUsed /\ data.access = t

(* The interaction is read without a lock and the access token checked. *)
CredentialCheck(r) ==
    /\ pc[r] = "idle"
    /\ \E t \in Granted, n \in Nonces :
          /\ AccessTokenValid(t)
          /\ input' = [input EXCEPT ![r] = [token |-> t, nonce |-> n]]
    /\ copy' = [copy EXCEPT ![r] = data]
    /\ Goto(r, "marking")
    /\ UNCHANGED <<rowVars, lock, clock, seen, answer>>

(* throw_if_access_token_invalid: another token, or one that has run out. *)
AccessRefused(r) ==
    /\ pc[r] = "idle"
    /\ Answer(r, "InvalidToken")
    /\ UNCHANGED <<rowVars, lock, clock, input, seen, copy>>

(* Mutant of MarkNonce: without the condition that no nonce is stored. *)
MarkNonceAgain(r) ==
    /\ pc[r] = "marking"
    /\ lock = None
    /\ nonceId' = input[r].nonce
    /\ Goto(r, "attesting")
    /\ UNCHANGED <<state, data, entries, lock, clock, input, seen, copy, answer>>

(* mark_nonce_as_used: UPDATE ... WHERE nonce_id IS NULL, which waits for   *)
(* the row lock.                                                           *)
MarkNonce(r) ==
    /\ pc[r] = "marking"
    /\ lock = None
    /\ nonceId = None
    /\ nonceId' = input[r].nonce
    /\ Goto(r, "attesting")
    /\ UNCHANGED <<state, data, entries, lock, clock, input, seen, copy, answer>>

NonceRefused(r) ==
    /\ pc[r] = "marking"
    /\ lock = None
    /\ nonceId # None
    /\ Answer(r, "InvalidNonce")
    /\ UNCHANGED <<rowVars, lock, clock, input, seen, copy>>

(* The key attestation is missing, invalid, revoked or not expected. *)
AttestationRefused(r) ==
    /\ pc[r] = "attesting"
    /\ Answer(r, "InvalidProof")
    /\ UNCHANGED <<rowVars, lock, clock, input, seen, copy>>

(* Mutant of IssueLock: the data read before the lock is used. *)
IssueLockStale(r) ==
    /\ pc[r] = "attesting"
    /\ lock = None
    /\ lock' = r
    /\ Goto(r, "locked")
    /\ UNCHANGED <<rowVars, clock, input, seen, copy, answer>>

(* issue_tx: lock the interaction and read its data again. *)
IssueLock(r) ==
    /\ pc[r] = "attesting"
    /\ lock = None
    /\ lock' = r
    /\ copy' = [copy EXCEPT ![r] = data]
    /\ Goto(r, "locked")
    /\ UNCHANGED <<rowVars, clock, input, seen, answer>>

(* validate_credential_issuable *)
Issuable(s) == s = "Offered" \/ (Mdoc /\ s = "Accepted")

(* issuer_issue_credential reads the credential again, without a lock. *)
IssueRead(r) ==
    /\ pc[r] = "locked"
    /\ Issuable(state)
    /\ seen' = [seen EXCEPT ![r] = state]
    /\ Goto(r, "issuing")
    /\ UNCHANGED <<rowVars, lock, clock, input, copy, answer>>

(* A suspended mdoc, or one issued too recently: the transaction is rolled  *)
(* back and the state stays.                                               *)
RefreshRefused(r) ==
    /\ pc[r] = "locked"
    /\ Mdoc
    /\ \/ state = "Suspended" /\ Answer(r, "Suspended")
       \/ state = "Accepted" /\ Answer(r, "RefreshTooSoon")
    /\ lock' = None
    /\ UNCHANGED <<rowVars, clock, input, seen, copy>>

(* Mutants of IssueFails: the entry, the state or the lock survives. *)
IssueFailsKeepsEntry(r) ==
    /\ pc[r] = "issuing"
    /\ entries' = IF Revocation = "list" THEN Append(entries, "Accepted") ELSE entries
    /\ lock' = None
    /\ Answer(r, "IssuanceFailed")
    /\ UNCHANGED <<state, data, nonceId, clock, input, seen, copy>>

IssueFailsKeepsState(r) ==
    /\ pc[r] = "issuing"
    /\ state' = "Accepted"
    /\ lock' = None
    /\ Answer(r, "IssuanceFailed")
    /\ UNCHANGED <<data, nonceId, entries, clock, input, seen, copy>>

IssueFailsKeepsLock(r) ==
    /\ pc[r] = "issuing"
    /\ Answer(r, "IssuanceFailed")
    /\ UNCHANGED <<rowVars, lock, clock, input, seen, copy>>

(* Any other failure (state not issuable, status list, key, formatter)      *)
(* writes Error, then returns an error, which rolls that write back with   *)
(* all others of the transaction.                                          *)
IssueFails(r) ==
    /\ \/ pc[r] = "locked" /\ ~Issuable(state) /\ ~(Mdoc /\ state = "Suspended")
       \/ pc[r] = "issuing"
    /\ lock' = None
    /\ Answer(r, "IssuanceFailed")
    /\ UNCHANGED <<rowVars, clock, input, seen, copy>>

(* The credential is formatted with its status list entry, accepted (an     *)
(* mdoc that was accepted before keeps its row), and the notification id   *)
(* is stored in the data read under the lock.                              *)
IssueCommit(r) ==
    /\ pc[r] = "issuing"
    /\ state' = IF seen[r] = "Offered" THEN "Accepted" ELSE state
    /\ data' = [copy[r] EXCEPT !.notification = r]
    /\ entries' = IF Revocation = "list" THEN Append(entries, "Accepted") ELSE entries
    /\ lock' = None
    /\ Answer(r, "credential")
    /\ UNCHANGED <<nonceId, clock, input, seen, copy>>

-----------------------------------------------------------------------------
(* handle_notification *)

NotifyCheck(r) ==
    /\ pc[r] = "idle"
    /\ \E t \in Granted, n \in Issued, e \in {"Accepted", "Failure", "Deleted"} :
          /\ AccessTokenValid(t)
          /\ data.notification = n
          /\ input' = [input EXCEPT ![r] = [token |-> t, notification |-> n, event |-> e]]
    /\ Goto(r, "checked")
    /\ UNCHANGED <<rowVars, lock, clock, seen, copy, answer>>

(* The notification id is not the one stored. *)
NotifyIdRefused(r) ==
    /\ pc[r] = "idle"
    /\ \E t \in Granted : AccessTokenValid(t)
    /\ Answer(r, "InvalidNotification")
    /\ UNCHANGED <<rowVars, lock, clock, input, seen, copy>>

(* States in which an event changes the credential. *)
Processable(s) == s \in {"Accepted", "Suspended", "Revoked"}

(* Repeated requests are answered without doing anything. *)
Repeated(s, e) == <<s, e>> \in {<<"Error", "Failure">>, <<"Rejected", "Deleted">>}

NotifyRead(r) ==
    /\ pc[r] = "checked"
    /\ seen' = [seen EXCEPT ![r] = state]
    /\ \/ /\ Processable(state) /\ input[r].event # "Accepted"
          /\ Goto(r, "rejecting") /\ UNCHANGED answer
       \/ /\ (Processable(state) /\ input[r].event = "Accepted")
               \/ Repeated(state, input[r].event)
          /\ Answer(r, "ok")
       \/ /\ ~Processable(state) /\ ~Repeated(state, input[r].event)
          /\ Answer(r, "InvalidNotification")
    /\ UNCHANGED <<rowVars, lock, clock, input, copy>>

(* The new state is written first; the status list follows, if the          *)
(* credential was not revoked when it was read.                            *)
NotifyUpdate(r) ==
    /\ pc[r] = "rejecting"
    /\ state' = IF input[r].event = "Failure" THEN "Error" ELSE "Rejected"
    /\ IF seen[r] \in {"Accepted", "Suspended"} /\ Revocation = "list"
       THEN Goto(r, "revoking") /\ UNCHANGED answer
       ELSE Answer(r, "ok")
    /\ UNCHANGED <<data, nonceId, entries, lock, clock, input, seen, copy>>

NotifyRevoke(r) ==
    /\ pc[r] = "revoking"
    /\ MarkAs("Revoked")
    /\ Answer(r, "ok")
    /\ UNCHANGED <<state, data, nonceId, lock, clock, input, seen, copy>>

-----------------------------------------------------------------------------
(* change_credential_validity_state: the operator suspends, reactivates or  *)
(* revokes; the suspension check task reactivates.                         *)

(* validate_state_transition: the states from which a target is allowed. *)
AllowedFrom(target) ==
    CASE target = "Revoked" -> {"Accepted", "Suspended"}
      [] target = "Accepted" -> {"Suspended"}
      [] target = "Suspended" -> {"Accepted"}

(* The state is read and judged. *)
ValidityRead(r) ==
    /\ pc[r] = "idle"
    /\ Revocation # "none"
    /\ seen' = [seen EXCEPT ![r] = state]
    /\ \E target \in {"Accepted", "Suspended", "Revoked"} :
          /\ input' = [input EXCEPT ![r] = [target |-> target]]
          /\ IF state \in AllowedFrom(target)
                  /\ (target = "Suspended" => AllowSuspension)
             THEN Goto(r, "validated") /\ UNCHANGED answer
             ELSE Answer(r, "InvalidState")
    /\ UNCHANGED <<rowVars, lock, clock, copy>>

(* MDOC_MSO_UPDATE_SUSPENSION keeps no entries and refuses to revoke. *)
Markable(target) == Revocation = "mso" => target # "Revoked"

ValidityMark(r) ==
    /\ pc[r] = "validated"
    /\ Markable(input[r].target)
    /\ MarkAs(input[r].target)
    /\ Goto(r, "updating")
    /\ UNCHANGED <<state, data, nonceId, lock, clock, input, seen, copy, answer>>

ValidityRefused(r) ==
    /\ pc[r] = "validated"
    /\ ~Markable(input[r].target)
    /\ Answer(r, "InvalidRequest")
    /\ UNCHANGED <<rowVars, lock, clock, input, seen, copy>>

(* The state that was decided on before is written. *)
ValidityUpdate(r) ==
    /\ pc[r] = "updating"
    /\ state' = input[r].target
    /\ Answer(r, "ok")
    /\ UNCHANGED <<data, nonceId, entries, lock, clock, input, seen, copy>>

-----------------------------------------------------------------------------
(* The tasks, the clock and what may go wrong. *)

(* update_expired_credentials, run by the interaction expiration task: one  *)
(* statement for the offers still pending after expires_at.                *)
ExpireOffer ==
    /\ state = "Pending"
    /\ clock # "open"
    /\ state' = "InteractionExpired"
    /\ UNCHANGED <<data, nonceId, entries, lock, clock, requestVars>>

(* expires_at is computed just before the interaction's created_date, so it *)
(* passes a moment before the code's own time is over.                     *)
Tick ==
    /\ clock # "late"
    /\ clock' = IF clock = "open" THEN "expiring" ELSE "late"
    /\ UNCHANGED <<rowVars, lock, requestVars>>

(* A database or signing error, a dropped connection or a crash ends a      *)
(* request between two steps and rolls back the transaction it is in.      *)
Abort(r) ==
    /\ pc[r] \notin {"idle", "done"}
    /\ lock' = IF lock = r THEN None ELSE lock
    /\ Answer(r, "aborted")
    /\ UNCHANGED <<rowVars, clock, input, seen, copy>>

TokenStep(r) == TokenRead(r) \/ TokenGrant(r) \/ TokenRefuse(r) \/ RefreshLapsed(r)
                  \/ TokenSetError(r)

CredentialStep(r) == CredentialCheck(r) \/ AccessRefused(r) \/ MarkNonce(r)
                       \/ NonceRefused(r) \/ AttestationRefused(r) \/ IssueLock(r)
                       \/ IssueRead(r) \/ RefreshRefused(r) \/ IssueFails(r)
                       \/ IssueCommit(r)

NotificationStep(r) == NotifyCheck(r) \/ AccessRefused(r) \/ NotifyIdRefused(r)
                         \/ NotifyRead(r) \/ NotifyUpdate(r) \/ NotifyRevoke(r)

ValidityStep(r) == ValidityRead(r) \/ ValidityMark(r) \/ ValidityRefused(r)
                     \/ ValidityUpdate(r)

RequestStep ==
    \/ \E r \in TokenRequests : TokenStep(r)
    \/ \E r \in CredentialRequests : CredentialStep(r)
    \/ \E r \in NotificationRequests : NotificationStep(r)
    \/ \E r \in ValidityRequests : ValidityStep(r)

Next ==
    \/ RequestStep
    \/ ExpireOffer
    \/ Tick
    \/ \E r \in Requests : Abort(r)

Spec == Init /\ [][Next]_vars

(* A request that has begun goes on: the runtime polls its future, the      *)
(* database grants a row lock that is released.  Requests need not arrive. *)
Proceed ==
    /\ \A r \in TokenRequests : WF_vars(pc[r] # "idle" /\ TokenStep(r))
    /\ \A r \in CredentialRequests : WF_vars(pc[r] # "idle" /\ CredentialStep(r))
    /\ \A r \in NotificationRequests : WF_vars(pc[r] # "idle" /\ NotificationStep(r))
    /\ \A r \in ValidityRequests : WF_vars(pc[r] # "idle" /\ ValidityStep(r))

FairSpec == Spec /\ Proceed

-----------------------------------------------------------------------------
(* What holds. *)

(* The pre-authorized code buys one token, however many requests read the   *)
(* credential while it was pending, and only with the transaction code     *)
(* when the schema asks for one (create_token).                            *)
OneRedemption ==
    LET redeemers == {r \in Granted : input[r].grant = "code"} IN
      /\ \A q, r \in redeemers : q = r
      /\ HasTxCode => \A r \in redeemers : input[r].code = "right"

(* A refresh token is exchanged once: concurrent refresh requests with the  *)
(* same token do not both succeed (validate_refresh_token under the lock). *)
RefreshTokenUsedOnce ==
    \A q, r \in Granted :
       input[q].grant = "refresh" /\ input[r].grant = "refresh"
         /\ input[q].token = input[r].token => q = r

(* The stored access token changes only by granting a new one: an issuance  *)
(* that writes the interaction's data back never restores a token that was *)
(* replaced meanwhile (issue_tx against create_token).                     *)
TokenNeverReverts == [][data'.access # data.access => data'.access \in Granted' \ Granted]_vars

(* Every status list entry belongs to a credential that was handed out: a   *)
(* failed issuance leaves no entry behind (add_issued_credential in        *)
(* issue_tx).                                                              *)
NoOrphanEntries == Revocation = "list" => Len(entries) = Cardinality(Issued)

(* No credential counts as accepted, suspended, revoked or rejected that    *)
(* the wallet never received.                                              *)
AcceptedWasIssued ==
    state \in {"Accepted", "Suspended", "Revoked", "Rejected"} => Issued # {}

(* One proof of the wallet, that is one nonce, yields one credential, also   *)
(* when the proof is sent twice or the issuance fails (mark_nonce_as_used).*)
NonceIssuesOnce == \A q, r \in Issued : input[q].nonce = input[r].nonce => q = r

(* Once the code has run out, an offer the expiration task has closed stays *)
(* closed, whatever a token request read before the task ran.              *)
LateOfferStaysClosed ==
    [][clock = "late" /\ state = "InteractionExpired"
         => state' \in {"InteractionExpired", "Error"}]_vars

(* The inductive invariant.  A transaction that holds the interaction works *)
(* on its current data.                                                    *)
LockInv ==
    /\ \A r \in CredentialRequests : pc[r] \in {"locked", "issuing"} <=> lock = r
    /\ lock # None => copy[lock] = data

(* Tokens: redeemed or not, the data tells; what was refreshed is spent. *)
TokenInv ==
    /\ data.codeUsed <=> data.access # None
    /\ data.access # None => data.access \in Granted
    /\ data.refresh \in {None, data.access}
    /\ data.txCode <=> HasTxCode /\ ~data.codeUsed
    /\ Granted # {} => data.codeUsed
    /\ \A r \in TokenRequests : pc[r] \in {"granting", "failing"} => input[r] # None
    /\ \A r \in Granted : pc[r] = "done" /\ input[r] # None
    /\ \A r \in Granted : input[r].grant = "refresh"
          => input[r].token \in Granted /\ input[r].token # data.access
    /\ OneRedemption
    /\ RefreshTokenUsedOnce

(* A credential request that has spent its nonce. *)
PastNonce(r) ==
    pc[r] \in {"attesting", "locked", "issuing"}
      \/ (answer[r] = "credential" /\ input[r].nonce # None)

InFlight(r) == pc[r] \in {"marking", "attesting", "locked", "issuing"}

IssueInv ==
    /\ \A r \in CredentialRequests :
          /\ InFlight(r) => input[r] # None /\ input[r].nonce \in Nonces
          /\ InFlight(r) \/ r \in Issued => data.codeUsed
          /\ r \in Issued => pc[r] = "done" /\ input[r] # None
          /\ PastNonce(r) => nonceId # None
    /\ \A q, r \in CredentialRequests : PastNonce(q) /\ PastNonce(r) => q = r
    /\ NonceIssuesOnce
    /\ NoOrphanEntries

(* The state follows the tokens and the deliveries. *)
StateInv ==
    /\ state \in {"Pending", "InteractionExpired"} => ~data.codeUsed
    /\ AcceptedWasIssued
    /\ \A r \in NotificationRequests :
          pc[r] \in {"checked", "rejecting", "revoking"} => input[r] # None /\ Issued # {}
    /\ \A r \in ValidityRequests :
          pc[r] \in {"validated", "updating"} => input[r] # None /\ Issued # {}

IInv == TypeOK /\ LockInv /\ TokenInv /\ IssueInv /\ StateInv

(* Every request that has begun is answered: the interaction row is always  *)
(* released, and nobody waits for it forever.                              *)
EveryRequestAnswered == \A r \in Requests : pc[r] # "idle" ~> pc[r] = "done"

(* Grants and deliveries keep the promise made to the wallet. *)
Contract ==
    INSTANCE IssuanceContract WITH
        Tokens <- TokenRequests, Deliveries <- CredentialRequests, NoToken <- None,
        current <- data.access, delivered <- Issued,
        spent <- {input[r].token : r \in {q \in Granted : input[q].grant = "refresh"}}

(* The whole lifecycle, with its races and aborted requests, implements the *)
(* contract: create_token and issue_tx replace the data consistently.      *)
ImplementsContract == Contract!Spec

-----------------------------------------------------------------------------
(* What the code's comments and tests say, and its interleavings refute. *)

(* "Invalid tx-code entry means the issuance failed, we do not allow to     *)
(* retry": once such a request is answered, no token is granted            *)
(* (create_token).                                                         *)
NoGrantAfterWrongCode ==
    [][(\E q \in TokenRequests : answer[q] = "InvalidGrant" /\ input[q].code = "wrong")
         => Granted' = Granted]_vars

============================================================================
