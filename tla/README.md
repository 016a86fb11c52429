# Verification of one-core

This directory holds TLA+ models of one-core, the TLC configurations that check
them on small instances and the TLAPS proofs about them. one-core is a library,
with a server around it, for issuing, holding and verifying digital credentials.

## The system and its parts

Requests enter a *service* (`lib/one-core/src/service`), which uses *providers*
(`lib/one-core/src/provider`: issuance and verification protocols, revocation
methods, tasks, formatters, key storages) and *protos* (`lib/one-core/src/proto`:
schedulers, senders, validity manager, transports). State lives in SQL tables
behind repositories (`lib/sql-data-provider`): credentials, interactions, proofs,
revocation lists and their entries, notifications, history. Repositories are
wrapped in decorators that write history and send notifications.

Three facts about the code shape every model:

- A transaction is a task local: every repository call inside `tx(...)` uses it,
  a task started with `tokio::spawn` does not. An error rolls it back, and a
  nested transaction is a savepoint (`transaction_context.rs`).
- Few operations run in a transaction and fewer lock a row. All other reads and
  writes stand alone, so what a request read may have changed when it writes.
- Maintenance *tasks* are started from outside, so their runs overlap with
  requests and with one another.

| part | modules | state |
|---|---|---|
| webhook notifications: decorators, scheduler, sender, task | `WebhookDelivery`, `DeliveryContract` | modelled |
| OpenID4VCI 1.0 issuer endpoints | `CredentialLifecycle`, `IssuanceContract` | partly |
| suspend, reactivate, revoke (issuer) | `CredentialLifecycle` | partly |
| interaction expiration task | `CredentialLifecycle`, `ProofLifecycle` | partly |
| token status list | `StatusList`, `StatusListContract` | partly |
| proof requests and OpenID4VP verifier endpoints | `ProofLifecycle` | partly |
| proximity verification over MQTT (verifier) | `ProofLifecycle` | partly |
| proof retention task | `ProofLifecycle` | modelled |
| Bluetooth interface (`BleWaiter`) | `BleWaiter` | modelled |
| proximity exchanges over Bluetooth | `BleWaiter` | partly |
| wallet provider | `WalletUnit` | modelled |
| wallet unit (holder) | `WalletUnit` | partly |
| `share_credential`, deletion of credentials | | not modelled |
| bitstring status list, CRL | | not modelled: allocation is that of `StatusList` |
| certificate check task, caching loader, trust lists | | not modelled |
| draft 13 and swiyu issuer endpoints | | not modelled: the same transactions as 1.0 |
| schemas, organisations, keys, statistics, history | | not modelled: single-row operations |
| formatters, DID methods, signers, DCQL, cryptography | | not modelled: pure conversions over unbounded documents |
| NFC and HTTP transports, backup, server, bindings | | not modelled: input and output |

`PROJECT.json` lists every part with its sources, and the hazards of the code at
the line where each of them bites; a hazard without a property says why. The
mapped lines are a small part of the repository. Most of its code converts
documents (formatters, protocol messages, data transfer objects, SQL mappings)
or does input and output: it changes no shared state, and its inputs are
unbounded. What is modelled is the code whose calls share rows, locks or devices.

## Conventions

- A model keeps every state change, guard, early return and error path, and the
  order they happen in. Data is abstracted to what the properties tell apart.
- A step is what another task can see at once: one SQL statement outside a
  transaction, or the commit of a transaction. Writes of an open transaction are
  invisible to others, so they appear at the commit, together.
- Row locks are those of InnoDB, the database of the server. SQLite serialises
  writing transactions and has fewer behaviours.
- Operators named in a comment as *mutants* are variants of the definition that
  follows, with a plausible bug. They are never used by a specification; each
  shows that a property notices the bug.
- Every configuration says `CHECK_DEADLOCK FALSE`, because a server to which no
  further request comes may stop.

## Webhook notifications

`WebhookDelivery.tla` models the status update of the decorated repository
(`UpdateStatus`), `schedule` (`Schedule`, `ScheduleFails`), the end of the
enclosing transaction (`CommitTx`, `RollbackTx`), a sender's locking read, HTTP
request and final writes (`GetForUpdate`, `NotFound`, `LockTimeout`,
`SendRequest`, `UrlRefused`, `Reschedule`, `Conclude`, `SenderDbError`), the listing and the
loop of the WEBHOOK_NOTIFY task (`TaskList`, `TaskSend`), the clock (`Tick`) and
the end of the process at any point (`Crash`). The sender is spawned before the
caller's transaction commits, and works in a transaction of its own.

`DeliveryContract.tla` is what the subsystem promises of one notification: once
queued, it is attempted a bounded number of times and ends delivered or errored.

| run | instance | shows |
|---|---|---|
| `webhook_delivery` | one notification, its immediate sender and two overlapping task runs, three attempts, two faults | nothing is announced before it is committed, lost, settled twice or sent too often; history tells the truth; every committed notification whose URL is not refused is settled; the contract is implemented |

Two task runs and the spawned sender make three that contend for one row.
`MaxFaults` bounds crashes and database failures, `MaxLate` how far in the past a
date is told apart. Three attempts take the delay through two exponents. Several
notifications share nothing but the list a task works through; the proofs cover
any number of them.

Fairness (`FairSpec`): senders and task runs that can go on do, because the
runtime polls their futures, and time passes. Task runs are repeated because the
task is meant to be run periodically. Nothing is assumed of callers, and crashes
are bounded: a server that crashes again and again delivers nothing.

The URL is checked when a notification is scheduled and again, by `validate_url`,
before each send. Its answer depends on the configuration alone, so it can change
between the two only when the server is started again with other settings.
`refused` says that it has: from then on every send fails before the attempt is
counted, and the row stays. `EventuallySettled` and the liveness of the contract
hold for a notification unless its URL is refused at some time; safety holds
for all.

Outside a transaction the status is committed before the row is inserted, so a
failure in between leaves a change without a notification. `TxChangeIsAnnounced`
is therefore about changes inside a transaction. A
`max_attempts` of zero is outside `ConstantsAssumption`: the subtraction in
`notification_sender/mod.rs` would underflow.

## Issuance and validity of a credential

`CredentialLifecycle.tla` is the issuer's side of one credential: its row, its
interaction, its status list entries, and all requests that change them.

| code | actions |
|---|---|
| `create_token` | `TokenRead` (reads the credential before the transaction), `TokenGrant`, `TokenRefuse`, `RefreshLapsed`, `TokenSetError` (the state Error, written after the rollback) |
| `create_credential` | `CredentialCheck`, `AccessRefused`, `MarkNonce`, `NonceRefused`, `AttestationRefused` |
| `issue_tx` | `IssueLock`, `IssueRead`, `RefreshRefused`, `IssueFails`, `IssueCommit` |
| `handle_notification` | `NotifyCheck`, `AccessRefused`, `NotifyIdRefused`, `NotifyRead`, `NotifyUpdate`, `NotifyRevoke` |
| `change_credential_validity_state` and the suspension task | `ValidityRead`, `ValidityMark`, `ValidityRefused`, `ValidityUpdate` |
| interaction expiration task | `ExpireOffer` |
| errors, dropped connections, crashes | `Abort` |

Tokens and notification ids are named after the request that creates them. The
status list is abstracted to the statuses of the credential's own entries, and
marking them is one step; how the list is stored and published is `StatusList`.
The clock has three phases, since `expires_at` is computed just before
`created_date`: the task can close an offer a moment before the code's own time
is over. A behaviour begins with a shared offer (`Shared`) or with an mdoc issued
before the migration that added `nonce_id` (`Migrated`); without the latter no
second issuance could be reached, see the note on renewal below.

`IssuanceContract.tla` is what a wallet may rely on: the code is worth one token,
each further token replaces the one in use, a replaced one never comes back, and
credentials are handed out only after a grant.

| run | instance | shows |
|---|---|---|
| `lifecycle_mdoc` | three token requests, two credential requests, two nonces, one operator, MSO revocation | tokens rotate without loss or reuse, a nonce issues once, the contract is implemented |
| `lifecycle_code` | transaction code and status list; two token requests, one credential request, one notification, one operator | state, status list and deliveries agree; a closed offer stays closed; every request that has begun is answered |
| `wrong_code_retry` | two token requests | a finding, below |

Three token requests are a redemption and two racing refreshes; two credential
requests are a race for the lock and a renewal. The instances differ because the
schema's parameters (transaction code, mdoc, revocation method) are constants.

Fairness (`Proceed`): a request that has begun goes on. Requests need not arrive,
and neither the tasks nor the clock are assumed to run. Weak fairness is enough
for the row lock, because each request takes it at most once.

## Token status list

`StatusList.tla` models one issuer's list: how an entity gets an index, how its
status is changed, and how the signed list that verifiers fetch is computed.

| code | actions |
|---|---|
| `create_entry`, creation of the list | `FindList`, `StartList`, `ListExists` |
| `add_entity_to_list`, `next_free_index` | `ScanLast`, `LockLast`, `InsertEntry`, `IndexTaken`, `CommitEntry`, `AbandonEntry` |
| `mark_credential_as` (three statements that stand alone) | `MarkUpdate`, `MarkCompute`, `MarkPublish`, `MarkFails` |
| `revoke_signature`, `update_attestation_entries` (one transaction) | `RevokeUpdate`, `RevokeCompute`, `RevokeCommit`, `RevokeFails` |
| `generate_token`, `extract_state_from_token` | `GenerateToken`, `ExtractState`, on sets of bit positions |

An allocation is *nested* when it runs inside the transaction of an issuance; it
then keeps its row locks until that ends. `AbandonEntry` stands for every
database error, a detected deadlock included. A revoker locks all its rows in one
step. `Earlier` is the number of entries a list begins with, so that its growth
past the minimum size is within reach of TLC.

`StatusListContract.tla` is what issued credentials rely on: a sequence of owners
that only grows at its end.

| run | instance | shows |
|---|---|---|
| `status_list_operator` | new list, three allocations (two nested), one operator, minimum of four entries | an index handed out is one's own, the list appends only, the published list is current |
| `status_list_revoker` | three earlier entries, two allocations, one revoker | growth past the minimum; retries are paid for; every allocation ends |
| `status_list_lost_change` | two revokers | a finding, below |

Three allocations are needed for a creation race whose loser then retries. The
code's limits are 131072 entries and 100 retries (`MinimumInputSize`,
`MaxRetries`); the instances use 4 and 2, the proofs leave both open.

Fairness: each allocation is strongly fair, because the database grants a lock in
the order of the requests and others may take the row in between. Revokers are
weakly fair. Nothing is assumed of operators.

What a reader should know of the encoding:

- Beyond the minimum size the bit vector has two bits per entry, but the entries
  of a byte fill it from its least significant bits. Unless the last byte is
  full, the bits of its entries lie outside the vector, and `BitVec::set` panics
  for one that is not active; the entry itself has been updated by then in
  `mark_credential_as`. `Fits` models this, and `TokenHasRoom` says when it
  cannot happen.
- A new entry beyond the size of the published list reads as out of bounds until
  the next status change. `PublishedIsCurrent` allows for that.
- `PublishedIsCurrent` is about one operator or one revoker (`SoleManager`); with
  two revokers it does not hold, which is the finding below. The same is true of
  two calls of `mark_credential_as`.
- `generate_token` has no check of its own; the panic of `BitVec::set` is the
  guard `Fits` at each of its calls, and `GenerateToken` is used under it.
- Lists begin without gaps. One that the migration `m20251030_110836` filled may
  have gaps between its indexes, where credentials had no status list; an index
  nobody owns would be read as Active. Such a list is left out.
- Two creations of a list are kept apart by a unique index. What the loser reads
  afterwards depends on the isolation level; the model reads committed rows.

## Proof requests

`ProofLifecycle.tla` is the verifier's side of one proof request, exchanged over
HTTP or over MQTT (`transport`).

| code | actions |
|---|---|
| `create_proof` | `Create` |
| `share_proof` | `ShareLoad`, `ShareStart` (adds the interaction; over MQTT starts a flow and aborts the earlier one), `ShareUpdate`, `ShareClear` (deletes the interaction loaded first) |
| MQTT `verifier_flow` | `FlowRequest`, `FlowReject`, `FlowFail`, `FlowSubmit` |
| `direct_post`, `verify_submission` | `DirectPost`, `SubStore` (the blob), `SubValidate`, `SubMarkFailed` |
| `persist_accepted_proof` (one transaction, locks the row) | `SubAccept` |
| `update_expired_proofs` | `Expire` |
| `delete_proof` | `DelLoad`, `DelRetract`, `DelRow`, `DelInteraction`, `DelMark`, `DelBlob` |
| `delete_proof_claims` | `CleanLoad`, `CleanUnlink`, `CleanRecord`, `CleanClaims`, `CleanBlob`, `CleanFail` |
| retention task | `RetainHistory`, `RetainList`, `RetainLoad`, then the same deletions; `Age` |

A submission is also the name of its blob and of the credentials made from it, a
share call the name of its interaction. Whether a presentation is valid is open.
The abort of an MQTT flow takes effect at once, and the claims and credential
blobs of one deletion go in one step.

| run | instance | shows |
|---|---|---|
| `proof_lifecycle` | two shares, two submissions, a deletion, an API call and the retention task, one failure | a share lets one submission succeed; no share call fails at the deletion of the interaction it replaced; claim data is never out of reach but in two named ways |
| `claim_data_gone` | one share, two submissions, one API call | a finding, below |

Two shares and two submissions are what a stale share needs to reopen a decided
proof. There is no liveness property: callers may stop, and no retry follows.

What a reader should know of it:

- The proof's row refers to its interaction by a foreign key, so a statement that
  would delete an interaction in use fails (`Held`). `PredecessorReleased` says
  that the deletion at the end of a share never meets this.
- A share call, or a flow, that read the proof before it was decided sets it
  Pending or Requested again, so "decided once" is not a property of this code;
  one success per share is.
- A retraction that read an open proof may overwrite Accepted.
- A deletion of claims unlinks by the proof. Claims accepted between its read and
  its unlinking lose their link, and are not deleted (`raced`).
- `delete_proof_claims` on an open proof leaves a ClaimsRemoved entry, and the
  retention task skips a proof that has one.

## Bluetooth interface

`BleWaiter.tla` models the arbiter that gives the Bluetooth interface to one
exchange at a time, and the four roles that use it, each one to three scheduled
steps, with the retraction of the proof at any time.

| code | actions |
|---|---|
| `schedule`, `schedule_continuation`, `abort` | `Request`, `Schedule`, `Continue`, `Retract`, `Join`, `Cancel`, `CloseCentral`, `ClosePeripheral` |
| the spawned task | `Serve`, `Connect`, `Track`, `Engage`, `Offer`, `Succeed`, `Fail`, `CleanUp`, `Close`, `Drop` |
| a native call that an aborted task left in flight | `LateStop`, and `Serve`, `Connect` once more |

| run | instance | shows |
|---|---|---|
| `ble_waiter` | an mDL wallet, an mDL reader and an OpenID4VP verifier | one owner, steps in order, a server torn down only by its session; calls return and waiting callers are answered |
| `ble_exclusive` | the same | a finding, below |

An aborted task is dropped at its next await; the native call it waits for goes on
(`late`). A `start_server` or `stop_server` that lands so after the abort may
bring up or take down the server of the next session. `ServerKept` names this
case and the session's own steps, `clean_up` of the verifier's flow included, as
the only ways a server goes down.

`Retractable` are the sessions whose proof may be retracted in the instance, one
of each flow; the proofs leave it open. The OpenID4VP wallet is left out of the
instance: it connects as the mDL reader
does and takes as many steps as the mDL wallet. Fairness: tokio's mutex is fair
and its holder goes on; aborted tasks are dropped, finished ones close. Nothing is
assumed of users and of remote devices.

## Wallet units

`WalletUnit.tla` composes a wallet with its wallet provider, both instances of
one-core, that exchange HTTP requests which may be lost on the way there or back.

| code | actions |
|---|---|
| `holder_register`, `register_wallet_unit` | `RegisterCheck`, `RegisterAtProvider`, `RegisterFail`, `RegisterStore` |
| `activate_wallet_unit` | `AttestationKey`, `ActivateLoad`, `ActivateCommit`, `ActivateError`, `ActivateRefused`; the same request delivered a second time: `AgainLoad`, `AgainEnd` |
| `issue_wallet_attestations` (wallet), `issue_attestation` (provider) | `IssueAsk`, `IssueLoad`, `IssueCommit`, `IssueFail` |
| `revoke_wallet_unit` | `RevokeLoad`, `RevokeMark`, `RevokeEntries`, `RevokeFail` |
| `delete_wallet_unit` | `DeleteLoad`, `DeleteUnit` |
| `holder_wallet_unit_status`, `check_wallet_unit_status` | `CheckAsk`, `CheckStore` |

| run | instance | shows |
|---|---|---|
| `wallet_unit` | two registrations, two issuances for one key, two revocations, a deletion, the status check, one failure or repeated request | both records agree, attestations stay revocable, a revocation misses only the issuances that cross it, and is undone only by an overlapping activation |

Two issuances for one key race to create and to reuse its row; two revocations
differ in which issuances they cross. One failure is enough for each error path,
and a repeated activation counts as one. `MaxFailures` is open in the proofs.

What a reader should know of it:

- `activate_wallet_unit` writes its outcome without looking at the status again.
  When the request is delivered twice and both deliveries read Pending, the later
  write may turn an Active unit into Error, or a Revoked one back into Active.
  `overwritten` names the units this happened to; `RevokedIsFinal` says that it is
  the only way back, and the other properties except these units.
- A request for a new key may name it twice. The repetition is taken for a reused
  key without revocation, and its attestation names no status list entry
  (`bare`). one-core's own wallet never asks so.
- A registration that fails after its insert leaves the holder wallet unit, so a
  failed call may be the one that is stored; a successful one always is.
- The provider is taken to be configured with a revocation method; without one no
  attestation names an entry. A nonce that timed out and an attestation that does
  not verify have one outcome, "invalid".
- A status check reads the wallet's record and asks the provider in one step:
  nothing else writes the record meanwhile.

A revocation does not stop an issuance that
has checked the unit's status already; the attestation it hands out is not
revoked, although `wallet_provider/controller.rs:92` says that all are. `crossed`
names these.

## Findings

Four runs show that the code does not do what a comment or a doc of it says.
`PROJECT.json` quotes the lines.

- `wrong_code_retry`: after a wrong transaction code, a token request that read
  the pending credential earlier is still granted a token.
- `status_list_lost_change`: of two overlapping revocations, the last to commit
  publishes a list without the other.
- `claim_data_gone`: `delete_proof_claims` answers although the presentation of a
  submission that lost the race is still stored.
- `ble_exclusive`: retracting a proof of one protocol lets go of the other's
  running task without aborting it; the next exchange starts beside it.

Also visible in the models, and without a run of their own:

- The state Error of a failed issuance is rolled back with the transaction that
  wrote it.
- A notification of rejection that failed between its two writes is confirmed
  when it is repeated, although nothing was revoked.
- The nonce of an mdoc's first issuance stays with the interaction, so a renewal
  is refused.
- A suspension that read Accepted may overwrite a revocation.

## Proofs

The theorems hold for every value of the constants that satisfies the
assumptions named in the modules. Each component has one inductive invariant,
`IInv`, with the type invariant as its first conjunct; TLC checks it on a run, and
the theorems follow from it.

| modules | theorems |
|---|---|
| `WebhookDeliveryProofs` | `TypeCorrect`, `Invariance`, `AnnouncedAfterCommit`, `NeitherLostNorDoubled`, `ChangeAndRowTogether`, `BoundedAttempts`, `HistoryIsTrue`, `FinalIsFinal`, `AttemptsCounted`, `ContractSafety` |
| `LifecycleStepProofs`, `CredentialLifecycleProofs` | `TypeCorrect`, `Invariance`, `CodeRedeemedOnce`, `RefreshedOnce`, `NonceSpentOnce`, `EntriesMatchDeliveries`, `AcceptedDelivered`, `AccessTokenMonotone`, `ClosedOfferStaysClosed`, `ContractHolds` |
| `StatusListStepProofs`, `StatusListProofs` | `CodecRoundTrip`, `TypeCorrect`, `StatusListInvariance`, `IndexIsOwn`, `RoomUpToMinimum`, `StatusesReadBack`, `PublishedCurrent`, `RetriesBounded`, `AllocationAppends` |
| `ProofLifecycleProofs` | `TypeCorrect`, `Invariant`, `OneSuccessPerShare`, `NeverRefused`, `ClaimsStored`, `NothingStranded` |
| `BleWaiterProofs` | `TypeCorrect`, `Invariant`, `SingleOwner`, `OrderedSteps`, `ServerUndisturbed` |
| `WalletUnitProofs` | `TypeCorrect`, `Invariant`, `Revocable`, `RevocationCovers`, `HolderRecord`, `SingleRegistration`, `RevocationFinal` |

The `StepProofs` modules hold the lemmas on single actions and operators that the
invariant proofs cite.

**Webhook delivery.** That a committed notification has its row or one final
entry is not inductive: two senders could settle it. `IInv` adds that at most one
sender holds a row (`OneHolder`), that the holder read the current count
(`SenderInv`), that row, change and history follow the caller's progress
(`ProgressInv`), and that requests are the counted, the lost and the one under
way (`AccountInv`). Assumed: `ConstantsAssumption` (a positive `MaxAttempts`,
disjoint sets) and `DelayAssumption` (delays are natural numbers).

**Issuance.** That a refresh token is exchanged once needs that the holder of the
interaction row works on its current data (`LockInv`): otherwise its commit would
restore replaced tokens. `TokenInv` ties the data to the requests that were
granted, `IssueInv` the nonce, the deliveries and the entries to the requests
past their nonce, `StateInv` the state to both. Assumed: `KindsAssumption`,
`SchemaAssumption`, `NoneAssumption`: names are distinct, and credential requests
finitely many.

**Status list.** The index an allocation scanned may be stale when its lock is
granted. `AllocationInv` says that it is never beyond the next free one, so the
insert that the unique index admits is the next one, and that only one
uncommitted entry exists; `ListInv` says that indexes have no gaps; `RetryInv`
counts, for each retry, an entry of another allocation below the index tried
next. The codec theorem rests on the arithmetic of bit positions, for lists of
any length. `PublishInv` is what makes `PublishedIsCurrent` inductive for a sole
operator or revoker: what a call has computed and not yet published, or has
published, has the bits of the entries as they are, however many allocations
append entries meanwhile. Those appended are Active, so they add no bit. Assumed:
`AllocationAssumption`, and `SizeAssumption` (the minimum is a multiple of the
four entries of a byte).

**Proof requests.** `InteractionInv` says that calls remember only interactions
whose share went through, and that a call about to delete its predecessor knows
that the proof has left it. `ClaimsInv` says that a deletion about to unlink has
read every linked claim but those accepted since. `ReuseInv` is an account: the
successes so far, and one more while the latest share can still be used
(`Usable`), are at most the shares that went through. Over HTTP a share is usable
while the proof is open; over MQTT while its flow has no submission that ended,
which needs that only the flow's own submission is at work. Assumed:
`NamesAssumption`, `FailuresAssumption`, and `FiniteAssumption` (finitely many
calls, so that they can be counted).

**Wallet units.** `RegistrationInv` ties the provider's status of a unit to the
progress of its registration, `HolderInv` the wallet's record to both, `RowInv`
attested keys to the issuances that made or reuse them, and `RevocationInv` says
what a revocation will cover once it has read the keys and marked the unit.
A unit that was marked stays Revoked, gone or `overwritten` (`RevokedKept`), which
is what lets the other parts speak of overlapping activations in one word.
Assumed: `WalletAssumption`.

**Bluetooth interface.** That one known task is at work is not inductive: the
teardown of a replaced task and the joining of a predecessor take several steps
under the mutex. `IInv` adds that a call in the middle of these holds the mutex and
has taken the registered action out, that a task at work is registered or being
joined unless it was dropped, and that a task runs only once its call is over.
`dropped` names the tasks `abort_inner` lets go of, which is the finding above.
Assumed: `KindsAssumption`, `NoneAssumption`, `RetractableAssumption`.

Every invariant and every action property that a passing run checks is proved.
Only model-checked are the liveness properties (`EventuallySettled`,
`EveryRequestAnswered`, `AllocationEnds`, `AbortIsAnswered`, `CallsReturn`) and the
fairness of the delivery contract: liveness under fairness is beyond the prover.

Many leaves of the proofs name the prover to use (`Zenon`, `SMTT`), which keeps a
run over a whole module short.

## Not modelled

Inside the parts above: authorization and session checks, history entries that
nothing reads, the wording of errors, the validation of keys and signatures
(either verdict is possible), the snapshot reads of a transaction that asks for
no isolation level (`wallet_provider/service.rs`), the creation, sharing and
deletion of credentials, and the choice between BLE and MQTT when both are
offered.

The next candidates, each with its runs, mutants and an inductive invariant: the
certificate check task that stops half way, `share_credential` and deletion in
`CredentialLifecycle`, the bitstring list with its two purposes, and the
composition of `CredentialLifecycle` with `StatusList`.
