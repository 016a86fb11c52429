----------------------------- MODULE StatusList -----------------------------
(***************************************************************************)
(* The token status list of one issuer: how credentials, attested keys and *)
(* signatures get an index on it, how their status is changed, and how the *)
(* signed list that verifiers fetch is computed and replaced.              *)
(*                                                                         *)
(* An allocation is a call of create_entry.  It creates the list when      *)
(* there is none, or takes the next free index and tries again when the    *)
(* index was taken meanwhile.  A nested one runs inside the transaction    *)
(* of an issuance and keeps its row locks until that ends.                 *)
(*                                                                         *)
(* An operator calls mark_credential_as, whose three statements stand      *)
(* alone; a revoker calls revoke_signature or update_attestation_entries,  *)
(* which do the same in one transaction.                                   *)
(*                                                                         *)
(* A list may have entries already, as many as Earlier says, so that its   *)
(* growth past MINIMUM_INPUT_SIZE is within reach.  They have no gaps: a   *)
(* list filled by migration m20251030_110836 may have, and is left out.    *)
(***************************************************************************)
EXTENDS Integers, Sequences, FiniteSets, FiniteSetsExt

CONSTANTS
    Allocations,       \* calls of create_entry
    Nested,            \* those made inside another transaction
    Operators,         \* callers of mark_credential_as, one call at a time
    Revokers,          \* callers of revoke_signature, update_attestation_entries
    Entities,          \* credentials, attested keys, signatures
    None,              \* no index, no entity, no allocation
    Earlier,           \* number of entries the list begins with
    MinimumInputSize,  \* entries for which a token always has room
    MaxRetries         \* retries of add_entity_to_list

ASSUME AllocationAssumption ==
    /\ IsFiniteSet(Allocations) /\ Nested \subseteq Allocations
    /\ None \notin Allocations /\ None \notin Entities /\ None \notin Int
    /\ Allocations \cap (Operators \cup Revokers) = {}
    /\ Operators \cap Revokers = {}

ASSUME SizeAssumption ==
    /\ Earlier \in Nat /\ MaxRetries \in Nat
    /\ MinimumInputSize \in Nat /\ MinimumInputSize % 4 = 0

VARIABLES
    creator,    \* the allocation that inserted the list's row, if one did
    listed,     \* is the list's row committed?
    entries,    \* committed entries: index -> owner, by which allocation, status
    published,  \* the formatted list: its size in bits, and the bits that are 1
    pc,         \* progress of each caller
    entity,     \* the entity an allocation is for
    index,      \* the index an allocation has found
    locks,      \* the entries an allocation has locked
    retries,    \* retry_counter
    target,     \* the entries a revoker has updated and not committed
    snapshot    \* the list a caller has computed and not yet stored

listVars == <<creator, listed, entries, published>>
allocationVars == <<entity, index, locks, retries>>
markVars == <<target, snapshot>>
vars == <<listVars, pc, allocationVars, markVars>>

Callers == Allocations \cup Operators \cup Revokers
Statuses == {"Active", "Suspended", "Revoked"}

-----------------------------------------------------------------------------
(* The encoding: PREFERRED_ENTRY_SIZE bits per entry, the entries of a byte  *)
(* from its least significant bits on.                                     *)

Bits == 2

(* get_most_significant_bit_index *)
MostSignificantBit(i) ==
    LET wordsInByte == 8 \div Bits
        wordSize == 8 \div wordsInByte
        byte == (i * wordSize) \div 8
    IN  8 * byte + 8 - (i - byte * wordsInByte) * wordSize - wordSize

RevocationBit(i) == MostSignificantBit(i) + Bits - 1
SuspensionBit(i) == MostSignificantBit(i) + Bits - 2

(* calculate_preferred_token_size *)
TokenSize(n) == IF n > MinimumInputSize THEN n * Bits ELSE MinimumInputSize * Bits

(* BitVec::set does not panic: the bit of each entry that has one is there. *)
Fits(status) ==
    \A i \in DOMAIN status :
       /\ status[i] = "Revoked" => RevocationBit(i) < TokenSize(Cardinality(DOMAIN status))
       /\ status[i] = "Suspended" => SuspensionBit(i) < TokenSize(Cardinality(DOMAIN status))

(* BitVec::to_bytes: the last byte is filled up. *)
ToBytes(size) == 8 * ((size + 7) \div 8)

(* generate_token_from_entries, generate_token *)
GenerateToken(status) ==
    [size |-> ToBytes(TokenSize(Cardinality(DOMAIN status))),
     ones |-> {RevocationBit(i) : i \in {j \in DOMAIN status : status[j] = "Revoked"}}
              \cup {SuspensionBit(i) : i \in {j \in DOMAIN status : status[j] = "Suspended"}}]

(* extract_state_from_token *)
ExtractState(token, i) ==
    CASE RevocationBit(i) >= token.size -> "IndexOutOfBounds"
      [] RevocationBit(i) < token.size /\ RevocationBit(i) \in token.ones -> "Revoked"
      [] RevocationBit(i) < token.size /\ RevocationBit(i) \notin token.ones
           /\ SuspensionBit(i) \in token.ones -> "Suspended"
      [] OTHER -> "Active"

-----------------------------------------------------------------------------
Goto(r, p) == pc' = [pc EXCEPT ![r] = p]

StatusOf(es) == [i \in DOMAIN es |-> es[i].status]

(* The entries of an entity. *)
EntriesOf(e) == {i \in DOMAIN entries : entries[i].owner = e}

(* Entries with status s for those in set I. *)
Marked(I, s) == [i \in DOMAIN entries |->
                   IF i \in I THEN [entries[i] EXCEPT !.status = s] ELSE entries[i]]

(* Allocations whose entry is inserted and not committed. *)
Inserted == {a \in Allocations : pc[a] = "inserted"}

(* No transaction but that of r holds a lock on the entries in I. *)
Unlocked(r, I) ==
    /\ \A a \in Allocations \ {r} : locks[a] \cap I = {}
    /\ \A v \in Revokers \ {r} : target[v] \cap I = {}

-----------------------------------------------------------------------------
(* create_entry *)

(* get_revocation_by_issuer_identifier_id: is there a list? *)
FindList(a) ==
    /\ pc[a] = "idle"
    /\ \E e \in Entities : entity' = [entity EXCEPT ![a] = e]
    /\ Goto(a, IF listed THEN "adding" ELSE "starting")
    /\ UNCHANGED <<listVars, index, locks, retries, markVars>>

(* start_new_list_for_entity: the unique index of the lists makes the        *)
(* insert wait for another that is not committed.                          *)
StartList(a) ==
    /\ pc[a] = "starting"
    /\ ~listed /\ creator = None
    /\ creator' = a
    /\ index' = [index EXCEPT ![a] = 0]
    /\ Goto(a, "inserted")
    /\ UNCHANGED <<listed, entries, published, entity, locks, retries, markVars>>

(* BR_0357, a list was created in parallel: its id is fetched instead. *)
ListExists(a) ==
    /\ pc[a] = "starting"
    /\ listed
    /\ Goto(a, "adding")
    /\ UNCHANGED <<listVars, allocationVars, markVars>>

(* Mutant of NextFreeIndex: one index is left out. *)
NextFreeIndexSkips ==
    IF DOMAIN entries = {} THEN 0 ELSE Max(DOMAIN entries) + 2

NextFreeIndex == IF DOMAIN entries = {} THEN 0 ELSE Max(DOMAIN entries) + 1

(* next_free_index, the scan from the end of the list: it waits on an entry  *)
(* that is not committed.                                                  *)
ScanLast(a) ==
    /\ pc[a] = "adding"
    /\ Inserted = {}
    /\ index' = [index EXCEPT ![a] = NextFreeIndex]
    /\ Goto(a, "locking")
    /\ UNCHANGED <<listVars, entity, locks, retries, markVars>>

(* next_free_index, FOR UPDATE: the last entry of the scan is locked, which  *)
(* need not be the last one any more.                                      *)
LockLast(a) ==
    /\ pc[a] = "locking"
    /\ Unlocked(a, {index[a] - 1})
    /\ locks' = [locks EXCEPT ![a] = @ \cup ({index[a] - 1} \cap DOMAIN entries)]
    /\ Goto(a, "inserting")
    /\ UNCHANGED <<listVars, entity, index, retries, markVars>>

(* Mutant of InsertEntry: an index that is taken is accepted. *)
InsertEntryTaken(a) ==
    /\ pc[a] = "inserting"
    /\ \A b \in Inserted : index[b] # index[a]
    /\ Goto(a, "inserted")
    /\ UNCHANGED <<listVars, allocationVars, markVars>>

(* add_entity_to_list, create_entry: the unique index of the entries makes   *)
(* the insert wait for another with the same index.                        *)
InsertEntry(a) ==
    /\ pc[a] = "inserting"
    /\ index[a] \notin DOMAIN entries
    /\ \A b \in Inserted : index[b] # index[a]
    /\ Goto(a, "inserted")
    /\ UNCHANGED <<listVars, allocationVars, markVars>>

(* Mutant of IndexTaken: it counts double. *)
IndexTakenTwice(a) ==
    /\ pc[a] = "inserting"
    /\ index[a] \in DOMAIN entries
    /\ retries' = [retries EXCEPT ![a] = @ + 2]
    /\ Goto(a, "adding")
    /\ locks' = IF a \in Nested THEN locks ELSE [locks EXCEPT ![a] = {}]
    /\ UNCHANGED <<listVars, entity, index, markVars>>

(* add_entity_to_list, AlreadyExists: try again, not too often. *)
IndexTaken(a) ==
    /\ pc[a] = "inserting"
    /\ index[a] \in DOMAIN entries
    /\ IF retries[a] > MaxRetries
       THEN Goto(a, "failed") /\ UNCHANGED retries
       ELSE Goto(a, "adding") /\ retries' = [retries EXCEPT ![a] = @ + 1]
    /\ locks' = IF a \in Nested /\ retries[a] <= MaxRetries THEN locks
                  ELSE [locks EXCEPT ![a] = {}]
    /\ UNCHANGED <<listVars, entity, index, markVars>>

(* The transaction commits: the list's own, or that of the issuance.  A new  *)
(* list is stored as it was formatted, for no entries.                     *)
CommitEntry(a) ==
    /\ pc[a] = "inserted"
    /\ entries' = [i \in DOMAIN entries \cup {index[a]} |->
                     IF i = index[a] THEN [owner |-> entity[a], by |-> a, status |-> "Active"]
                     ELSE entries[i]]
    /\ IF creator = a
       THEN listed' = TRUE /\ published' = GenerateToken(<<>>)
       ELSE UNCHANGED <<listed, published>>
    /\ locks' = [locks EXCEPT ![a] = {}]
    /\ Goto(a, "done")
    /\ UNCHANGED <<creator, entity, index, retries, markVars>>

(* Mutant of AbandonEntry: the locked entry stays locked. *)
AbandonEntryLocked(a) ==
    /\ pc[a] \in {"starting", "adding", "locking", "inserting", "inserted"}
    /\ creator' = IF creator = a THEN None ELSE creator
    /\ Goto(a, "failed")
    /\ UNCHANGED <<listed, entries, published, allocationVars, markVars>>

(* Signing or the database fails, or the issuance does: everything the       *)
(* allocation wrote is rolled back.                                        *)
AbandonEntry(a) ==
    /\ pc[a] \in {"starting", "adding", "locking", "inserting", "inserted"}
    /\ creator' = IF creator = a THEN None ELSE creator
    /\ locks' = [locks EXCEPT ![a] = {}]
    /\ Goto(a, "failed")
    /\ UNCHANGED <<listed, entries, published, entity, index, retries, markVars>>

-----------------------------------------------------------------------------
(* mark_credential_as: each statement by itself *)

(* Mutant of MarkUpdate: the list is computed before the update. *)
MarkUpdateLate(o) ==
    /\ pc[o] \in {"idle", "failed"}
    /\ \E e \in {entries[i].owner : i \in DOMAIN entries}, s \in Statuses :
          /\ Unlocked(o, EntriesOf(e))
          /\ entries' = Marked(EntriesOf(e), s)
    /\ snapshot' = [snapshot EXCEPT ![o] = GenerateToken(StatusOf(entries))]
    /\ Goto(o, "computed")
    /\ UNCHANGED <<creator, listed, published, allocationVars, target>>

(* update_entry, by credential id *)
MarkUpdate(o) ==
    /\ pc[o] \in {"idle", "failed"}
    /\ \E e \in {entries[i].owner : i \in DOMAIN entries}, s \in Statuses :
          /\ Unlocked(o, EntriesOf(e))
          /\ entries' = Marked(EntriesOf(e), s)
    /\ Goto(o, "updated")
    /\ UNCHANGED <<creator, listed, published, allocationVars, markVars>>

(* get_entries, and the list generated and signed from them, or a panic *)
MarkCompute(o) ==
    /\ pc[o] = "updated"
    /\ IF Fits(StatusOf(entries))
       THEN /\ snapshot' = [snapshot EXCEPT ![o] = GenerateToken(StatusOf(entries))]
            /\ Goto(o, "computed")
       ELSE Goto(o, "failed") /\ UNCHANGED snapshot
    /\ UNCHANGED <<listVars, allocationVars, target>>

(* update_formatted_list *)
MarkPublish(o) ==
    /\ pc[o] = "computed"
    /\ published' = snapshot[o]
    /\ snapshot' = [snapshot EXCEPT ![o] = GenerateToken(<<>>)]
    /\ Goto(o, "idle")
    /\ UNCHANGED <<creator, listed, entries, allocationVars, target>>

(* Signing or the database fails; what was written stays. *)
MarkFails(o) ==
    /\ pc[o] \in {"updated", "computed"}
    /\ snapshot' = [snapshot EXCEPT ![o] = GenerateToken(<<>>)]
    /\ Goto(o, "failed")
    /\ UNCHANGED <<listVars, allocationVars, target>>

-----------------------------------------------------------------------------
(* revoke_signature and update_attestation_entries: one transaction *)

(* The transaction of v is over. *)
EndRevoke(v) ==
    /\ target' = [target EXCEPT ![v] = {}]
    /\ snapshot' = [snapshot EXCEPT ![v] = GenerateToken(<<>>)]
    /\ Goto(v, "idle")

(* update_entry, by id or by index; nobody else sees it yet. *)
RevokeUpdate(v) ==
    /\ pc[v] = "idle"
    /\ \E I \in SUBSET DOMAIN entries \ {{}} :
          /\ Unlocked(v, I)
          /\ target' = [target EXCEPT ![v] = I]
    /\ Goto(v, "updated")
    /\ UNCHANGED <<listVars, allocationVars, snapshot>>

(* Mutant of RevokeCompute: the entries are read outside the transaction. *)
RevokeComputeOutside(v) ==
    /\ pc[v] = "updated"
    /\ snapshot' = [snapshot EXCEPT ![v] = GenerateToken(StatusOf(entries))]
    /\ Goto(v, "computed")
    /\ UNCHANGED <<listVars, allocationVars, target>>

(* get_entries, which shows the committed entries and the own update; a      *)
(* panic ends the transaction.                                             *)
RevokeCompute(v) ==
    /\ pc[v] = "updated"
    /\ LET status == StatusOf(Marked(target[v], "Revoked"))
       IN  IF Fits(status)
           THEN /\ snapshot' = [snapshot EXCEPT ![v] = GenerateToken(status)]
                /\ Goto(v, "computed")
                /\ UNCHANGED target
           ELSE EndRevoke(v)
    /\ UNCHANGED <<listVars, allocationVars>>

(* update_formatted_list, and the commit *)
RevokeCommit(v) ==
    /\ pc[v] = "computed"
    /\ entries' = Marked(target[v], "Revoked")
    /\ published' = snapshot[v]
    /\ EndRevoke(v)
    /\ UNCHANGED <<creator, listed, allocationVars>>

RevokeFails(v) ==
    /\ pc[v] \in {"updated", "computed"}
    /\ EndRevoke(v)
    /\ UNCHANGED <<listVars, allocationVars>>

-----------------------------------------------------------------------------
Init ==
    /\ creator = None
    /\ listed = (Earlier > 0)
    /\ \E owner \in [0 .. Earlier - 1 -> Entities] :
          entries = [i \in 0 .. Earlier - 1 |->
                       [owner |-> owner[i], by |-> None, status |-> "Active"]]
    /\ published = GenerateToken(<<>>)
    /\ pc = [r \in Callers |-> "idle"]
    /\ entity = [a \in Allocations |-> None]
    /\ index = [a \in Allocations |-> None]
    /\ locks = [a \in Allocations |-> {}]
    /\ retries = [a \in Allocations |-> 0]
    /\ target = [v \in Revokers |-> {}]
    /\ snapshot = [r \in Operators \cup Revokers |-> GenerateToken(<<>>)]

(* What an allocation that was called does by itself. *)
Proceed(a) == StartList(a) \/ ListExists(a) \/ ScanLast(a) \/ LockLast(a)
                \/ InsertEntry(a) \/ IndexTaken(a) \/ CommitEntry(a)

Allocate(a) == FindList(a) \/ Proceed(a) \/ AbandonEntry(a)

Mark(o) == MarkUpdate(o) \/ MarkCompute(o) \/ MarkPublish(o) \/ MarkFails(o)

Revoke(v) == RevokeUpdate(v) \/ RevokeCompute(v) \/ RevokeCommit(v) \/ RevokeFails(v)

Next ==
    \/ \E a \in Allocations : Allocate(a)
    \/ \E o \in Operators : Mark(o)
    \/ \E v \in Revokers : Revoke(v)

Spec == Init /\ [][Next]_vars

(* A call that was made is polled to its end, and the database grants a     *)
(* lock in the order in which it was asked for.                            *)
FairSpec ==
    /\ Spec
    /\ \A a \in Allocations : SF_vars(Proceed(a))
    /\ \A v \in Revokers : WF_vars(RevokeCompute(v) \/ RevokeCommit(v))

-----------------------------------------------------------------------------
TypeOK ==
    /\ creator \in Allocations \cup {None}
    /\ listed \in BOOLEAN
    /\ DOMAIN entries \subseteq Nat
    /\ \A i \in DOMAIN entries :
          entries[i] \in [owner : Entities, by : Allocations \cup {None}, status : Statuses]
    /\ published \in [size : Nat, ones : SUBSET Nat]
    /\ pc \in [Callers -> {"idle", "starting", "adding", "locking", "inserting", "inserted",
                           "updated", "computed", "done", "failed"}]
    /\ entity \in [Allocations -> Entities \cup {None}]
    /\ index \in [Allocations -> Nat \cup {None}]
    /\ locks \in [Allocations -> SUBSET DOMAIN entries]
    /\ retries \in [Allocations -> Nat]
    /\ target \in [Revokers -> SUBSET DOMAIN entries]
    /\ snapshot \in [Operators \cup Revokers -> [size : Nat, ones : SUBSET Nat]]

(* The index written into a credential is that of its own entry, whether    *)
(* its allocation created the list, lost that race or had to try again     *)
(* (create_entry, add_entity_to_list).                                     *)
OwnIndex ==
    \A a \in Allocations : pc[a] = "done"
       => /\ index[a] \in DOMAIN entries
          /\ entries[index[a]].by = a /\ entries[index[a]].owner = entity[a]

(* As long as the list has no more than MINIMUM_INPUT_SIZE entries, or       *)
(* they fill its last byte, its token has room for each of them and        *)
(* BitVec::set never panics (generate_token).                              *)
TokenHasRoom ==
    LET n == Cardinality(DOMAIN entries)
    IN  n <= MinimumInputSize \/ n % 4 = 0
          => \A i \in DOMAIN entries : RevocationBit(i) < TokenSize(n)

(* A verifier reads from a freshly computed token the status of each entry   *)
(* (generate_token against extract_state_from_token).                      *)
RoundTrip ==
    Fits(StatusOf(entries))
      => \A i \in DOMAIN entries :
            ExtractState(GenerateToken(StatusOf(entries)), i) = entries[i].status

(* Each retry is paid for by an entry that another allocation committed      *)
(* meanwhile, so that no more than MaxRetries concurrent allocations never *)
(* give up (add_entity_to_list).                                           *)
RetriesPaidFor ==
    \A a \in Allocations :
       retries[a] <= Cardinality({i \in DOMAIN entries : entries[i].by \in Allocations \ {a}})

(* There is no more than one caller that changes statuses. *)
SoleManager == \A r, s \in Operators \cup Revokers : r = s

(* When all changes are done and the last one did not fail, the published    *)
(* list tells every status it has room for, whatever allocations do at the *)
(* same time (mark_credential_as, revoke_signature).  Only a sole caller   *)
(* sees to that.                                                           *)
PublishedIsCurrent ==
    SoleManager /\ (\A r \in Operators \cup Revokers : pc[r] = "idle")
      => \A i \in DOMAIN entries :
            ExtractState(published, i) \in {entries[i].status, "IndexOutOfBounds"}

(* Every allocation ends, with an index or with an error. *)
AllocationEnds ==
    \A a \in Allocations : pc[a] # "idle" ~> pc[a] \in {"done", "failed"}

(* The owners in the order of their indexes. *)
Owners == [n \in 1 .. Cardinality(DOMAIN entries) |-> entries[n - 1].owner]

Contract == INSTANCE StatusListContract WITH Owners <- Entities, owners <- Owners

(* Concurrent allocations, rolled back or not, only ever append to the list *)
(* (next_free_index, create_entry).                                        *)
AppendsOnly == Contract!Spec

-----------------------------------------------------------------------------
(* The inductive invariant. *)

Size == Cardinality(DOMAIN entries)

(* The indexes have no gap, and the list's row is there when it has entries. *)
ListInv ==
    /\ Size \in Nat /\ DOMAIN entries = 0 .. Size - 1
    /\ Earlier <= Size
    /\ \A i \in DOMAIN entries : Earlier <= i => entries[i].by \in Allocations
    /\ ~listed => Size = 0
    /\ creator # None => pc[creator] = IF listed THEN "done" ELSE "inserted"

(* An index that was scanned is at most the next one; one that is inserted   *)
(* is the next one, and only one is.                                       *)
AllocationInv ==
    \A a \in Allocations :
       /\ pc[a] # "idle" => entity[a] \in Entities
       /\ pc[a] \in {"adding", "locking", "inserting"} => listed
       /\ pc[a] \in {"locking", "inserting"} => index[a] \in Earlier .. Size
       /\ pc[a] = "inserted" => index[a] = Size /\ (~listed => creator = a)
       /\ pc[a] = "inserted" => \A b \in Inserted : b = a
       /\ pc[a] # "done" => \A i \in DOMAIN entries : entries[i].by # a

(* The entries below index k that other allocations made. *)
OthersBelow(a, k) == {i \in DOMAIN entries : i < k /\ entries[i].by \in Allocations \ {a}}

(* The retries of an allocation were caused below the index it tries next. *)
RetryInv ==
    \A a \in Allocations :
       retries[a] <= Cardinality(OthersBelow(a,
          IF pc[a] \in {"locking", "inserting"} THEN index[a] ELSE Size))

(* The bits that a token computed from entries es has set. *)
OnesOf(es) == GenerateToken(StatusOf(es)).ones

(* The list that is published, or about to be, has the bits of the entries   *)
(* that are committed, or are going to be with it.                         *)
PublishInv ==
    SoleManager =>
       /\ (\A o \in Operators : pc[o] = "idle") => published.ones = OnesOf(entries)
       /\ \A o \in Operators : pc[o] = "computed" => snapshot[o].ones = OnesOf(entries)
       /\ \A v \in Revokers : pc[v] = "computed"
             => snapshot[v].ones = OnesOf(Marked(target[v], "Revoked"))

(* The inductive invariant: a scanned index may be stale but never lies      *)
(* beyond the next free one, so an insert that the unique index admits is  *)
(* the next one (next_free_index, create_entry, add_entity_to_list); and a *)
(* new entry is active, so it does not make a computed list stale          *)
(* (mark_credential_as, revoke_signature).                                 *)
IInv == TypeOK /\ ListInv /\ AllocationInv /\ OwnIndex /\ RetryInv /\ PublishInv

-----------------------------------------------------------------------------
(* What the code says of itself, and its interleavings refute. *)

(* The precomputed list has the latest changes also when two callers made    *)
(* theirs at the same time (update_attestation_entries, revoke_signature). *)
LatestChangesPublished ==
    (\A r \in Operators \cup Revokers : pc[r] = "idle")
      => \A i \in DOMAIN entries :
            entries[i].status = "Revoked"
              => ExtractState(published, i) \in {"Revoked", "IndexOutOfBounds"}

============================================================================
