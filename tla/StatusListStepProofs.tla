------------------------ MODULE StatusListStepProofs ------------------------
(***************************************************************************)
(* First part of the proofs about StatusList, for any number of            *)
(* allocations, callers and entries: the bit encoding, and the steps of    *)
(* the allocations.                                                        *)
(***************************************************************************)
EXTENDS StatusList, FiniteSetTheorems, TLAPS

-----------------------------------------------------------------------------
(* The encoding *)

(* The quotient and the remainder of the byte layout. *)
LEMMA DivMod ==
    ASSUME NEW i \in Nat
    PROVE  /\ i \div 4 \in Nat /\ i % 4 \in Nat /\ i % 4 <= 3
           /\ i = 4 * (i \div 4) + (i % 4)
  OBVIOUS

(* Entry i has two adjacent bits in byte i \div 4, counted from the byte's   *)
(* end (get_most_significant_bit_index).                                   *)
LEMMA BitLayout ==
    ASSUME NEW i \in Nat
    PROVE  /\ RevocationBit(i) = 8 * (i \div 4) + 7 - 2 * (i % 4)
           /\ SuspensionBit(i) = 8 * (i \div 4) + 6 - 2 * (i % 4)
           /\ RevocationBit(i) \in Nat /\ SuspensionBit(i) \in Nat
<1>1. (i * 2) \div 8 = i \div 4
  <2>1. ASSUME NEW q \in Nat, NEW r \in Nat, r <= 3
        PROVE  ((4 * q + r) * 2) \div 8 = q
    BY <2>1
  <2> QED
    BY <2>1, DivMod
<1>2. i = 4 * (i \div 4) + (i % 4) /\ i % 4 \in Nat /\ i % 4 <= 3 /\ i \div 4 \in Nat
  BY Zenon, DivMod
<1>3. 8 \div 2 = 4 /\ 8 \div 4 = 2
  OBVIOUS
<1>4. MostSignificantBit(i) = 8 * (i \div 4) + 8 - (i - (i \div 4) * 4) * 2 - 2
  BY ZenonT(40), <1>1, <1>3 DEF MostSignificantBit, Bits
<1>5. MostSignificantBit(i) = 8 * (i \div 4) + 6 - 2 * (i % 4)
  BY <1>2, <1>4
<1> QED
  BY <1>2, <1>5 DEF RevocationBit, SuspensionBit, Bits

(* No two entries share a bit, and the two bits of an entry differ           *)
(* (generate_token).                                                       *)
LEMMA BitsDistinct ==
    ASSUME NEW i \in Nat, NEW j \in Nat
    PROVE  /\ RevocationBit(i) = RevocationBit(j) => i = j
           /\ SuspensionBit(i) = SuspensionBit(j) => i = j
           /\ RevocationBit(i) # SuspensionBit(j)
<1>1. /\ i = 4 * (i \div 4) + (i % 4) /\ i % 4 \in Nat /\ i % 4 <= 3 /\ i \div 4 \in Nat
      /\ j = 4 * (j \div 4) + (j % 4) /\ j % 4 \in Nat /\ j % 4 <= 3 /\ j \div 4 \in Nat
  BY Zenon, DivMod
<1>2. ASSUME NEW p \in Nat, NEW q \in Nat, NEW r \in Nat, NEW s \in Nat, r <= 3, s <= 3
      PROVE  /\ 8 * p + 7 - 2 * r = 8 * q + 7 - 2 * s => p = q /\ r = s
             /\ 8 * p + 6 - 2 * r = 8 * q + 6 - 2 * s => p = q /\ r = s
             /\ 8 * p + 7 - 2 * r # 8 * q + 6 - 2 * s
  BY <1>2
<1>3. /\ RevocationBit(i) = 8 * (i \div 4) + 7 - 2 * (i % 4)
      /\ RevocationBit(j) = 8 * (j \div 4) + 7 - 2 * (j % 4)
      /\ SuspensionBit(i) = 8 * (i \div 4) + 6 - 2 * (i % 4)
      /\ SuspensionBit(j) = 8 * (j \div 4) + 6 - 2 * (j % 4)
  BY Zenon, BitLayout
<1> QED
  BY <1>1, <1>2, <1>3

(* The bits of the first n entries lie in the bytes of a token for n         *)
(* entries; when the token is at its minimum, or its last byte is full,    *)
(* in its bit vector (calculate_preferred_token_size).                     *)
LEMMA RoomForEntries ==
    ASSUME NEW n \in Nat, NEW i \in 0 .. n - 1
    PROVE  /\ TokenSize(n) \in Nat /\ ToBytes(TokenSize(n)) \in Nat
           /\ RevocationBit(i) < ToBytes(TokenSize(n))
           /\ n <= MinimumInputSize \/ n % 4 = 0 => RevocationBit(i) < TokenSize(n)
<1>0. i \in Nat
  OBVIOUS
<1>1. /\ i = 4 * (i \div 4) + (i % 4) /\ i % 4 \in Nat /\ i % 4 <= 3 /\ i \div 4 \in Nat
      /\ RevocationBit(i) = 8 * (i \div 4) + 7 - 2 * (i % 4)
  BY Zenon, <1>0, BitLayout, DivMod
<1>2. TokenSize(n) \in Nat /\ TokenSize(n) >= 2 * n
  BY SizeAssumption DEF TokenSize, Bits
<1>3. ASSUME NEW t \in Nat, t >= 2 * n
      PROVE  ToBytes(t) \in Nat /\ RevocationBit(i) < ToBytes(t)
  <2>1. t + 7 >= 8 * (i \div 4) + 8
    BY <1>1, <1>3
  <2>2. (t + 7) \div 8 >= i \div 4 + 1 /\ (t + 7) \div 8 \in Nat
    BY <1>1, <1>3, <2>1
  <2> QED
    BY <1>1, <2>2 DEF ToBytes
<1>4. ASSUME NEW k \in Nat, k % 4 = 0, n <= k
      PROVE  RevocationBit(i) < 2 * k
  BY <1>1, <1>4
<1>5. ASSUME n <= MinimumInputSize \/ n % 4 = 0
      PROVE  RevocationBit(i) < TokenSize(n)
  <2>1. CASE n <= MinimumInputSize
    BY <1>4, <2>1, SizeAssumption DEF TokenSize, Bits
  <2>2. CASE n > MinimumInputSize
    BY <1>4, <1>5, <2>2, SizeAssumption DEF TokenSize, Bits
  <2> QED
    BY <2>1, <2>2, SizeAssumption
<1> QED
  BY Zenon, <1>2, <1>3, <1>5

(* What is read from a computed token is what was put in, for a list         *)
(* without gaps (generate_token, extract_state_from_token).                *)
THEOREM CodecRoundTrip ==
    ASSUME NEW n \in Nat, NEW status \in [0 .. n - 1 -> Statuses], NEW i \in 0 .. n - 1
    PROVE  ExtractState(GenerateToken(status), i) = status[i]
<1> DEFINE token == GenerateToken(status)
<1>1. DOMAIN status = 0 .. n - 1 /\ Cardinality(DOMAIN status) = n
  BY FS_Interval
<1>2. token.size = ToBytes(TokenSize(n))
  BY Zenon, <1>1 DEF GenerateToken
<1>3. RevocationBit(i) < token.size /\ ~(RevocationBit(i) >= token.size)
  <2>0. i \in Nat
    OBVIOUS
  <2>1. RevocationBit(i) \in Nat
    BY Zenon, <2>0, BitLayout
  <2>2. token.size \in Nat /\ RevocationBit(i) < token.size
    BY Zenon, <1>2, RoomForEntries
  <2> HIDE DEF token
  <2> QED
    BY <2>1, <2>2
<1>4. RevocationBit(i) \in token.ones <=> status[i] = "Revoked"
  BY <1>1, BitsDistinct DEF GenerateToken
<1>5. SuspensionBit(i) \in token.ones <=> status[i] = "Suspended"
  BY <1>1, BitsDistinct DEF GenerateToken
<1>6. status[i] \in {"Active", "Suspended", "Revoked"}
  BY Zenon DEF Statuses
<1> HIDE DEF token
<1>7. ExtractState(token, i) = status[i]
  BY Zenon, <1>3, <1>4, <1>5, <1>6 DEF ExtractState
<1> QED
  BY Zenon, <1>7 DEF token

-----------------------------------------------------------------------------
(* Allocations *)

(* A computed token has its type (generate_token). *)
LEMMA TokenType ==
    ASSUME NEW status, DOMAIN status \subseteq Nat, Cardinality(DOMAIN status) \in Nat
    PROVE  GenerateToken(status) \in [size : Nat, ones : SUBSET Nat]
<1> DEFINE n == Cardinality(DOMAIN status)
<1>1. TokenSize(n) \in Nat
  BY SizeAssumption DEF TokenSize, Bits
<1>2. ASSUME NEW t \in Nat
      PROVE  ToBytes(t) \in Nat
  BY DEF ToBytes
<1>3. \A i \in DOMAIN status : RevocationBit(i) \in Nat /\ SuspensionBit(i) \in Nat
  BY Zenon, BitLayout
<1>4. ToBytes(TokenSize(n)) \in Nat
  BY Zenon, <1>1, <1>2
<1> QED
  BY Zenon, <1>3, <1>4 DEF GenerateToken

(* The token of a list without entries (start_new_list_for_entity). *)
LEMMA EmptyToken == GenerateToken(<<>>) \in [size : Nat, ones : SUBSET Nat]
<1>1. DOMAIN <<>> = {}
  OBVIOUS
<1>2. Cardinality(DOMAIN <<>>) = 0
  BY Zenon, <1>1, FS_EmptySet
<1> QED
  BY <1>1, <1>2, TokenType

(* The next free index is the number of entries (next_free_index). *)
LEMMA NextFreeIsSize ==
    ASSUME ListInv
    PROVE  NextFreeIndex = Size
<1>1. CASE Size = 0
  <2>1. DOMAIN entries = {}
    BY <1>1 DEF ListInv
  <2> QED
    BY Zenon, <1>1, <2>1 DEF NextFreeIndex
<1>2. CASE Size # 0
  <2>1. Size - 1 \in DOMAIN entries /\ \A y \in DOMAIN entries : Size - 1 >= y
    BY <1>2 DEF ListInv
  <2>2. \A x \in DOMAIN entries : (\A y \in DOMAIN entries : x >= y) => x = Size - 1
    <3> SUFFICES ASSUME NEW x \in DOMAIN entries, \A y \in DOMAIN entries : x >= y
                 PROVE  x = Size - 1
      OBVIOUS
    <3>1. x >= Size - 1 /\ Size - 1 >= x /\ x \in Nat /\ Size \in Nat
      BY <2>1 DEF ListInv
    <3> QED
      BY <3>1
  <2>3. Max(DOMAIN entries) = Size - 1
    BY Zenon, <2>1, <2>2 DEF Max
  <2>4. DOMAIN entries # {}
    BY Zenon, <2>1
  <2> QED
    BY <2>3, <2>4 DEF NextFreeIndex, ListInv
<1> QED
  BY Zenon, <1>1, <1>2

(* A commit adds exactly the next entry (create_entry). *)
LEMMA CommitFacts ==
    ASSUME IInv, NEW a \in Allocations, CommitEntry(a)
    PROVE  /\ index[a] = Size /\ Size \in Nat /\ Size \notin DOMAIN entries
           /\ DOMAIN entries' = 0 .. Size /\ Size' = Size + 1
           /\ entries'[Size] = [owner |-> entity[a], by |-> a, status |-> "Active"]
           /\ \A i \in DOMAIN entries : i \in DOMAIN entries' /\ entries'[i] = entries[i]
           /\ listed' = TRUE
           /\ entity[a] \in Entities
<1>1. pc[a] = "inserted"
  BY Zenon DEF CommitEntry
<1>2. index[a] = Size /\ Size \in Nat /\ DOMAIN entries = 0 .. Size - 1 /\ entity[a] \in Entities
  BY Zenon, <1>1 DEF IInv, ListInv, AllocationInv
<1>3. DOMAIN entries' = 0 .. Size
  BY <1>2 DEF CommitEntry
<1>4. Size' = Size + 1
  BY <1>2, <1>3, FS_Interval DEF Size
<1>5. /\ entries'[Size] = [owner |-> entity[a], by |-> a, status |-> "Active"]
      /\ \A i \in DOMAIN entries : i \in DOMAIN entries' /\ entries'[i] = entries[i]
  BY <1>2 DEF CommitEntry
<1>6. listed' = TRUE
  BY Zenon, <1>1 DEF CommitEntry, IInv, TypeOK, AllocationInv
<1> QED
  BY <1>2, <1>3, <1>4, <1>5, <1>6

(* Allocations keep the types (create_entry, add_entity_to_list). *)
LEMMA AllocateTypeOK ==
    ASSUME IInv, NEW a \in Allocations, Allocate(a)
    PROVE  TypeOK'
<1> USE DEF Goto
<1>0. TypeOK /\ a \in Callers
  BY Zenon DEF IInv, Callers
<1>1. CASE FindList(a)
  BY <1>0, <1>1 DEF FindList, TypeOK, listVars, markVars
<1>2. CASE StartList(a)
  BY Zenon, <1>0, <1>2 DEF StartList, TypeOK, markVars
<1>3. CASE ListExists(a)
  BY Zenon, <1>0, <1>3 DEF ListExists, TypeOK, listVars, allocationVars, markVars
<1>4. CASE ScanLast(a)
  <2>1. NextFreeIndex \in Nat
    BY Zenon, NextFreeIsSize DEF IInv, ListInv
  <2> QED
    BY Zenon, <1>0, <1>4, <2>1 DEF ScanLast, TypeOK, listVars, markVars
<1>5. CASE LockLast(a)
  <2>1. locks' \in [Allocations -> SUBSET DOMAIN entries]
    BY ZenonT(40), <1>0, <1>5 DEF LockLast, TypeOK
  <2> QED
    BY Zenon, <1>0, <1>5, <2>1 DEF LockLast, TypeOK, listVars, markVars
<1>6. CASE InsertEntry(a)
  BY Zenon, <1>0, <1>6 DEF InsertEntry, TypeOK, listVars, allocationVars, markVars
<1>7. CASE IndexTaken(a)
  <2>1. locks' \in [Allocations -> SUBSET DOMAIN entries]
    BY Zenon, <1>0, <1>7 DEF IndexTaken, TypeOK
  <2>2. retries' \in [Allocations -> Nat]
    BY <1>0, <1>7 DEF IndexTaken, TypeOK
  <2> QED
    BY ZenonT(40), <1>0, <1>7, <2>1, <2>2 DEF IndexTaken, TypeOK, listVars, markVars
<1>8. CASE CommitEntry(a)
  <2>0. /\ Size \in Nat /\ DOMAIN entries' = 0 .. Size
        /\ entries'[Size] = [owner |-> entity[a], by |-> a, status |-> "Active"]
        /\ \A i \in DOMAIN entries : i \in DOMAIN entries' /\ entries'[i] = entries[i]
        /\ entity[a] \in Entities
    BY Zenon, <1>8, CommitFacts
  <2>1. DOMAIN entries' \subseteq Nat /\ DOMAIN entries \subseteq DOMAIN entries'
    BY <2>0
  <2>2. \A i \in DOMAIN entries' :
           entries'[i] \in [owner : Entities, by : Allocations \cup {None}, status : Statuses]
    <3>1. entries'[Size] \in [owner : Entities, by : Allocations \cup {None}, status : Statuses]
      BY <2>0 DEF Statuses
    <3>2. DOMAIN entries' = DOMAIN entries \cup {Size}
      BY Zenon, <1>8, CommitFacts DEF CommitEntry
    <3> QED
      BY Zenon, <1>0, <2>0, <3>1, <3>2 DEF TypeOK
  <2>3. published' \in [size : Nat, ones : SUBSET Nat] /\ listed' \in BOOLEAN
    BY ZenonT(40), <1>0, <1>8, EmptyToken DEF CommitEntry, TypeOK
  <2>4. locks' \in [Allocations -> SUBSET DOMAIN entries']
    BY ZenonT(40), <1>0, <1>8, <2>1 DEF CommitEntry, TypeOK
  <2>5. target' \in [Revokers -> SUBSET DOMAIN entries']
    BY ZenonT(40), <1>0, <1>8, <2>1 DEF CommitEntry, TypeOK, markVars
  <2> QED
    BY Zenon, <1>0, <1>8, <2>1, <2>2, <2>3, <2>4, <2>5 DEF CommitEntry, TypeOK, markVars
<1>9. CASE AbandonEntry(a)
  <2>1. locks' \in [Allocations -> SUBSET DOMAIN entries]
    BY ZenonT(40), <1>0, <1>9 DEF AbandonEntry, TypeOK
  <2> QED
    BY ZenonT(40), <1>0, <1>9, <2>1 DEF AbandonEntry, TypeOK, markVars
<1> QED
  BY ZenonT(40), <1>1, <1>2, <1>3, <1>4, <1>5, <1>6, <1>7, <1>8, <1>9 DEF Allocate, Proceed

(* An allocation leaves the others alone, and the entries until it commits. *)
LEMMA AllocateFrame ==
    ASSUME TypeOK, NEW a \in Allocations, Allocate(a)
    PROVE  /\ \A b \in Allocations \ {a} :
                 pc'[b] = pc[b] /\ entity'[b] = entity[b] /\ index'[b] = index[b]
                 /\ retries'[b] = retries[b]
           /\ CommitEntry(a) \/ (entries' = entries /\ listed' = listed)
<1> USE DEF Goto
<1>1. CASE FindList(a)
  BY Zenon, <1>1 DEF FindList, TypeOK, Callers, listVars
<1>2. CASE StartList(a)
  BY Zenon, <1>2 DEF StartList, TypeOK, Callers
<1>3. CASE ListExists(a)
  BY ZenonT(40), <1>3 DEF ListExists, TypeOK, Callers, listVars, allocationVars
<1>4. CASE ScanLast(a)
  BY ZenonT(40), <1>4 DEF ScanLast, TypeOK, Callers, listVars
<1>5. CASE LockLast(a)
  BY Zenon, <1>5 DEF LockLast, TypeOK, Callers, listVars
<1>6. CASE InsertEntry(a)
  BY ZenonT(40), <1>6 DEF InsertEntry, TypeOK, Callers, listVars, allocationVars
<1>7. CASE IndexTaken(a)
  BY ZenonT(40), <1>7 DEF IndexTaken, TypeOK, Callers, listVars
<1>8. CASE CommitEntry(a)
  BY ZenonT(40), <1>8 DEF CommitEntry, TypeOK, Callers
<1>9. CASE AbandonEntry(a)
  BY ZenonT(40), <1>9 DEF AbandonEntry, TypeOK, Callers
<1> QED
  BY ZenonT(40), <1>1, <1>2, <1>3, <1>4, <1>5, <1>6, <1>7, <1>8, <1>9 DEF Allocate, Proceed

(* What each step of an allocation moves: where it goes, who may become the   *)
(* creator, when the entity is set and when a retry is counted.            *)
LEMMA AllocateMoves ==
    ASSUME TypeOK, NEW a \in Allocations, Allocate(a)
    PROVE  /\ pc[a] # "done"
           /\ pc'[a] = "done" => CommitEntry(a)
           /\ pc[a] = "inserted" => CommitEntry(a) \/ AbandonEntry(a)
           /\ pc'[a] = "inserted" => StartList(a) \/ InsertEntry(a)
           /\ pc'[a] \in {"locking", "inserting"} => ScanLast(a) \/ LockLast(a)
           /\ creator' = creator \/ StartList(a) \/ (AbandonEntry(a) /\ creator = a)
           /\ entity'[a] \in Entities \/ (pc[a] # "idle" /\ entity' = entity)
           /\ IndexTaken(a) \/ retries' = retries
<1> USE DEF Goto
<1>0. a \in Callers
  BY Zenon DEF Callers
<1>1. CASE FindList(a)
  BY ZenonT(40), <1>0, <1>1 DEF FindList, TypeOK, listVars
<1>2. CASE StartList(a)
  BY ZenonT(40), <1>0, <1>2 DEF StartList, TypeOK
<1>3. CASE ListExists(a)
  BY ZenonT(40), <1>0, <1>3 DEF ListExists, TypeOK, listVars, allocationVars
<1>4. CASE ScanLast(a)
  BY ZenonT(40), <1>0, <1>4 DEF ScanLast, TypeOK, listVars
<1>5. CASE LockLast(a)
  BY ZenonT(40), <1>0, <1>5 DEF LockLast, TypeOK, listVars
<1>6. CASE InsertEntry(a)
  BY ZenonT(40), <1>0, <1>6 DEF InsertEntry, TypeOK, listVars, allocationVars
<1>7. CASE IndexTaken(a)
  BY ZenonT(40), <1>0, <1>7 DEF IndexTaken, TypeOK, listVars
<1>8. CASE CommitEntry(a)
  BY ZenonT(40), <1>0, <1>8 DEF CommitEntry, TypeOK
<1>9. CASE AbandonEntry(a)
  BY Zenon, <1>0, <1>9 DEF AbandonEntry, TypeOK
<1> QED
  BY ZenonT(40), <1>1, <1>2, <1>3, <1>4, <1>5, <1>6, <1>7, <1>8, <1>9 DEF Allocate, Proceed

(* The indexes stay without a gap (create_entry, start_new_list_for_entity). *)
LEMMA AllocateListInv ==
    ASSUME IInv, NEW a \in Allocations, Allocate(a)
    PROVE  ListInv'
<1> USE DEF Goto
<1>0. TypeOK /\ ListInv /\ AllocationInv /\ a \in Callers /\ a # None
  BY ZenonT(40), AllocationAssumption DEF IInv, Callers
<1>1. CASE CommitEntry(a)
  <2>0. /\ Size \in Nat /\ DOMAIN entries' = 0 .. Size /\ Size' = Size + 1 /\ listed'
        /\ entries'[Size] = [owner |-> entity[a], by |-> a, status |-> "Active"]
        /\ \A i \in DOMAIN entries : entries'[i] = entries[i]
    BY ZenonT(40), <1>1, CommitFacts
  <2>1. Size' \in Nat /\ DOMAIN entries' = 0 .. Size' - 1 /\ listed'
    <3>1. Size + 1 \in Nat /\ (Size + 1) - 1 = Size
      BY <2>0
    <3> QED
      BY Zenon, <2>0, <3>1
  <2>5. Earlier <= Size'
    BY <1>0, <2>0, SizeAssumption DEF ListInv
  <2>6. \A i \in DOMAIN entries' : Earlier <= i => entries'[i].by \in Allocations
    <3>1. DOMAIN entries' = DOMAIN entries \cup {Size}
      BY <1>0, <2>0 DEF ListInv
    <3>2. entries'[Size].by = a
      BY <2>0
    <3> QED
      BY ZenonT(40), <1>0, <2>0, <3>1, <3>2 DEF ListInv
  <2>2. creator' = creator /\ pc' = [pc EXCEPT ![a] = "done"]
    BY Zenon, <1>1 DEF CommitEntry
  <2>3. pc[a] = "inserted" /\ (~listed => creator = a)
    BY ZenonT(40), <1>0, <1>1 DEF CommitEntry, AllocationInv
  <2>4. ASSUME creator # None
        PROVE  pc'[creator] = "done"
    <3>1. CASE creator = a
      BY ZenonT(40), <1>0, <2>2, <3>1 DEF TypeOK
    <3>2. CASE creator # a
      BY Zenon, <1>0, <2>2, <2>3, <2>4, <3>2 DEF TypeOK, ListInv, Callers
    <3> QED
      BY Zenon, <3>1, <3>2
  <2> QED
    BY Zenon, <2>1, <2>2, <2>4, <2>5, <2>6 DEF ListInv
<1>2. CASE ~CommitEntry(a)
  <2>1. entries' = entries /\ listed' = listed /\ Size' = Size
    BY ZenonT(40), <1>0, <1>2, AllocateFrame DEF Size
  <2>2. ASSUME creator' # None
        PROVE  pc'[creator'] = IF listed THEN "done" ELSE "inserted"
    <3>1. CASE StartList(a)
      BY ZenonT(40), <1>0, <3>1 DEF StartList, TypeOK
    <3>2. CASE AbandonEntry(a)
      <4>1. creator' = creator /\ creator # a
        BY ZenonT(40), <1>0, <2>2, <3>2 DEF AbandonEntry
      <4>2. pc'[creator] = pc[creator]
        BY ZenonT(40), <1>0, <2>2, <4>1, AllocateFrame DEF TypeOK
      <4> QED
        BY ZenonT(40), <1>0, <2>2, <4>1, <4>2 DEF ListInv
    <3>3. CASE ~StartList(a) /\ ~AbandonEntry(a)
      <4>1. creator' = creator /\ pc[a] \notin {"inserted", "done"}
        BY ZenonT(40), <1>0, <1>2, <3>3, AllocateMoves
      <4>2. creator # a
        BY ZenonT(40), <1>0, <2>2, <4>1 DEF ListInv
      <4>3. pc'[creator] = pc[creator]
        BY ZenonT(40), <1>0, <2>2, <4>1, <4>2, AllocateFrame DEF TypeOK
      <4> QED
        BY ZenonT(40), <1>0, <2>2, <4>1, <4>3 DEF ListInv
    <3> QED
      BY ZenonT(40), <3>1, <3>2, <3>3
  <2> QED
    BY ZenonT(40), <1>0, <2>1, <2>2 DEF ListInv
<1> QED
  BY ZenonT(40), <1>1, <1>2

(* The index of a credential is its own (create_entry). *)
LEMMA AllocateOwnIndex ==
    ASSUME IInv, NEW a \in Allocations, Allocate(a)
    PROVE  OwnIndex'
<1> USE DEF Goto
<1>0. TypeOK /\ OwnIndex /\ a \in Callers
  BY Zenon DEF IInv, Callers
<1> SUFFICES ASSUME NEW b \in Allocations, pc'[b] = "done"
             PROVE  /\ index'[b] \in DOMAIN entries'
                    /\ entries'[index'[b]].by = b /\ entries'[index'[b]].owner = entity'[b]
  BY ZenonT(40) DEF OwnIndex
<1>1. CASE b # a
  <2>1. /\ index'[b] = index[b] /\ entity'[b] = entity[b]
        /\ index[b] \in DOMAIN entries
        /\ entries[index[b]].by = b /\ entries[index[b]].owner = entity[b]
    BY <1>0, <1>1, AllocateFrame DEF OwnIndex
  <2>2. CASE CommitEntry(a)
    BY ZenonT(40), <2>1, <2>2, CommitFacts
  <2>3. CASE ~CommitEntry(a)
    BY Zenon, <1>0, <2>1, <2>3, AllocateFrame
  <2> QED
    BY ZenonT(40), <2>2, <2>3
<1>2. CASE b = a
  <2>1. CommitEntry(a)
    BY Zenon, <1>0, <1>2, AllocateMoves
  <2>2. index' = index /\ entity' = entity
    BY Zenon, <2>1 DEF CommitEntry
  <2>3. /\ index[a] = Size /\ Size \in DOMAIN entries'
        /\ entries'[Size].by = a /\ entries'[Size].owner = entity[a]
    <3>1. /\ index[a] = Size /\ Size \in Nat /\ DOMAIN entries' = 0 .. Size
          /\ entries'[Size] = [owner |-> entity[a], by |-> a, status |-> "Active"]
      BY Zenon, <2>1, CommitFacts
    <3> QED
      BY <3>1, SMTT(30)
  <2> QED
    BY Zenon, <1>2, <2>2, <2>3
<1> QED
  BY Zenon, <1>1, <1>2

(* At most one entry is inserted and not committed, and it is the next one   *)
(* (unique index of the entries, start_new_list_for_entity).               *)
LEMMA AllocateInsertsNext ==
    ASSUME IInv, NEW a \in Allocations, StartList(a) \/ InsertEntry(a)
    PROVE  /\ index'[a] = Size
           /\ Inserted = {}
           /\ listed \/ creator' = a
<1>0. TypeOK /\ ListInv /\ AllocationInv
  BY Zenon DEF IInv
<1>1. CASE StartList(a)
  <2>1. index'[a] = 0 /\ ~listed /\ creator = None /\ creator' = a
    BY ZenonT(40), <1>0, <1>1 DEF StartList, TypeOK
  <2>2. Size = 0
    BY Zenon, <1>0, <2>1 DEF ListInv
  <2>3. \A b \in Allocations : pc[b] # "inserted"
    BY ZenonT(40), <1>0, <2>1, AllocationAssumption DEF AllocationInv
  <2> QED
    BY Zenon, <2>1, <2>2, <2>3 DEF Inserted
<1>2. CASE InsertEntry(a)
  <2>1. /\ pc[a] = "inserting" /\ index' = index /\ index[a] \notin DOMAIN entries
        /\ \A b \in Inserted : index[b] # index[a]
    BY Zenon, <1>2 DEF InsertEntry, allocationVars
  <2>2. listed /\ index[a] \in Earlier .. Size
    BY Zenon, <1>0, <2>1 DEF AllocationInv
  <2>3. index[a] = Size
    BY <1>0, <2>1, <2>2, SizeAssumption DEF ListInv
  <2>4. Inserted = {}
    BY Zenon, <1>0, <2>1, <2>3 DEF AllocationInv, Inserted
  <2> QED
    BY Zenon, <2>1, <2>2, <2>3, <2>4
<1> QED
  BY Zenon, <1>1, <1>2

(* What AllocationInv says of an allocation that is not moving. *)
LEMMA AllocateAside ==
    ASSUME IInv, NEW a \in Allocations, Allocate(a), NEW b \in Allocations \ {a}
    PROVE  /\ pc'[b] # "idle" => entity'[b] \in Entities
           /\ pc'[b] \in {"adding", "locking", "inserting"} => listed'
           /\ pc'[b] \in {"locking", "inserting"} => index'[b] \in Earlier .. Size'
           /\ pc'[b] = "inserted" => index'[b] = Size' /\ (~listed' => creator' = b)
           /\ pc'[b] = "inserted" => \A c \in Inserted' : c = b
           /\ pc'[b] # "done" => \A i \in DOMAIN entries' : entries'[i].by # b
<1>0. TypeOK /\ ListInv /\ AllocationInv
  BY Zenon DEF IInv
<1>1. /\ pc'[b] = pc[b] /\ entity'[b] = entity[b] /\ index'[b] = index[b]
      /\ \A c \in Allocations \ {a} : pc'[c] = pc[c]
  BY ZenonT(40), <1>0, AllocateFrame
<1>2. CASE CommitEntry(a)
  <2>1. /\ Size \in Nat /\ DOMAIN entries' = 0 .. Size /\ Size' = Size + 1 /\ listed'
        /\ entries'[Size] = [owner |-> entity[a], by |-> a, status |-> "Active"]
        /\ \A i \in DOMAIN entries : entries'[i] = entries[i]
    BY ZenonT(40), <1>2, CommitFacts
  <2>2. pc[b] # "inserted"
    BY ZenonT(40), <1>0, <1>2 DEF CommitEntry, AllocationInv, Inserted
  <2>3. pc[b] \in {"locking", "inserting"} => index[b] \in Earlier .. Size'
    BY <1>0, <2>1, SizeAssumption, SMTT(30) DEF AllocationInv
  <2>4. DOMAIN entries' = DOMAIN entries \cup {Size} /\ entries'[Size].by = a
    BY <1>0, <2>1 DEF ListInv
  <2>5. pc[b] # "done" => \A i \in DOMAIN entries' : entries'[i].by # b
    BY <1>0, <2>1, <2>4 DEF AllocationInv
  <2> QED
    BY ZenonT(40), <1>0, <1>1, <2>1, <2>2, <2>3, <2>5 DEF AllocationInv
<1>3. CASE ~CommitEntry(a)
  <2>1. entries' = entries /\ listed' = listed /\ Size' = Size
    BY Zenon, <1>0, <1>3, AllocateFrame DEF Size
  <2>2. ASSUME pc[b] = "inserted"
        PROVE  (~listed => creator' = b) /\ \A c \in Inserted' : c = b
    <3>1. ~StartList(a) /\ ~InsertEntry(a)
      BY Zenon, <2>2, AllocateInsertsNext DEF Inserted
    <3>2. pc'[a] # "inserted"
      BY Zenon, <1>0, <3>1, AllocateMoves
    <3>3. ~listed => creator' = b
      <4>1. ~listed => creator = b
        BY Zenon, <1>0, <2>2 DEF AllocationInv
      <4>2. creator' = creator \/ creator = a
        BY Zenon, <1>0, <3>1, AllocateMoves
      <4> QED
        BY Zenon, <4>1, <4>2
    <3>4. \A c \in Inserted' : c \in Inserted
      BY Zenon, <1>1, <3>2 DEF Inserted
    <3> QED
      BY Zenon, <1>0, <2>2, <3>3, <3>4 DEF AllocationInv
  <2> QED
    BY Zenon, <1>0, <1>1, <2>1, <2>2 DEF AllocationInv
<1> QED
  BY Zenon, <1>2, <1>3

(* What AllocationInv says of the allocation that moves. *)
LEMMA AllocateSelf ==
    ASSUME IInv, NEW a \in Allocations, Allocate(a)
    PROVE  /\ pc'[a] # "idle" => entity'[a] \in Entities
           /\ pc'[a] \in {"adding", "locking", "inserting"} => listed'
           /\ pc'[a] \in {"locking", "inserting"} => index'[a] \in Earlier .. Size'
           /\ pc'[a] = "inserted" => index'[a] = Size' /\ (~listed' => creator' = a)
           /\ pc'[a] = "inserted" => \A c \in Inserted' : c = a
           /\ pc'[a] # "done" => \A i \in DOMAIN entries' : entries'[i].by # a
<1> USE DEF Goto
<1>0. TypeOK /\ ListInv /\ AllocationInv /\ a \in Callers
  BY Zenon DEF IInv, Callers
<1>1. CASE CommitEntry(a)
  <2>1. pc'[a] = "done" /\ entity' = entity
    BY ZenonT(40), <1>0, <1>1 DEF CommitEntry, TypeOK
  <2> QED
    BY ZenonT(40), <1>1, <2>1, CommitFacts
<1>2. CASE ~CommitEntry(a)
  <2>1. entries' = entries /\ listed' = listed /\ Size' = Size
    BY ZenonT(40), <1>0, <1>2, AllocateFrame DEF Size
  <2>2. pc[a] # "done" /\ \A i \in DOMAIN entries : entries[i].by # a
    <3>1. pc[a] # "done"
      BY ZenonT(40), <1>0, AllocateMoves
    <3> QED
      BY Zenon, <1>0, <3>1 DEF AllocationInv
  <2>3. entity'[a] \in Entities
    <3>1. entity'[a] \in Entities \/ (pc[a] # "idle" /\ entity' = entity)
      BY ZenonT(40), <1>0, AllocateMoves
    <3> QED
      BY ZenonT(40), <1>0, <3>1 DEF AllocationInv
  <2>4. CASE StartList(a) \/ InsertEntry(a)
    <3>1. pc'[a] = "inserted"
      BY ZenonT(40), <1>0, <2>4 DEF StartList, InsertEntry, TypeOK
    <3>2. \A c \in Inserted' : c = a
      BY ZenonT(40), <1>0, <2>4, AllocateInsertsNext, AllocateFrame DEF Inserted
    <3>3. index'[a] = Size /\ (listed \/ creator' = a)
      BY ZenonT(40), <2>4, AllocateInsertsNext
    <3> QED
      BY ZenonT(40), <2>1, <2>2, <2>3, <3>1, <3>2, <3>3
  <2>5. CASE ScanLast(a)
    <3>1. pc'[a] = "locking" /\ index'[a] = Size /\ listed
      BY ZenonT(40), <1>0, <2>5, NextFreeIsSize DEF ScanLast, TypeOK, AllocationInv
    <3>2. Size \in Earlier .. Size
      BY SMTT(40), <1>0, SizeAssumption DEF ListInv
    <3> QED
      BY ZenonT(40), <2>1, <2>2, <2>3, <3>1, <3>2
  <2>6. CASE LockLast(a)
    <3>1. pc'[a] = "inserting" /\ index' = index /\ pc[a] = "locking"
      BY ZenonT(40), <1>0, <2>6 DEF LockLast, TypeOK
    <3> QED
      BY ZenonT(40), <1>0, <2>1, <2>2, <2>3, <3>1 DEF AllocationInv
  <2>7. CASE FindList(a) \/ ListExists(a) \/ IndexTaken(a) \/ AbandonEntry(a)
    <3>1. pc'[a] \in {"starting", "adding", "failed"} /\ (pc'[a] = "adding" => listed)
      BY SMTT(40), <1>0, <2>7 DEF FindList, ListExists, IndexTaken, AbandonEntry, TypeOK, AllocationInv
    <3> QED
      BY ZenonT(40), <2>1, <2>2, <2>3, <3>1
  <2> QED
    BY ZenonT(40), <1>2, <2>4, <2>5, <2>6, <2>7 DEF Allocate, Proceed
<1> QED
  BY Zenon, <1>1, <1>2

(* AllocationInv is preserved by the steps of create_entry. *)
LEMMA AllocateAllocationInv ==
    ASSUME IInv, NEW a \in Allocations, Allocate(a)
    PROVE  AllocationInv'
<1> SUFFICES ASSUME NEW b \in Allocations
             PROVE  /\ pc'[b] # "idle" => entity'[b] \in Entities
                    /\ pc'[b] \in {"adding", "locking", "inserting"} => listed'
                    /\ pc'[b] \in {"locking", "inserting"} => index'[b] \in Earlier .. Size'
                    /\ pc'[b] = "inserted" => index'[b] = Size' /\ (~listed' => creator' = b)
                    /\ pc'[b] = "inserted" => \A c \in Inserted' : c = b
                    /\ pc'[b] # "done" => \A i \in DOMAIN entries' : entries'[i].by # b
  BY Zenon DEF AllocationInv
<1>1. CASE b = a
  BY Zenon, <1>1, AllocateSelf
<1>2. CASE b # a
  BY Zenon, <1>2, AllocateAside
<1> QED
  BY Zenon, <1>1, <1>2

(* The sets that count retries are finite, and grow with their bound. *)
LEMMA OthersMonotone ==
    ASSUME ListInv, NEW a, NEW j \in Nat, NEW k \in Nat, j <= k
    PROVE  /\ IsFiniteSet(OthersBelow(a, k)) /\ IsFiniteSet(OthersBelow(a, j))
           /\ Cardinality(OthersBelow(a, k)) \in Nat /\ Cardinality(OthersBelow(a, j)) \in Nat
           /\ Cardinality(OthersBelow(a, j)) <= Cardinality(OthersBelow(a, k))
<1>1. IsFiniteSet(DOMAIN entries) /\ DOMAIN entries \subseteq Nat
  BY FS_Interval DEF ListInv
<1>2. OthersBelow(a, k) \subseteq DOMAIN entries
  BY ZenonT(40) DEF OthersBelow
<1>3. IsFiniteSet(OthersBelow(a, k))
  BY ZenonT(40), <1>1, <1>2, FS_Subset
<1>4. OthersBelow(a, j) \subseteq OthersBelow(a, k)
  BY <1>1 DEF OthersBelow
<1>5. IsFiniteSet(OthersBelow(a, j)) /\ Cardinality(OthersBelow(a, j)) <= Cardinality(OthersBelow(a, k))
  BY ZenonT(40), <1>3, <1>4, FS_Subset
<1> QED
  BY Zenon, <1>3, <1>5, FS_CardinalityType

(* A retry is caused by an entry of another allocation that is not below     *)
(* the index tried (add_entity_to_list).                                   *)
LEMMA RetryCaused ==
    ASSUME IInv, NEW a \in Allocations, IndexTaken(a)
    PROVE  Cardinality(OthersBelow(a, index[a])) + 1 <= Cardinality(OthersBelow(a, Size))
<1> DEFINE S == OthersBelow(a, index[a])
<1>0. TypeOK /\ ListInv /\ AllocationInv /\ pc[a] = "inserting" /\ index[a] \in DOMAIN entries
  BY Zenon DEF IInv, IndexTaken
<1>1. /\ index[a] \in Earlier .. Size /\ index[a] \in Nat /\ Size \in Nat /\ index[a] < Size
      /\ entries[index[a]].by \in Allocations \ {a}
  BY <1>0, SizeAssumption DEF AllocationInv, ListInv
<1>2. index[a] \notin S /\ index[a] \in OthersBelow(a, Size)
  BY <1>0, <1>1 DEF OthersBelow
<1>3. /\ IsFiniteSet(S) /\ IsFiniteSet(OthersBelow(a, Size))
      /\ Cardinality(S) \in Nat
  BY <1>0, <1>1, OthersMonotone
<1>4. S \cup {index[a]} \subseteq OthersBelow(a, Size)
  <2>1. S \subseteq OthersBelow(a, Size)
    BY <1>0, <1>1 DEF OthersBelow, ListInv
  <2> QED
    BY Zenon, <1>2, <2>1
<1> HIDE DEF S
<1>5. Cardinality(S \cup {index[a]}) = Cardinality(S) + 1
  BY ZenonT(40), <1>2, <1>3, FS_AddElement
<1>6. Cardinality(S \cup {index[a]}) <= Cardinality(OthersBelow(a, Size))
  BY Zenon, <1>3, <1>4, FS_Subset
<1> QED
  BY Zenon, <1>5, <1>6 DEF S

(* Bound of the entries that may have caused the retries of an allocation. *)
RetryBound(a) == IF pc[a] \in {"locking", "inserting"} THEN index[a] ELSE Size

(* Retries stay paid for (add_entity_to_list). *)
LEMMA AllocateRetryInv ==
    ASSUME IInv, NEW a \in Allocations, Allocate(a)
    PROVE  RetryInv'
<1> USE DEF Goto
<1>0. TypeOK /\ ListInv /\ AllocationInv /\ a \in Callers
  BY DEF IInv, Callers
<1>1. \A b \in Allocations : /\ retries[b] \in Nat
                              /\ retries[b] <= Cardinality(OthersBelow(b, RetryBound(b)))
                              /\ RetryBound(b) \in Nat /\ Size \in Nat /\ RetryBound(b) <= Size
  <2>1. \A b \in Allocations : retries[b] <= Cardinality(OthersBelow(b, RetryBound(b)))
    BY ZenonT(40) DEF IInv, RetryInv, RetryBound
  <2>2. Size \in Nat
    BY ZenonT(40), <1>0 DEF ListInv
  <2>3. \A b \in Allocations : RetryBound(b) \in Nat /\ RetryBound(b) <= Size
    BY <1>0, <2>2, SizeAssumption DEF AllocationInv, RetryBound
  <2> QED
    BY ZenonT(40), <1>0, <2>1, <2>2, <2>3 DEF TypeOK
<1> SUFFICES ASSUME NEW b \in Allocations
             PROVE  retries'[b] <= Cardinality(OthersBelow(b, RetryBound(b))')
  BY ZenonT(40) DEF RetryInv, RetryBound
<1>2. CASE CommitEntry(a)
  <2>1. /\ Size \in Nat /\ DOMAIN entries' = 0 .. Size /\ Size' = Size + 1
        /\ entries'[Size] = [owner |-> entity[a], by |-> a, status |-> "Active"]
        /\ \A i \in DOMAIN entries : entries'[i] = entries[i]
    BY ZenonT(40), <1>2, CommitFacts
  <2>2. ListInv'
    BY Zenon, AllocateListInv
  <2>3. retries'[b] = retries[b]
    BY ZenonT(40), <1>2 DEF CommitEntry
  <2>4. RetryBound(b)' \in {RetryBound(b), Size + 1}
    BY Zenon, <1>0, <1>2, <2>1 DEF CommitEntry, RetryBound, TypeOK, Callers
  <2>5. OthersBelow(b, RetryBound(b)) \subseteq OthersBelow(b, RetryBound(b))'
    BY <1>0, <1>1, <2>1, <2>4, SMTT(30) DEF OthersBelow, ListInv
  <2>6. IsFiniteSet(OthersBelow(b, RetryBound(b))')
    <3>1. IsFiniteSet(DOMAIN entries')
      BY <2>1, FS_Interval
    <3>2. OthersBelow(b, RetryBound(b))' \subseteq DOMAIN entries'
      BY Zenon DEF OthersBelow
    <3> QED
      BY Zenon, <3>1, <3>2, FS_Subset
  <2>7. Cardinality(OthersBelow(b, RetryBound(b))) <= Cardinality(OthersBelow(b, RetryBound(b))')
    BY Zenon, <2>5, <2>6, FS_Subset
  <2>8. /\ Cardinality(OthersBelow(b, RetryBound(b))) \in Nat
        /\ Cardinality(OthersBelow(b, RetryBound(b))') \in Nat
    BY Zenon, <2>5, <2>6, FS_Subset, FS_CardinalityType
  <2> QED
    BY <1>1, <2>3, <2>7, <2>8
<1>3. CASE ~CommitEntry(a)
  <2>1. entries' = entries /\ Size' = Size
    BY Zenon, <1>0, <1>3, AllocateFrame DEF Size
  <2>2. OthersBelow(b, RetryBound(b))' = OthersBelow(b, RetryBound(b)')
    BY Zenon, <2>1 DEF OthersBelow
  <2>3. CASE b # a
    <3>1. RetryBound(b)' = RetryBound(b) /\ retries'[b] = retries[b]
      BY Zenon, <1>0, <2>1, <2>3, AllocateFrame DEF RetryBound
    <3> QED
      BY Zenon, <1>1, <2>2, <3>1
  <2>4. CASE b = a /\ IndexTaken(a)
    <3>1. RetryBound(a)' = Size
      BY ZenonT(40), <1>0, <2>1, <2>4 DEF IndexTaken, RetryBound, TypeOK
    <3>2. retries'[a] <= retries[a] + 1 /\ retries'[a] \in Nat
      BY SMTT(40), <1>0, <2>4 DEF IndexTaken, TypeOK
    <3>3. RetryBound(a) = index[a]
      BY Zenon, <2>4 DEF IndexTaken, RetryBound
    <3>4. Cardinality(OthersBelow(a, index[a])) + 1 <= Cardinality(OthersBelow(a, Size))
      BY Zenon, <2>4, RetryCaused
    <3>5. Cardinality(OthersBelow(a, index[a])) \in Nat /\ Cardinality(OthersBelow(a, Size)) \in Nat
      BY Zenon, <1>0, <1>1, <3>3, OthersMonotone
    <3> QED
      BY SMTT(40), <1>1, <2>2, <2>4, <3>1, <3>2, <3>3, <3>4, <3>5
  <2>5. CASE b = a /\ ~IndexTaken(a)
    <3>1. retries'[a] = retries[a]
      BY ZenonT(40), <1>0, <2>5, AllocateMoves
    <3>2. RetryBound(a)' \in {RetryBound(a), Size}
      <4>1. CASE ScanLast(a)
        BY ZenonT(40), <1>0, <2>1, <4>1, NextFreeIsSize DEF ScanLast, RetryBound, TypeOK
      <4>2. CASE LockLast(a)
        BY ZenonT(40), <1>0, <2>1, <4>2 DEF LockLast, RetryBound, TypeOK
      <4>3. CASE ~ScanLast(a) /\ ~LockLast(a)
        <5>1. pc'[a] \notin {"locking", "inserting"}
          BY ZenonT(40), <1>0, <4>3, AllocateMoves
        <5> QED
          BY ZenonT(40), <2>1, <5>1 DEF RetryBound
      <4> QED
        BY ZenonT(40), <4>1, <4>2, <4>3
    <3>3. /\ Cardinality(OthersBelow(a, RetryBound(a))) <= Cardinality(OthersBelow(a, Size))
          /\ Cardinality(OthersBelow(a, RetryBound(a))) \in Nat
          /\ Cardinality(OthersBelow(a, Size)) \in Nat
      BY Zenon, <1>0, <1>1, OthersMonotone
    <3> QED
      BY SMTT(40), <1>1, <2>2, <2>5, <3>1, <3>2, <3>3
  <2> QED
    BY Zenon, <2>3, <2>4, <2>5
<1> QED
  BY ZenonT(40), <1>2, <1>3

=============================================================================
