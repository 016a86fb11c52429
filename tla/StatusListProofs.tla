-------------------------- MODULE StatusListProofs --------------------------
(***************************************************************************)
(* Second part of the proofs about StatusList: the steps that mark and     *)
(* revoke, the inductive invariant IInv and what follows from it.          *)
(***************************************************************************)
EXTENDS StatusListStepProofs

-----------------------------------------------------------------------------
(* Types *)

(* A change of status leaves the entries where they are (update_entry). *)
LEMMA MarkedFacts ==
    ASSUME TypeOK, NEW I, NEW s \in Statuses
    PROVE  /\ DOMAIN Marked(I, s) = DOMAIN entries
           /\ DOMAIN StatusOf(Marked(I, s)) = DOMAIN entries
           /\ DOMAIN StatusOf(entries) = DOMAIN entries
           /\ \A i \in DOMAIN entries :
                 /\ Marked(I, s)[i] \in [owner : Entities, by : Allocations \cup {None}, status : Statuses]
                 /\ Marked(I, s)[i].by = entries[i].by
                 /\ Marked(I, s)[i].owner = entries[i].owner
  BY ZenonT(40) DEF TypeOK, Marked, StatusOf

(* The entries stay where they are, and the allocations too. *)
ManagerFrame ==
    /\ DOMAIN entries' = DOMAIN entries
    /\ \A i \in DOMAIN entries :
          entries'[i].by = entries[i].by /\ entries'[i].owner = entries[i].owner
    /\ UNCHANGED <<creator, listed, allocationVars>>
    /\ \A a \in Allocations : pc'[a] = pc[a]

(* A step of a manager changes statuses and the published list and keeps     *)
(* the types (mark_credential_as, revoke_signature).                       *)
LEMMA ManagerStep ==
    ASSUME TypeOK, Size \in Nat, NEW m \in Operators \cup Revokers,
           (m \in Operators /\ Mark(m)) \/ (m \in Revokers /\ Revoke(m))
    PROVE  TypeOK' /\ ManagerFrame
<1> DEFINE Token == [size : Nat, ones : SUBSET Nat]
           Entry == [owner : Entities, by : Allocations \cup {None}, status : Statuses]
<1> USE DEF Goto
<1>1. m \in Callers /\ m \notin Allocations
  BY Zenon, AllocationAssumption DEF Callers
<1>2. /\ GenerateToken(<<>>) \in Token
      /\ GenerateToken(StatusOf(entries)) \in Token
      /\ \A I : GenerateToken(StatusOf(Marked(I, "Revoked"))) \in Token
  <2>1. DOMAIN entries \subseteq Nat /\ Cardinality(DOMAIN entries) \in Nat
    BY Zenon DEF TypeOK, Size
  <2>2. "Revoked" \in Statuses
    BY Zenon DEF Statuses
  <2>3. DOMAIN StatusOf(entries) = DOMAIN entries
    BY ZenonT(40) DEF StatusOf
  <2>4. GenerateToken(StatusOf(entries)) \in Token
    BY ZenonT(40), <2>1, <2>3, TokenType
  <2>5. ASSUME NEW I
        PROVE  GenerateToken(StatusOf(Marked(I, "Revoked"))) \in Token
    BY Zenon, <2>1, <2>2, MarkedFacts, TokenType
  <2> QED
    BY ZenonT(40), <2>4, <2>5, EmptyToken
<1>3. ASSUME NEW p \in {"idle", "updated", "computed", "failed"}, pc' = [pc EXCEPT ![m] = p]
      PROVE  /\ pc' \in [Callers -> {"idle", "starting", "adding", "locking", "inserting",
                                     "inserted", "updated", "computed", "done", "failed"}]
             /\ \A a \in Allocations : pc'[a] = pc[a]
  BY ZenonT(40), <1>1, <1>3 DEF TypeOK, Callers
<1>4. CASE m \in Operators /\ MarkUpdate(m)
  <2>1. PICK s \in Statuses : \E e : entries' = Marked(EntriesOf(e), s)
    BY Zenon, <1>4 DEF MarkUpdate
  <2>2. /\ DOMAIN entries' = DOMAIN entries
        /\ \A i \in DOMAIN entries : /\ entries'[i] \in Entry
                                     /\ entries'[i].by = entries[i].by
                                     /\ entries'[i].owner = entries[i].owner
    BY <2>1, MarkedFacts
  <2>3. pc' = [pc EXCEPT ![m] = "updated"]
        /\ UNCHANGED <<creator, listed, published, allocationVars, markVars>>
    BY ZenonT(40), <1>4 DEF MarkUpdate
  <2> QED
    BY ZenonT(40), <1>3, <2>2, <2>3 DEF TypeOK, ManagerFrame, allocationVars, markVars
<1>5. CASE m \in Operators /\ MarkCompute(m)
  <2>1. snapshot' \in [Operators \cup Revokers -> Token]
    BY ZenonT(40), <1>2, <1>5 DEF MarkCompute, TypeOK
  <2>2. pc' = [pc EXCEPT ![m] = "computed"] \/ pc' = [pc EXCEPT ![m] = "failed"]
    BY Zenon, <1>5 DEF MarkCompute
  <2>3. UNCHANGED <<listVars, allocationVars, target>>
    BY Zenon, <1>5 DEF MarkCompute
  <2> QED
    BY ZenonT(40), <1>3, <2>1, <2>2, <2>3 DEF TypeOK, ManagerFrame, listVars, allocationVars
<1>6. CASE m \in Operators /\ MarkPublish(m)
  <2>1. snapshot' \in [Operators \cup Revokers -> Token] /\ published' \in Token
    BY ZenonT(40), <1>2, <1>6 DEF MarkPublish, TypeOK
  <2>2. pc' = [pc EXCEPT ![m] = "idle"]
        /\ UNCHANGED <<creator, listed, entries, allocationVars, target>>
    BY ZenonT(40), <1>6 DEF MarkPublish
  <2> QED
    BY ZenonT(40), <1>3, <2>1, <2>2 DEF TypeOK, ManagerFrame, allocationVars
<1>7. CASE m \in Operators /\ MarkFails(m)
  <2>1. snapshot' \in [Operators \cup Revokers -> Token]
    BY ZenonT(40), <1>2, <1>7 DEF MarkFails, TypeOK
  <2>2. pc' = [pc EXCEPT ![m] = "failed"] /\ UNCHANGED <<listVars, allocationVars, target>>
    BY ZenonT(40), <1>7 DEF MarkFails
  <2> QED
    BY ZenonT(40), <1>3, <2>1, <2>2 DEF TypeOK, ManagerFrame, listVars, allocationVars
<1>8. CASE m \in Revokers /\ RevokeUpdate(m)
  <2>1. target' \in [Revokers -> SUBSET DOMAIN entries]
    BY ZenonT(40), <1>8 DEF RevokeUpdate, TypeOK
  <2>2. pc' = [pc EXCEPT ![m] = "updated"] /\ UNCHANGED <<listVars, allocationVars, snapshot>>
    BY Zenon, <1>8 DEF RevokeUpdate
  <2> QED
    BY ZenonT(40), <1>3, <2>1, <2>2 DEF TypeOK, ManagerFrame, listVars, allocationVars
<1>9. ASSUME EndRevoke(m), m \in Revokers
      PROVE  /\ snapshot' \in [Operators \cup Revokers -> Token]
             /\ target' \in [Revokers -> SUBSET DOMAIN entries]
             /\ pc' = [pc EXCEPT ![m] = "idle"]
  BY ZenonT(40), <1>2, <1>9 DEF EndRevoke, TypeOK
<1>10. CASE m \in Revokers /\ RevokeCompute(m)
  <2>1. UNCHANGED <<listVars, allocationVars>>
    BY ZenonT(40), <1>10 DEF RevokeCompute
  <2>2. CASE EndRevoke(m)
    BY <1>3, <1>9, <1>10, <2>1, <2>2 DEF TypeOK, ManagerFrame, listVars, allocationVars
  <2>3. CASE ~EndRevoke(m)
    <3>1. /\ snapshot' = [snapshot EXCEPT ![m] = GenerateToken(StatusOf(Marked(target[m], "Revoked")))]
          /\ pc' = [pc EXCEPT ![m] = "computed"]
          /\ UNCHANGED target
      BY ZenonT(40), <1>10, <2>3 DEF RevokeCompute
    <3>2. snapshot' \in [Operators \cup Revokers -> Token]
      BY ZenonT(40), <1>2, <3>1 DEF TypeOK
    <3> QED
      BY ZenonT(40), <1>3, <2>1, <3>1, <3>2 DEF TypeOK, ManagerFrame, listVars, allocationVars
  <2> QED
    BY ZenonT(40), <2>2, <2>3
<1>11. CASE m \in Revokers /\ RevokeCommit(m)
  <2>1. entries' = Marked(target[m], "Revoked") /\ "Revoked" \in Statuses
    BY ZenonT(40), <1>11 DEF RevokeCommit, Statuses
  <2>2. /\ DOMAIN entries' = DOMAIN entries
        /\ \A i \in DOMAIN entries : /\ entries'[i] \in Entry
                                     /\ entries'[i].by = entries[i].by
                                     /\ entries'[i].owner = entries[i].owner
    BY ZenonT(40), <2>1, MarkedFacts
  <2>3. published' \in Token
    BY ZenonT(40), <1>11 DEF RevokeCommit, TypeOK
  <2>4. EndRevoke(m) /\ UNCHANGED <<creator, listed, allocationVars>>
    BY Zenon, <1>11 DEF RevokeCommit
  <2> QED
    BY ZenonT(40), <1>3, <1>9, <1>11, <2>2, <2>3, <2>4 DEF TypeOK, ManagerFrame, allocationVars
<1>12. CASE m \in Revokers /\ RevokeFails(m)
  <2>1. EndRevoke(m) /\ UNCHANGED <<listVars, allocationVars>>
    BY ZenonT(40), <1>12 DEF RevokeFails
  <2> QED
    BY ZenonT(40), <1>3, <1>9, <1>12, <2>1 DEF TypeOK, ManagerFrame, listVars, allocationVars
<1> QED
  BY ZenonT(40), <1>4, <1>5, <1>6, <1>7, <1>8, <1>10, <1>11, <1>12 DEF Mark, Revoke

(* Whatever keeps the entries' owners and the allocations keeps what IInv    *)
(* says of them.                                                           *)
LEMMA ManagerKeepsInv ==
    ASSUME IInv, TypeOK', ManagerFrame
    PROVE  ListInv' /\ AllocationInv' /\ OwnIndex' /\ RetryInv'
<1> USE DEF ManagerFrame, allocationVars
<1>1. Size' = Size
  BY ZenonT(40) DEF Size
<1>2. Inserted' = Inserted
  BY ZenonT(40) DEF Inserted
<1>3. ASSUME NEW a, NEW k
      PROVE  {i \in DOMAIN entries' : i < k /\ entries'[i].by \in Allocations \ {a}}
               = {i \in DOMAIN entries : i < k /\ entries[i].by \in Allocations \ {a}}
  OBVIOUS
<1>4. ListInv'
  BY ZenonT(40), <1>1 DEF IInv, ListInv, TypeOK
<1>5. AllocationInv'
  BY <1>1, <1>2 DEF IInv, AllocationInv
<1>6. OwnIndex'
  BY DEF IInv, OwnIndex
<1>7. RetryInv'
  BY <1>1, <1>3 DEF IInv, RetryInv, OthersBelow
<1> QED
  BY Zenon, <1>4, <1>5, <1>6, <1>7

-----------------------------------------------------------------------------
(* The published list *)

(* The bits of a token are those of the entries that are not active          *)
(* (generate_token_from_entries).                                          *)
LEMMA OnesFacts ==
    ASSUME NEW es
    PROVE  OnesOf(es) = {RevocationBit(i) : i \in {j \in DOMAIN es : es[j].status = "Revoked"}}
                          \cup {SuspensionBit(i) : i \in {j \in DOMAIN es : es[j].status = "Suspended"}}
  BY Zenon DEF OnesOf, GenerateToken, StatusOf

(* An entry that is added is active, and changes no bit (create_entry). *)
LEMMA OnesKept ==
    ASSUME NEW es, NEW fs, DOMAIN es \subseteq DOMAIN fs,
           \A i \in DOMAIN fs : fs[i].status = IF i \in DOMAIN es THEN es[i].status ELSE "Active"
    PROVE  OnesOf(fs) = OnesOf(es)
<1>1. \A x \in {"Revoked", "Suspended"} :
         {j \in DOMAIN fs : fs[j].status = x} = {j \in DOMAIN es : es[j].status = x}
  OBVIOUS
<1> QED
  BY <1>1, OnesFacts, Zenon

(* The token of a list without entries has no bit set                        *)
(* (start_new_list_for_entity).                                            *)
LEMMA NoOnes ==
    ASSUME NEW es, \A i \in DOMAIN es : es[i].status = "Active"
    PROVE  OnesOf(es) = {} /\ GenerateToken(<<>>).ones = {}
<1>1. DOMAIN <<>> = {}
  OBVIOUS
<1>2. GenerateToken(<<>>).ones = {}
  BY Zenon, <1>1 DEF GenerateToken
<1> QED
  BY Zenon, <1>2, OnesFacts

(* What is read at an index from a token with the bits of the entries, of    *)
(* whatever size, is the entry's status, or that the index is beyond it    *)
(* (extract_state_from_token).                                             *)
LEMMA ReadBack ==
    ASSUME TypeOK, NEW token, token.size \in Nat, token.ones = OnesOf(entries),
           NEW i \in DOMAIN entries
    PROVE  ExtractState(token, i) \in {entries[i].status, "IndexOutOfBounds"}
<1>1. i \in Nat /\ DOMAIN entries \subseteq Nat /\ entries[i].status \in Statuses
  BY Zenon DEF TypeOK
<1>2. RevocationBit(i) \in Nat
  BY <1>1, BitLayout, Zenon
<1>3. \A j \in DOMAIN entries :
        /\ RevocationBit(i) = RevocationBit(j) => i = j
        /\ SuspensionBit(i) = SuspensionBit(j) => i = j
        /\ RevocationBit(i) # SuspensionBit(j)
        /\ SuspensionBit(i) # RevocationBit(j)
  BY <1>1, BitsDistinct, Zenon
<1>4. RevocationBit(i) \in token.ones <=> entries[i].status = "Revoked"
  BY ZenonT(40), <1>3, OnesFacts
<1>5. SuspensionBit(i) \in token.ones <=> entries[i].status = "Suspended"
  BY ZenonT(40), <1>3, OnesFacts
<1>6. RevocationBit(i) >= token.size <=> ~(RevocationBit(i) < token.size)
  BY <1>2
<1> QED
  BY ZenonT(40), <1>1, <1>4, <1>5, <1>6 DEF ExtractState, Statuses

(* A sole manager is an operator or a revoker, and nobody else is either. *)
LEMMA SoleManagerFacts ==
    ASSUME SoleManager, NEW m \in Operators \cup Revokers
    PROVE  /\ m \in Operators => Operators = {m} /\ Revokers = {}
           /\ m \in Revokers => Revokers = {m} /\ Operators = {}
  BY ZenonT(40), AllocationAssumption DEF SoleManager

(* An allocation leaves the managers, and the bits of the list, alone        *)
(* (create_entry).                                                         *)
LEMMA AllocatePublishInv ==
    ASSUME IInv, NEW a \in Allocations, Allocate(a)
    PROVE  PublishInv'
<1>1. /\ UNCHANGED <<target, snapshot>>
      /\ \A r \in Operators \cup Revokers : pc'[r] = pc[r]
      /\ UNCHANGED <<entries, published>> \/ CommitEntry(a)
  <2> USE DEF Goto
  <2>0. /\ pc \in [Callers -> {"idle", "starting", "adding", "locking", "inserting", "inserted",
                              "updated", "computed", "done", "failed"}]
        /\ a \notin Operators \cup Revokers
    BY ZenonT(40), AllocationAssumption DEF IInv, TypeOK
  <2>1. CASE FindList(a)
    BY ZenonT(40), <2>0, <2>1 DEF FindList, Callers, listVars, markVars
  <2>2. CASE StartList(a)
    BY ZenonT(40), <2>0, <2>2 DEF StartList, Callers, markVars
  <2>3. CASE ListExists(a)
    BY ZenonT(40), <2>0, <2>3 DEF ListExists, Callers, listVars, markVars
  <2>4. CASE ScanLast(a)
    BY ZenonT(40), <2>0, <2>4 DEF ScanLast, Callers, listVars, markVars
  <2>5. CASE LockLast(a)
    BY ZenonT(40), <2>0, <2>5 DEF LockLast, Callers, listVars, markVars
  <2>6. CASE InsertEntry(a)
    BY ZenonT(40), <2>0, <2>6 DEF InsertEntry, Callers, listVars, markVars
  <2>7. CASE IndexTaken(a)
    BY ZenonT(40), <2>0, <2>7 DEF IndexTaken, Callers, listVars, markVars
  <2>8. CASE CommitEntry(a)
    BY ZenonT(40), <2>0, <2>8 DEF CommitEntry, Callers, markVars
  <2>9. CASE AbandonEntry(a)
    BY ZenonT(40), <2>0, <2>9 DEF AbandonEntry, Callers, markVars
  <2> QED
    BY <2>1, <2>2, <2>3, <2>4, <2>5, <2>6, <2>7, <2>8, <2>9 DEF Allocate, Proceed
<1>2. CASE UNCHANGED <<entries, published>>
  BY ZenonT(40), <1>1, <1>2 DEF IInv, PublishInv, Marked
<1>3. CASE CommitEntry(a)
  <2>1. /\ Size \notin DOMAIN entries /\ DOMAIN entries' = DOMAIN entries \cup {Size}
        /\ entries'[Size].status = "Active"
        /\ \A i \in DOMAIN entries : entries'[i] = entries[i]
    <3>1. /\ Size \in Nat /\ Size \notin DOMAIN entries /\ DOMAIN entries' = 0 .. Size
          /\ entries'[Size] = [owner |-> entity[a], by |-> a, status |-> "Active"]
          /\ \A i \in DOMAIN entries : entries'[i] = entries[i]
      BY <1>3, CommitFacts, Zenon
    <3>2. DOMAIN entries = 0 .. Size - 1
      BY ZenonT(40) DEF IInv, ListInv
    <3> QED
      BY <3>1, <3>2
  <2>2. OnesOf(entries') = OnesOf(entries)
    BY ZenonT(40), <2>1, OnesKept
  <2>3. ASSUME NEW v \in Revokers
        PROVE  OnesOf(Marked(target[v], "Revoked")') = OnesOf(Marked(target[v], "Revoked"))
    <3>1. target[v] \subseteq DOMAIN entries /\ target'[v] = target[v]
      BY ZenonT(40), <1>1 DEF IInv, TypeOK
    <3> DEFINE es == Marked(target[v], "Revoked")
               fs == Marked(target[v], "Revoked")'
    <3>2. DOMAIN es = DOMAIN entries /\ DOMAIN fs = DOMAIN entries'
      BY ZenonT(40) DEF Marked
    <3>3. \A i \in DOMAIN entries : fs[i] = es[i]
      BY ZenonT(40), <2>1, <3>1 DEF Marked
    <3>4. fs[Size].status = "Active"
      BY ZenonT(40), <2>1, <3>1 DEF Marked
    <3> HIDE DEF es, fs
    <3>5. OnesOf(fs) = OnesOf(es)
      BY ZenonT(40), <2>1, <3>2, <3>3, <3>4, OnesKept
    <3> QED
      BY ZenonT(40), <3>5 DEF es, fs
  <2>4. published' = published \/ (published'.ones = {} /\ OnesOf(entries') = {})
    <3>1. CASE creator = a
      <4>1. pc[a] = "inserted" /\ creator # None
        BY ZenonT(40), <1>3, <3>1, AllocationAssumption DEF CommitEntry
      <4>2. Size = 0 /\ DOMAIN entries = {}
        BY <3>1, <4>1 DEF IInv, ListInv
      <4>3. published' = GenerateToken(<<>>)
        BY ZenonT(40), <1>3, <3>1 DEF CommitEntry
      <4>4. \A i \in DOMAIN entries' : entries'[i].status = "Active"
        BY ZenonT(40), <2>1, <4>2
      <4> QED
        BY ZenonT(40), <4>3, <4>4, NoOnes
    <3>2. CASE creator # a
      BY ZenonT(40), <1>3, <3>2 DEF CommitEntry
    <3> QED
      BY ZenonT(40), <3>1, <3>2
  <2>5. IInv => PublishInv
    BY ZenonT(40) DEF IInv
  <2> QED
    BY ZenonT(40), <1>1, <2>2, <2>3, <2>4, <2>5 DEF PublishInv
<1> QED
  BY ZenonT(40), <1>1, <1>2, <1>3

(* What a sole operator computes from the entries and publishes has their    *)
(* bits (mark_credential_as).                                              *)
LEMMA MarkPublishInv ==
    ASSUME IInv, NEW o \in Operators, Mark(o)
    PROVE  PublishInv'
<1> SUFFICES ASSUME SoleManager
             PROVE  /\ (\A p \in Operators : pc'[p] = "idle") => published'.ones = OnesOf(entries')
                    /\ \A p \in Operators : pc'[p] = "computed" => snapshot'[p].ones = OnesOf(entries')
                    /\ \A v \in Revokers : pc'[v] = "computed"
                          => snapshot'[v].ones = OnesOf(Marked(target[v], "Revoked")')
  BY ZenonT(40) DEF PublishInv, SoleManager
<1>1. Operators = {o} /\ Revokers = {}
  BY ZenonT(40), SoleManagerFacts
<1>2. o \in DOMAIN pc /\ o \in DOMAIN snapshot
  BY ZenonT(40) DEF IInv, TypeOK, Callers
<1>3. pc[o] = "computed" => snapshot[o].ones = OnesOf(entries)
  BY ZenonT(40) DEF IInv, PublishInv
<1>4. CASE MarkUpdate(o)
  BY ZenonT(40), <1>1, <1>2, <1>4 DEF MarkUpdate, Goto
<1>5. CASE MarkCompute(o)
  <2>1. entries' = entries
    BY ZenonT(40), <1>5 DEF MarkCompute, listVars
  <2>2. pc'[o] = "failed" \/ (pc'[o] = "computed" /\ snapshot'[o] = GenerateToken(StatusOf(entries)))
    BY ZenonT(40), <1>2, <1>5 DEF MarkCompute, Goto
  <2> QED
    BY ZenonT(40), <1>1, <2>1, <2>2 DEF OnesOf
<1>6. CASE MarkPublish(o)
  <2>1. pc[o] = "computed" /\ pc'[o] = "idle" /\ published' = snapshot[o] /\ entries' = entries
    BY ZenonT(40), <1>2, <1>6 DEF MarkPublish, Goto
  <2> QED
    BY ZenonT(40), <1>1, <1>3, <2>1
<1>7. CASE MarkFails(o)
  <2>1. pc'[o] = "failed"
    BY ZenonT(40), <1>2, <1>7 DEF MarkFails, Goto
  <2> QED
    BY ZenonT(40), <1>1, <2>1
<1> QED
  BY ZenonT(40), <1>4, <1>5, <1>6, <1>7 DEF Mark

(* What a sole revoker computes has the bits of the entries it commits with  *)
(* it (revoke_signature, update_attestation_entries).                      *)
LEMMA RevokePublishInv ==
    ASSUME IInv, NEW v \in Revokers, Revoke(v)
    PROVE  PublishInv'
<1> SUFFICES ASSUME SoleManager
             PROVE  /\ published'.ones = OnesOf(entries')
                    /\ pc'[v] = "computed" => snapshot'[v].ones = OnesOf(Marked(target[v], "Revoked")')
  BY ZenonT(40), SoleManagerFacts DEF PublishInv, SoleManager
<1>1. Revokers = {v} /\ Operators = {}
  BY ZenonT(40), SoleManagerFacts
<1>2. v \in DOMAIN pc /\ v \in DOMAIN snapshot /\ v \in DOMAIN target
  BY ZenonT(40) DEF IInv, TypeOK, Callers
<1>3. /\ published.ones = OnesOf(entries)
      /\ pc[v] = "computed" => snapshot[v].ones = OnesOf(Marked(target[v], "Revoked"))
  BY ZenonT(40), <1>1 DEF IInv, PublishInv
<1>4. ASSUME EndRevoke(v)
      PROVE  pc'[v] = "idle"
  BY ZenonT(40), <1>2, <1>4 DEF EndRevoke, Goto
<1>5. CASE RevokeUpdate(v)
  <2>1. pc'[v] = "updated" /\ UNCHANGED <<entries, published>>
    BY ZenonT(40), <1>2, <1>5 DEF RevokeUpdate, Goto, listVars
  <2> QED
    BY ZenonT(40), <1>3, <2>1
<1>6. CASE RevokeCompute(v)
  <2>1. UNCHANGED <<entries, published>>
    BY ZenonT(40), <1>6 DEF RevokeCompute, listVars
  <2>2. CASE EndRevoke(v)
    BY ZenonT(40), <1>3, <1>4, <2>1, <2>2
  <2>3. CASE ~EndRevoke(v)
    <3>1. /\ snapshot' = [snapshot EXCEPT ![v] = GenerateToken(StatusOf(Marked(target[v], "Revoked")))]
          /\ UNCHANGED target
      BY ZenonT(40), <1>6, <2>3 DEF RevokeCompute
    <3>2. snapshot'[v].ones = OnesOf(Marked(target[v], "Revoked"))
      BY ZenonT(40), <1>2, <3>1 DEF OnesOf
    <3>3. Marked(target[v], "Revoked")' = Marked(target[v], "Revoked")
      BY ZenonT(40), <2>1, <3>1 DEF Marked
    <3> QED
      BY ZenonT(40), <1>3, <2>1, <3>2, <3>3
  <2> QED
    BY ZenonT(40), <2>2, <2>3
<1>7. CASE RevokeCommit(v)
  <2>1. /\ pc[v] = "computed" /\ EndRevoke(v)
        /\ entries' = Marked(target[v], "Revoked") /\ published' = snapshot[v]
    BY ZenonT(40), <1>7 DEF RevokeCommit
  <2> QED
    BY ZenonT(40), <1>3, <1>4, <2>1
<1>8. CASE RevokeFails(v)
  <2>1. EndRevoke(v) /\ UNCHANGED <<entries, published>>
    BY ZenonT(40), <1>8 DEF RevokeFails, listVars
  <2> QED
    BY ZenonT(40), <1>3, <1>4, <2>1
<1> QED
  BY ZenonT(40), <1>5, <1>6, <1>7, <1>8 DEF Revoke

-----------------------------------------------------------------------------
(* The theorems *)

(* A list as it is found satisfies the invariant. *)
LEMMA InitIInv == Init => IInv
<1> SUFFICES ASSUME Init
             PROVE  IInv
  OBVIOUS
<1>0. PICK owner \in [0 .. Earlier - 1 -> Entities] :
         entries = [i \in 0 .. Earlier - 1 |-> [owner |-> owner[i], by |-> None, status |-> "Active"]]
  BY ZenonT(40) DEF Init
<1>1. DOMAIN entries = 0 .. Earlier - 1 /\ \A i \in DOMAIN entries : entries[i].by = None
  BY ZenonT(40), <1>0
<1>2. Size = Earlier
  BY <1>1, SizeAssumption, FS_Interval DEF Size
<1>3. TypeOK
  <2>1. DOMAIN entries \subseteq Nat
    BY <1>1, SizeAssumption
  <2>2. \A i \in DOMAIN entries :
           entries[i] \in [owner : Entities, by : Allocations \cup {None}, status : Statuses]
    BY Zenon, <1>0 DEF Statuses
  <2>3. listed \in BOOLEAN
    BY DEF Init
  <2> QED
    BY ZenonT(40), <2>1, <2>2, <2>3, EmptyToken DEF Init, TypeOK
<1>4. ListInv
  <2>1. \A i \in DOMAIN entries : ~(Earlier <= i)
    BY <1>1, SizeAssumption
  <2>2. ~listed => Earlier = 0
    <3>1. listed = (Earlier > 0)
      BY Zenon DEF Init
    <3>2. ~listed => ~(Earlier > 0)
      BY <3>1, Zenon
    <3>3. ~(Earlier > 0) => Earlier = 0
      BY SizeAssumption
    <3> QED
      BY ZenonT(40), <3>2, <3>3
  <2>3. creator = None
    BY ZenonT(40) DEF Init
  <2> QED
    BY <1>1, <1>2, <2>1, <2>2, <2>3, SizeAssumption DEF ListInv
<1>5. AllocationInv /\ OwnIndex
  BY <1>1, AllocationAssumption DEF Init, AllocationInv, OwnIndex, Callers, Inserted
<1>6. RetryInv
  <2>1. \A a \in Allocations : retries[a] = 0 /\ pc[a] = "idle"
    BY Zenon DEF Init, Callers
  <2>2. \A a \in Allocations : Cardinality(OthersBelow(a, Size)) \in Nat
    BY SMTT(40), <1>4, OthersMonotone DEF ListInv
  <2>3. ASSUME NEW a \in Allocations
        PROVE  retries[a] <= Cardinality(OthersBelow(a,
                  IF pc[a] \in {"locking", "inserting"} THEN index[a] ELSE Size))
    <3>1. retries[a] = 0 /\ pc[a] \notin {"locking", "inserting"}
      BY Zenon, <2>1
    <3>2. Cardinality(OthersBelow(a, Size)) >= 0
      BY <2>2
    <3> QED
      BY ZenonT(40), <3>1, <3>2
  <2> QED
    BY ZenonT(40), <2>3 DEF RetryInv
<1>7. PublishInv
  <2>1. published.ones = OnesOf(entries)
    BY Zenon, <1>0, NoOnes DEF Init
  <2>2. \A r \in Operators \cup Revokers : pc[r] = "idle"
    BY Zenon DEF Init, Callers
  <2> QED
    BY Zenon, <2>1, <2>2 DEF PublishInv
<1> QED
  BY ZenonT(40), <1>3, <1>4, <1>5, <1>6, <1>7 DEF IInv

(* Every step preserves the invariant. *)
LEMMA NextIInv == IInv /\ [Next]_vars => IInv'
<1> SUFFICES ASSUME IInv, [Next]_vars
             PROVE  IInv'
  OBVIOUS
<1>1. CASE UNCHANGED vars
  <2>1. ManagerFrame /\ TypeOK'
    BY ZenonT(40), <1>1 DEF vars, listVars, allocationVars, markVars, ManagerFrame, IInv, TypeOK
  <2>2. PublishInv'
    BY <1>1 DEF vars, listVars, markVars, IInv, PublishInv, Marked
  <2> QED
    BY ZenonT(40), <2>1, <2>2, ManagerKeepsInv DEF IInv
<1>2. ASSUME NEW a \in Allocations, Allocate(a)
      PROVE  IInv'
  BY SMTT(40), <1>2, AllocateTypeOK, AllocateListInv, AllocateAllocationInv, AllocateOwnIndex,
     AllocateRetryInv, AllocatePublishInv DEF IInv
<1>3. ASSUME NEW m \in Operators \cup Revokers,
             (m \in Operators /\ Mark(m)) \/ (m \in Revokers /\ Revoke(m))
      PROVE  IInv'
  <2>1. TypeOK' /\ ManagerFrame
    BY ZenonT(40), <1>3, ManagerStep DEF IInv, ListInv
  <2>2. PublishInv'
    BY ZenonT(40), <1>3, MarkPublishInv, RevokePublishInv
  <2> QED
    BY ZenonT(40), <2>1, <2>2, ManagerKeepsInv DEF IInv
<1> QED
  BY Zenon, <1>1, <1>2, <1>3 DEF Next

(* The inductive invariant holds for any number of allocations, operators,   *)
(* revokers and entries (create_entry, add_entity_to_list).                *)
THEOREM StatusListInvariance == Spec => []IInv
<1> QED
  BY InitIInv, NextIInv, PTL DEF Spec

(* The rows, the callers and the computed lists keep their types. *)
THEOREM TypeCorrect == Spec => []TypeOK
<1>1. IInv => TypeOK
  BY ZenonT(40) DEF IInv
<1> QED
  BY <1>1, StatusListInvariance, PTL

(* With one caller that changes statuses, and any number of allocations      *)
(* beside it, the published list tells every status it has room for, on a  *)
(* list of any length (mark_credential_as, revoke_signature,               *)
(* update_attestation_entries).                                            *)
THEOREM PublishedCurrent == Spec => []PublishedIsCurrent
<1>1. IInv => PublishedIsCurrent
  <2> SUFFICES ASSUME IInv, SoleManager, \A r \in Operators \cup Revokers : pc[r] = "idle",
                      NEW i \in DOMAIN entries
               PROVE  ExtractState(published, i) \in {entries[i].status, "IndexOutOfBounds"}
    BY ZenonT(40) DEF PublishedIsCurrent
  <2>1. published.ones = OnesOf(entries)
    BY ZenonT(40) DEF IInv, PublishInv
  <2>2. TypeOK /\ published.size \in Nat
    BY ZenonT(40) DEF IInv, TypeOK
  <2> QED
    BY ZenonT(40), <2>1, <2>2, ReadBack
<1> QED
  BY <1>1, StatusListInvariance, PTL

(* An index that was handed out is that of the allocation's own entry        *)
(* (create_entry).                                                         *)
THEOREM IndexIsOwn == Spec => []OwnIndex
<1>1. IInv => OwnIndex
  BY ZenonT(40) DEF IInv
<1> QED
  BY <1>1, StatusListInvariance, PTL

(* The token has room for every entry up to the minimum, and whenever the    *)
(* last byte is full (generate_token).                                     *)
THEOREM RoomUpToMinimum == Spec => []TokenHasRoom
<1>1. IInv => TokenHasRoom
  <2> SUFFICES ASSUME IInv, Size <= MinimumInputSize \/ Size % 4 = 0, NEW i \in DOMAIN entries
               PROVE  RevocationBit(i) < TokenSize(Size)
    BY ZenonT(40) DEF TokenHasRoom, Size
  <2>1. Size \in Nat /\ i \in 0 .. Size - 1
    BY ZenonT(40) DEF IInv, ListInv
  <2> QED
    BY ZenonT(40), <2>1, RoomForEntries
<1> QED
  BY <1>1, StatusListInvariance, PTL

(* A verifier reads every status from a token that was computed              *)
(* (extract_state_from_token).                                             *)
THEOREM StatusesReadBack == Spec => []RoundTrip
<1>1. IInv => RoundTrip
  <2> SUFFICES ASSUME IInv, NEW i \in DOMAIN entries
               PROVE  ExtractState(GenerateToken(StatusOf(entries)), i) = entries[i].status
    BY ZenonT(40) DEF RoundTrip
  <2>1. Size \in Nat /\ DOMAIN entries = 0 .. Size - 1
    BY ZenonT(40) DEF IInv, ListInv
  <2>2. StatusOf(entries) \in [0 .. Size - 1 -> Statuses] /\ StatusOf(entries)[i] = entries[i].status
    BY ZenonT(40), <2>1 DEF StatusOf, IInv, TypeOK
  <2> QED
    BY ZenonT(40), <2>1, <2>2, CodecRoundTrip
<1> QED
  BY <1>1, StatusListInvariance, PTL

(* Retries are caused by commits of other allocations only                   *)
(* (add_entity_to_list).                                                   *)
THEOREM RetriesBounded == Spec => []RetriesPaidFor
<1>1. IInv => RetriesPaidFor
  <2> SUFFICES ASSUME IInv, NEW a \in Allocations
               PROVE  retries[a] <= Cardinality({i \in DOMAIN entries : entries[i].by \in Allocations \ {a}})
    BY ZenonT(40) DEF RetriesPaidFor
  <2>0. ListInv /\ AllocationInv /\ TypeOK
    BY ZenonT(40) DEF IInv
  <2>1. Size \in Nat /\ RetryBound(a) \in Nat /\ RetryBound(a) <= Size
    BY <2>0, SizeAssumption DEF ListInv, AllocationInv, RetryBound
  <2>2. OthersBelow(a, Size) = {i \in DOMAIN entries : entries[i].by \in Allocations \ {a}}
    BY <2>0, <2>1 DEF OthersBelow, ListInv
  <2>3. retries[a] <= Cardinality(OthersBelow(a, RetryBound(a))) /\ retries[a] \in Nat
    BY Zenon, <2>0 DEF IInv, RetryInv, RetryBound, TypeOK
  <2>4. /\ Cardinality(OthersBelow(a, RetryBound(a))) <= Cardinality(OthersBelow(a, Size))
        /\ Cardinality(OthersBelow(a, RetryBound(a))) \in Nat
        /\ Cardinality(OthersBelow(a, Size)) \in Nat
    BY Zenon, <2>0, <2>1, OthersMonotone
  <2>5. retries[a] <= Cardinality(OthersBelow(a, Size))
    BY <2>3, <2>4
  <2> QED
    BY ZenonT(40), <2>2, <2>5
<1> QED
  BY <1>1, StatusListInvariance, PTL

-----------------------------------------------------------------------------
(* The contract *)

(* Owners is a sequence (AppendsOnly's refinement mapping). *)
LEMMA OwnersSeq ==
    ASSUME IInv
    PROVE  /\ Owners \in Seq(Entities) /\ Len(Owners) = Size
           /\ \A n \in 1 .. Size : n - 1 \in DOMAIN entries /\ Owners[n] = entries[n - 1].owner
<1>1. Size \in Nat /\ DOMAIN entries = 0 .. Size - 1
  BY Zenon DEF IInv, ListInv
<1>2. \A n \in 1 .. Size : n - 1 \in DOMAIN entries /\ entries[n - 1].owner \in Entities
  <2>1. \A n \in 1 .. Size : n - 1 \in DOMAIN entries
    BY <1>1
  <2>2. \A i \in DOMAIN entries : entries[i].owner \in Entities
    BY Zenon DEF IInv, TypeOK
  <2> QED
    BY Zenon, <2>1, <2>2
<1>3. Owners = [n \in 1 .. Size |-> entries[n - 1].owner]
  BY Zenon DEF Owners, Size
<1>4. Owners \in [1 .. Size -> Entities]
  BY Zenon, <1>2, <1>3
<1>5. Owners \in Seq(Entities) /\ Len(Owners) = Size
  BY <1>1, <1>4
<1> QED
  BY Zenon, <1>2, <1>3, <1>5

(* Every step appends an owner or changes none (create_entry). *)
LEMMA NextAppends == IInv /\ IInv' /\ [Next]_vars => [Contract!Next]_Owners
<1> SUFFICES ASSUME IInv, IInv', [Next]_vars
             PROVE  Contract!Next \/ Owners' = Owners
  OBVIOUS
<1>1. ASSUME NEW a \in Allocations, CommitEntry(a)
      PROVE  Contract!Next
  <2>1. /\ Size \in Nat /\ Size' = Size + 1 /\ DOMAIN entries = 0 .. Size - 1
        /\ entries'[Size].owner = entity[a] /\ entity[a] \in Entities
        /\ \A i \in DOMAIN entries : entries'[i] = entries[i]
    <3>1. /\ entries'[Size] = [owner |-> entity[a], by |-> a, status |-> "Active"]
          /\ Size \in Nat /\ Size' = Size + 1 /\ entity[a] \in Entities
          /\ \A i \in DOMAIN entries : entries'[i] = entries[i]
      BY ZenonT(40), <1>1, CommitFacts
    <3>2. DOMAIN entries = 0 .. Size - 1
      BY Zenon DEF IInv, ListInv
    <3> QED
      BY <3>1, <3>2
  <2>2. Owners = [n \in 1 .. Size |-> entries[n - 1].owner]
    BY Zenon DEF Owners, Size
  <2>3. Owners' = [n \in 1 .. Size + 1 |-> entries'[n - 1].owner]
    BY Zenon, <2>1 DEF Owners, Size
  <2>4. Len(Owners) = Size /\ Owners \in Seq(Entities)
    BY Zenon, OwnersSeq
  <2>5. \A n \in 1 .. Size + 1 : entries'[n - 1].owner = IF n = Size + 1 THEN entity[a] ELSE Owners[n]
    BY <2>1, <2>2
  <2>6. Append(Owners, entity[a]) = [n \in 1 .. Size + 1 |-> IF n = Size + 1 THEN entity[a] ELSE Owners[n]]
    BY <2>1, <2>4
  <2>7. Owners' = Append(Owners, entity[a])
    BY Zenon, <2>3, <2>5, <2>6
  <2> QED
    BY Zenon, <2>1, <2>7 DEF Contract!Next, Contract!Allocate
<1>2. ASSUME DOMAIN entries' = DOMAIN entries,
             \A i \in DOMAIN entries : entries'[i].owner = entries[i].owner
      PROVE  Owners' = Owners
  <2>1. Size' = Size /\ Size \in Nat /\ DOMAIN entries = 0 .. Size - 1
    BY Zenon, <1>2 DEF Size, IInv, ListInv
  <2>2. \A n \in 1 .. Size : entries'[n - 1].owner = entries[n - 1].owner
    BY <1>2, <2>1
  <2> QED
    BY Zenon, <2>1, <2>2 DEF Owners, Size
<1>3. ASSUME NEW a \in Allocations, Allocate(a), ~CommitEntry(a)
      PROVE  Owners' = Owners
  BY ZenonT(40), <1>2, <1>3, AllocateFrame DEF IInv
<1>4. ASSUME NEW m \in Operators \cup Revokers,
             (m \in Operators /\ Mark(m)) \/ (m \in Revokers /\ Revoke(m))
      PROVE  Owners' = Owners
  BY ZenonT(40), <1>2, <1>4, ManagerStep DEF ManagerFrame, IInv, ListInv
<1>5. CASE UNCHANGED vars
  BY ZenonT(40), <1>2, <1>5 DEF vars, listVars
<1> QED
  BY ZenonT(40), <1>1, <1>3, <1>4, <1>5 DEF Next

(* The list of owners only grows at its end, for any number of allocations   *)
(* that race, retry and roll back (next_free_index, create_entry).         *)
THEOREM AllocationAppends == Spec => AppendsOnly
<1>1. Init => Contract!Init
  BY Zenon, InitIInv, OwnersSeq DEF Contract!Init
<1> QED
  BY <1>1, StatusListInvariance, NextAppends, PTL DEF Spec, AppendsOnly, Contract!Spec

============================================================================
