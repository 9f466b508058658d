--------------------------- MODULE MemoryStoreProofs ---------------------------
(***************************************************************************)
(* Proofs about MemoryStore, for every value of its constants.             *)
(***************************************************************************)
EXTENDS MemoryStore, FiniteSetTheorems, TLAPS

(* The types of the three tables, which an audited transaction keeps.      *)
ItemTable == [ItemIds -> ItemRow \union {Absent}]
ConflictTable == [ConflictIds -> ConflictRow \union {Absent}]

-----------------------------------------------------------------------------
(* Lemmas about the building blocks of the actions                         *)

(* An event's images of two tables of rows are images.                     *)
LEMMA DiffType ==
    ASSUME NEW Ids, NEW Row,
           NEW old \in [Ids -> Row \union {Absent}], NEW new \in [Ids -> Row \union {Absent}]
    PROVE  Diff(old, new) \in Images(Ids, Row)
  BY DEF Diff, Images, Image

(* A transaction that is given typed tables leaves typed tables and a log. *)
LEMMA CommitType ==
    ASSUME TypeOK, NEW its \in ItemTable, NEW evs \in SUBSET Evidence,
           NEW cfs \in ConflictTable, NEW rev \in BOOLEAN,
           Commit(its, evs, cfs, rev)
    PROVE  /\ items' \in ItemTable
           /\ evidence' \in SUBSET Evidence
           /\ conflicts' \in ConflictTable
           /\ log' \in Seq(Event)
<1>1. Diff(items, its) \in Images(ItemIds, ItemRow)
  BY DiffType DEF TypeOK, ItemTable
<1>2. Diff(conflicts, cfs) \in Images(ConflictIds, ConflictRow)
  BY DiffType DEF TypeOK, ConflictTable
<1>3. [reversible |-> rev, undone |-> 0, items |-> Diff(items, its),
       conflicts |-> Diff(conflicts, cfs), evidence |-> evs \ evidence] \in Event
  BY <1>1, <1>2 DEF Event
<1>4. log \in Seq(Event)
  BY DEF TypeOK
<1>5. QED
  BY <1>3, <1>4 DEF Commit

(* A row that is present has its type.                                     *)
LEMMA PresentRow ==
    ASSUME TypeOK, NEW i \in ItemIds, Present(items, i)
    PROVE  items[i] \in ItemRow
  BY DEF TypeOK, Present
(* A conflict that is present has its type.                                *)
LEMMA PresentConflict ==
    ASSUME TypeOK, NEW c \in ConflictIds, Present(conflicts, c)
    PROVE  conflicts[c] \in ConflictRow
  BY DEF TypeOK, Present

(* Giving a present candidate another status keeps the table's type.       *)
LEMMA StatusChange ==
    ASSUME TypeOK, NEW i \in ItemIds, Present(items, i), NEW s \in Statuses
    PROVE  [items EXCEPT ![i].status = s] \in ItemTable
  BY PresentRow DEF TypeOK, ItemTable, ItemRow

(* Rebuilding search rows indexes memory ids.                              *)
LEMMA RebuildType ==
    ASSUME TypeOK, NEW S, NEW cat, Rebuild(S, cat)
    PROVE  search' \in [Subjects -> SUBSET ItemIds]
  BY DEF TypeOK, Rebuild, Indexable

(* A process that moves to a typed stage leaves the stages typed.          *)
LEMMA MoveToType ==
    ASSUME TypeOK, NEW w \in Workers, NEW st \in Stage, MoveTo(w, st)
    PROVE  stage' \in [Workers -> Stage]
  BY DEF TypeOK, MoveTo
(* So does one that becomes idle.                                          *)
LEMMA MoveToIdle ==
    ASSUME TypeOK, NEW w \in Workers, MoveTo(w, Idle)
    PROVE  stage' \in [Workers -> Stage]
  BY DEF TypeOK, MoveTo, Stage

(* What a process holds follows from what it is doing.                     *)
LEMMA StageFields ==
    ASSUME NEW st \in Stage
    PROVE  /\ st.op = "propose" => st.prop \in Proposals
           /\ st.op \in {"refresh", "refreshed", "apply"} => st.item \in ItemIds
           /\ st.op = "verify" => st.item \in ItemIds /\ st.method \in Methods
           /\ st.op = "contest" =>
                /\ st.item \in ItemIds /\ st.from \in {"pending", "verified"}
                /\ st.reason \in {"ha_subject_missing", "ha_canonical_mismatch"}
           /\ st.op = "resolve" => st.conflict \in ConflictIds /\ st.winner \in Winners
  BY DEF Stage, Idle

(* Opening a conflict keeps the tables typed.                              *)
LEMMA OpenConflictType ==
    ASSUME TypeOK, NEW its \in ItemTable, NEW i \in ItemIds, Present(items, i),
           NEW j \in ItemIds \union {0}, NEW reason \in Reasons,
           OpenConflict(its, j, i, reason)
    PROVE  /\ items' \in ItemTable
           /\ evidence' \in SUBSET Evidence
           /\ conflicts' \in ConflictTable
           /\ log' \in Seq(Event)
<1> DEFINE row == [subject |-> items[i].prop.subject, existing |-> j, candidate |-> i,
                   reason |-> reason, status |-> "open"]
<1>1. row \in ConflictRow
  <2>1. items[i].prop \in Proposals
    BY PresentRow DEF ItemRow
  <2>2. items[i].prop.subject \in Subjects
    BY <2>1, ConstantsAssumption DEF Proposal
  <2>3. QED
    BY <2>2 DEF ConflictRow
<1>2. PICK k \in ConflictIds :
        Commit(its, evidence, IF \E c \in ConflictIds : conflicts[c] = row THEN conflicts
                              ELSE [conflicts EXCEPT ![k] = row], TRUE)
  BY DEF OpenConflict
<1>3. conflicts \in ConflictTable /\ [conflicts EXCEPT ![k] = row] \in ConflictTable
  BY <1>1 DEF TypeOK, ConflictTable
<1>4. (IF \E c \in ConflictIds : conflicts[c] = row THEN conflicts
       ELSE [conflicts EXCEPT ![k] = row]) \in ConflictTable
  BY <1>3
<1>5. QED
  BY <1>2, <1>4, CommitType DEF TypeOK

-----------------------------------------------------------------------------
(* Type correctness                                                        *)

(* An empty database is typed.                                             *)
LEMMA InitType == Init => TypeOK
  BY ConstantsAssumption DEF Init, TypeOK, Stage

(* Replacing the catalog, alone or as the refresh of a verification.       *)
LEMMA ReplaceType ==
    ASSUME TypeOK, NEW cat \in Catalogs, Replace(cat)
    PROVE  /\ items' \in ItemTable
           /\ evidence' \in SUBSET Evidence
           /\ conflicts' \in ConflictTable
           /\ log' \in Seq(Event)
           /\ catalog' \in Catalogs
           /\ search' \in [Subjects -> SUBSET ItemIds]
<1>1. catalog' \in Catalogs
  BY DEF Replace
<1>2. search' \in [Subjects -> SUBSET ItemIds]
  BY RebuildType DEF Replace, TypeOK
<1>3. PICK top \in ConflictIds \union {0} :
        IF Reconciled(cat, top) = conflicts
        THEN UNCHANGED <<items, evidence, conflicts, log>>
        ELSE Commit(items, evidence, Reconciled(cat, top), FALSE)
  BY DEF Replace
<1>4. CASE Reconciled(cat, top) = conflicts
  BY <1>1, <1>2, <1>3, <1>4 DEF TypeOK, ItemTable, ConflictTable
<1>5. CASE Reconciled(cat, top) # conflicts
  <2> DEFINE new == NewlyContested(cat)
             Id(i) == top + Cardinality({j \in new : j <= i})
             Row(i) == [subject |-> items[i].prop.subject, existing |-> i, candidate |-> 0,
                        reason |-> Complaint(cat, i), status |-> "open"]
             Pick(c) == CHOOSE i \in new : Id(i) = c
  <2>1. \A i \in new : Row(i) \in ConflictRow
    <3> SUFFICES ASSUME NEW i \in new PROVE Row(i) \in ConflictRow
      OBVIOUS
    <3>1. i \in ItemIds /\ Present(items, i)
      BY DEF NewlyContested, HasStatus
    <3>2. items[i].prop \in Proposals
      BY <3>1, PresentRow DEF ItemRow
    <3>3. items[i].prop.subject \in Subjects
      BY <3>2, ConstantsAssumption DEF Proposal
    <3>4. Complaint(cat, i) # "none"
      BY DEF NewlyContested
    <3>5. Complaint(cat, i) \in Reasons
      BY <3>4 DEF Complaint, Reasons, HaReasons, CatalogReasons
    <3>6. QED
      BY <3>1, <3>3, <3>5 DEF ConflictRow
  <2>2. \A c \in ConflictIds :
          IsRestored(cat, c) => [conflicts[c] EXCEPT !.status = "resolved"] \in ConflictRow
    BY PresentConflict DEF IsRestored, IsOpen, ConflictRow
  <2>3. \A c \in ConflictIds : (\E i \in new : Id(i) = c) => Row(Pick(c)) \in ConflictRow
    <3> SUFFICES ASSUME NEW c \in ConflictIds, \E i \in new : Id(i) = c
                 PROVE Row(Pick(c)) \in ConflictRow
      OBVIOUS
    <3> HIDE DEF Id, Row
    <3>1. Pick(c) \in new
      OBVIOUS
    <3>2. QED
      BY <3>1, <2>1
  <2>4. Reconciled(cat, top)
          = [c \in ConflictIds |-> IF \E i \in new : Id(i) = c THEN Row(Pick(c))
                                   ELSE IF IsRestored(cat, c)
                                        THEN [conflicts[c] EXCEPT !.status = "resolved"]
                                        ELSE conflicts[c]]
    BY DEF Reconciled
  <2>5. Reconciled(cat, top) \in ConflictTable
    <3> HIDE DEF new, Id, Row, Pick
    <3>1. QED
      BY <2>2, <2>3, <2>4 DEF TypeOK, ConflictTable
  <2>6. Commit(items, evidence, Reconciled(cat, top), FALSE)
    BY <1>3, <1>5
  <2>7. items \in ItemTable /\ evidence \in SUBSET Evidence
    BY DEF TypeOK, ItemTable
  <2>8. QED
    BY <1>1, <1>2, <2>5, <2>6, <2>7, CommitType
<1>6. QED
  BY <1>4, <1>5

(* A proposal stores a typed candidate and its first evidence.             *)
LEMMA CommitProposeType ==
    ASSUME TypeOK, NEW w \in Workers, CommitPropose(w) PROVE TypeOK'
<1>1. stage[w].prop \in Proposals
  BY StageFields DEF TypeOK, CommitPropose
<1> DEFINE p == stage[w].prop
<1>2. PICK i \in ItemIds :
        Commit([items EXCEPT ![i] = [prop |-> p, status |-> "pending",
                                     method |-> "none", supersedes |-> 0]],
               evidence \union {InitialEvidence(i, p)}, conflicts, TRUE)
  BY DEF CommitPropose
<1>3. [items EXCEPT ![i] = [prop |-> p, status |-> "pending",
                            method |-> "none", supersedes |-> 0]] \in ItemTable
  BY <1>1 DEF TypeOK, ItemTable, ItemRow, Statuses
<1>4. InitialEvidence(i, p) \in Evidence
  BY <1>1, ConstantsAssumption DEF InitialEvidence, Evidence, EvidenceTypes, Proposal
<1>5. evidence \union {InitialEvidence(i, p)} \in SUBSET Evidence
  BY <1>4 DEF TypeOK
<1>6. conflicts \in ConflictTable
  BY DEF TypeOK, ConflictTable
<1>7. stage' \in [Workers -> Stage]
  BY MoveToIdle DEF CommitPropose
<1>8. /\ items' \in ItemTable /\ evidence' \in SUBSET Evidence
      /\ conflicts' \in ConflictTable /\ log' \in Seq(Event)
  <2> HIDE DEF p
  <2>1. QED
    BY <1>2, <1>3, <1>5, <1>6, CommitType
<1>9. QED
  BY <1>7, <1>8 DEF CommitPropose, TypeOK, ItemTable, ConflictTable

(* A caller's evidence is typed.                                           *)
LEMMA AddEvidenceType ==
    ASSUME TypeOK, NEW i \in ItemIds, NEW x \in CallerEvidence, AddEvidence(i, x[1], x[2])
    PROVE  TypeOK'
<1> DEFINE e == [item |-> i, type |-> x[1], label |-> x[2]]
<1>1. e \in Evidence
  BY ConstantsAssumption DEF Evidence
<1>2. evidence \union {e} \in SUBSET Evidence
  BY <1>1 DEF TypeOK
<1>3. items \in ItemTable /\ conflicts \in ConflictTable
  BY DEF TypeOK, ItemTable, ConflictTable
<1>4. Commit(items, evidence \union {e}, conflicts, TRUE)
  BY DEF AddEvidence
<1>5. /\ items' \in ItemTable /\ evidence' \in SUBSET Evidence
      /\ conflicts' \in ConflictTable /\ log' \in Seq(Event)
  BY <1>2, <1>3, <1>4, CommitType
<1>6. QED
  BY <1>5 DEF AddEvidence, TypeOK, ItemTable, ConflictTable

(* The checks of a verification leave a typed stage.                       *)
LEMMA ChecksType ==
    ASSUME TypeOK, NEW w \in Workers, NEW i \in ItemIds, NEW m \in Methods, Checks(w, i, m)
    PROVE  stage' \in [Workers -> Stage]
<1>1. [op |-> "verify", item |-> i, method |-> m] \in Stage
  BY DEF Stage
<1>2. \A r \in {"ha_subject_missing", "ha_canonical_mismatch"} :
        [op |-> "contest", item |-> i, from |-> "pending", reason |-> r] \in Stage
  BY DEF Stage
<1>3. QED
  BY <1>1, <1>2, MoveToType DEF Checks

(* A verification stores a method and evidence of a known type.            *)
LEMMA CommitVerifyType ==
    ASSUME TypeOK, NEW w \in Workers, CommitVerify(w) PROVE TypeOK'
<1> DEFINE i == stage[w].item
           m == stage[w].method
           e == [item |-> i, type |-> VerificationEvidence(m), label |-> "verification"]
           its == [items EXCEPT ![i].status = "verified", ![i].method = m]
<1>1. i \in ItemIds /\ m \in Methods
  BY StageFields DEF TypeOK, CommitVerify
<1>2. items[i] \in ItemRow
  BY <1>1, PresentRow DEF CommitVerify, HasStatus
<1>3. its \in ItemTable
  BY <1>1, <1>2 DEF TypeOK, ItemTable, ItemRow, Statuses
<1>4. e \in Evidence
  BY <1>1 DEF Evidence, EvidenceTypes, Methods, VerificationEvidence
<1>5. evidence \union {e} \in SUBSET Evidence
  BY <1>4 DEF TypeOK
<1>6. conflicts \in ConflictTable
  BY DEF TypeOK, ConflictTable
<1>7. Commit(its, evidence \union {e}, conflicts, TRUE)
  BY DEF CommitVerify
<1>8. /\ items' \in ItemTable /\ evidence' \in SUBSET Evidence
      /\ conflicts' \in ConflictTable /\ log' \in Seq(Event)
  <2> HIDE DEF its, e
  <2>1. QED
    BY <1>3, <1>5, <1>6, <1>7, CommitType
<1>9. stage' \in [Workers -> Stage]
  BY MoveToIdle DEF CommitVerify
<1>10. QED
  BY <1>8, <1>9 DEF CommitVerify, TypeOK, ItemTable, ConflictTable

(* Putting a candidate in conflict keeps the tables typed.                 *)
LEMMA PutCandidateInConflictType ==
    ASSUME TypeOK, NEW w \in Workers, PutCandidateInConflict(w) PROVE TypeOK'
<1> DEFINE i == stage[w].item
           its == [items EXCEPT ![i].status = "conflict"]
<1>1. i \in ItemIds /\ stage[w].reason \in {"ha_subject_missing", "ha_canonical_mismatch"}
  BY StageFields DEF TypeOK, PutCandidateInConflict
<1>2. stage[w].reason \in Reasons
  BY <1>1 DEF Reasons, HaReasons, CatalogReasons
<1>3. Present(items, i)
  BY DEF PutCandidateInConflict, HasStatus
<1>4. its \in ItemTable
  BY <1>1, <1>3, StatusChange DEF Statuses
<1>5. OpenConflict(its, 0, i, stage[w].reason)
  BY DEF PutCandidateInConflict
<1>6. /\ items' \in ItemTable /\ evidence' \in SUBSET Evidence
      /\ conflicts' \in ConflictTable /\ log' \in Seq(Event)
  <2> HIDE DEF its, i
  <2>1. QED
    BY <1>1, <1>2, <1>3, <1>4, <1>5, OpenConflictType
<1>7. stage' \in [Workers -> Stage]
  BY MoveToIdle DEF PutCandidateInConflict
<1>8. QED
  BY <1>6, <1>7 DEF PutCandidateInConflict, TypeOK, ItemTable, ConflictTable

(* The candidate that is applied is there.                                 *)
LEMMA CanApplyFacts ==
    ASSUME TypeOK, NEW w \in Workers, NEW i \in ItemIds, CanApply(w, i)
    PROVE  Present(items, i) /\ items[i] \in ItemRow
  BY PresentRow DEF CanApply, HasStatus
(* The memory it meets in its slot is there too, and is another one.       *)
LEMMA InSlotFacts ==
    ASSUME TypeOK, NEW i \in ItemIds, NEW j \in ItemIds, IsCurrentInSlot(i, j)
    PROVE  j # i /\ Present(items, j) /\ items[j] \in ItemRow
  BY PresentRow DEF IsCurrentInSlot, InSlot, HasStatus

(* The four outcomes of an application keep the tables typed.              *)
LEMMA ApplyType ==
    ASSUME TypeOK, NEW w \in Workers, NEW i \in ItemIds, NEW j \in ItemIds,
           \/ ApplyToFreeSlot(w, i) \/ ApplyDuplicate(w, i, j)
           \/ ApplyOverLower(w, i, j) \/ ApplyIntoConflict(w, i, j)
    PROVE  TypeOK'
<1> DEFINE Tables == /\ items' \in ItemTable /\ evidence' \in SUBSET Evidence
                     /\ conflicts' \in ConflictTable /\ log' \in Seq(Event)
<1>1. CanApply(w, i) /\ ApplyDone(w, i)
  BY DEF ApplyToFreeSlot, ApplyDuplicate, ApplyOverLower, ApplyIntoConflict
<1>2. Present(items, i) /\ items[i] \in ItemRow
  BY <1>1, CanApplyFacts
<1>3. evidence \in SUBSET Evidence /\ conflicts \in ConflictTable
  BY DEF TypeOK, ConflictTable
<1>4. CASE ApplyToFreeSlot(w, i)
  <2>1. [items EXCEPT ![i].status = "applied"] \in ItemTable
    BY <1>2, StatusChange DEF Statuses
  <2>2. Tables
    BY <1>3, <1>4, <2>1, CommitType DEF ApplyToFreeSlot
  <2>3. QED
    BY <2>2, <1>1, RebuildType, MoveToIdle DEF ApplyDone, TypeOK, ItemTable, ConflictTable
<1>5. CASE ApplyDuplicate(w, i, j)
  <2>1. [items EXCEPT ![i].status = "superseded", ![i].supersedes = j] \in ItemTable
    BY <1>2 DEF TypeOK, ItemTable, ItemRow, Statuses
  <2>2. Tables
    BY <1>3, <1>5, <2>1, CommitType DEF ApplyDuplicate
  <2>3. QED
    BY <2>2, <1>1, RebuildType, MoveToIdle DEF ApplyDone, TypeOK, ItemTable, ConflictTable
<1>6. CASE ApplyOverLower(w, i, j)
  <2> DEFINE its == [items EXCEPT ![i].status = "applied", ![i].supersedes = j,
                                  ![j].status = "superseded"]
             row == [subject |-> items[i].prop.subject, existing |-> j, candidate |-> i,
                     reason |-> "higher_authority_candidate", status |-> "resolved"]
             cfs(k) == [c \in ConflictIds |->
                          IF c = k THEN row
                          ELSE IF IsOpen(conflicts, c) /\ conflicts[c].existing = j
                               THEN [conflicts[c] EXCEPT !.status = "resolved"]
                               ELSE conflicts[c]]
  <2>1. j # i /\ items[j] \in ItemRow
    BY <1>6, InSlotFacts DEF ApplyOverLower
  <2>2. its \in ItemTable
    BY <1>2, <2>1 DEF TypeOK, ItemTable, ItemRow, Statuses
  <2>3. row \in ConflictRow
    <3>1. items[i].prop.subject \in Subjects
      BY <1>2, ConstantsAssumption DEF ItemRow, Proposal
    <3>2. QED
      BY <3>1 DEF ConflictRow, Reasons
  <2>4. \A c \in ConflictIds : IsOpen(conflicts, c) =>
          [conflicts[c] EXCEPT !.status = "resolved"] \in ConflictRow
    BY PresentConflict DEF IsOpen, ConflictRow
  <2>5. \A k \in ConflictIds : cfs(k) \in ConflictTable
    <3> HIDE DEF row
    <3>1. QED
      BY <2>3, <2>4 DEF TypeOK, ConflictTable
  <2>6. PICK k \in ConflictIds : Commit(its, evidence, cfs(k), TRUE)
    BY <1>6 DEF ApplyOverLower
  <2>7. Tables
    <3> HIDE DEF its, cfs
    <3>1. QED
      BY <1>3, <2>2, <2>5, <2>6, CommitType
  <2>8. QED
    BY <2>7, <1>1, RebuildType, MoveToIdle DEF ApplyDone, TypeOK, ItemTable, ConflictTable
<1>7. CASE ApplyIntoConflict(w, i, j)
  <2> DEFINE r == IF Outranks(j, i) THEN "existing_memory_has_higher_authority"
                  ELSE "same_authority_disagreement"
  <2>1. [items EXCEPT ![i].status = "conflict"] \in ItemTable
    BY <1>2, StatusChange DEF Statuses
  <2>2. r \in Reasons
    BY DEF Reasons
  <2>3. OpenConflict([items EXCEPT ![i].status = "conflict"], j, i, r)
    BY <1>7 DEF ApplyIntoConflict
  <2>4. Tables
    <3> HIDE DEF r
    <3>1. QED
      BY <1>2, <2>1, <2>2, <2>3, OpenConflictType
  <2>5. QED
    BY <2>4, <1>1, RebuildType, MoveToIdle DEF ApplyDone, TypeOK, ItemTable, ConflictTable
<1>8. QED
  BY <1>4, <1>5, <1>6, <1>7

(* A rejection keeps the tables typed.                                     *)
LEMMA RejectType ==
    ASSUME TypeOK, NEW i \in ItemIds, Reject(i) PROVE TypeOK'
<1>1. [items EXCEPT ![i].status = "rejected"] \in ItemTable
  BY StatusChange DEF Reject, Statuses
<1>2. \A c \in ConflictIds : IsOpen(conflicts, c) =>
        [conflicts[c] EXCEPT !.status = "resolved"] \in ConflictRow
  BY PresentConflict DEF IsOpen, ConflictRow
<1>3. AfterRejection(i) \in ConflictTable
  BY <1>2 DEF TypeOK, ConflictTable, AfterRejection
<1>4. /\ items' \in ItemTable /\ evidence' \in SUBSET Evidence
      /\ conflicts' \in ConflictTable /\ log' \in Seq(Event)
  <2>1. Commit([items EXCEPT ![i].status = "rejected"], evidence, AfterRejection(i), TRUE)
    BY DEF Reject
  <2>2. evidence \in SUBSET Evidence
    BY DEF TypeOK
  <2>3. QED
    BY <1>1, <1>3, <2>1, <2>2, CommitType
<1>5. QED
  BY <1>4, RebuildType DEF Reject, TypeOK, ItemTable, ConflictTable

(* The three outcomes of a resolution.                                     *)
LEMMA ResolveType ==
    ASSUME TypeOK, NEW w \in Workers, NEW c \in ConflictIds,
           ResolveForCandidate(w, c) \/ ResolveForExisting(w, c) \/ ResolveForHa(w, c)
    PROVE  TypeOK'
<1> DEFINE i == conflicts[c].candidate
           j == conflicts[c].existing
<1>1. IsOpen(conflicts, c) /\ IsCurrent(c) /\ ResolveDone(w, c)
  BY DEF ResolveForCandidate, ResolveForExisting, ResolveForHa, CanResolve
<1>2. conflicts[c] \in ConflictRow
  BY <1>1, PresentConflict DEF IsOpen
<1>3. i \in ItemIds \union {0} /\ j \in ItemIds \union {0}
  BY <1>2 DEF ConflictRow
<1>4. (i # 0 => items[i] \in ItemRow) /\ (j # 0 => items[j] \in ItemRow)
  BY <1>1, <1>3, PresentRow DEF IsCurrent, HasStatus
<1>5. 0 \notin ItemIds
  BY DEF ItemIds
<1>6. Closed(c) \in ConflictTable
  BY <1>2 DEF Closed, TypeOK, ConflictTable, ConflictRow
<1>7. \A s \in Statuses :
        /\ i # 0 => [items[i] EXCEPT !.status = s] \in ItemRow
        /\ i # 0 => [items[i] EXCEPT !.status = s, !.supersedes = j] \in ItemRow
        /\ j # 0 => [items[j] EXCEPT !.status = s] \in ItemRow
  BY <1>3, <1>4 DEF ItemRow
<1>8. evidence \in SUBSET Evidence /\ items \in ItemTable
  BY DEF TypeOK, ItemTable
<1>9. \E its \in ItemTable : Commit(its, evidence, Closed(c), TRUE)
  <2>1. CASE ResolveForCandidate(w, c)
    <3> DEFINE its == [k \in ItemIds |->
                         IF k = i THEN [items[i] EXCEPT !.status = "applied", !.supersedes = j]
                         ELSE IF k = j THEN [items[j] EXCEPT !.status = "superseded"]
                         ELSE items[k]]
    <3>1. its \in ItemTable
      BY <1>5, <1>7, <1>8 DEF ItemTable, Statuses
    <3>2. Commit(its, evidence, Closed(c), TRUE)
      BY <2>1 DEF ResolveForCandidate
    <3>3. QED
      BY <3>1, <3>2
  <2>2. CASE ResolveForExisting(w, c)
    <3> DEFINE its == [k \in ItemIds |-> IF k = i THEN [items[k] EXCEPT !.status = "rejected"]
                                         ELSE items[k]]
    <3>1. its \in ItemTable
      BY <1>5, <1>7, <1>8 DEF ItemTable, Statuses
    <3>2. Commit(its, evidence, Closed(c), TRUE)
      BY <2>2 DEF ResolveForExisting
    <3>3. QED
      BY <3>1, <3>2
  <2>3. CASE ResolveForHa(w, c)
    <3> DEFINE its == [k \in ItemIds |->
                         IF k = i THEN [items[k] EXCEPT !.status = "rejected"]
                         ELSE IF k = j THEN [items[k] EXCEPT !.status = "superseded"]
                         ELSE items[k]]
    <3>1. its \in ItemTable
      BY <1>5, <1>7, <1>8 DEF ItemTable, Statuses
    <3>2. Commit(its, evidence, Closed(c), TRUE)
      BY <2>3 DEF ResolveForHa
    <3>3. QED
      BY <3>1, <3>2
  <2>4. QED
    BY <2>1, <2>2, <2>3
<1>10. /\ items' \in ItemTable /\ evidence' \in SUBSET Evidence
       /\ conflicts' \in ConflictTable /\ log' \in Seq(Event)
  BY <1>6, <1>8, <1>9, CommitType
<1>11. QED
  BY <1>1, <1>10, RebuildType, MoveToIdle DEF ResolveDone, TypeOK, ItemTable, ConflictTable

(* Taking an event's before images leaves typed rows.                      *)
LEMMA RestoredType ==
    ASSUME NEW Ids, NEW Row, NEW images \in Images(Ids, Row),
           NEW table \in [Ids -> Row \union {Absent}]
    PROVE  Restored(table, images) \in [Ids -> Row \union {Absent}]
<1>1. \A k \in Changed(images) :
        k \in Ids /\ images[k] \in [before : Row \union {Absent}, after : Row \union {Absent}]
  BY DEF Images, Image, Changed
<1>2. \A k \in Changed(images) : images[k].before \in Row \union {Absent}
  BY <1>1
<1>3. QED
  BY <1>2 DEF Restored

(* The images of the event that records a rollback are images.             *)
LEMMA SwappedType ==
    ASSUME NEW Ids, NEW Row, NEW images \in Images(Ids, Row)
    PROVE  Swapped(images) \in Images(Ids, Row)
<1>1. \A k \in Changed(images) :
        [before |-> images[k].after, after |-> images[k].before]
          \in [before : Row \union {Absent}, after : Row \union {Absent}]
  BY DEF Images, Image, Changed
<1>2. DOMAIN images = Ids
  BY DEF Images
<1>3. QED
  BY <1>1, <1>2 DEF Swapped, Images, Image

(* A rollback puts typed images back and logs typed events.                *)
LEMMA RollbackType ==
    ASSUME TypeOK, NEW n \in 1..MaxEvents, Rollback(n) PROVE TypeOK'
<1> DEFINE e == log[n]
           entry == [reversible |-> FALSE, undone |-> 0, items |-> Swapped(e.items),
                     conflicts |-> Swapped(e.conflicts), evidence |-> e.evidence]
           marked == [log EXCEPT ![n].undone = Len(log) + 1]
<1>1. log \in Seq(Event) /\ n \in 1..Len(log)
  BY DEF TypeOK, Rollback
<1>2. e \in Event
  BY <1>1
<1>3. /\ e.items \in Images(ItemIds, ItemRow) /\ e.conflicts \in Images(ConflictIds, ConflictRow)
      /\ e.evidence \in SUBSET Evidence
  BY <1>2 DEF Event
<1>4. items' \in ItemTable
  <2>1. items' = Restored(items, e.items)
    BY DEF Rollback
  <2>2. items \in [ItemIds -> ItemRow \union {Absent}]
    BY DEF TypeOK
  <2>3. QED
    BY <1>3, <2>1, <2>2, RestoredType DEF ItemTable
<1>5. conflicts' \in ConflictTable
  <2>1. conflicts' = Restored(conflicts, e.conflicts)
    BY DEF Rollback
  <2>2. conflicts \in [ConflictIds -> ConflictRow \union {Absent}]
    BY DEF TypeOK
  <2>3. QED
    BY <1>3, <2>1, <2>2, RestoredType DEF ConflictTable
<1>6. evidence' \in SUBSET Evidence
  <2>1. evidence' \subseteq evidence
    BY DEF Rollback
  <2>2. QED
    BY <2>1 DEF TypeOK
<1>7. entry \in Event
  <2>1. Swapped(e.items) \in Images(ItemIds, ItemRow)
    BY <1>3, SwappedType
  <2>2. Swapped(e.conflicts) \in Images(ConflictIds, ConflictRow)
    BY <1>3, SwappedType
  <2>3. QED
    BY <1>3, <2>1, <2>2 DEF Event
<1>8. marked \in Seq(Event)
  <2>1. [e EXCEPT !.undone = Len(log) + 1] \in Event
    <3>1. Len(log) + 1 \in Nat
      BY <1>1
    <3> HIDE DEF e
    <3>2. QED
      BY <1>2, <3>1 DEF Event
  <2>2. marked = [log EXCEPT ![n] = [e EXCEPT !.undone = Len(log) + 1]]
    OBVIOUS
  <2> HIDE DEF marked, e
  <2>3. QED
    BY <1>1, <2>1, <2>2
<1>9. log' \in Seq(Event)
  <2>1. log' = Append(marked, entry)
    BY DEF Rollback
  <2> HIDE DEF marked, entry
  <2>2. QED
    BY <1>7, <1>8, <2>1
<1>10. search' \in [Subjects -> SUBSET ItemIds]
  BY RebuildType DEF Rollback
<1>11. QED
  BY <1>4, <1>5, <1>6, <1>9, <1>10 DEF Rollback, TypeOK, ItemTable, ConflictTable

(* A process that only reads changes nothing but its own stage.            *)
LEMMA ReadingType ==
    ASSUME TypeOK, NEW w \in Workers,
           \/ \E p \in Proposals : BeginPropose(w, p)
           \/ \E i \in ItemIds, m \in Methods : BeginVerify(w, i, m)
           \/ \E i \in ItemIds : BeginHaVerify(w, i)
           \/ HaChecks(w)
           \/ \E i \in ItemIds : BeginApply(w, i)
           \/ \E c \in ConflictIds, winner \in Winners : BeginResolve(w, c, winner)
           \/ Abandon(w)
    PROVE  TypeOK'
<1>1. UNCHANGED store
  BY DEF BeginPropose, BeginVerify, BeginHaVerify, HaChecks, BeginApply, BeginResolve, Abandon
<1>2. stage' \in [Workers -> Stage]
  <2>1. CASE \E p \in Proposals : BeginPropose(w, p)
    <3>1. PICK p \in Proposals : BeginPropose(w, p)
      BY <2>1
    <3>2. [op |-> "propose", prop |-> p] \in Stage
      BY DEF Stage
    <3>3. QED
      BY <3>1, <3>2, MoveToType DEF BeginPropose
  <2>2. CASE \E i \in ItemIds, m \in Methods : BeginVerify(w, i, m)
    BY <2>2, ChecksType DEF BeginVerify
  <2>3. CASE \E i \in ItemIds : BeginHaVerify(w, i)
    <3>1. PICK i \in ItemIds : BeginHaVerify(w, i)
      BY <2>3
    <3>2. [op |-> "refresh", item |-> i] \in Stage
      BY DEF Stage
    <3>3. QED
      BY <3>1, <3>2, MoveToType DEF BeginHaVerify
  <2>4. CASE HaChecks(w)
    <3>1. stage[w].item \in ItemIds
      BY <2>4, StageFields DEF HaChecks, TypeOK
    <3>2. Checks(w, stage[w].item, "ha_api")
      BY <2>4 DEF HaChecks
    <3>3. QED
      BY <3>1, <3>2, ChecksType DEF Methods
  <2>5. CASE \E i \in ItemIds : BeginApply(w, i)
    <3>1. PICK i \in ItemIds : BeginApply(w, i)
      BY <2>5
    <3>2. [op |-> "apply", item |-> i] \in Stage
      BY DEF Stage
    <3>3. [op |-> "contest", item |-> i, from |-> "verified",
           reason |-> "ha_canonical_mismatch"] \in Stage
      BY DEF Stage
    <3>4. QED
      BY <3>1, <3>2, <3>3, MoveToType DEF BeginApply
  <2>6. CASE \E c \in ConflictIds, winner \in Winners : BeginResolve(w, c, winner)
    <3>1. PICK c \in ConflictIds, winner \in Winners : BeginResolve(w, c, winner)
      BY <2>6
    <3>2. [op |-> "resolve", conflict |-> c, winner |-> winner] \in Stage
      BY DEF Stage
    <3>3. QED
      BY <3>1, <3>2, MoveToType DEF BeginResolve
  <2>7. CASE Abandon(w)
    BY <2>7, MoveToIdle DEF Abandon
  <2>8. QED
    BY <2>1, <2>2, <2>3, <2>4, <2>5, <2>6, <2>7
<1>3. QED
  BY <1>1, <1>2 DEF TypeOK, store

(* A catalog that arrives by itself, or during a verification.             *)
LEMMA CatalogStepType ==
    ASSUME TypeOK, NEW cat \in Catalogs, Sync(cat) \/ \E w \in Workers : HaRefresh(w, cat)
    PROVE  TypeOK'
<1>1. CASE Sync(cat)
  BY <1>1, ReplaceType DEF Sync, TypeOK, ItemTable, ConflictTable
<1>2. CASE \E w \in Workers : HaRefresh(w, cat)
  <2>1. PICK w \in Workers : HaRefresh(w, cat)
    BY <1>2
  <2>2. [op |-> "refreshed", item |-> stage[w].item] \in Stage
    <3>1. stage[w].item \in ItemIds
      BY <2>1, StageFields DEF HaRefresh, TypeOK
    <3>2. QED
      BY <3>1 DEF Stage
  <2>3. stage' \in [Workers -> Stage]
    BY <2>1, <2>2, MoveToType DEF HaRefresh
  <2>4. CASE Replace(cat)
    BY <2>3, <2>4, ReplaceType DEF TypeOK, ItemTable, ConflictTable
  <2>5. CASE UNCHANGED store
    BY <2>3, <2>5 DEF TypeOK, store
  <2>6. QED
    BY <2>1, <2>4, <2>5 DEF HaRefresh
<1>3. QED
  BY <1>1, <1>2

(* Every step keeps the database typed.                                    *)
LEMMA NextType == TypeOK /\ [Next]_vars => TypeOK'
<1> SUFFICES ASSUME TypeOK, [Next]_vars PROVE TypeOK'
  OBVIOUS
<1>1. CASE \E w \in Workers :
             \/ \E p \in Proposals : BeginPropose(w, p)
             \/ \E i \in ItemIds, m \in Methods : BeginVerify(w, i, m)
             \/ \E i \in ItemIds : BeginHaVerify(w, i)
             \/ HaChecks(w)
             \/ \E i \in ItemIds : BeginApply(w, i)
             \/ \E c \in ConflictIds, winner \in Winners : BeginResolve(w, c, winner)
             \/ Abandon(w)
  BY <1>1, ReadingType
<1>2. CASE \E cat \in Catalogs : Sync(cat) \/ \E w \in Workers : HaRefresh(w, cat)
  BY <1>2, CatalogStepType
<1>3. CASE \E w \in Workers : CommitPropose(w) \/ CommitVerify(w) \/ PutCandidateInConflict(w)
  BY <1>3, CommitProposeType, CommitVerifyType, PutCandidateInConflictType
<1>4. CASE \E i \in ItemIds, x \in CallerEvidence : AddEvidence(i, x[1], x[2])
  BY <1>4, AddEvidenceType
<1>5. CASE \E w \in Workers, i, j \in ItemIds :
             \/ ApplyToFreeSlot(w, i) \/ ApplyDuplicate(w, i, j)
             \/ ApplyOverLower(w, i, j) \/ ApplyIntoConflict(w, i, j)
  BY <1>5, ApplyType
<1>6. CASE \E i \in ItemIds : Reject(i)
  BY <1>6, RejectType
<1>7. CASE \E w \in Workers, c \in ConflictIds :
             ResolveForCandidate(w, c) \/ ResolveForExisting(w, c) \/ ResolveForHa(w, c)
  BY <1>7, ResolveType
<1>8. CASE \E n \in 1..MaxEvents : Rollback(n)
  BY <1>8, RollbackType
<1>9. CASE UNCHANGED vars
  BY <1>9 DEF vars, TypeOK
<1>10. QED
  BY <1>1, <1>2, <1>3, <1>4, <1>5, <1>6, <1>7, <1>8, <1>9 DEF Next

(* The database is always typed: no operation, in any interleaving with    *)
(* others, stores a row, an image or a process stage of another shape.     *)
THEOREM TypeCorrect == Spec => []TypeOK
<1>1. Init => TypeOK
  BY InitType
<1>2. TypeOK /\ [Next]_vars => TypeOK'
  BY NextType
<1>3. QED
  BY <1>1, <1>2, PTL DEF Spec

-----------------------------------------------------------------------------
(* The shape of a step.  Every theorem below rests on what one transaction *)
(* may do to a row: the actions are looked at once, here.                  *)

(* What a transaction may do to a candidate: propose it, verify it by a    *)
(* method its evidence supports, or move it on.                            *)
ProposedNow(i) ==
    /\ ~Present(items, i)
    /\ items'[i] \in ItemRow
    /\ items'[i].status = "pending" /\ items'[i].method = "none" /\ items'[i].supersedes = 0
Record(i, m) == [item |-> i, type |-> VerificationEvidence(m), label |-> "verification"]
VerifiedBy(i, m) ==
    /\ HasStatus(i, "pending")
    /\ Supports(i, m)
    /\ items'[i] = [items[i] EXCEPT !.status = "verified", !.method = m]
    /\ Record(i, m) \in evidence'
Moves ==
    {<<"pending", "conflict">>, <<"verified", "conflict">>, <<"verified", "applied">>,
     <<"conflict", "applied">>, <<"verified", "superseded">>, <<"applied", "superseded">>,
     <<"pending", "rejected">>, <<"verified", "rejected">>, <<"conflict", "rejected">>}
MovedTo(i, s, j) ==
    /\ Present(items, i)
    /\ <<items[i].status, s>> \in Moves
    /\ j \in {0, items[i].supersedes} \/ HasStatus(j, "applied")
    /\ items'[i] = [items[i] EXCEPT !.status = s, !.supersedes = j]
MovedNow(i) == \E s \in Statuses, j \in ItemIds \union {0} : MovedTo(i, s, j)
ItemEdit(i) ==
    \/ items'[i] = items[i]
    \/ ProposedNow(i)
    \/ \E m \in Methods : VerifiedBy(i, m)
    \/ MovedNow(i)

(* What it may do to a conflict: close it, or open it about an applied     *)
(* memory, about a candidate it moves, or about both.                      *)
OpenedNow(c) ==
    /\ ~Present(conflicts, c)
    /\ conflicts'[c] \in ConflictRow
    /\ LET i == conflicts'[c].candidate
           j == conflicts'[c].existing IN
         /\ j # 0 => HasStatus(j, "applied")
         /\ i # 0 => MovedNow(i)
ClosedNow(c) ==
    /\ IsOpen(conflicts, c)
    /\ conflicts'[c] = [conflicts[c] EXCEPT !.status = "resolved"]
ConflictEdit(c) == conflicts'[c] = conflicts[c] \/ OpenedNow(c) \/ ClosedNow(c)

(* What it may do to the evidence: add to a pending candidate under a      *)
(* caller's reference, or record a verification.                           *)
EvidenceEdit ==
    /\ evidence \subseteq evidence'
    /\ IsFiniteSet(evidence) => IsFiniteSet(evidence')
    /\ \A x \in evidence' \ evidence :
         \/ /\ x.label \in Labels
            /\ Present(items', x.item) /\ items'[x.item].status = "pending"
         \/ \E m \in Methods : VerifiedBy(x.item, m) /\ x = Record(x.item, m)

Transaction ==
    /\ \E rev \in BOOLEAN : Commit(items', evidence', conflicts', rev)
    /\ \A i \in ItemIds : ItemEdit(i)
    /\ \A c \in ConflictIds : ConflictEdit(c)
    /\ EvidenceEdit

(* The next id of a table is free.                                         *)
LEMMA NextIdIsFree ==
    ASSUME TypeOK
    PROVE  /\ \A k \in ItemIds : IsNextId(items, k) => ~Present(items, k)
           /\ \A k \in ConflictIds : IsNextId(conflicts, k) => ~Present(conflicts, k)
<1>1. \A k \in ItemIds \union ConflictIds : k >= k
  BY ConstantsAssumption DEF ItemIds, ConflictIds
<1>2. DOMAIN items = ItemIds /\ DOMAIN conflicts = ConflictIds
  BY DEF TypeOK
<1> QED
  BY <1>1, <1>2 DEF IsNextId

(* A set of memories is finite.                                            *)
LEMMA ItemsFinite == ASSUME NEW S \in SUBSET ItemIds PROVE IsFiniteSet(S)
<1>1. IsFiniteSet(ItemIds)
  BY ConstantsAssumption, FS_Interval DEF ItemIds
<1>2. QED
  BY <1>1, FS_Subset

(* One row of what a refresh makes of the conflicts: newly opened above    *)
(* all ids in use, closed because its cause is gone, or as it was.         *)
RefreshedRow(cat, top, c) ==
    LET old == conflicts[c]
        new == Reconciled(cat, top)[c]
        i   == new.existing IN
    \/ ~IsRestored(cat, c) /\ new = old
    \/ IsRestored(cat, c) /\ new = [old EXCEPT !.status = "resolved"]
    \/ /\ ~Present(conflicts, c)
       /\ i \in NewlyContested(cat)
       /\ new = [subject |-> items[i].prop.subject, existing |-> i, candidate |-> 0,
                 reason |-> Complaint(cat, i), status |-> "open"]
       /\ c = top + Cardinality({j \in NewlyContested(cat) : j <= i})

LEMMA ReconciledRows ==
    ASSUME TypeOK, NEW cat \in Catalogs, NEW top \in ConflictIds \union {0},
           IsNextId(conflicts, top + 1), NEW c \in ConflictIds
    PROVE  RefreshedRow(cat, top, c)
<1> DEFINE new == NewlyContested(cat)
           Id(i) == top + Cardinality({j \in new : j <= i})
           Row(i) == [subject |-> items[i].prop.subject, existing |-> i, candidate |-> 0,
                      reason |-> Complaint(cat, i), status |-> "open"]
           picked == CHOOSE i \in new : Id(i) = c
<1>1. new \subseteq ItemIds
  BY DEF NewlyContested
<1>2. Reconciled(cat, top)[c] =
        IF \E i \in new : Id(i) = c THEN Row(picked)
        ELSE IF IsRestored(cat, c) THEN [conflicts[c] EXCEPT !.status = "resolved"]
        ELSE conflicts[c]
  BY DEF Reconciled
<1>3. CASE \E i \in new : Id(i) = c
  <2>1. picked \in new /\ Id(picked) = c
    <3> HIDE DEF Id
    <3> QED  BY <1>3
  <2>2. Cardinality({j \in new : j <= picked}) \in Nat \ {0}
    <3> DEFINE S == {j \in new : j <= picked}
    <3>1. picked \in S
      BY <2>1, <1>1 DEF ItemIds
    <3>2. IsFiniteSet(S)
      BY <1>1, ItemsFinite
    <3>3. Cardinality(S) \in Nat /\ Cardinality(S) # 0
      BY <3>1, <3>2, FS_CardinalityType, FS_EmptySet
    <3> QED  BY <3>3
  <2>3. c >= top + 1
    BY <2>1, <2>2 DEF ConflictIds
  <2>4. ~Present(conflicts, c)
    BY <2>3 DEF IsNextId, TypeOK
  <2>5. Reconciled(cat, top)[c] = Row(picked)
    BY <1>2, <1>3
  <2> HIDE DEF picked
  <2>6. Reconciled(cat, top)[c].existing = picked
    BY <2>5
  <2> QED
    BY <2>1, <2>4, <2>5, <2>6 DEF RefreshedRow
<1>4. CASE ~\E i \in new : Id(i) = c
  BY <1>2, <1>4 DEF RefreshedRow
<1> QED
  BY <1>3, <1>4

(* A transaction that leaves the conflicts, or the evidence, alone.        *)
LEMMA SameConflicts == conflicts' = conflicts => \A c \in ConflictIds : ConflictEdit(c)
  BY DEF ConflictEdit
LEMMA SameEvidence == evidence' = evidence => EvidenceEdit
  BY DEF EvidenceEdit

(* Giving a present candidate another status is a move.                    *)
LEMMA StatusMove ==
    ASSUME TypeOK, NEW i \in ItemIds, Present(items, i), NEW s \in Statuses,
           <<items[i].status, s>> \in Moves,
           items' = [items EXCEPT ![i].status = s]
    PROVE  MovedNow(i) /\ \A k \in ItemIds : ItemEdit(k)
<1>1. items[i] \in ItemRow
  BY PresentRow
<1>2. items'[i] = [items[i] EXCEPT !.status = s, !.supersedes = items[i].supersedes]
  BY <1>1 DEF TypeOK, ItemRow
<1>3. items[i].supersedes \in ItemIds \union {0}
  BY <1>1 DEF ItemRow
<1>4. MovedTo(i, s, items[i].supersedes)
  BY <1>2 DEF MovedTo
<1>5. MovedNow(i)
  BY <1>3, <1>4 DEF MovedNow
<1>6. \A k \in ItemIds : k # i => items'[k] = items[k]
  BY DEF TypeOK
<1> QED
  BY <1>5, <1>6 DEF ItemEdit

(* A conflict that is found open again, or opened under the next id.       *)
LEMMA OpenConflictShape ==
    ASSUME TypeOK, TypeOK', NEW its, NEW i \in ItemIds, NEW j \in ItemIds \union {0}, NEW reason \in Reasons,
           OpenConflict(its, j, i, reason), MovedNow(i), j # 0 => HasStatus(j, "applied")
    PROVE  /\ evidence' = evidence /\ items' = its
           /\ Commit(items', evidence', conflicts', TRUE)
           /\ \A c \in ConflictIds : ConflictEdit(c)
<1> DEFINE row == [subject |-> items[i].prop.subject, existing |-> j, candidate |-> i,
                   reason |-> reason, status |-> "open"]
<1>1. PICK k \in ConflictIds :
        /\ IsNextId(conflicts, k)
        /\ Commit(its, evidence, IF \E c \in ConflictIds : conflicts[c] = row THEN conflicts
                                 ELSE [conflicts EXCEPT ![k] = row], TRUE)
  BY DEF OpenConflict
<1>2. /\ evidence' = evidence /\ items' = its /\ Commit(items', evidence', conflicts', TRUE)
      /\ conflicts' = conflicts \/ conflicts' = [conflicts EXCEPT ![k] = row]
  BY <1>1 DEF Commit
<1>3. CASE conflicts' = [conflicts EXCEPT ![k] = row]
  <2>1. conflicts'[k] = row /\ \A c \in ConflictIds \ {k} : conflicts'[c] = conflicts[c]
    BY <1>3 DEF TypeOK
  <2>2. ~Present(conflicts, k)
    BY <1>1, NextIdIsFree
  <2>3. conflicts'[k] \in ConflictRow
    <3>1. items[i].prop \in Proposals
      BY PresentRow DEF MovedNow, MovedTo, ItemRow
    <3>2. items[i].prop.subject \in Subjects
      BY <3>1, ConstantsAssumption DEF Proposal
    <3> QED
      BY <2>1, <3>2 DEF ConflictRow
  <2>4. OpenedNow(k)
    BY <2>1, <2>2, <2>3 DEF OpenedNow
  <2> QED
    BY <1>2, <2>1, <2>4 DEF ConflictEdit
<1> QED
  BY <1>2, <1>3, SameConflicts

(* The transactions of the candidates' life: proposed, given evidence,     *)
(* verified, put in conflict and rejected.                                 *)
LEMMA ProposeShape ==
    ASSUME TypeOK, TypeOK', NEW w \in Workers, CommitPropose(w) PROVE Transaction
<1> DEFINE p == stage[w].prop
           row == [prop |-> p, status |-> "pending", method |-> "none", supersedes |-> 0]
<1>1. PICK i \in ItemIds :
        /\ IsNextId(items, i)
        /\ Commit([items EXCEPT ![i] = row], evidence \union {InitialEvidence(i, p)},
                  conflicts, TRUE)
  BY DEF CommitPropose
<1>2. ~Present(items, i)
  BY <1>1, NextIdIsFree
<1>3. p \in Proposals
  BY StageFields DEF TypeOK, CommitPropose
<1>4. items'[i] = row /\ \A k \in ItemIds \ {i} : items'[k] = items[k]
  BY <1>1 DEF Commit, TypeOK
<1>5. row \in ItemRow
  BY <1>3 DEF ItemRow, Statuses
<1>6. ProposedNow(i)
  BY <1>2, <1>4, <1>5 DEF ProposedNow
<1>7. \A k \in ItemIds : ItemEdit(k)
  BY <1>4, <1>6 DEF ItemEdit
<1>8. EvidenceEdit
  <2>1. evidence' = evidence \union {InitialEvidence(i, p)}
    BY <1>1 DEF Commit
  <2>2. InitialEvidence(i, p).item = i /\ InitialEvidence(i, p).label \in Labels
    BY <1>3, ConstantsAssumption DEF InitialEvidence, Proposal
  <2>3. Present(items', i) /\ items'[i].status = "pending"
    BY <1>4, <1>5, ConstantsAssumption DEF Present
  <2>4. IsFiniteSet(evidence) => IsFiniteSet(evidence')
    BY <2>1, FS_AddElement
  <2> QED
    BY <2>1, <2>2, <2>3, <2>4 DEF EvidenceEdit
<1>9. Commit(items', evidence', conflicts', TRUE) /\ conflicts' = conflicts
  BY <1>1 DEF Commit
<1> QED
  BY <1>7, <1>8, <1>9, SameConflicts DEF Transaction

LEMMA AddEvidenceShape ==
    ASSUME TypeOK, TypeOK', NEW i \in ItemIds, NEW x \in CallerEvidence, AddEvidence(i, x[1], x[2])
    PROVE  Transaction
<1> DEFINE e == [item |-> i, type |-> x[1], label |-> x[2]]
<1>1. Commit(items, evidence \union {e}, conflicts, TRUE)
  BY DEF AddEvidence
<1>2. Commit(items', evidence', conflicts', TRUE) /\ conflicts' = conflicts /\ items' = items
      /\ evidence' = evidence \union {e}
  BY <1>1 DEF Commit
<1>3. EvidenceEdit
  <2>1. x[2] \in Labels
    BY ConstantsAssumption
  <2>2. Present(items', i) /\ items'[i].status = "pending"
    BY <1>2 DEF AddEvidence, HasStatus, Present
  <2>3. IsFiniteSet(evidence) => IsFiniteSet(evidence')
    BY <1>2, FS_AddElement
  <2> QED
    BY <1>2, <2>1, <2>2, <2>3 DEF EvidenceEdit
<1> QED
  BY <1>2, <1>3, SameConflicts DEF Transaction, ItemEdit

LEMMA VerifyShape ==
    ASSUME TypeOK, TypeOK', NEW w \in Workers, CommitVerify(w) PROVE Transaction
<1> DEFINE i == stage[w].item
           m == stage[w].method
           its == [items EXCEPT ![i].status = "verified", ![i].method = m]
<1>1. i \in ItemIds /\ m \in Methods
  BY StageFields DEF TypeOK, CommitVerify
<1>2. HasStatus(i, "pending") /\ Supports(i, m)
  BY DEF CommitVerify
<1>3. Commit(its, evidence \union {Record(i, m)}, conflicts, TRUE)
  BY DEF CommitVerify, Record
<1>4. Commit(items', evidence', conflicts', TRUE) /\ conflicts' = conflicts /\ items' = its
      /\ evidence' = evidence \union {Record(i, m)}
  BY <1>3 DEF Commit
<1>5. items'[i] = [items[i] EXCEPT !.status = "verified", !.method = m]
      /\ \A k \in ItemIds \ {i} : items'[k] = items[k]
  BY <1>1, <1>4 DEF TypeOK
<1>6. VerifiedBy(i, m)
  BY <1>2, <1>4, <1>5 DEF VerifiedBy
<1>7. \A k \in ItemIds : ItemEdit(k)
  BY <1>1, <1>5, <1>6 DEF ItemEdit
<1>8. EvidenceEdit
  <2>1. IsFiniteSet(evidence) => IsFiniteSet(evidence')
    BY <1>4, FS_AddElement
  <2>2. Record(i, m).item = i
    BY DEF Record
  <2> QED
    BY <1>1, <1>4, <1>6, <2>1, <2>2 DEF EvidenceEdit
<1> QED
  BY <1>4, <1>7, <1>8, SameConflicts DEF Transaction

LEMMA PutCandidateInConflictShape ==
    ASSUME TypeOK, TypeOK', NEW w \in Workers, PutCandidateInConflict(w) PROVE Transaction
<1> DEFINE i == stage[w].item
           its == [items EXCEPT ![i].status = "conflict"]
<1>1. i \in ItemIds /\ stage[w].reason \in {"ha_subject_missing", "ha_canonical_mismatch"}
  BY StageFields DEF TypeOK, PutCandidateInConflict
<1>2. stage[w].from \in {"pending", "verified"} /\ HasStatus(i, stage[w].from)
  BY StageFields DEF TypeOK, PutCandidateInConflict
<1>3. OpenConflict(its, 0, i, stage[w].reason)
  BY DEF PutCandidateInConflict
<1>4. items' = its
  BY <1>3 DEF OpenConflict, Commit
<1>5. MovedNow(i) /\ \A k \in ItemIds : ItemEdit(k)
  BY <1>1, <1>2, <1>4, StatusMove DEF Moves, Statuses, HasStatus
<1>6. stage[w].reason \in Reasons
  BY <1>1 DEF Reasons, HaReasons, CatalogReasons
<1>7. evidence' = evidence /\ Commit(items', evidence', conflicts', TRUE)
      /\ \A c \in ConflictIds : ConflictEdit(c)
  <2> HIDE DEF its, i
  <2> QED
    BY <1>1, <1>3, <1>5, <1>6, OpenConflictShape
<1> QED
  BY <1>5, <1>7, SameEvidence DEF Transaction

LEMMA RejectShape ==
    ASSUME TypeOK, TypeOK', NEW i \in ItemIds, Reject(i) PROVE Transaction
<1>1. /\ items' = [items EXCEPT ![i].status = "rejected"] /\ evidence' = evidence
      /\ conflicts' = AfterRejection(i) /\ Commit(items', evidence', conflicts', TRUE)
  BY DEF Reject, Commit
<1>2. \A k \in ItemIds : ItemEdit(k)
  BY <1>1, StatusMove DEF Reject, Moves, Statuses
<1>3. \A c \in ConflictIds : ConflictEdit(c)
  BY <1>1 DEF AfterRejection, ConflictEdit, ClosedNow
<1> QED
  BY <1>1, <1>2, <1>3, SameEvidence DEF Transaction

(* The four outcomes of an application.                                    *)
LEMMA ApplyShape ==
    ASSUME TypeOK, TypeOK', NEW w \in Workers, NEW i \in ItemIds, NEW j \in ItemIds,
           \/ ApplyToFreeSlot(w, i) \/ ApplyDuplicate(w, i, j)
           \/ ApplyOverLower(w, i, j) \/ ApplyIntoConflict(w, i, j)
    PROVE  Transaction
<1>1. HasStatus(i, "verified") /\ Present(items, i) /\ items[i] \in ItemRow
  BY PresentRow DEF ApplyToFreeSlot, ApplyDuplicate, ApplyOverLower, ApplyIntoConflict, CanApply,
     HasStatus
<1>2. CASE ApplyToFreeSlot(w, i)
  <2>1. /\ items' = [items EXCEPT ![i].status = "applied"] /\ evidence' = evidence
        /\ conflicts' = conflicts /\ Commit(items', evidence', conflicts', TRUE)
    BY <1>2 DEF ApplyToFreeSlot, Commit
  <2>2. \A k \in ItemIds : ItemEdit(k)
    BY <1>1, <2>1, StatusMove DEF Moves, Statuses, HasStatus
  <2> QED
    BY <2>1, <2>2, SameConflicts, SameEvidence DEF Transaction
<1>3. CASE ApplyDuplicate(w, i, j)
  <2>1. /\ items' = [items EXCEPT ![i].status = "superseded", ![i].supersedes = j]
        /\ evidence' = evidence /\ conflicts' = conflicts
        /\ Commit(items', evidence', conflicts', TRUE)
    BY <1>3 DEF ApplyDuplicate, Commit
  <2>2. HasStatus(j, "applied")
    BY <1>3 DEF ApplyDuplicate, IsCurrentInSlot, InSlot
  <2>3. items'[i] = [items[i] EXCEPT !.status = "superseded", !.supersedes = j]
        /\ \A k \in ItemIds \ {i} : items'[k] = items[k]
    BY <2>1 DEF TypeOK
  <2>4. MovedTo(i, "superseded", j)
    BY <1>1, <2>2, <2>3 DEF MovedTo, Moves, HasStatus
  <2>5. \A k \in ItemIds : ItemEdit(k)
    BY <2>3, <2>4 DEF ItemEdit, MovedNow, Statuses
  <2> QED
    BY <2>1, <2>5, SameConflicts, SameEvidence DEF Transaction
<1>4. CASE ApplyOverLower(w, i, j)
  <2> DEFINE its == [items EXCEPT ![i].status = "applied", ![i].supersedes = j,
                                  ![j].status = "superseded"]
             row == [subject |-> items[i].prop.subject, existing |-> j, candidate |-> i,
                     reason |-> "higher_authority_candidate", status |-> "resolved"]
  <2>1. PICK k \in ConflictIds :
          /\ IsNextId(conflicts, k)
          /\ Commit(its, evidence,
                    [c \in ConflictIds |->
                       IF c = k THEN row
                       ELSE IF IsOpen(conflicts, c) /\ conflicts[c].existing = j
                            THEN [conflicts[c] EXCEPT !.status = "resolved"]
                            ELSE conflicts[c]], TRUE)
    BY <1>4 DEF ApplyOverLower
  <2>2. /\ items' = its /\ evidence' = evidence /\ Commit(items', evidence', conflicts', TRUE)
        /\ conflicts'[k] = row
        /\ \A c \in ConflictIds \ {k} :
              conflicts'[c] = IF IsOpen(conflicts, c) /\ conflicts[c].existing = j
                              THEN [conflicts[c] EXCEPT !.status = "resolved"]
                              ELSE conflicts[c]
    BY <2>1 DEF Commit
  <2>3. HasStatus(j, "applied") /\ j # i /\ items[j] \in ItemRow
    BY <1>4, InSlotFacts DEF ApplyOverLower, IsCurrentInSlot, InSlot
  <2>4. /\ items'[i] = [items[i] EXCEPT !.status = "applied", !.supersedes = j]
        /\ items'[j] = [items[j] EXCEPT !.status = "superseded"]
        /\ \A n \in ItemIds \ {i, j} : items'[n] = items[n]
    BY <2>2, <2>3 DEF TypeOK
  <2>5. MovedTo(i, "applied", j)
    BY <1>1, <2>3, <2>4 DEF MovedTo, Moves, HasStatus
  <2>6. MovedTo(j, "superseded", items[j].supersedes)
    <3>1. items'[j] = [items[j] EXCEPT !.status = "superseded", !.supersedes = items[j].supersedes]
      BY <2>3, <2>4 DEF ItemRow
    <3> QED
      BY <2>3, <3>1 DEF MovedTo, Moves, HasStatus
  <2>7. MovedNow(i) /\ MovedNow(j)
    BY <2>3, <2>5, <2>6 DEF MovedNow, Statuses, ItemRow
  <2>8. \A n \in ItemIds : ItemEdit(n)
    BY <2>4, <2>7 DEF ItemEdit
  <2>9. OpenedNow(k)
    <3>1. row \in ConflictRow
      <4>1. items[i].prop.subject \in Subjects
        BY <1>1, ConstantsAssumption DEF ItemRow, Proposal
      <4> QED
        BY <4>1 DEF ConflictRow, Reasons
    <3> QED
      BY <2>1, <2>2, <2>3, <2>7, <3>1, NextIdIsFree DEF OpenedNow
  <2>10. \A c \in ConflictIds : ConflictEdit(c)
    BY <2>2, <2>9 DEF ConflictEdit, ClosedNow
  <2> QED
    BY <2>2, <2>8, <2>10, SameEvidence DEF Transaction
<1>5. CASE ApplyIntoConflict(w, i, j)
  <2> DEFINE its == [items EXCEPT ![i].status = "conflict"]
             r == IF Outranks(j, i) THEN "existing_memory_has_higher_authority"
                  ELSE "same_authority_disagreement"
  <2>1. r \in Reasons
    BY DEF Reasons
  <2>2. OpenConflict(its, j, i, r) /\ HasStatus(j, "applied")
    BY <1>5 DEF ApplyIntoConflict, IsCurrentInSlot, InSlot
  <2>3. items' = its
    BY <2>2 DEF OpenConflict, Commit
  <2>4. MovedNow(i) /\ \A k \in ItemIds : ItemEdit(k)
    BY <1>1, <2>3, StatusMove DEF Moves, Statuses, HasStatus
  <2>5. evidence' = evidence /\ Commit(items', evidence', conflicts', TRUE)
        /\ \A c \in ConflictIds : ConflictEdit(c)
    <3> HIDE DEF its, r
    <3> QED
      BY <2>1, <2>2, <2>4, OpenConflictShape
  <2> QED
    BY <2>4, <2>5, SameEvidence DEF Transaction
<1> QED
  BY <1>2, <1>3, <1>4, <1>5

(* The three outcomes of a resolution.                                     *)
LEMMA ResolveShape ==
    ASSUME TypeOK, TypeOK', NEW w \in Workers, NEW c \in ConflictIds,
           ResolveForCandidate(w, c) \/ ResolveForExisting(w, c) \/ ResolveForHa(w, c)
    PROVE  Transaction
<1> DEFINE i == conflicts[c].candidate
           j == conflicts[c].existing
<1>1. IsOpen(conflicts, c) /\ IsCurrent(c) /\ conflicts[c] \in ConflictRow
  BY PresentConflict DEF ResolveForCandidate, ResolveForExisting, ResolveForHa, CanResolve, IsOpen
<1>2. i \in ItemIds \union {0} /\ j \in ItemIds \union {0} /\ 0 \notin ItemIds
  BY <1>1 DEF ConflictRow, ItemIds
<1>3. /\ i # 0 => HasStatus(i, "conflict") /\ items[i] \in ItemRow
      /\ j # 0 => HasStatus(j, "applied") /\ items[j] \in ItemRow
  BY <1>1, <1>2, PresentRow DEF IsCurrent, HasStatus
<1>4. i # 0 => i # j
  BY <1>3 DEF HasStatus
<1>5. \A k \in ItemIds, s \in Statuses :
        (/\ Present(items, k) /\ <<items[k].status, s>> \in Moves
         /\ items'[k] = [items[k] EXCEPT !.status = s]) => ItemEdit(k)
  <2> SUFFICES ASSUME NEW k \in ItemIds, NEW s \in Statuses, Present(items, k),
                      <<items[k].status, s>> \in Moves, items'[k] = [items[k] EXCEPT !.status = s]
               PROVE  MovedNow(k)
    BY DEF ItemEdit
  <2>1. items[k] \in ItemRow
    BY PresentRow
  <2>2. MovedTo(k, s, items[k].supersedes)
    BY <2>1 DEF MovedTo, ItemRow
  <2> QED
    BY <2>1, <2>2 DEF MovedNow, ItemRow
<1>6. /\ evidence' = evidence /\ conflicts' = Closed(c)
      /\ Commit(items', evidence', conflicts', TRUE)
  BY DEF ResolveForCandidate, ResolveForExisting, ResolveForHa, Commit
<1>7. \A d \in ConflictIds : ConflictEdit(d)
  BY <1>1, <1>6 DEF Closed, ConflictEdit, ClosedNow, TypeOK
<1>8. \A k \in ItemIds : ItemEdit(k)
  <2>1. CASE ResolveForCandidate(w, c)
    <3>1. /\ i # 0
          /\ items' = [k \in ItemIds |->
                         IF k = i THEN [items[i] EXCEPT !.status = "applied", !.supersedes = j]
                         ELSE IF k = j THEN [items[j] EXCEPT !.status = "superseded"]
                         ELSE items[k]]
      BY <2>1 DEF ResolveForCandidate, Commit
    <3>2. MovedTo(i, "applied", j)
      BY <1>2, <1>3, <3>1 DEF MovedTo, Moves, HasStatus
    <3>3. ItemEdit(i)
      BY <1>2, <3>2 DEF ItemEdit, MovedNow, Statuses
    <3>4. j # 0 => ItemEdit(j)
      BY <1>2, <1>3, <1>4, <1>5, <3>1 DEF Moves, Statuses, HasStatus
    <3> QED
      BY <1>2, <3>1, <3>3, <3>4 DEF ItemEdit
  <2>2. CASE ResolveForExisting(w, c)
    <3>1. items' = [k \in ItemIds |-> IF k = i THEN [items[k] EXCEPT !.status = "rejected"]
                                      ELSE items[k]]
      BY <2>2 DEF ResolveForExisting, Commit
    <3>2. i # 0 => ItemEdit(i)
      BY <1>2, <1>3, <1>5, <3>1 DEF Moves, Statuses, HasStatus
    <3> QED
      BY <1>2, <3>1, <3>2 DEF ItemEdit
  <2>3. CASE ResolveForHa(w, c)
    <3>1. items' = [k \in ItemIds |->
                      IF k = i THEN [items[k] EXCEPT !.status = "rejected"]
                      ELSE IF k = j THEN [items[k] EXCEPT !.status = "superseded"]
                      ELSE items[k]]
      BY <2>3 DEF ResolveForHa, Commit
    <3>2. (i # 0 => ItemEdit(i)) /\ (j # 0 => ItemEdit(j))
      BY <1>2, <1>3, <1>4, <1>5, <3>1 DEF Moves, Statuses, HasStatus
    <3> QED
      BY <1>2, <3>1, <3>2 DEF ItemEdit
  <2> QED
    BY <2>1, <2>2, <2>3
<1> QED
  BY <1>6, <1>7, <1>8, SameEvidence DEF Transaction

(* A refresh closes and opens conflicts, or changes no table.              *)
LEMMA ReplaceShape ==
    ASSUME TypeOK, TypeOK', NEW cat \in Catalogs, Replace(cat)
    PROVE  Transaction \/ UNCHANGED <<items, evidence, conflicts, log>>
<1>1. PICK top \in ConflictIds \union {0} :
        /\ IsNextId(conflicts, top + 1)
        /\ IF Reconciled(cat, top) = conflicts
           THEN UNCHANGED <<items, evidence, conflicts, log>>
           ELSE Commit(items, evidence, Reconciled(cat, top), FALSE)
  BY DEF Replace
<1>2. CASE Commit(items, evidence, Reconciled(cat, top), FALSE)
  <2>1. /\ items' = items /\ evidence' = evidence /\ conflicts' = Reconciled(cat, top)
        /\ Commit(items', evidence', conflicts', FALSE)
    BY <1>2 DEF Commit
  <2>2. \A c \in ConflictIds : ConflictEdit(c)
    <3> SUFFICES ASSUME NEW c \in ConflictIds PROVE ConflictEdit(c)
      OBVIOUS
    <3>1. RefreshedRow(cat, top, c)
      BY <1>1, ReconciledRows
    <3>2. CASE IsRestored(cat, c) /\ conflicts'[c] = [conflicts[c] EXCEPT !.status = "resolved"]
      BY <3>2 DEF ConflictEdit, ClosedNow, IsRestored
    <3>3. ASSUME NEW i \in NewlyContested(cat), ~Present(conflicts, c),
                 conflicts'[c] = [subject |-> items[i].prop.subject, existing |-> i,
                                  candidate |-> 0, reason |-> Complaint(cat, i),
                                  status |-> "open"]
          PROVE  ConflictEdit(c)
      <4>1. HasStatus(i, "applied") /\ i \in ItemIds /\ Complaint(cat, i) # "none"
        BY <3>3 DEF NewlyContested
      <4>2. items[i].prop \in Proposals
        BY <4>1, PresentRow DEF HasStatus, ItemRow
      <4>3. items[i].prop.subject \in Subjects
        BY <4>2, ConstantsAssumption DEF Proposal
      <4>4. Complaint(cat, i) \in Reasons
        BY <4>1 DEF Complaint, Reasons, HaReasons, CatalogReasons
      <4>5. conflicts'[c] \in ConflictRow
        BY <3>3, <4>1, <4>3, <4>4 DEF ConflictRow
      <4>6. conflicts'[c].existing = i /\ conflicts'[c].candidate = 0
        BY <3>3
      <4> QED
        BY <3>3, <4>1, <4>5, <4>6 DEF ConflictEdit, OpenedNow
    <3> QED
      BY <2>1, <3>1, <3>2, <3>3 DEF RefreshedRow, ConflictEdit
  <2> QED
    BY <2>1, <2>2, SameEvidence DEF Transaction, ItemEdit
<1> QED
  BY <1>1, <1>2

(* Every step changes no table, is one transaction, or rolls one back.     *)
LEMMA StepShape ==
    ASSUME TypeOK, TypeOK', [Next]_vars
    PROVE  \/ UNCHANGED <<items, evidence, conflicts, log>>
           \/ Transaction
           \/ \E n \in 1..MaxEvents : Rollback(n)
<1>1. CASE \E w \in Workers :
             \/ \E p \in Proposals : BeginPropose(w, p)
             \/ \E i \in ItemIds, m \in Methods : BeginVerify(w, i, m)
             \/ \E i \in ItemIds : BeginHaVerify(w, i)
             \/ HaChecks(w)
             \/ \E i \in ItemIds : BeginApply(w, i)
             \/ \E c \in ConflictIds, winner \in Winners : BeginResolve(w, c, winner)
             \/ Abandon(w)
  BY <1>1 DEF BeginPropose, BeginVerify, BeginHaVerify, HaChecks, BeginApply, BeginResolve,
     Abandon, store
<1>2. CASE \E cat \in Catalogs : Sync(cat) \/ \E w \in Workers : HaRefresh(w, cat)
  BY <1>2, ReplaceShape DEF Sync, HaRefresh, store
<1>3. CASE \E w \in Workers : CommitPropose(w) \/ CommitVerify(w) \/ PutCandidateInConflict(w)
  BY <1>3, ProposeShape, VerifyShape, PutCandidateInConflictShape
<1>4. CASE \E i \in ItemIds, x \in CallerEvidence : AddEvidence(i, x[1], x[2])
  BY <1>4, AddEvidenceShape
<1>5. CASE \E w \in Workers, i, j \in ItemIds :
             \/ ApplyToFreeSlot(w, i) \/ ApplyDuplicate(w, i, j)
             \/ ApplyOverLower(w, i, j) \/ ApplyIntoConflict(w, i, j)
  BY <1>5, ApplyShape
<1>6. CASE \E i \in ItemIds : Reject(i)
  BY <1>6, RejectShape
<1>7. CASE \E w \in Workers, c \in ConflictIds :
             ResolveForCandidate(w, c) \/ ResolveForExisting(w, c) \/ ResolveForHa(w, c)
  BY <1>7, ResolveShape
<1>8. CASE UNCHANGED vars
  BY <1>8 DEF vars
<1> QED
  BY <1>1, <1>2, <1>3, <1>4, <1>5, <1>6, <1>7, <1>8 DEF Next

-----------------------------------------------------------------------------
(* The audit log                                                           *)

(* A transaction appends one event, of the rows it changed.                *)
LEMMA TransactionLog ==
    ASSUME TypeOK, Transaction
    PROVE  /\ Len(log) \in Nat /\ DOMAIN log = 1..Len(log)
           /\ DOMAIN log' = 1..(Len(log) + 1) /\ Len(log') = Len(log) + 1
           /\ \A m \in 1..Len(log) : log'[m] = log[m]
           /\ \E rev \in BOOLEAN :
                log'[Len(log) + 1] = [reversible |-> rev, undone |-> 0,
                                      items |-> Diff(items, items'),
                                      conflicts |-> Diff(conflicts, conflicts'),
                                      evidence |-> evidence' \ evidence]
<1>1. PICK rev \in BOOLEAN : Commit(items', evidence', conflicts', rev)
  BY DEF Transaction
<1> DEFINE e == [reversible |-> rev, undone |-> 0, items |-> Diff(items, items'),
                 conflicts |-> Diff(conflicts, conflicts'), evidence |-> evidence' \ evidence]
<1>2. log' = Append(log, e)
  BY <1>1 DEF Commit
<1>3. log \in Seq(Event)
  BY DEF TypeOK
<1> HIDE DEF e
<1>4. /\ Len(log) \in Nat /\ DOMAIN log = 1..Len(log)
      /\ DOMAIN log' = 1..(Len(log) + 1) /\ Len(log') = Len(log) + 1
      /\ \A m \in 1..Len(log) : log'[m] = log[m]
      /\ log'[Len(log) + 1] = e
  BY <1>2, <1>3
<1> QED
  BY <1>4 DEF e

(* A rollback marks its event and appends one with the images exchanged.   *)
LEMMA RollbackLog ==
    ASSUME TypeOK, NEW n \in 1..MaxEvents, Rollback(n)
    PROVE  /\ Len(log) \in Nat /\ DOMAIN log = 1..Len(log) /\ n \in 1..Len(log)
           /\ DOMAIN log' = 1..(Len(log) + 1) /\ Len(log') = Len(log) + 1
           /\ log[n] \in Event
           /\ log'[n] = [log[n] EXCEPT !.undone = Len(log) + 1]
           /\ \A m \in 1..Len(log) : m # n => log'[m] = log[m]
           /\ log'[Len(log) + 1] = [reversible |-> FALSE, undone |-> 0,
                                    items |-> Swapped(log[n].items),
                                    conflicts |-> Swapped(log[n].conflicts),
                                    evidence |-> log[n].evidence]
<1> DEFINE entry == [reversible |-> FALSE, undone |-> 0, items |-> Swapped(log[n].items),
                     conflicts |-> Swapped(log[n].conflicts), evidence |-> log[n].evidence]
           marked == [log EXCEPT ![n].undone = Len(log) + 1]
<1>1. log \in Seq(Event)
  BY DEF TypeOK
<1>2. n \in 1..Len(log) /\ Len(log) \in Nat /\ DOMAIN log = 1..Len(log)
  BY <1>1 DEF Rollback
<1>3. log[n] \in Event
  BY <1>1, <1>2
<1>4. log' = Append(marked, entry)
  BY DEF Rollback
<1>5. /\ DOMAIN marked = 1..Len(log)
      /\ marked[n] = [log[n] EXCEPT !.undone = Len(log) + 1]
      /\ \A m \in 1..Len(log) : m # n => marked[m] = log[m]
  BY <1>2
<1>6. marked \in Seq(Event) /\ Len(marked) = Len(log)
  <2>1. [log[n] EXCEPT !.undone = Len(log) + 1] \in Event
    BY <1>2, <1>3 DEF Event
  <2>2. marked = [log EXCEPT ![n] = [log[n] EXCEPT !.undone = Len(log) + 1]]
    OBVIOUS
  <2> HIDE DEF marked
  <2> QED
    BY <1>1, <1>2, <2>1, <2>2
<1> HIDE DEF entry, marked
<1>7. /\ DOMAIN log' = 1..(Len(log) + 1) /\ Len(log') = Len(log) + 1
      /\ \A m \in 1..Len(log) : log'[m] = marked[m]
      /\ log'[Len(log) + 1] = entry
  BY <1>2, <1>4, <1>6
<1> QED
  BY <1>2, <1>3, <1>5, <1>7 DEF entry

(* The images of a transaction's event are those of the rows it changed.   *)
LEMMA ChangedRows ==
    ASSUME TypeOK, TypeOK'
    PROVE  /\ \A i \in ItemIds : i \in Changed(Diff(items, items')) <=> items'[i] # items[i]
           /\ \A i \in Changed(Diff(items, items')) :
                /\ i \in ItemIds
                /\ Diff(items, items')[i].before = items[i]
                /\ Diff(items, items')[i].after = items'[i]
           /\ \A c \in ConflictIds :
                c \in Changed(Diff(conflicts, conflicts')) <=> conflicts'[c] # conflicts[c]
           /\ \A c \in Changed(Diff(conflicts, conflicts')) :
                /\ c \in ConflictIds
                /\ Diff(conflicts, conflicts')[c].before = conflicts[c]
                /\ Diff(conflicts, conflicts')[c].after = conflicts'[c]
<1>1. /\ \A i \in ItemIds : [before |-> items[i], after |-> items'[i]] \in Image(ItemRow)
      /\ \A c \in ConflictIds :
            [before |-> conflicts[c], after |-> conflicts'[c]] \in Image(ConflictRow)
  BY DEF Image, TypeOK
<1>2. /\ \A i \in ItemIds : [before |-> items[i], after |-> items'[i]] # Absent
      /\ \A c \in ConflictIds : [before |-> conflicts[c], after |-> conflicts'[c]] # Absent
  BY <1>1, ConstantsAssumption
<1>3. /\ DOMAIN Diff(items, items') = ItemIds /\ DOMAIN Diff(conflicts, conflicts') = ConflictIds
      /\ \A i \in ItemIds :
            Diff(items, items')[i] = IF items[i] = items'[i] THEN Absent
                                     ELSE [before |-> items[i], after |-> items'[i]]
      /\ \A c \in ConflictIds :
            Diff(conflicts, conflicts')[c] = IF conflicts[c] = conflicts'[c] THEN Absent
                                             ELSE [before |-> conflicts[c], after |-> conflicts'[c]]
  BY DEF Diff, TypeOK
<1> QED
  BY <1>2, <1>3 DEF Changed

-----------------------------------------------------------------------------
(* Undoing respects history                                                *)

(* Outside a rollback a row only moves upwards in this order.              *)
Rank(row) ==
    IF row = Absent THEN 0
    ELSE CASE row.status \in {"pending", "open"} -> 1
           [] row.status \in {"verified", "resolved"} -> 2
           [] row.status = "conflict" -> 3
           [] row.status = "applied" -> 4
           [] OTHER -> 5
LEMMA RankType == ASSUME NEW row PROVE Rank(row) \in Nat
  BY DEF Rank

(* The events that are neither rolled back nor record a rollback, and what *)
(* a table and the images of those events have in common: every event      *)
(* raised its rows, above where all earlier ones had left them, and the    *)
(* table is at least as far.                                               *)
IsUndo(n) == \E k \in DOMAIN log : log[k].undone = n
Live == {n \in DOMAIN log : log[n].undone = 0 /\ ~IsUndo(n)}
Ascends(table, images, live) ==
    \A n \in live : \A k \in Changed(images[n]) :
        /\ Rank(images[n][k].before) < Rank(images[n][k].after)
        /\ Rank(images[n][k].after) <= Rank(table[k])
        /\ \A m \in live :
              (m < n /\ k \in Changed(images[m]))
                  => Rank(images[m][k].after) <= Rank(images[n][k].before)
ItemImages == [n \in DOMAIN log |-> log[n].items]
ConflictImages == [n \in DOMAIN log |-> log[n].conflicts]

LEMMA AscendsAfterChange ==
    ASSUME NEW L \in Nat, NEW live \in SUBSET (1..L), NEW table, NEW images, NEW table2,
           NEW images2, DOMAIN table2 = DOMAIN table,
           Ascends(table, images, live),
           \A m \in live : Changed(images[m]) \subseteq DOMAIN table,
           \A m \in 1..L : images2[m] = images[m],
           images2[L + 1] = Diff(table, table2),
           \A k \in DOMAIN table : table2[k] = table[k] \/ Rank(table[k]) < Rank(table2[k])
    PROVE  Ascends(table2, images2, live \union {L + 1})
<1>1. \A k \in Changed(images2[L + 1]) :
        /\ k \in DOMAIN table
        /\ images2[L + 1][k] = [before |-> table[k], after |-> table2[k]]
        /\ table2[k] # table[k]
  BY DEF Diff, Changed
<1>2. \A k \in DOMAIN table : Rank(table[k]) <= Rank(table2[k])
  BY RankType
<1>3. \A m \in live : m <= L /\ m \in 1..L /\ images2[m] = images[m]
  OBVIOUS
<1> SUFFICES ASSUME NEW n \in live \union {L + 1}, NEW k \in Changed(images2[n])
             PROVE  /\ Rank(images2[n][k].before) < Rank(images2[n][k].after)
                    /\ Rank(images2[n][k].after) <= Rank(table2[k])
                    /\ \A m \in live \union {L + 1} :
                          (m < n /\ k \in Changed(images2[m]))
                              => Rank(images2[m][k].after) <= Rank(images2[n][k].before)
  BY DEF Ascends
<1>4. CASE n = L + 1
  <2>1. Rank(images2[n][k].before) = Rank(table[k]) /\ Rank(images2[n][k].after) = Rank(table2[k])
        /\ Rank(table[k]) < Rank(table2[k]) /\ k \in DOMAIN table
    <3>1. /\ k \in DOMAIN table /\ table2[k] # table[k]
          /\ images2[n][k] = [before |-> table[k], after |-> table2[k]]
      BY <1>1, <1>4
    <3>2. Rank(table[k]) < Rank(table2[k])
      BY <3>1
    <3>3. images2[n][k].before = table[k] /\ images2[n][k].after = table2[k]
      BY <3>1
    <3> QED
      BY <3>1, <3>2, <3>3
  <2>2. \A m \in live : k \in Changed(images[m]) => Rank(images[m][k].after) <= Rank(table[k])
    BY DEF Ascends
  <2>3. Rank(table2[k]) <= Rank(table2[k])
    BY RankType
  <2>4. ASSUME NEW m \in live \union {L + 1}, m < n, k \in Changed(images2[m])
        PROVE  Rank(images2[m][k].after) <= Rank(images2[n][k].before)
    <3>1. m \in live
      BY <1>4, <2>4
    <3> QED
      BY <1>3, <2>1, <2>2, <2>4, <3>1
  <2> QED
    BY <2>1, <2>3, <2>4
<1>5. CASE n \in live
  <2>1. n < L + 1 /\ images2[n] = images[n] /\ k \in Changed(images[n]) /\ k \in DOMAIN table
    <3>1. n <= L /\ n \in 1..L /\ images2[n] = images[n]
      BY <1>3, <1>5
    <3>2. n < L + 1
      BY <3>1
    <3>3. k \in Changed(images[n]) /\ Changed(images[n]) \subseteq DOMAIN table
      BY <3>1, <1>5
    <3> QED
      BY <3>1, <3>2, <3>3
  <2>2. /\ Rank(images[n][k].before) < Rank(images[n][k].after)
        /\ Rank(images[n][k].after) <= Rank(table[k])
        /\ \A m \in live : (m < n /\ k \in Changed(images[m]))
              => Rank(images[m][k].after) <= Rank(images[n][k].before)
    BY <1>5, <2>1 DEF Ascends
  <2>3. Rank(images[n][k].after) <= Rank(table2[k])
    BY <1>2, <2>1, <2>2, RankType
  <2> QED
    BY <1>3, <2>1, <2>2, <2>3
<1> QED
  BY <1>4, <1>5

(* An event whose rows stand as it left them is the last live one on them, *)
LEMMA NoneAbove ==
    ASSUME NEW live \in SUBSET Nat, NEW table, NEW images, Ascends(table, images, live),
           NEW n \in live, \A k \in Changed(images[n]) : table[k] = images[n][k].after,
           NEW m \in live, n < m
    PROVE  Changed(images[n]) \intersect Changed(images[m]) = {}
<1> SUFFICES ASSUME NEW k \in Changed(images[n]), k \in Changed(images[m]) PROVE FALSE
  OBVIOUS
<1>1. Rank(images[n][k].after) <= Rank(images[m][k].before)
  BY DEF Ascends
<1>2. Rank(images[m][k].before) < Rank(images[m][k].after)
      /\ Rank(images[m][k].after) <= Rank(images[n][k].after)
  BY DEF Ascends
<1> QED
  BY <1>1, <1>2, RankType

(* so that taking it back leaves the others in order.                      *)
LEMMA AscendsAfterRollback ==
    ASSUME NEW live \in SUBSET Nat, NEW table, NEW images, NEW images2,
           Ascends(table, images, live),
           NEW n \in live, \A k \in Changed(images[n]) : table[k] = images[n][k].after,
           \A m \in live : Changed(images[m]) \subseteq DOMAIN table,
           \A m \in live : images2[m] = images[m]
    PROVE  Ascends(Restored(table, images[n]), images2, live \ {n})
<1> DEFINE new == Restored(table, images[n])
<1> SUFFICES ASSUME NEW m \in live \ {n}, NEW k \in Changed(images[m])
             PROVE  Rank(images[m][k].after) <= Rank(new[k])
  BY DEF Ascends
<1>1. k \in DOMAIN table /\ Rank(images[m][k].after) <= Rank(table[k])
  BY DEF Ascends
<1>2. CASE k \in Changed(images[n])
  <2>1. new[k] = images[n][k].before
    BY <1>1, <1>2 DEF Restored
  <2>2. ~(n < m)
    BY <1>2, NoneAbove
  <2>3. m < n
    BY <2>2
  <2>4. Rank(images[m][k].after) <= Rank(images[n][k].before)
    BY <1>2, <2>3 DEF Ascends
  <2> QED
    BY <2>1, <2>4
<1>3. CASE k \notin Changed(images[n])
  BY <1>1, <1>3 DEF Restored
<1> QED
  BY <1>2, <1>3

(* The invariant: an event is rolled back by a later one that itself is    *)
(* never rolled back, and what is live ascends.                            *)
UndoneLater == \A n \in DOMAIN log : log[n].undone # 0 => log[n].undone \in (n + 1)..Len(log)
UndoStays == \A n \in DOMAIN log : IsUndo(n) => ~log[n].reversible
HistoryAscends ==
    /\ UndoneLater /\ UndoStays
    /\ Ascends(items, ItemImages, Live)
    /\ Ascends(conflicts, ConflictImages, Live)

(* What an edit does to a row raises it.                                   *)
LEMMA EditRaises ==
    ASSUME TypeOK, TypeOK'
    PROVE  /\ \A i \in ItemIds : ItemEdit(i) =>
                items'[i] = items[i] \/ Rank(items[i]) < Rank(items'[i])
           /\ \A c \in ConflictIds : ConflictEdit(c) =>
                conflicts'[c] = conflicts[c] \/ Rank(conflicts[c]) < Rank(conflicts'[c])
<1>1. ASSUME NEW i \in ItemIds, ItemEdit(i)
      PROVE  items'[i] = items[i] \/ Rank(items[i]) < Rank(items'[i])
  <2>1. CASE ProposedNow(i)
    <3>1. items[i] = Absent /\ items'[i] # Absent /\ items'[i].status = "pending"
      BY <2>1, ConstantsAssumption DEF ProposedNow, Present
    <3> QED
      BY <3>1 DEF Rank
  <2>2. ASSUME NEW m \in Methods, VerifiedBy(i, m) PROVE Rank(items[i]) < Rank(items'[i])
    <3>1. items[i] \in ItemRow /\ items[i] # Absent /\ items[i].status = "pending"
      BY <2>2, PresentRow, ConstantsAssumption DEF VerifiedBy, HasStatus
    <3>2. items'[i] \in ItemRow /\ items'[i].status = "verified"
      BY <2>2, <3>1 DEF VerifiedBy, ItemRow, Statuses
    <3>3. items'[i] # Absent
      BY <3>2, ConstantsAssumption
    <3> QED
      BY <3>1, <3>2, <3>3 DEF Rank
  <2>3. ASSUME NEW s \in Statuses, NEW j \in ItemIds \union {0}, MovedTo(i, s, j)
        PROVE  Rank(items[i]) < Rank(items'[i])
    <3>1. items[i] \in ItemRow /\ items[i] # Absent /\ <<items[i].status, s>> \in Moves
      BY <2>3, PresentRow, ConstantsAssumption DEF MovedTo
    <3>2. items'[i] \in ItemRow /\ items'[i].status = s
      BY <2>3, <3>1 DEF MovedTo, ItemRow
    <3>3. items'[i] # Absent
      BY <3>2, ConstantsAssumption
    <3>4. Rank(items[i]) = CASE items[i].status \in {"pending", "open"} -> 1
                             [] items[i].status \in {"verified", "resolved"} -> 2
                             [] items[i].status = "conflict" -> 3
                             [] items[i].status = "applied" -> 4
                             [] OTHER -> 5
      BY <3>1 DEF Rank
    <3>5. Rank(items'[i]) = CASE s \in {"pending", "open"} -> 1
                              [] s \in {"verified", "resolved"} -> 2
                              [] s = "conflict" -> 3
                              [] s = "applied" -> 4
                              [] OTHER -> 5
      BY <3>2, <3>3 DEF Rank
    <3> QED
      BY <3>1, <3>4, <3>5 DEF Moves
  <2> QED
    BY <1>1, <2>1, <2>2, <2>3 DEF ItemEdit, MovedNow
<1>2. ASSUME NEW c \in ConflictIds, ConflictEdit(c)
      PROVE  conflicts'[c] = conflicts[c] \/ Rank(conflicts[c]) < Rank(conflicts'[c])
  <2>1. CASE OpenedNow(c)
    <3>1. conflicts[c] = Absent /\ conflicts'[c] # Absent
          /\ conflicts'[c].status \in {"open", "resolved"}
      BY <2>1, ConstantsAssumption DEF OpenedNow, Present, ConflictRow
    <3> QED
      BY <3>1 DEF Rank
  <2>2. CASE ClosedNow(c)
    <3>1. conflicts[c] \in ConflictRow /\ conflicts[c] # Absent /\ conflicts[c].status = "open"
      BY <2>2, PresentConflict, ConstantsAssumption DEF ClosedNow, IsOpen
    <3>2. conflicts'[c] \in ConflictRow /\ conflicts'[c].status = "resolved"
      BY <2>2, <3>1 DEF ClosedNow, ConflictRow
    <3>3. conflicts'[c] # Absent
      BY <3>2, ConstantsAssumption
    <3> QED
      BY <3>1, <3>2, <3>3 DEF Rank
  <2> QED
    BY <1>2, <2>1, <2>2 DEF ConflictEdit
<1> QED
  BY <1>1, <1>2

(* An event's images are of rows of its tables.                            *)
LEMMA ImagesOfTables ==
    ASSUME TypeOK, NEW n \in DOMAIN log
    PROVE  /\ log[n].items \in Images(ItemIds, ItemRow)
           /\ log[n].conflicts \in Images(ConflictIds, ConflictRow)
           /\ Changed(log[n].items) \subseteq DOMAIN items
           /\ Changed(log[n].conflicts) \subseteq DOMAIN conflicts
<1>1. log[n] \in Event
  BY DEF TypeOK
<1>2. log[n].items \in Images(ItemIds, ItemRow) /\ log[n].conflicts \in Images(ConflictIds, ConflictRow)
  BY <1>1 DEF Event
<1>3. DOMAIN log[n].items = ItemIds /\ DOMAIN log[n].conflicts = ConflictIds
  BY <1>2 DEF Images
<1> QED
  BY <1>2, <1>3 DEF Changed, TypeOK

(* A transaction adds one live event on top.                               *)
LEMMA TransactionAscends ==
    ASSUME TypeOK, TypeOK', Transaction, HistoryAscends, UndoIsCausal
    PROVE  HistoryAscends' /\ UndoIsCausal'
<1>0. PICK L \in Nat : L = Len(log)
  BY DEF TypeOK
<1>1. /\ L \in Nat /\ DOMAIN log = 1..L /\ DOMAIN log' = 1..(L + 1) /\ Len(log') = L + 1
      /\ \A m \in 1..L : log'[m] = log[m]
      /\ log'[L + 1].undone = 0
      /\ log'[L + 1].items = Diff(items, items') /\ log'[L + 1].conflicts = Diff(conflicts, conflicts')
  <2>1. PICK rev \in BOOLEAN :
          log'[L + 1] = [reversible |-> rev, undone |-> 0, items |-> Diff(items, items'),
                         conflicts |-> Diff(conflicts, conflicts'),
                         evidence |-> evidence' \ evidence]
    BY <1>0, TransactionLog
  <2> QED
    BY <1>0, <2>1, TransactionLog
<1>2. \A n \in 1..L : log[n].undone # 0 => log[n].undone \in (n + 1)..L
  BY <1>0, <1>1 DEF HistoryAscends, UndoneLater
<1>3. \A n \in 1..L : log[n].undone \in Nat
  <2>1. \A n \in 1..L : log[n] \in Event
    BY <1>1 DEF TypeOK
  <2> QED
    BY <2>1 DEF Event
<1>4. (\A n \in 1..L : IsUndo(n)' <=> IsUndo(n)) /\ ~IsUndo(L + 1)'
  BY <1>1, <1>2, <1>3 DEF IsUndo
<1>5. Live' = Live \union {L + 1}
  BY <1>1, <1>4 DEF Live
<1>6. UndoneLater' /\ UndoStays'
  BY <1>0, <1>1, <1>2, <1>4 DEF UndoneLater, UndoStays, HistoryAscends
<1>7. Live \in SUBSET (1..L)
  BY <1>1 DEF Live
<1>8. Ascends(items, ItemImages, Live)'
  <2>1. \A m \in 1..L : ItemImages'[m] = ItemImages[m] /\ ItemImages[m] = log[m].items
    BY <1>1 DEF ItemImages
  <2>2. ItemImages'[L + 1] = Diff(items, items')
    BY <1>1 DEF ItemImages
  <2>3. \A m \in Live : Changed(ItemImages[m]) \subseteq DOMAIN items
    BY <1>1, <1>7, <2>1, ImagesOfTables
  <2>4. DOMAIN items' = DOMAIN items /\ DOMAIN items = ItemIds
    BY DEF TypeOK
  <2>5. \A k \in DOMAIN items : items'[k] = items[k] \/ Rank(items[k]) < Rank(items'[k])
    BY <2>4, EditRaises DEF Transaction
  <2>6. Ascends(items, ItemImages, Live)
    BY DEF HistoryAscends
  <2> HIDE DEF HistoryAscends, ItemImages
  <2>7. Ascends(items', ItemImages', Live \union {L + 1})
    BY <1>1, <1>7, <2>1, <2>2, <2>3, <2>4, <2>5, <2>6, AscendsAfterChange
  <2> QED
    BY <1>5, <2>7 DEF Ascends
<1>9. Ascends(conflicts, ConflictImages, Live)'
  <2>1. \A m \in 1..L : ConflictImages'[m] = ConflictImages[m] /\ ConflictImages[m] = log[m].conflicts
    BY <1>1 DEF ConflictImages
  <2>2. ConflictImages'[L + 1] = Diff(conflicts, conflicts')
    BY <1>1 DEF ConflictImages
  <2>3. \A m \in Live : Changed(ConflictImages[m]) \subseteq DOMAIN conflicts
    BY <1>1, <1>7, <2>1, ImagesOfTables
  <2>4. DOMAIN conflicts' = DOMAIN conflicts /\ DOMAIN conflicts = ConflictIds
    BY DEF TypeOK
  <2>5. \A k \in DOMAIN conflicts :
          conflicts'[k] = conflicts[k] \/ Rank(conflicts[k]) < Rank(conflicts'[k])
    BY <2>4, EditRaises DEF Transaction
  <2>6. Ascends(conflicts, ConflictImages, Live)
    BY DEF HistoryAscends
  <2> HIDE DEF HistoryAscends, ConflictImages
  <2>7. Ascends(conflicts', ConflictImages', Live \union {L + 1})
    BY <1>1, <1>7, <2>1, <2>2, <2>3, <2>4, <2>5, <2>6, AscendsAfterChange
  <2> QED
    BY <1>5, <2>7 DEF Ascends
<1>10. UndoIsCausal'
  <2> SUFFICES ASSUME NEW m \in 1..(L + 1), NEW n \in 1..(L + 1), m < n,
                      n < log'[m].undone, SharesRow(log'[m], log'[n])
               PROVE  \/ log'[n].undone \in (n + 1)..log'[m].undone
                      \/ \E k \in 1..(L + 1) : log'[k].undone = n
    BY <1>1 DEF UndoIsCausal
  <2>1. m \in 1..L /\ log'[m] = log[m]
    BY <1>1
  <2>2. n \in 1..L /\ log'[n] = log[n]
    BY <1>1, <1>2, <2>1
  <2>3. log[n].undone \in (n + 1)..log[m].undone \/ \E k \in 1..L : log[k].undone = n
    BY <1>1, <2>1, <2>2 DEF UndoIsCausal
  <2> QED
    BY <1>1, <2>1, <2>2, <2>3
<1> QED
  BY <1>6, <1>8, <1>9, <1>10 DEF HistoryAscends

(* A rollback takes the last live event on its rows away.                  *)
LEMMA RollbackAscends ==
    ASSUME TypeOK, TypeOK', NEW n \in 1..MaxEvents, Rollback(n), HistoryAscends, UndoIsCausal
    PROVE  HistoryAscends' /\ UndoIsCausal'
<1>0. PICK L \in Nat : L = Len(log)
  BY DEF TypeOK
<1>1. /\ L \in Nat /\ DOMAIN log = 1..L /\ n \in 1..L
      /\ DOMAIN log' = 1..(L + 1) /\ Len(log') = L + 1
      /\ log[n] \in Event
      /\ log'[n] = [log[n] EXCEPT !.undone = L + 1]
      /\ \A m \in 1..L : m # n => log'[m] = log[m]
      /\ log'[L + 1].undone = 0 /\ log'[L + 1].reversible = FALSE
  <2>1. log'[L + 1] = [reversible |-> FALSE, undone |-> 0, items |-> Swapped(log[n].items),
                       conflicts |-> Swapped(log[n].conflicts), evidence |-> log[n].evidence]
    BY <1>0, RollbackLog
  <2>2. log'[L + 1].undone = 0 /\ log'[L + 1].reversible = FALSE
    BY <2>1
  <2> QED
    BY <1>0, <2>2, RollbackLog
<1>2. /\ log[n].reversible /\ log[n].undone = 0
      /\ StandsAsLeftBy(log[n])
      /\ items' = Restored(items, log[n].items) /\ conflicts' = Restored(conflicts, log[n].conflicts)
  BY DEF Rollback
<1>3. /\ log'[n].undone = L + 1 /\ log'[n].reversible = log[n].reversible
      /\ log'[n].items = log[n].items /\ log'[n].conflicts = log[n].conflicts
  BY <1>1 DEF Event
<1>4. \A m \in 1..L : log[m].undone # 0 => log[m].undone \in (m + 1)..L
  BY <1>0, <1>1 DEF HistoryAscends, UndoneLater
<1>5. ~IsUndo(n)
  BY <1>1, <1>2 DEF HistoryAscends, UndoStays
<1>6. /\ DOMAIN log = 1..L /\ n \in 1..L /\ DOMAIN log' = 1..(L + 1) /\ Len(log') = L + 1
      /\ log'[n].undone = L + 1 /\ log[n].undone = 0 /\ log'[L + 1].undone = 0
      /\ log'[L + 1].reversible = FALSE
      /\ \A m \in 1..L : m # n => log'[m].undone = log[m].undone
      /\ \A m \in 1..L : /\ log'[m].items = log[m].items /\ log'[m].conflicts = log[m].conflicts
                         /\ log'[m].reversible = log[m].reversible
  <2>1. ASSUME NEW m \in 1..L, m # n PROVE log'[m] = log[m]
    BY <1>1, <2>1
  <2> QED
    BY <1>1, <1>2, <1>3, <2>1
<1>7. (\A m \in 1..L : IsUndo(m)' <=> IsUndo(m)) /\ IsUndo(L + 1)'
  <2>1. IsUndo(L + 1)'
    BY <1>6 DEF IsUndo
  <2>2. ASSUME NEW m \in 1..L, IsUndo(m) PROVE IsUndo(m)'
    <3>1. PICK k \in 1..L : log[k].undone = m
      BY <1>6, <2>2 DEF IsUndo
    <3>2. k # n
      BY <1>6, <3>1
    <3>3. k \in DOMAIN log' /\ log'[k].undone = m
      <4>1. log'[k].undone = log[k].undone
        BY <1>6, <3>2
      <4> QED
        BY <1>6, <3>1, <4>1
    <3> QED
      BY <3>3 DEF IsUndo
  <2>3. ASSUME NEW m \in 1..L, IsUndo(m)' PROVE IsUndo(m)
    <3>1. PICK k \in 1..(L + 1) : log'[k].undone = m
      BY <1>6, <2>3 DEF IsUndo
    <3>2. k # n /\ k # L + 1
      BY <1>6, <3>1
    <3>3. k \in DOMAIN log /\ log[k].undone = m
      <4>1. k \in 1..L
        BY <1>1, <3>1, <3>2
      <4>2. log'[k].undone = log[k].undone
        BY <1>6, <3>2, <4>1
      <4> QED
        BY <1>6, <3>1, <4>1, <4>2
    <3> QED
      BY <3>3 DEF IsUndo
  <2> QED
    BY <2>1, <2>2, <2>3
<1>8. n \in Live /\ Live' = Live \ {n} /\ Live \in SUBSET (1..L)
  BY <1>6, <1>5, <1>7 DEF Live
<1>9. UndoneLater' /\ UndoStays'
  <2>1. ASSUME NEW m \in 1..(L + 1), log'[m].undone # 0
        PROVE  log'[m].undone \in (m + 1)..(L + 1)
    <3>1. m \in 1..L
      BY <1>1, <2>1
    <3>2. CASE m = n
      <4>1. log'[m].undone = L + 1
        BY <1>6, <3>2
      <4>2. m + 1 <= L + 1
        BY <1>1, <3>1
      <4> QED
        BY <1>1, <4>1, <4>2
    <3>3. CASE m # n
      <4>1. log[m].undone # 0 /\ log'[m].undone = log[m].undone
        BY <1>6, <2>1, <3>1, <3>3
      <4> QED
        BY <1>1, <1>4, <3>1, <4>1
    <3> QED
      BY <3>2, <3>3
  <2>2. ASSUME NEW m \in 1..(L + 1), IsUndo(m)' PROVE ~log'[m].reversible
    <3>1. CASE m = L + 1
      BY <1>6, <3>1
    <3>2. CASE m \in 1..L
      <4>1. ~log[m].reversible
        BY <1>6, <1>7, <2>2, <3>2 DEF UndoStays, HistoryAscends
      <4> QED
        BY <1>6, <3>2, <4>1
    <3> QED
      BY <1>1, <3>1, <3>2
  <2> QED
    BY <1>6, <2>1, <2>2 DEF UndoneLater, UndoStays
<1>10. Live \in SUBSET Nat
  BY <1>8
<1>11. /\ \A m \in 1..L : ItemImages'[m] = ItemImages[m] /\ ItemImages[m] = log[m].items
       /\ \A m \in 1..L : ConflictImages'[m] = ConflictImages[m] /\ ConflictImages[m] = log[m].conflicts
  BY <1>6 DEF ItemImages, ConflictImages
<1>12. /\ \A m \in Live : Changed(ItemImages[m]) \subseteq DOMAIN items
       /\ \A m \in Live : Changed(ConflictImages[m]) \subseteq DOMAIN conflicts
  BY <1>1, <1>8, <1>11, ImagesOfTables
<1>13. /\ \A k \in Changed(ItemImages[n]) : items[k] = ItemImages[n][k].after
       /\ \A k \in Changed(ConflictImages[n]) : conflicts[k] = ConflictImages[n][k].after
  BY <1>1, <1>2, <1>11 DEF StandsAsLeftBy
<1>14. Ascends(items, ItemImages, Live) /\ Ascends(conflicts, ConflictImages, Live)
  BY DEF HistoryAscends
<1>15. Ascends(items, ItemImages, Live)'
  <2>1. Ascends(Restored(items, ItemImages[n]), ItemImages', Live \ {n})
    <3> HIDE DEF ItemImages, Live
    <3> QED
      BY <1>8, <1>10, <1>11, <1>12, <1>13, <1>14, AscendsAfterRollback
  <2> QED
    BY <1>1, <1>2, <1>8, <1>11, <2>1 DEF Ascends
<1>16. Ascends(conflicts, ConflictImages, Live)'
  <2>1. Ascends(Restored(conflicts, ConflictImages[n]), ConflictImages', Live \ {n})
    <3> HIDE DEF ConflictImages, Live
    <3> QED
      BY <1>8, <1>10, <1>11, <1>12, <1>13, <1>14, AscendsAfterRollback
  <2> QED
    BY <1>1, <1>2, <1>8, <1>11, <2>1 DEF Ascends
<1>17. \A m \in Live : n < m => ~SharesRow(log[n], log[m])
  <2> SUFFICES ASSUME NEW m \in Live, n < m PROVE ~SharesRow(log[n], log[m])
    OBVIOUS
  <2>1. Changed(ItemImages[n]) \intersect Changed(ItemImages[m]) = {}
    <3> HIDE DEF ItemImages, Live
    <3>1. n \in Live /\ Live \in SUBSET Nat /\ Ascends(items, ItemImages, Live)
      BY <1>8, <1>10, <1>14
    <3>2. \A k \in Changed(ItemImages[n]) : items[k] = ItemImages[n][k].after
      BY <1>13
    <3> QED
      BY <3>1, <3>2, NoneAbove
  <2>2. Changed(ConflictImages[n]) \intersect Changed(ConflictImages[m]) = {}
    <3> HIDE DEF ConflictImages, Live
    <3>1. n \in Live /\ Live \in SUBSET Nat /\ Ascends(conflicts, ConflictImages, Live)
      BY <1>8, <1>10, <1>14
    <3>2. \A k \in Changed(ConflictImages[n]) : conflicts[k] = ConflictImages[n][k].after
      BY <1>13
    <3> QED
      BY <3>1, <3>2, NoneAbove
  <2> QED
    BY <1>1, <1>8, <1>11, <2>1, <2>2 DEF SharesRow
<1>18. UndoIsCausal'
  <2> SUFFICES ASSUME NEW m \in 1..(L + 1), NEW d \in 1..(L + 1), m < d,
                      d < log'[m].undone, SharesRow(log'[m], log'[d])
               PROVE  log'[d].undone \in (d + 1)..log'[m].undone \/ IsUndo(d)'
    BY <1>1 DEF UndoIsCausal, IsUndo
  <2>1. m \in 1..L /\ d \in 1..L
    BY <1>6, <1>4
  <2>2. CASE m = n
    <3>1. d # n /\ SharesRow(log[n], log[d])
      <4>1. \A x \in {n, d} : log'[x].items = log[x].items /\ log'[x].conflicts = log[x].conflicts
        BY <1>6, <2>1
      <4>2. SharesRow(log'[n], log'[d]) /\ d # n
        BY <2>2
      <4> QED
        BY <4>1, <4>2 DEF SharesRow
    <3>2. d \notin Live
      BY <1>17, <2>2, <3>1
    <3> QED
      BY <1>6, <1>4, <1>7, <2>1, <2>2, <3>1, <3>2 DEF Live
  <2>3. CASE m # n
    <3>1. log'[m] = log[m] /\ SharesRow(log[m], log[d])
      BY <1>1, <1>3, <2>1, <2>3 DEF SharesRow
    <3>2. log[d].undone \in (d + 1)..log[m].undone \/ IsUndo(d)
      BY <1>1, <2>1, <3>1 DEF UndoIsCausal, IsUndo
    <3>3. CASE IsUndo(d)
      BY <1>7, <2>1, <3>3
    <3>4. CASE log[d].undone \in (d + 1)..log[m].undone
      <4>1. d # n
        BY <1>2, <2>1, <3>4
      <4> QED
        BY <1>1, <2>1, <3>1, <3>4, <4>1
    <3> QED
      BY <3>2, <3>3, <3>4
  <2> QED
    BY <2>2, <2>3
<1> QED
  BY <1>9, <1>15, <1>16, <1>18 DEF HistoryAscends

(* Every step keeps the history in order.                                  *)
LEMMA NextAscends ==
    ASSUME TypeOK, TypeOK', [Next]_vars, HistoryAscends, UndoIsCausal
    PROVE  HistoryAscends' /\ UndoIsCausal'
<1>1. CASE UNCHANGED <<items, evidence, conflicts, log>>
  BY <1>1 DEF HistoryAscends, UndoIsCausal, UndoneLater, UndoStays, IsUndo, Live, ItemImages,
     ConflictImages
<1> QED
  BY <1>1, StepShape, TransactionAscends, RollbackAscends

(* Events are only undone after every later event on their rows: what a    *)
(* rollback restores was never overwritten by something that still stands. *)
THEOREM UndoRespectsHistory == Spec => []UndoIsCausal
<1>1. Init => TypeOK /\ HistoryAscends /\ UndoIsCausal
  <2> SUFFICES ASSUME Init PROVE HistoryAscends /\ UndoIsCausal
    BY InitType
  <2>1. DOMAIN log = {}
    BY DEF Init
  <2>2. Live = {}
    BY <2>1 DEF Live
  <2> QED
    BY <2>1, <2>2 DEF HistoryAscends, UndoneLater, UndoStays, Ascends, UndoIsCausal
<1>2. (TypeOK /\ HistoryAscends /\ UndoIsCausal) /\ [Next]_vars
        => (TypeOK /\ HistoryAscends /\ UndoIsCausal)'
  BY NextType, NextAscends
<1> QED
  BY <1>1, <1>2, PTL DEF Spec

-----------------------------------------------------------------------------
(* References resolve                                                      *)

(* A candidate is settled when no rollback can delete it any more: every   *)
(* insertion of it that could still be taken back has a later event that   *)
(* touched it.  A row, now in its table or in an image of the log, is      *)
(* settled when all it relies on is: itself once it is past pending, and   *)
(* the candidates it names.                                                *)
Settled(i) ==
    /\ Present(items, i)
    /\ \A n \in DOMAIN log :
         (log[n].reversible /\ log[n].undone = 0 /\ i \in Inserted(log[n].items))
            => \E m \in (n + 1)..Len(log) : Touches(log[m], i)
SettledItem(i, row) ==
    row # Absent => /\ row.status # "pending" => Settled(i)
                    /\ row.supersedes # 0 => Settled(row.supersedes)
SettledConflict(row) ==
    row # Absent => /\ row.existing # 0 => Settled(row.existing)
                    /\ row.candidate # 0 => Settled(row.candidate)
SettledImages(e) ==
    /\ \A i \in Changed(e.items) : /\ SettledItem(i, e.items[i].before)
                                   /\ SettledItem(i, e.items[i].after)
    /\ \A c \in Changed(e.conflicts) : /\ SettledConflict(e.conflicts[c].before)
                                       /\ SettledConflict(e.conflicts[c].after)
AllSettled ==
    /\ \A i \in ItemIds : SettledItem(i, items[i])
    /\ \A c \in ConflictIds : SettledConflict(conflicts[c])
    /\ \A n \in DOMAIN log : SettledImages(log[n])

LEMMA ZeroIsNoItem == 0 \notin ItemIds
  BY ConstantsAssumption DEF ItemIds

(* A transaction never removes a candidate.                                *)
LEMMA TransactionKeepsItems ==
    ASSUME TypeOK, TypeOK', Transaction, NEW i \in ItemIds, Present(items, i)
    PROVE  Present(items', i) /\ items'[i] \in ItemRow
<1>1. items'[i] = items[i] \/ Rank(items[i]) < Rank(items'[i])
  BY EditRaises DEF Transaction
<1>2. CASE items'[i] = Absent
  <2>1. Rank(items'[i]) = 0 /\ items[i] # Absent
    BY <1>2 DEF Rank, Present
  <2> QED
    BY <1>1, <1>2, <2>1, RankType
<1> QED
  BY <1>2 DEF Present, TypeOK

(* What is settled stays settled: through a transaction,                   *)
LEMMA TransactionKeepsSettled ==
    ASSUME TypeOK, TypeOK', Transaction, NEW i \in ItemIds, Settled(i)
    PROVE  Settled(i)'
<1>0. PICK L \in Nat : L = Len(log)
  BY DEF TypeOK
<1>1. PICK rev \in BOOLEAN :
        log'[L + 1] = [reversible |-> rev, undone |-> 0, items |-> Diff(items, items'),
                       conflicts |-> Diff(conflicts, conflicts'), evidence |-> evidence' \ evidence]
  BY <1>0, TransactionLog
<1>2. /\ DOMAIN log = 1..L /\ DOMAIN log' = 1..(L + 1) /\ Len(log') = L + 1
      /\ \A m \in 1..L : log'[m] = log[m]
      /\ log'[L + 1].items = Diff(items, items')
  BY <1>0, <1>1, TransactionLog
<1>3. Present(items, i) /\ Present(items', i)
  BY TransactionKeepsItems DEF Settled
<1>4. i \notin Inserted(log'[L + 1].items)
  BY <1>2, <1>3 DEF Inserted, Changed, Diff, Present, TypeOK
<1>5. ASSUME NEW n \in 1..(L + 1), log'[n].reversible, log'[n].undone = 0,
             i \in Inserted(log'[n].items)
      PROVE  \E m \in (n + 1)..(L + 1) : Touches(log'[m], i)
  <2>1. n \in 1..L /\ log'[n] = log[n]
    BY <1>2, <1>4, <1>5
  <2>2. PICK m \in (n + 1)..L : Touches(log[m], i)
    BY <1>0, <1>2, <1>5, <2>1 DEF Settled
  <2> QED
    BY <1>2, <2>1, <2>2
<1> QED
  BY <1>2, <1>3, <1>5 DEF Settled

(* and through a rollback, which finds the later event.                    *)
LEMMA RollbackKeepsSettled ==
    ASSUME TypeOK, TypeOK', NEW n \in 1..MaxEvents, Rollback(n), NEW i \in ItemIds, Settled(i)
    PROVE  Settled(i)'
<1>0. PICK L \in Nat : L = Len(log)
  BY DEF TypeOK
<1>1. log'[L + 1] = [reversible |-> FALSE, undone |-> 0, items |-> Swapped(log[n].items),
                     conflicts |-> Swapped(log[n].conflicts), evidence |-> log[n].evidence]
      /\ log[n] \in Event /\ log'[n] = [log[n] EXCEPT !.undone = L + 1]
  BY <1>0, RollbackLog
<1>2. /\ DOMAIN log = 1..L /\ DOMAIN log' = 1..(L + 1) /\ Len(log') = L + 1 /\ n \in 1..L
      /\ \A m \in 1..L : m # n => log'[m] = log[m]
      /\ log'[L + 1].reversible = FALSE
      /\ log'[n].undone = L + 1
      /\ log'[n].items = log[n].items /\ log'[n].conflicts = log[n].conflicts
      /\ log'[n].evidence = log[n].evidence
  BY <1>0, <1>1, RollbackLog DEF Event
<1>3. \A m \in 1..L : Touches(log'[m], i) <=> Touches(log[m], i)
  <2>1. Touches(log'[n], i) <=> Touches(log[n], i)
    BY <1>2 DEF Touches
  <2> QED
    BY <1>2, <2>1
<1>4. Present(items', i)
  <2>1. /\ log[n].reversible /\ log[n].undone = 0 /\ DeletionsAreSafe(n)
        /\ items' = Restored(items, log[n].items)
    BY DEF Rollback
  <2>2. i \notin Inserted(log[n].items)
    <3>1. SUFFICES ASSUME i \in Inserted(log[n].items) PROVE FALSE
      OBVIOUS
    <3>2. \E m \in (n + 1)..Len(log) : Touches(log[m], i)
      BY <1>2, <2>1, <3>1 DEF Settled
    <3> QED
      BY <2>1, <3>1, <3>2 DEF DeletionsAreSafe
  <2> QED
    BY <2>1, <2>2 DEF Settled, Present, Inserted, Restored, TypeOK
<1>5. ASSUME NEW d \in 1..(L + 1), log'[d].reversible, log'[d].undone = 0,
             i \in Inserted(log'[d].items)
      PROVE  \E m \in (d + 1)..(L + 1) : Touches(log'[m], i)
  <2>1. d \in 1..L /\ d # n
    BY <1>2, <1>5
  <2>2. log'[d] = log[d]
    BY <1>2, <2>1
  <2>3. PICK m \in (d + 1)..L : Touches(log[m], i)
    BY <1>0, <1>2, <1>5, <2>1, <2>2 DEF Settled
  <2> QED
    BY <1>3, <2>1, <2>3
<1> QED
  BY <1>2, <1>4, <1>5 DEF Settled

(* A candidate that a transaction changes is settled by it.                *)
LEMMA ChangeSettles ==
    ASSUME TypeOK, TypeOK', Transaction, NEW i \in ItemIds, Present(items, i),
           items'[i] # items[i]
    PROVE  Settled(i)'
<1>0. PICK L \in Nat : L = Len(log)
  BY DEF TypeOK
<1>1. PICK rev \in BOOLEAN :
        log'[L + 1] = [reversible |-> rev, undone |-> 0, items |-> Diff(items, items'),
                       conflicts |-> Diff(conflicts, conflicts'), evidence |-> evidence' \ evidence]
  BY <1>0, TransactionLog
<1>2. /\ DOMAIN log' = 1..(L + 1) /\ Len(log') = L + 1
      /\ log'[L + 1].items = Diff(items, items')
  BY <1>0, <1>1, TransactionLog
<1>3. Present(items', i)
  BY TransactionKeepsItems
<1>4. i \in Changed(log'[L + 1].items) /\ i \notin Inserted(log'[L + 1].items)
  <2>1. i \in Changed(Diff(items, items'))
    BY ChangedRows
  <2>2. Diff(items, items')[i].before = items[i]
    BY <2>1, ChangedRows
  <2> QED
    BY <1>2, <2>1, <2>2 DEF Inserted, Present
<1>5. Touches(log'[L + 1], i)
  BY <1>4 DEF Touches
<1> QED
  BY <1>2, <1>3, <1>4, <1>5 DEF Settled

(* Settled rows stay settled when their candidates do.                     *)
LEMMA SettledRowsStay ==
    ASSUME \A i \in ItemIds : Settled(i) => Settled(i)'
    PROVE  /\ \A i \in ItemIds, row \in ItemRow \union {Absent} :
                SettledItem(i, row) => SettledItem(i, row)'
           /\ \A row \in ConflictRow \union {Absent} :
                SettledConflict(row) => SettledConflict(row)'
<1>1. ASSUME NEW i \in ItemIds, NEW row \in ItemRow \union {Absent}, SettledItem(i, row)
      PROVE  SettledItem(i, row)'
  <2>1. row # Absent => row.supersedes \in ItemIds \union {0}
    BY DEF ItemRow
  <2> QED
    BY <1>1, <2>1 DEF SettledItem
<1>2. ASSUME NEW row \in ConflictRow \union {Absent}, SettledConflict(row)
      PROVE  SettledConflict(row)'
  <2>1. row # Absent => row.existing \in ItemIds \union {0} /\ row.candidate \in ItemIds \union {0}
    BY DEF ConflictRow
  <2> QED
    BY <1>2, <2>1 DEF SettledConflict
<1> QED
  BY <1>1, <1>2

(* The rows in the images of an event have their types.                    *)
LEMMA ImageRows ==
    ASSUME TypeOK, NEW n \in DOMAIN log
    PROVE  /\ \A i \in Changed(log[n].items) :
                /\ i \in ItemIds
                /\ log[n].items[i].before \in ItemRow \union {Absent}
                /\ log[n].items[i].after \in ItemRow \union {Absent}
           /\ \A c \in Changed(log[n].conflicts) :
                /\ c \in ConflictIds
                /\ log[n].conflicts[c].before \in ConflictRow \union {Absent}
                /\ log[n].conflicts[c].after \in ConflictRow \union {Absent}
<1>1. log[n].items \in Images(ItemIds, ItemRow) /\ log[n].conflicts \in Images(ConflictIds, ConflictRow)
  BY ImagesOfTables
<1>2. /\ \A i \in Changed(log[n].items) : i \in ItemIds /\ log[n].items[i] \in Image(ItemRow)
      /\ \A c \in Changed(log[n].conflicts) :
           c \in ConflictIds /\ log[n].conflicts[c] \in Image(ConflictRow)
  BY <1>1 DEF Images, Changed
<1> QED
  BY <1>2 DEF Image

LEMMA TransactionSettled ==
    ASSUME TypeOK, TypeOK', Transaction, AllSettled PROVE AllSettled'
<1>0. PICK L \in Nat : L = Len(log)
  BY DEF TypeOK
<1>1. PICK rev \in BOOLEAN :
        log'[L + 1] = [reversible |-> rev, undone |-> 0, items |-> Diff(items, items'),
                       conflicts |-> Diff(conflicts, conflicts'), evidence |-> evidence' \ evidence]
  BY <1>0, TransactionLog
<1>2. /\ DOMAIN log = 1..L /\ DOMAIN log' = 1..(L + 1)
      /\ \A m \in 1..L : log'[m] = log[m]
      /\ log'[L + 1].items = Diff(items, items')
      /\ log'[L + 1].conflicts = Diff(conflicts, conflicts')
  BY <1>0, <1>1, TransactionLog
<1>3. \A i \in ItemIds : Settled(i) => Settled(i)'
  BY TransactionKeepsSettled
<1>4. /\ \A i \in ItemIds, row \in ItemRow \union {Absent} :
           SettledItem(i, row) => SettledItem(i, row)'
      /\ \A row \in ConflictRow \union {Absent} : SettledConflict(row) => SettledConflict(row)'
  BY <1>3, SettledRowsStay
<1>5. \A i \in ItemIds : HasStatus(i, "applied") => Settled(i)
  BY DEF HasStatus, Present, AllSettled, SettledItem
<1>6. ASSUME NEW i \in ItemIds, MovedNow(i) PROVE Settled(i)'
  <2>1. PICK s \in Statuses, j \in ItemIds \union {0} : MovedTo(i, s, j)
    BY <1>6 DEF MovedNow
  <2>2. items[i] \in ItemRow /\ Present(items, i)
    BY <2>1, PresentRow DEF MovedTo
  <2>3. items'[i].status = s /\ items[i].status # s
    BY <2>1, <2>2 DEF MovedTo, Moves, ItemRow
  <2> QED
    BY <2>2, <2>3, ChangeSettles
<1>7. ASSUME NEW i \in ItemIds PROVE SettledItem(i, items[i])'
  <2>1. CASE items'[i] = items[i]
    <3>1. SettledItem(i, items[i])
      BY DEF AllSettled
    <3> QED
      BY <1>3, <2>1, <3>1, PresentRow DEF SettledItem, Present, ItemRow
  <2>2. CASE ProposedNow(i)
    BY <2>2 DEF ProposedNow, SettledItem
  <2>3. ASSUME NEW m \in Methods, VerifiedBy(i, m) PROVE SettledItem(i, items[i])'
    <3>1. items[i] \in ItemRow /\ Present(items, i) /\ items[i].status = "pending"
      BY <2>3, PresentRow DEF VerifiedBy, HasStatus
    <3>2. items'[i].status = "verified" /\ items'[i].supersedes = items[i].supersedes
      BY <2>3, <3>1 DEF VerifiedBy, ItemRow
    <3>3. Settled(i)'
      BY <3>1, <3>2, ChangeSettles
    <3>4. items[i].supersedes # 0 => Settled(items[i].supersedes)
      BY <3>1 DEF AllSettled, SettledItem, Present
    <3>5. items[i].supersedes \in ItemIds \union {0}
      BY <3>1 DEF ItemRow
    <3> QED
      BY <1>3, <3>2, <3>3, <3>4, <3>5 DEF SettledItem
  <2>4. CASE MovedNow(i)
    <3>1. PICK s \in Statuses, j \in ItemIds \union {0} : MovedTo(i, s, j)
      BY <2>4 DEF MovedNow
    <3>2. items[i] \in ItemRow /\ Present(items, i)
      BY <3>1, PresentRow DEF MovedTo
    <3>3. items'[i].supersedes = j
      BY <3>1, <3>2 DEF MovedTo, ItemRow
    <3>4. j # 0 => Settled(j)
      <4>1. items[i].supersedes # 0 => Settled(items[i].supersedes)
        BY <3>2 DEF AllSettled, SettledItem, Present
      <4> QED
        BY <1>5, <3>1, <4>1 DEF MovedTo
    <3> QED
      BY <1>3, <1>6, <2>4, <3>3, <3>4 DEF SettledItem
  <2> QED
    BY <2>1, <2>2, <2>3, <2>4 DEF Transaction, ItemEdit
<1>8. ASSUME NEW c \in ConflictIds PROVE SettledConflict(conflicts[c])'
  <2>1. CASE conflicts'[c] = conflicts[c]
    <3>1. SettledConflict(conflicts[c])
      BY DEF AllSettled
    <3> QED
      BY <1>3, <2>1, <3>1, PresentConflict DEF SettledConflict, Present, ConflictRow
  <2>2. CASE OpenedNow(c)
    <3>1. /\ conflicts'[c].existing \in ItemIds \union {0}
          /\ conflicts'[c].candidate \in ItemIds \union {0}
      BY <2>2 DEF OpenedNow, ConflictRow
    <3>2. /\ conflicts'[c].existing # 0 => HasStatus(conflicts'[c].existing, "applied")
          /\ conflicts'[c].candidate # 0 => MovedNow(conflicts'[c].candidate)
      BY <2>2 DEF OpenedNow
    <3>3. /\ conflicts'[c].existing # 0 => Settled(conflicts'[c].existing)
      BY <1>5, <3>1, <3>2
    <3>4. \A i \in ItemIds : (i = conflicts'[c].existing \/ i = conflicts'[c].candidate) => Settled(i)'
      BY <1>3, <1>6, <3>1, <3>2, <3>3, ZeroIsNoItem
    <3> QED
      BY <3>1, <3>4 DEF SettledConflict
  <2>3. CASE ClosedNow(c)
    <3>1. conflicts[c] \in ConflictRow /\ Present(conflicts, c)
      BY <2>3, PresentConflict DEF ClosedNow, IsOpen
    <3>2. /\ conflicts'[c].existing = conflicts[c].existing
          /\ conflicts'[c].candidate = conflicts[c].candidate
      BY <2>3, <3>1 DEF ClosedNow, ConflictRow
    <3>3. /\ conflicts[c].existing # 0 => Settled(conflicts[c].existing)
          /\ conflicts[c].candidate # 0 => Settled(conflicts[c].candidate)
      BY <3>1 DEF AllSettled, SettledConflict, Present
    <3> QED
      BY <1>3, <3>1, <3>2, <3>3 DEF SettledConflict, ConflictRow
  <2> QED
    BY <2>1, <2>2, <2>3 DEF Transaction, ConflictEdit
<1>9. ASSUME NEW n \in 1..(L + 1) PROVE SettledImages(log[n])'
  <2>1. CASE n \in 1..L
    <3>1. SettledImages(log[n]) /\ log'[n] = log[n]
      BY <1>2, <2>1 DEF AllSettled
    <3> QED
      BY <1>2, <1>4, <2>1, <3>1, ImageRows DEF SettledImages
  <2>2. CASE n = L + 1
    <3>1. log'[n].items = Diff(items, items') /\ log'[n].conflicts = Diff(conflicts, conflicts')
      BY <1>2, <2>2
    <3>2. \A i \in ItemIds, row \in ItemRow \union {Absent} :
            row \in {items[i], items'[i]} => SettledItem(i, row)'
      BY <1>4, <1>7 DEF AllSettled
    <3>3. \A c \in ConflictIds, row \in ConflictRow \union {Absent} :
            row \in {conflicts[c], conflicts'[c]} => SettledConflict(row)'
      BY <1>4, <1>8 DEF AllSettled
    <3>4. \A i \in Changed(Diff(items, items')) :
            /\ i \in ItemIds
            /\ Diff(items, items')[i].before = items[i] /\ Diff(items, items')[i].after = items'[i]
            /\ items[i] \in ItemRow \union {Absent} /\ items'[i] \in ItemRow \union {Absent}
      BY ChangedRows DEF TypeOK
    <3>5. \A c \in Changed(Diff(conflicts, conflicts')) :
            /\ c \in ConflictIds
            /\ Diff(conflicts, conflicts')[c].before = conflicts[c]
            /\ Diff(conflicts, conflicts')[c].after = conflicts'[c]
            /\ conflicts[c] \in ConflictRow \union {Absent}
            /\ conflicts'[c] \in ConflictRow \union {Absent}
      BY ChangedRows DEF TypeOK
    <3> QED
      BY <2>2, <3>1, <3>2, <3>3, <3>4, <3>5 DEF SettledImages
  <2> QED
    BY <2>1, <2>2
<1> QED
  BY <1>2, <1>7, <1>8, <1>9 DEF AllSettled

LEMMA RollbackSettled ==
    ASSUME TypeOK, TypeOK', NEW n \in 1..MaxEvents, Rollback(n), AllSettled PROVE AllSettled'
<1>0. PICK L \in Nat : L = Len(log)
  BY DEF TypeOK
<1>1. log'[L + 1] = [reversible |-> FALSE, undone |-> 0, items |-> Swapped(log[n].items),
                     conflicts |-> Swapped(log[n].conflicts), evidence |-> log[n].evidence]
      /\ log[n] \in Event /\ log'[n] = [log[n] EXCEPT !.undone = L + 1]
  BY <1>0, RollbackLog
<1>2. /\ DOMAIN log = 1..L /\ DOMAIN log' = 1..(L + 1) /\ n \in 1..L
      /\ \A m \in 1..L : m # n => log'[m] = log[m]
      /\ log'[L + 1].items = Swapped(log[n].items)
      /\ log'[L + 1].conflicts = Swapped(log[n].conflicts)
      /\ log'[n].items = log[n].items /\ log'[n].conflicts = log[n].conflicts
  BY <1>0, <1>1, RollbackLog DEF Event
<1>3. \A i \in ItemIds : Settled(i) => Settled(i)'
  BY RollbackKeepsSettled
<1>4. /\ \A i \in ItemIds, row \in ItemRow \union {Absent} :
           SettledItem(i, row) => SettledItem(i, row)'
      /\ \A row \in ConflictRow \union {Absent} : SettledConflict(row) => SettledConflict(row)'
  BY <1>3, SettledRowsStay
<1>5. ASSUME NEW i \in Changed(log[n].items), NEW row \in ItemRow \union {Absent},
             row \in {log[n].items[i].before, log[n].items[i].after}
      PROVE  i \in ItemIds /\ SettledItem(i, row)'
  <2>1. i \in ItemIds /\ SettledItem(i, row)
    BY <1>2, <1>5, ImageRows DEF AllSettled, SettledImages
  <2> QED
    BY <1>4, <2>1
<1>6. ASSUME NEW c \in Changed(log[n].conflicts), NEW row \in ConflictRow \union {Absent},
             row \in {log[n].conflicts[c].before, log[n].conflicts[c].after}
      PROVE  SettledConflict(row)'
  <2>1. SettledConflict(row)
    BY <1>2, <1>6, ImageRows DEF AllSettled, SettledImages
  <2> QED
    BY <1>4, <2>1
<1>7. ASSUME NEW i \in ItemIds PROVE SettledItem(i, items[i])'
  <2>1. items' = Restored(items, log[n].items)
    BY DEF Rollback
  <2>2. CASE i \in Changed(log[n].items)
    <3>1. items'[i] = log[n].items[i].before
      BY <2>1, <2>2 DEF Restored, TypeOK
    <3>2. log[n].items[i].before \in ItemRow \union {Absent}
      BY <1>2, <2>2, ImageRows
    <3> QED
      BY <1>5, <2>2, <3>1, <3>2
  <2>3. CASE i \notin Changed(log[n].items)
    <3>1. items'[i] = items[i]
      BY <2>1, <2>3 DEF Restored, TypeOK
    <3>2. SettledItem(i, items[i]) /\ items[i] \in ItemRow \union {Absent}
      BY DEF AllSettled, TypeOK
    <3> QED
      BY <1>4, <3>1, <3>2
  <2> QED
    BY <2>2, <2>3
<1>8. ASSUME NEW c \in ConflictIds PROVE SettledConflict(conflicts[c])'
  <2>1. conflicts' = Restored(conflicts, log[n].conflicts)
    BY DEF Rollback
  <2>2. CASE c \in Changed(log[n].conflicts)
    <3>1. conflicts'[c] = log[n].conflicts[c].before
      BY <2>1, <2>2 DEF Restored, TypeOK
    <3>2. log[n].conflicts[c].before \in ConflictRow \union {Absent}
      BY <1>2, <2>2, ImageRows
    <3> QED
      BY <1>6, <2>2, <3>1, <3>2
  <2>3. CASE c \notin Changed(log[n].conflicts)
    <3>1. conflicts'[c] = conflicts[c]
      BY <2>1, <2>3 DEF Restored, TypeOK
    <3>2. SettledConflict(conflicts[c]) /\ conflicts[c] \in ConflictRow \union {Absent}
      BY DEF AllSettled, TypeOK
    <3> QED
      BY <1>4, <3>1, <3>2
  <2> QED
    BY <2>2, <2>3
<1>9. ASSUME NEW m \in 1..(L + 1) PROVE SettledImages(log[m])'
  <2>1. CASE m \in 1..L
    <3>1. SettledImages(log[m]) /\ log'[m].items = log[m].items /\ log'[m].conflicts = log[m].conflicts
      BY <1>2, <2>1 DEF AllSettled
    <3>2. m \in DOMAIN log
      BY <1>2, <2>1
    <3> QED
      BY <1>4, <3>1, <3>2, ImageRows DEF SettledImages
  <2>2. CASE m = L + 1
    <3>1. \A i \in Changed(Swapped(log[n].items)) :
            /\ i \in Changed(log[n].items)
            /\ Swapped(log[n].items)[i].before = log[n].items[i].after
            /\ Swapped(log[n].items)[i].after = log[n].items[i].before
      BY DEF Swapped, Changed
    <3>2. \A c \in Changed(Swapped(log[n].conflicts)) :
            /\ c \in Changed(log[n].conflicts)
            /\ Swapped(log[n].conflicts)[c].before = log[n].conflicts[c].after
            /\ Swapped(log[n].conflicts)[c].after = log[n].conflicts[c].before
      BY DEF Swapped, Changed
    <3>3. n \in DOMAIN log
      BY <1>2
    <3> QED
      BY <1>2, <1>5, <1>6, <2>2, <3>1, <3>2, <3>3, ImageRows DEF SettledImages
  <2> QED
    BY <2>1, <2>2
<1> QED
  BY <1>2, <1>7, <1>8, <1>9 DEF AllSettled

(* No rollback deletes a candidate that a conflict or a superseding memory *)
(* names: the database never has to refuse a rollback for its references.  *)
THEOREM ReferencesAlwaysResolve == Spec => []ReferencesResolve
<1>1. Init => TypeOK /\ AllSettled
  <2> SUFFICES ASSUME Init PROVE AllSettled
    BY InitType
  <2>1. DOMAIN log = {}
    BY DEF Init
  <2> QED
    BY <2>1 DEF Init, AllSettled, SettledItem, SettledConflict
<1>2. (TypeOK /\ AllSettled) /\ [Next]_vars => (TypeOK /\ AllSettled)'
  <2> SUFFICES ASSUME TypeOK, AllSettled, [Next]_vars PROVE (TypeOK /\ AllSettled)'
    OBVIOUS
  <2>1. TypeOK'
    BY NextType
  <2>2. CASE UNCHANGED <<items, evidence, conflicts, log>>
    <3>1. items' = items /\ conflicts' = conflicts /\ log' = log
      BY <2>2
    <3>2. \A i : Settled(i)' <=> Settled(i)
      BY <3>1 DEF Settled, Present
    <3>3. (\A i \in ItemIds : SettledItem(i, items[i]))'
      BY <3>1, <3>2 DEF AllSettled, SettledItem
    <3>4. (\A c \in ConflictIds : SettledConflict(conflicts[c]))'
      BY <3>1, <3>2 DEF AllSettled, SettledConflict
    <3>5. (\A n \in DOMAIN log : SettledImages(log[n]))'
      BY <3>1, <3>2 DEF AllSettled, SettledImages, SettledItem, SettledConflict
    <3> QED
      BY <2>1, <3>3, <3>4, <3>5 DEF AllSettled
  <2> QED
    BY <2>1, <2>2, StepShape, TransactionSettled, RollbackSettled
<1>3. TypeOK /\ AllSettled => ReferencesResolve
  <2> SUFFICES ASSUME TypeOK, AllSettled PROVE ReferencesResolve
    OBVIOUS
  <2>1. \A i \in ItemIds : Settled(i) => Present(items, i)
    BY DEF Settled
  <2>2. ASSUME NEW c \in ConflictIds, Present(conflicts, c),
               NEW i \in ({conflicts[c].existing, conflicts[c].candidate} \ {0})
        PROVE  Present(items, i)
    <3>1. conflicts[c] \in ConflictRow
      BY <2>2, PresentConflict
    <3>2. i \in ItemIds
      BY <3>1 DEF ConflictRow
    <3>3. Settled(i)
      BY <2>2 DEF AllSettled, SettledConflict, Present
    <3> QED
      BY <2>1, <3>2, <3>3
  <2>3. ASSUME NEW i \in ItemIds, Present(items, i), items[i].supersedes # 0
        PROVE  Present(items, items[i].supersedes)
    <3>1. items[i].supersedes \in ItemIds
      BY <2>3, PresentRow DEF ItemRow
    <3>2. Settled(items[i].supersedes)
      BY <2>3 DEF AllSettled, SettledItem, Present
    <3> QED
      BY <2>1, <3>1, <3>2
  <2> QED
    BY <2>2, <2>3 DEF ReferencesResolve
<1> QED
  BY <1>1, <1>2, <1>3, PTL DEF Spec

-----------------------------------------------------------------------------
(* What is verified rests on evidence                                      *)

(* A pending candidate has no method and a verified one has one; all       *)
(* evidence about a candidate was given by callers or is the record of its *)
(* verification; and what its method demands is there.                     *)
MethodFits(row) ==
    /\ row.status = "pending" => row.method = "none"
    /\ row.status = "verified" => row.method # "none"
EvidenceFits(i) ==
    /\ MethodFits(items[i])
    /\ \A x \in evidence : x.item = i =>
         x.label \in Labels \/ (items[i].method # "none" /\ x = Record(i, items[i].method))
    /\ items[i].method # "none" => EvidenceHolds(i)

(* An event that can be rolled back never removed a candidate, and either  *)
(* kept a candidate's method or verified it and recorded that.             *)
ImageFits(e, i) ==
    LET b == e.items[i].before
        a == e.items[i].after IN
    /\ a # Absent
    /\ b # Absent =>
         /\ MethodFits(b)
         /\ \/ b.method = a.method
            \/ /\ b.status = "pending" /\ a.method # "none"
               /\ Record(i, a.method) \in e.evidence \/ "verification" \in Labels
EvidenceInv ==
    /\ IsFiniteSet(evidence)
    /\ \A x \in evidence : Present(items, x.item)
    /\ \A i \in ItemIds : Present(items, i) => EvidenceFits(i)
    /\ \A n \in DOMAIN log : log[n].reversible =>
         \A i \in Changed(log[n].items) : ImageFits(log[n], i)

(* Evidence is enough as long as none of it is lost.                       *)
LEMMA EvidenceKept ==
    ASSUME NEW i \in ItemIds, IsFiniteSet(evidence'),
           \A x \in evidence : x.item = i => x \in evidence',
           items'[i].method = items[i].method, EvidenceHolds(i)
    PROVE  EvidenceHolds(i)'
<1> DEFINE S == {e \in Observations(i) : e.label \in Labels}
           T == {e \in Observations(i)' : e.label \in Labels}
<1>1. UserEvidence(i) \subseteq UserEvidence(i)' /\ S \subseteq T
  BY DEF UserEvidence, Observations
<1>2. IsFiniteSet(T)
  <2>1. T \subseteq evidence'
    BY DEF Observations
  <2> QED
    BY <2>1, FS_Subset
<1>3. Cardinality(S) <= Cardinality(T) /\ Cardinality(S) \in Nat /\ Cardinality(T) \in Nat
  BY <1>1, <1>2, FS_Subset, FS_CardinalityType
<1>4. items[i].method = "repeated_observation" => Cardinality(S) >= 2
  BY DEF EvidenceHolds
<1>5. items[i].method = "repeated_observation" => Cardinality(T) >= 2
  BY <1>3, <1>4
<1>6. \A e \in evidence : e.item = i => e \in evidence'
  OBVIOUS
<1> HIDE DEF S
<1> QED
  BY <1>1, <1>5, <1>6 DEF EvidenceHolds

(* A verification finds what its method demands, or records it.            *)
LEMMA VerificationHolds ==
    ASSUME TypeOK, TypeOK', NEW i \in ItemIds, NEW m \in Methods, VerifiedBy(i, m),
           evidence \subseteq evidence', IsFiniteSet(evidence'),
           \A x \in evidence : x.item = i => x.label \in Labels
    PROVE  EvidenceHolds(i)' /\ items'[i].method = m
<1>1. items[i] \in ItemRow
  BY PresentRow DEF VerifiedBy, HasStatus
<1>2. items'[i].method = m
  BY <1>1 DEF VerifiedBy, ItemRow
<1>3. m = "user_explicit" => UserEvidence(i)' # {}
  BY DEF VerifiedBy, Supports, UserEvidence
<1>4. m = "repeated_observation" => Cardinality({e \in Observations(i)' : e.label \in Labels}) >= 2
  <2> DEFINE T == {e \in Observations(i)' : e.label \in Labels}
  <2>1. T \subseteq evidence' /\ Observations(i) \subseteq T
    BY DEF Observations
  <2>2. IsFiniteSet(T)
    BY <2>1, FS_Subset
  <2>3. /\ Cardinality(Observations(i)) <= Cardinality(T)
        /\ Cardinality(Observations(i)) \in Nat /\ Cardinality(T) \in Nat
    BY <2>1, <2>2, FS_Subset, FS_CardinalityType
  <2>4. m = "repeated_observation" => Cardinality(Observations(i)) >= 2
    BY DEF VerifiedBy, Supports
  <2> QED
    BY <2>3, <2>4
<1>5. m \in {"ha_api", "change_verification"} => \E e \in evidence' : e.item = i /\ e.type = m
  <2>1. Record(i, m) \in evidence'
    BY DEF VerifiedBy
  <2>2. m \in {"ha_api", "change_verification"} => Record(i, m).item = i /\ Record(i, m).type = m
    BY DEF Record, VerificationEvidence
  <2> QED
    BY <2>1, <2>2
<1> QED
  BY <1>2, <1>3, <1>4, <1>5 DEF EvidenceHolds

LEMMA TransactionEvidence ==
    ASSUME TypeOK, TypeOK', Transaction, EvidenceInv PROVE EvidenceInv'
<1>0. PICK L \in Nat : L = Len(log)
  BY DEF TypeOK
<1>1. PICK rev \in BOOLEAN :
        log'[L + 1] = [reversible |-> rev, undone |-> 0, items |-> Diff(items, items'),
                       conflicts |-> Diff(conflicts, conflicts'), evidence |-> evidence' \ evidence]
  BY <1>0, TransactionLog
<1>2. /\ DOMAIN log = 1..L /\ DOMAIN log' = 1..(L + 1)
      /\ \A m \in 1..L : log'[m] = log[m]
      /\ log'[L + 1].items = Diff(items, items')
      /\ log'[L + 1].evidence = evidence' \ evidence
  BY <1>0, <1>1, TransactionLog
<1>3. IsFiniteSet(evidence') /\ evidence \subseteq evidence'
  BY DEF EvidenceInv, Transaction, EvidenceEdit
<1>4. \A x \in evidence' : x \in Evidence /\ x.item \in ItemIds
  BY DEF TypeOK, Evidence
<1>5. \A x \in evidence' \ evidence :
        \/ x.label \in Labels /\ Present(items', x.item) /\ items'[x.item].status = "pending"
        \/ \E m \in Methods : VerifiedBy(x.item, m) /\ x = Record(x.item, m)
  BY DEF Transaction, EvidenceEdit
<1>6. ASSUME NEW x \in evidence' PROVE Present(items', x.item)
  <2>1. CASE x \in evidence
    BY <1>4, <2>1, TransactionKeepsItems DEF EvidenceInv
  <2>2. CASE x \notin evidence
    BY <1>4, <1>5, <2>2, TransactionKeepsItems DEF VerifiedBy, HasStatus
  <2> QED
    BY <2>1, <2>2
<1>7. ASSUME NEW i \in ItemIds, NEW m \in Methods, VerifiedBy(i, m)
      PROVE  /\ items[i] \in ItemRow /\ items[i].status = "pending" /\ items[i].method = "none"
             /\ items'[i].status = "verified" /\ items'[i].method = m /\ m # "none"
             /\ \A x \in evidence : x.item = i => x.label \in Labels
  <2>1. Present(items, i) /\ items[i] \in ItemRow /\ items[i].status = "pending"
    BY <1>7, PresentRow DEF VerifiedBy, HasStatus
  <2>2. items'[i].status = "verified" /\ items'[i].method = m
    BY <1>7, <2>1 DEF VerifiedBy, ItemRow
  <2>3. EvidenceFits(i)
    BY <2>1 DEF EvidenceInv
  <2> QED
    BY <2>1, <2>2, <2>3 DEF EvidenceFits, MethodFits, Methods
<1>8. ASSUME NEW i \in ItemIds, Present(items', i) PROVE EvidenceFits(i)'
  <2>1. CASE items'[i] = items[i]
    <3>1. Present(items, i) /\ EvidenceFits(i)
      BY <1>8, <2>1 DEF Present, EvidenceInv
    <3>2. \A m \in Methods : ~VerifiedBy(i, m)
      BY <1>7, <2>1
    <3>3. \A x \in evidence' : x.item = i =>
            x.label \in Labels \/ (items'[i].method # "none" /\ x = Record(i, items'[i].method))
      BY <1>5, <2>1, <3>1, <3>2 DEF EvidenceFits
    <3>4. items'[i].method # "none" => EvidenceHolds(i)'
      BY <1>3, <2>1, <3>1, EvidenceKept DEF EvidenceFits
    <3> QED
      BY <2>1, <3>1, <3>3, <3>4 DEF EvidenceFits
  <2>2. CASE ProposedNow(i)
    <3>1. \A x \in evidence : x.item # i
      BY <2>2 DEF ProposedNow, EvidenceInv
    <3>2. \A m \in Methods : ~VerifiedBy(i, m)
      BY <2>2 DEF ProposedNow, VerifiedBy, HasStatus
    <3>3. \A x \in evidence' : x.item = i => x.label \in Labels
      BY <1>5, <3>1, <3>2
    <3> QED
      BY <2>2, <3>3 DEF ProposedNow, EvidenceFits, MethodFits
  <2>3. ASSUME NEW m \in Methods, VerifiedBy(i, m) PROVE EvidenceFits(i)'
    <3>1. /\ items'[i].status = "verified" /\ items'[i].method = m /\ m # "none"
          /\ \A x \in evidence : x.item = i => x.label \in Labels
      BY <1>7, <2>3
    <3>2. EvidenceHolds(i)'
      BY <1>3, <2>3, <3>1, VerificationHolds
    <3>3. \A x \in evidence' : x.item = i => x.label \in Labels \/ x = Record(i, m)
      <4>1. ASSUME NEW x \in evidence' \ evidence, x.item = i, x.label \notin Labels
            PROVE  x = Record(i, m)
        <5>1. PICK k \in Methods : VerifiedBy(i, k) /\ x = Record(i, k)
          BY <1>5, <4>1
        <5>2. k = m
          BY <1>7, <3>1, <5>1
        <5> QED
          BY <5>1, <5>2
      <4> QED
        BY <3>1, <4>1
    <3> QED
      BY <3>1, <3>2, <3>3 DEF EvidenceFits, MethodFits
  <2>4. CASE MovedNow(i)
    <3>1. PICK s \in Statuses, j \in ItemIds \union {0} : MovedTo(i, s, j)
      BY <2>4 DEF MovedNow
    <3>2. Present(items, i) /\ items[i] \in ItemRow
      BY <3>1, PresentRow DEF MovedTo
    <3>3. items'[i].status = s /\ items'[i].method = items[i].method /\ s \notin {"pending", "verified"}
      BY <3>1, <3>2 DEF MovedTo, Moves, ItemRow
    <3>4. \A m \in Methods : ~VerifiedBy(i, m)
      BY <1>7, <3>3
    <3>5. EvidenceFits(i)
      BY <3>2 DEF EvidenceInv
    <3>6. \A x \in evidence' : x.item = i =>
            x.label \in Labels \/ (items'[i].method # "none" /\ x = Record(i, items'[i].method))
      BY <1>5, <3>3, <3>4, <3>5 DEF EvidenceFits
    <3>7. items'[i].method # "none" => EvidenceHolds(i)'
      BY <1>3, <3>3, <3>5, EvidenceKept DEF EvidenceFits
    <3> QED
      BY <3>3, <3>6, <3>7 DEF EvidenceFits, MethodFits
  <2> QED
    BY <2>1, <2>2, <2>3, <2>4 DEF Transaction, ItemEdit
<1>9. ASSUME NEW i \in Changed(Diff(items, items')) PROVE ImageFits(log'[L + 1], i)
  <2>1. /\ i \in ItemIds /\ items'[i] # items[i]
        /\ Diff(items, items')[i].before = items[i] /\ Diff(items, items')[i].after = items'[i]
    BY <1>9, ChangedRows
  <2> SUFFICES /\ items'[i] # Absent
               /\ items[i] # Absent =>
                    /\ MethodFits(items[i])
                    /\ \/ items[i].method = items'[i].method
                       \/ /\ items[i].status = "pending" /\ items'[i].method # "none"
                          /\ \/ Record(i, items'[i].method) \in evidence' \ evidence
                             \/ "verification" \in Labels
    BY <1>2, <2>1 DEF ImageFits
  <2>2. items[i] # Absent => MethodFits(items[i])
    BY <2>1 DEF EvidenceInv, EvidenceFits, Present
  <2>3. CASE ProposedNow(i)
    BY <2>3, ConstantsAssumption DEF ProposedNow, Present
  <2>4. ASSUME NEW m \in Methods, VerifiedBy(i, m)
        PROVE  /\ items'[i] # Absent /\ items[i].status = "pending" /\ items'[i].method # "none"
               /\ \/ Record(i, items'[i].method) \in evidence' \ evidence
                  \/ "verification" \in Labels
    <3>1. /\ items[i].status = "pending" /\ items'[i].method = m /\ m # "none"
          /\ \A x \in evidence : x.item = i => x.label \in Labels
      BY <1>7, <2>1, <2>4
    <3>2. Record(i, m) \in evidence' /\ Record(i, m).item = i /\ Record(i, m).label = "verification"
      BY <2>4 DEF VerifiedBy, Record
    <3>3. items'[i] # Absent
      BY <2>1, <2>4, TransactionKeepsItems DEF VerifiedBy, HasStatus, Present
    <3> QED
      BY <3>1, <3>2, <3>3
  <2>5. CASE MovedNow(i)
    <3>1. PICK s \in Statuses, j \in ItemIds \union {0} : MovedTo(i, s, j)
      BY <2>5 DEF MovedNow
    <3>2. Present(items, i) /\ items[i] \in ItemRow
      BY <2>1, <3>1, PresentRow DEF MovedTo
    <3>3. items'[i].method = items[i].method
      BY <3>1, <3>2 DEF MovedTo, ItemRow
    <3>4. items'[i] # Absent
      BY <2>1, <3>2, TransactionKeepsItems DEF Present
    <3> QED
      BY <2>2, <3>3, <3>4
  <2> QED
    BY <2>1, <2>2, <2>3, <2>4, <2>5 DEF Transaction, ItemEdit
<1>10. ASSUME NEW n \in 1..(L + 1), log'[n].reversible, NEW i \in Changed(log'[n].items)
       PROVE  ImageFits(log'[n], i)
  <2>1. CASE n \in 1..L
    BY <1>2, <1>10, <2>1 DEF EvidenceInv
  <2>2. CASE n = L + 1
    BY <1>2, <1>9, <1>10, <2>2
  <2> QED
    BY <2>1, <2>2
<1> QED
  BY <1>2, <1>3, <1>6, <1>8, <1>10 DEF EvidenceInv, ImageFits

LEMMA RollbackEvidence ==
    ASSUME TypeOK, TypeOK', NEW n \in 1..MaxEvents, Rollback(n), EvidenceInv PROVE EvidenceInv'
<1> DEFINE e == log[n]
<1>0. PICK L \in Nat : L = Len(log)
  BY DEF TypeOK
<1>1. /\ DOMAIN log = 1..L /\ DOMAIN log' = 1..(L + 1) /\ n \in 1..L /\ e \in Event
      /\ \A m \in 1..L : m # n => log'[m] = log[m]
      /\ log'[L + 1].reversible = FALSE
      /\ log'[n] = [e EXCEPT !.undone = L + 1]
  <2>1. log'[L + 1] = [reversible |-> FALSE, undone |-> 0, items |-> Swapped(e.items),
                       conflicts |-> Swapped(e.conflicts), evidence |-> e.evidence]
    BY <1>0, RollbackLog
  <2>2. log'[L + 1].reversible = FALSE
    BY <2>1
  <2> QED
    BY <1>0, <2>2, RollbackLog
<1>2. log'[n].reversible = e.reversible /\ log'[n].items = e.items /\ log'[n].evidence = e.evidence
  BY <1>1 DEF Event
<1>3. /\ e.reversible /\ EvidenceIsFree(e) /\ StandsAsLeftBy(e)
      /\ items' = Restored(items, e.items)
      /\ evidence' = {x \in evidence \ e.evidence : Present(items', x.item)}
  BY DEF Rollback
<1>4. \A i \in ItemIds : /\ i \in Changed(e.items) => items'[i] = e.items[i].before
                         /\ i \notin Changed(e.items) => items'[i] = items[i]
  BY <1>3 DEF Restored, TypeOK
<1>5. IsFiniteSet(evidence') /\ \A x \in evidence' : Present(items', x.item)
  <2>1. evidence' \subseteq evidence
    BY <1>3
  <2> QED
    BY <1>3, <2>1, FS_Subset DEF EvidenceInv
<1>6. ASSUME NEW i \in ItemIds, Present(items', i), i \notin Changed(e.items) PROVE EvidenceFits(i)'
  <2>1. items'[i] = items[i] /\ Present(items, i) /\ EvidenceFits(i)
    BY <1>4, <1>6 DEF Present, EvidenceInv
  <2>2. \A x \in evidence' : x.item = i =>
          x.label \in Labels \/ (items'[i].method # "none" /\ x = Record(i, items'[i].method))
    BY <1>3, <2>1 DEF EvidenceFits
  <2>3. CASE \E x \in e.evidence : x.item = i
    <3>1. items[i].status = "pending"
      BY <1>3, <1>6, <2>1, <2>3 DEF EvidenceIsFree
    <3> QED
      BY <2>1, <2>2, <3>1 DEF EvidenceFits, MethodFits
  <2>4. CASE \A x \in e.evidence : x.item # i
    <3>1. \A x \in evidence : x.item = i => x \in evidence'
      BY <1>3, <1>6, <2>4
    <3>2. items'[i].method # "none" => EvidenceHolds(i)'
      BY <1>5, <2>1, <3>1, EvidenceKept DEF EvidenceFits
    <3> QED
      BY <2>1, <2>2, <3>2 DEF EvidenceFits
  <2> QED
    BY <2>3, <2>4
<1>7. ASSUME NEW i \in ItemIds, Present(items', i), i \in Changed(e.items) PROVE EvidenceFits(i)'
  <2> DEFINE b == e.items[i].before
             a == e.items[i].after
  <2>1. items'[i] = b /\ b # Absent
    BY <1>4, <1>7 DEF Present
  <2>2. ImageFits(e, i)
    BY <1>1, <1>3, <1>7 DEF EvidenceInv
  <2>3. items[i] = a /\ Present(items, i) /\ EvidenceFits(i)
    BY <1>3, <1>7, <2>2 DEF StandsAsLeftBy, ImageFits, EvidenceInv, Present
  <2>4. /\ MethodFits(b) /\ MethodFits(a)
        /\ \/ b.method = a.method
           \/ /\ b.status = "pending" /\ a.method # "none"
              /\ Record(i, a.method) \in e.evidence \/ "verification" \in Labels
    BY <2>1, <2>2, <2>3 DEF ImageFits, EvidenceFits
  <2>5. \A x \in evidence : x.item = i =>
          x.label \in Labels \/ (a.method # "none" /\ x = Record(i, a.method))
    BY <2>3 DEF EvidenceFits
  <2> HIDE DEF a, b
  <2>6. CASE b.method = "none"
    <3>1. ASSUME NEW x \in evidence', x.item = i PROVE x.label \in Labels
      <4>1. x \in evidence /\ x \notin e.evidence
        BY <1>3
      <4>2. Record(i, a.method).label = "verification"
        BY DEF Record
      <4> QED
        BY <2>4, <2>5, <2>6, <3>1, <4>1, <4>2
    <3> QED
      BY <2>1, <2>4, <2>6, <3>1 DEF EvidenceFits
  <2>7. CASE b.method # "none"
    <3>1. b.method = a.method /\ b.status # "pending" /\ a.status # "pending"
      BY <2>4, <2>7 DEF MethodFits
    <3>2. \A x \in e.evidence : x.item # i
      BY <1>3, <2>3, <3>1 DEF EvidenceIsFree, a, b
    <3>3. \A x \in evidence : x.item = i => x \in evidence'
      BY <1>3, <1>7, <3>2
    <3>4. EvidenceHolds(i)
      BY <2>3, <2>7, <3>1 DEF EvidenceFits
    <3>5. EvidenceHolds(i)'
      BY <1>5, <2>1, <2>3, <3>1, <3>3, <3>4, EvidenceKept
    <3>6. \A x \in evidence' : x.item = i => x.label \in Labels \/ x = Record(i, b.method)
      BY <1>3, <2>5, <3>1
    <3> QED
      BY <2>1, <2>4, <2>7, <3>5, <3>6 DEF EvidenceFits
  <2> QED
    BY <2>6, <2>7
<1>8. ASSUME NEW m \in 1..(L + 1), log'[m].reversible, NEW i \in Changed(log'[m].items)
      PROVE  ImageFits(log'[m], i)
  <2>1. /\ m \in 1..L /\ log'[m].items = log[m].items /\ log'[m].evidence = log[m].evidence
        /\ log[m].reversible
    <3>1. m \in 1..L
      BY <1>1, <1>8
    <3> QED
      BY <1>1, <1>2, <1>8, <3>1
  <2>2. ImageFits(log[m], i)
    BY <1>1, <1>8, <2>1 DEF EvidenceInv
  <2> QED
    BY <2>1, <2>2 DEF ImageFits
<1> QED
  BY <1>1, <1>5, <1>6, <1>7, <1>8 DEF EvidenceInv, ImageFits

LEMMA EvidenceStep == TypeOK /\ EvidenceInv /\ [Next]_vars => EvidenceInv'
<1> SUFFICES ASSUME TypeOK, EvidenceInv, [Next]_vars PROVE EvidenceInv'
  OBVIOUS
<1>1. TypeOK'
  BY NextType
<1>2. CASE UNCHANGED <<items, evidence, conflicts, log>>
  BY <1>2 DEF EvidenceInv, EvidenceFits, EvidenceHolds, UserEvidence, Observations
<1> QED
  BY <1>1, <1>2, StepShape, TransactionEvidence, RollbackEvidence

LEMMA EvidenceInit == Init => EvidenceInv
<1> SUFFICES ASSUME Init PROVE EvidenceInv
  OBVIOUS
<1>1. IsFiniteSet(evidence) /\ DOMAIN log = {} /\ \A i \in ItemIds : ~Present(items, i)
  BY FS_EmptySet DEF Init, Present
<1> QED
  BY <1>1 DEF Init, EvidenceInv

-----------------------------------------------------------------------------
(* Until something is rolled back                                          *)

(* How many events are rolled back: a rollback adds one, nothing else any. *)
LEMMA RollbackCounts ==
    ASSUME TypeOK, TypeOK'
    PROVE  /\ RollbackCount \in Nat
           /\ log' = log \/ Transaction => RollbackCount' = RollbackCount
           /\ \A n \in 1..MaxEvents : Rollback(n) =>
                RollbackCount' = RollbackCount + 1 /\ Len(log') > Len(log)
<1> DEFINE Undone == {n \in DOMAIN log : log[n].undone # 0}
<1>0. PICK L \in Nat : L = Len(log) /\ DOMAIN log = 1..L
  BY DEF TypeOK
<1>1. IsFiniteSet(Undone)
  <2>1. IsFiniteSet(1..L)
    BY FS_Interval
  <2> QED
    BY <1>0, <2>1, FS_Subset
<1>2. RollbackCount = Cardinality(Undone) /\ RollbackCount' = Cardinality(Undone')
  BY DEF RollbackCount
<1>3. Transaction => Undone' = Undone
  <2> SUFFICES ASSUME Transaction PROVE Undone' = Undone
    OBVIOUS
  <2>1. PICK rev \in BOOLEAN :
          log'[L + 1] = [reversible |-> rev, undone |-> 0, items |-> Diff(items, items'),
                         conflicts |-> Diff(conflicts, conflicts'), evidence |-> evidence' \ evidence]
    BY <1>0, TransactionLog
  <2>2. DOMAIN log' = 1..(L + 1) /\ log'[L + 1].undone = 0 /\ \A m \in 1..L : log'[m] = log[m]
    BY <1>0, <2>1, TransactionLog
  <2> QED
    BY <1>0, <2>2
<1>4. ASSUME NEW n \in 1..MaxEvents, Rollback(n)
      PROVE  RollbackCount' = RollbackCount + 1 /\ Len(log') > Len(log)
  <2>1. log'[L + 1] = [reversible |-> FALSE, undone |-> 0, items |-> Swapped(log[n].items),
                       conflicts |-> Swapped(log[n].conflicts), evidence |-> log[n].evidence]
    BY <1>0, <1>4, RollbackLog
  <2>2. /\ DOMAIN log' = 1..(L + 1) /\ n \in 1..L /\ Len(log') = L + 1
        /\ log'[L + 1].undone = 0
        /\ log[n] \in Event /\ log'[n] = [log[n] EXCEPT !.undone = L + 1]
        /\ \A m \in 1..L : m # n => log'[m] = log[m]
    BY <1>0, <1>4, <2>1, RollbackLog
  <2>3. log'[n].undone = L + 1
    BY <2>2 DEF Event
  <2>4. Undone' = Undone \union {n} /\ n \notin Undone
    <3>1. log[n].undone = 0
      BY <1>4 DEF Rollback
    <3>2. ASSUME NEW m \in 1..(L + 1) PROVE m \in Undone' <=> m \in Undone \union {n}
      <4>1. CASE m = L + 1
        BY <1>0, <2>2, <4>1
      <4>2. CASE m = n
        <5>1. n \in DOMAIN log' /\ log'[n].undone # 0
          BY <1>0, <2>2, <2>3
        <5>2. n \in Undone'
          BY <5>1
        <5> QED
          BY <4>2, <5>2
      <4>3. CASE m \in 1..L /\ m # n
        BY <1>0, <2>2, <4>3
      <4> QED
        BY <4>1, <4>2, <4>3
    <3> QED
      BY <1>0, <2>2, <3>1, <3>2
  <2>5. Cardinality(Undone') = Cardinality(Undone) + 1
    <3> HIDE DEF Undone
    <3> QED
      BY <1>1, <2>4, FS_AddElement
  <2> QED
    BY <1>0, <1>2, <2>2, <2>5
<1>5. RollbackCount \in Nat
  BY <1>1, <1>2, FS_CardinalityType
<1>6. log' = log => Undone' = Undone
  OBVIOUS
<1> QED
  BY <1>2, <1>3, <1>4, <1>5, <1>6

(* What holds until something is rolled back.  A conflict names memories   *)
(* of its subject; one about a candidate alone, or an applied memory       *)
(* alone, has Home Assistant as its authority, one between the two has     *)
(* not, and its candidate went through verification.                       *)
ConflictFits(c) ==
    LET i == conflicts[c].candidate
        j == conflicts[c].existing
        r == conflicts[c].reason IN
    /\ i = 0 => j # 0 /\ r \in CatalogReasons
    /\ i # 0 => /\ Present(items, i)
                /\ items[i].prop.subject = conflicts[c].subject
                /\ r \in HaReasons <=> j = 0
                /\ j # 0 => items[i].method # "none"
    /\ j # 0 => /\ Present(items, j)
                /\ items[j].status \in {"applied", "superseded"}
                /\ items[j].prop.subject = conflicts[c].subject
ConflictsFit == \A c \in ConflictIds : Present(conflicts, c) => ConflictFits(c)

(* A resolution on its way is one its conflict allows.                     *)
StagedMayWin ==
    \A w \in Workers : stage[w].op = "resolve" =>
        Present(conflicts, stage[w].conflict) /\ MayWin(stage[w].conflict, stage[w].winner)

(* A candidate is in one open conflict at a time.                          *)
OneOpenPerCandidate ==
    \A c, d \in ConflictIds :
        (/\ IsOpen(conflicts, c) /\ IsOpen(conflicts, d)
         /\ conflicts[c].candidate # 0 /\ conflicts[c].candidate = conflicts[d].candidate) => c = d

(* The catalog that is active has nothing an open conflict misses.         *)
NoneRestored == \A c \in ConflictIds : ~IsRestored(catalog, c)

(* What is or was in force went through verification.                      *)
InForceVerified ==
    \A i \in ItemIds :
        (Present(items, i) /\ items[i].status \in {"applied", "superseded"})
            => items[i].method # "none"

Calm ==
    /\ RollbackCount = 0 =>
         ConflictsFit /\ StagedMayWin /\ OneOpenPerCandidate /\ NoneRestored /\ InForceVerified
    /\ OpenConflictHoldsCandidate
    /\ OneAppliedPerSlot
    /\ NoDuplicateComplaint
    /\ IndexIsCurrent

(* The part of a row that a transaction never changes.                     *)
LEMMA RowsKept ==
    ASSUME TypeOK, TypeOK', Transaction
    PROVE  /\ \A i \in ItemIds : Present(items, i) =>
                /\ items[i] \in ItemRow
                /\ Present(items', i) /\ items'[i] \in ItemRow
                /\ items'[i].prop = items[i].prop
                /\ items[i].status # "pending" => items'[i].method = items[i].method
                /\ items'[i].status = items[i].status \/ <<items[i].status, items'[i].status>> \in
                     Moves \union {<<"pending", "verified">>}
           /\ \A c \in ConflictIds : Present(conflicts, c) =>
                /\ Present(conflicts', c) /\ conflicts'[c] \in ConflictRow
                /\ conflicts[c] \in ConflictRow
                /\ conflicts'[c].subject = conflicts[c].subject
                /\ conflicts'[c].existing = conflicts[c].existing
                /\ conflicts'[c].candidate = conflicts[c].candidate
                /\ conflicts'[c].reason = conflicts[c].reason
                /\ conflicts'[c] = conflicts[c] \/ conflicts'[c].status = "resolved"
<1>1. ASSUME NEW i \in ItemIds, Present(items, i)
      PROVE  /\ items[i] \in ItemRow
             /\ Present(items', i) /\ items'[i] \in ItemRow
             /\ items'[i].prop = items[i].prop
             /\ items[i].status # "pending" => items'[i].method = items[i].method
             /\ items'[i].status = items[i].status \/ <<items[i].status, items'[i].status>> \in
                  Moves \union {<<"pending", "verified">>}
  <2>1. items[i] \in ItemRow /\ Present(items', i) /\ items'[i] \in ItemRow
    BY <1>1, PresentRow, TransactionKeepsItems
  <2>2. CASE items'[i] = items[i]
    BY <2>1, <2>2
  <2>3. ASSUME NEW m \in Methods, VerifiedBy(i, m)
      PROVE  /\ items'[i].prop = items[i].prop /\ items[i].status = "pending"
             /\ items'[i].status = "verified"
    <3>1. items[i].status = "pending" /\ items'[i] = [items[i] EXCEPT !.status = "verified", !.method = m]
      BY <2>3 DEF VerifiedBy, HasStatus
    <3>2. items'[i].prop = items[i].prop /\ items'[i].status = "verified"
      BY <2>1, <3>1 DEF ItemRow
    <3> QED
      BY <3>1, <3>2
  <2>4. CASE MovedNow(i)
    <3>1. PICK s \in Statuses, j \in ItemIds \union {0} : MovedTo(i, s, j)
      BY <2>4 DEF MovedNow
    <3>2. items'[i].prop = items[i].prop /\ items'[i].status = s /\ items'[i].method = items[i].method
      BY <2>1, <3>1 DEF MovedTo, ItemRow
    <3>3. <<items[i].status, items'[i].status>> \in Moves
      BY <3>1, <3>2 DEF MovedTo
    <3> QED
      BY <2>1, <3>2, <3>3
  <2> QED
    BY <1>1, <2>1, <2>2, <2>3, <2>4 DEF Transaction, ItemEdit, ProposedNow
<1>2. ASSUME NEW c \in ConflictIds, Present(conflicts, c)
      PROVE  /\ Present(conflicts', c) /\ conflicts'[c] \in ConflictRow
             /\ conflicts[c] \in ConflictRow
             /\ conflicts'[c].subject = conflicts[c].subject
             /\ conflicts'[c].existing = conflicts[c].existing
             /\ conflicts'[c].candidate = conflicts[c].candidate
             /\ conflicts'[c].reason = conflicts[c].reason
             /\ conflicts'[c] = conflicts[c] \/ conflicts'[c].status = "resolved"
  <2>1. conflicts[c] \in ConflictRow
    BY <1>2, PresentConflict
  <2>2. CASE conflicts'[c] = conflicts[c]
    BY <1>2, <2>1, <2>2 DEF Present
  <2>3. CASE conflicts'[c] = [conflicts[c] EXCEPT !.status = "resolved"]
    <3>1. conflicts'[c] \in ConflictRow
      BY <2>1, <2>3 DEF ConflictRow
    <3>2. Present(conflicts', c)
      BY <3>1, ConstantsAssumption DEF Present
    <3> QED
      BY <2>1, <2>3, <3>1, <3>2 DEF ConflictRow
  <2> QED
    BY <1>2, <2>2, <2>3 DEF Transaction, ConflictEdit, OpenedNow, ClosedNow
<1> QED
  BY <1>1, <1>2

(* What a transaction may do until something is rolled back: a conflict it *)
(* opens is a new complaint and fits, and its candidate was not in         *)
(* conflict yet;                                                           *)
OpenedFits(c) ==
    LET row == conflicts'[c]
        i   == row.candidate
        j   == row.existing IN
    /\ i = 0 => /\ j # 0 /\ row.reason \in CatalogReasons /\ row.reason = Complaint(catalog', j)
                /\ \A d \in ConflictIds : IsOpen(conflicts, d) => conflicts[d] # row
    /\ i # 0 => /\ items[i].prop.subject = row.subject
                /\ row.reason \in HaReasons <=> j = 0
                /\ items[i].status = "verified" \/ (j = 0 /\ items[i].status = "pending")
                /\ row.status = "open" => items'[i].status = "conflict"
    /\ j # 0 => items[j].prop.subject = row.subject
    /\ \A d \in ConflictIds :
         (/\ OpenedNow(d) /\ conflicts'[d].candidate = i
          /\ i # 0 \/ conflicts'[d].existing = j) => d = c
OpensFit == \A c \in ConflictIds : OpenedNow(c) => OpenedFits(c)

(* a candidate that leaves its conflict leaves no conflict about it open;  *)
Releases ==
    \A i \in ItemIds : (HasStatus(i, "conflict") /\ ~HasStatus(i, "conflict")') =>
        \A c \in ConflictIds :
            (IsOpen(conflicts, c) /\ conflicts[c].candidate = i) => ~IsOpen(conflicts', c)

(* and what becomes applied went through verification and, for a reserved  *)
(* relation, has its slot for itself.                                      *)
Applies ==
    \A i \in ItemIds : BecomesApplied(i) =>
        /\ items[i].method # "none"
        /\ items[i].prop.value \in Structural => InSlot(i)' = {}
CalmEdit == OpensFit /\ Releases /\ Applies

(* A transaction that changes one candidate and opens no conflict.         *)
LEMMA NothingOpened ==
    ASSUME \A c \in ConflictIds : Present(conflicts', c) => Present(conflicts, c)
    PROVE  OpensFit
  BY ConstantsAssumption DEF OpensFit, OpenedNow, Present

LEMMA OneOpened ==
    ASSUME TypeOK, NEW its, NEW i \in ItemIds, NEW j \in ItemIds \union {0}, NEW reason \in Reasons,
           OpenConflict(its, j, i, reason), its[i].status = "conflict",
           items[i].status = "verified" \/ (j = 0 /\ items[i].status = "pending"),
           reason \in HaReasons <=> j = 0,
           j # 0 => items[j].prop.subject = items[i].prop.subject
    PROVE  OpensFit
<1> DEFINE row == [subject |-> items[i].prop.subject, existing |-> j, candidate |-> i,
                   reason |-> reason, status |-> "open"]
<1>1. PICK k \in ConflictIds :
        Commit(its, evidence, IF \E c \in ConflictIds : conflicts[c] = row THEN conflicts
                              ELSE [conflicts EXCEPT ![k] = row], TRUE)
  BY DEF OpenConflict
<1>2. items' = its /\ (conflicts' = conflicts \/ conflicts' = [conflicts EXCEPT ![k] = row])
  BY <1>1 DEF Commit
<1>3. CASE conflicts' = conflicts
  BY <1>3, NothingOpened
<1>4. CASE conflicts' = [conflicts EXCEPT ![k] = row]
  <2>1. conflicts'[k] = row /\ \A c \in ConflictIds : c # k => conflicts'[c] = conflicts[c]
    BY <1>4 DEF TypeOK
  <2>2. \A c \in ConflictIds : OpenedNow(c) => c = k
    BY <2>1, ConstantsAssumption DEF OpenedNow, Present
  <2>3. i # 0
    BY ZeroIsNoItem
  <2> QED
    BY <1>2, <2>1, <2>2, <2>3 DEF OpensFit, OpenedFits
<1> QED
  BY <1>2, <1>3, <1>4

(* Proposing, adding evidence and verifying leave no candidate in force or *)
(* in conflict.                                                            *)
LEMMA LifeEdits ==
    ASSUME TypeOK, NEW i \in ItemIds,
           \/ \E w \in Workers : CommitPropose(w)
           \/ \E k \in ItemIds, x \in CallerEvidence : AddEvidence(k, x[1], x[2])
           \/ \E w \in Workers : CommitVerify(w)
    PROVE  \/ items'[i] = items[i]
           \/ /\ ~Present(items, i) \/ items[i].status = "pending"
              /\ items'[i].status \in {"pending", "verified"}
<1>1. CASE \E w \in Workers : CommitPropose(w)
  <2>1. PICK w \in Workers : CommitPropose(w)
    BY <1>1
  <2>2. PICK k \in ItemIds :
          /\ IsNextId(items, k)
          /\ items' = [items EXCEPT ![k] = [prop |-> stage[w].prop, status |-> "pending",
                                            method |-> "none", supersedes |-> 0]]
    BY <2>1 DEF CommitPropose, Commit
  <2>3. ~Present(items, k)
    BY <2>2, NextIdIsFree
  <2> QED
    BY <2>2, <2>3 DEF TypeOK
<1>2. CASE \E k \in ItemIds, x \in CallerEvidence : AddEvidence(k, x[1], x[2])
  BY <1>2 DEF AddEvidence, Commit
<1>3. CASE \E w \in Workers : CommitVerify(w)
  <2>1. PICK w \in Workers : CommitVerify(w)
    BY <1>3
  <2>2. stage[w].item \in ItemIds
    BY <2>1, StageFields DEF TypeOK, CommitVerify
  <2>3. /\ items' = [items EXCEPT ![stage[w].item].status = "verified",
                                  ![stage[w].item].method = stage[w].method]
        /\ HasStatus(stage[w].item, "pending")
    BY <2>1 DEF CommitVerify, Commit
  <2>4. items[stage[w].item] \in ItemRow
    BY <2>2, <2>3, PresentRow DEF HasStatus
  <2>5. i = stage[w].item => items'[i].status = "verified" /\ items[i].status = "pending"
    BY <2>2, <2>3, <2>4 DEF TypeOK, ItemRow, HasStatus
  <2>6. i # stage[w].item => items'[i] = items[i]
    BY <2>2, <2>3 DEF TypeOK
  <2> QED
    BY <2>5, <2>6
<1> QED
  BY <1>1, <1>2, <1>3

(* The transactions of the candidates' life.                               *)
LEMMA LifeIsCalm ==
    ASSUME TypeOK, TypeOK', Transaction,
           \/ \E w \in Workers : CommitPropose(w)
           \/ \E i \in ItemIds, x \in CallerEvidence : AddEvidence(i, x[1], x[2])
           \/ \E w \in Workers : CommitVerify(w)
    PROVE  CalmEdit
<1>1. conflicts' = conflicts
  BY DEF CommitPropose, AddEvidence, CommitVerify, Commit
<1>2. Releases /\ Applies
  BY LifeEdits DEF Releases, Applies, BecomesApplied, HasStatus, Present
<1> QED
  BY <1>1, <1>2, NothingOpened DEF CalmEdit

LEMMA ContestIsCalm ==
    ASSUME TypeOK, TypeOK', Transaction, NEW w \in Workers, PutCandidateInConflict(w)
    PROVE  CalmEdit
<1> DEFINE i == stage[w].item
           its == [items EXCEPT ![i].status = "conflict"]
<1>1. /\ i \in ItemIds /\ stage[w].reason \in {"ha_subject_missing", "ha_canonical_mismatch"}
      /\ stage[w].from \in {"pending", "verified"} /\ HasStatus(i, stage[w].from)
      /\ OpenConflict(its, 0, i, stage[w].reason)
  BY StageFields DEF TypeOK, PutCandidateInConflict
<1>2. items[i] \in ItemRow
  BY <1>1, PresentRow DEF HasStatus
<1>3. items' = its
  BY <1>1 DEF OpenConflict, Commit
<1>4. its[i].status = "conflict" /\ \A k \in ItemIds \ {i} : its[k] = items[k]
  BY <1>1, <1>2 DEF TypeOK, ItemRow
<1>5. OpensFit
  <2>1. stage[w].reason \in Reasons /\ stage[w].reason \in HaReasons
    BY <1>1 DEF Reasons, HaReasons, CatalogReasons
  <2> HIDE DEF its, i
  <2> QED
    BY <1>1, <1>4, <2>1, OneOpened DEF HasStatus
<1>6. Releases /\ Applies
  BY <1>1, <1>3, <1>4 DEF Releases, Applies, BecomesApplied, HasStatus, Present
<1> QED
  BY <1>5, <1>6 DEF CalmEdit

(* The four outcomes of an application.                                    *)
LEMMA ApplyIsCalm ==
    ASSUME TypeOK, TypeOK', Transaction, EvidenceInv, Calm, RollbackCount = 0,
           NEW w \in Workers, NEW i \in ItemIds, NEW j \in ItemIds,
           \/ ApplyToFreeSlot(w, i) \/ ApplyDuplicate(w, i, j)
           \/ ApplyOverLower(w, i, j) \/ ApplyIntoConflict(w, i, j)
    PROVE  CalmEdit
<1>1. HasStatus(i, "verified") /\ items[i] \in ItemRow /\ items[i].method # "none"
  <2>1. HasStatus(i, "verified")
    BY DEF ApplyToFreeSlot, ApplyDuplicate, ApplyOverLower, ApplyIntoConflict, CanApply
  <2> QED
    BY <2>1, PresentRow DEF HasStatus, EvidenceInv, EvidenceFits, MethodFits
<1>2. CASE ApplyToFreeSlot(w, i)
  <2>1. /\ conflicts' = conflicts /\ InSlot(i) = {}
        /\ items' = [items EXCEPT ![i].status = "applied"]
    BY <1>2 DEF ApplyToFreeSlot, Commit
  <2>2. items'[i].prop = items[i].prop /\ \A k \in ItemIds \ {i} : items'[k] = items[k]
    BY <1>1, <2>1 DEF TypeOK, ItemRow
  <2>3. InSlot(i)' = InSlot(i)
    BY <2>2 DEF InSlot, HasStatus, Present
  <2>4. Releases /\ Applies
    BY <1>1, <2>1, <2>2, <2>3 DEF Releases, Applies, BecomesApplied, HasStatus, Present
  <2> QED
    BY <2>1, <2>4, NothingOpened DEF CalmEdit
<1>3. CASE ApplyDuplicate(w, i, j)
  <2>1. /\ conflicts' = conflicts
        /\ items' = [items EXCEPT ![i].status = "superseded", ![i].supersedes = j]
    BY <1>3 DEF ApplyDuplicate, Commit
  <2>2. items'[i].status = "superseded" /\ \A k \in ItemIds \ {i} : items'[k] = items[k]
    BY <1>1, <2>1 DEF TypeOK, ItemRow
  <2>3. Releases /\ Applies
    BY <1>1, <2>2 DEF Releases, Applies, BecomesApplied, HasStatus, Present
  <2> QED
    BY <2>1, <2>3, NothingOpened DEF CalmEdit
<1>4. CASE ApplyOverLower(w, i, j)
  <2> DEFINE row == [subject |-> items[i].prop.subject, existing |-> j, candidate |-> i,
                     reason |-> "higher_authority_candidate", status |-> "resolved"]
  <2>1. IsCurrentInSlot(i, j) /\ j # i /\ Present(items, j) /\ items[j] \in ItemRow
    BY <1>4, InSlotFacts DEF ApplyOverLower
  <2>2. /\ HasStatus(j, "applied") /\ items[j].prop.subject = items[i].prop.subject
        /\ SharesSlot(items[i].prop, items[j].prop)
    BY <2>1 DEF IsCurrentInSlot, InSlot, SharesSlot
  <2>3. PICK k \in ConflictIds :
          /\ items' = [items EXCEPT ![i].status = "applied", ![i].supersedes = j,
                                    ![j].status = "superseded"]
          /\ conflicts' = [c \in ConflictIds |->
               IF c = k THEN row
               ELSE IF IsOpen(conflicts, c) /\ conflicts[c].existing = j
                    THEN [conflicts[c] EXCEPT !.status = "resolved"]
                    ELSE conflicts[c]]
    BY <1>4 DEF ApplyOverLower, Commit
  <2>4. /\ items'[i].status = "applied" /\ items'[i].prop = items[i].prop
        /\ items'[j].status = "superseded"
        /\ \A n \in ItemIds \ {i, j} : items'[n] = items[n]
    BY <1>1, <2>1, <2>3 DEF TypeOK, ItemRow
  <2>5. conflicts'[k] = row /\ \A c \in ConflictIds : OpenedNow(c) => c = k
    BY <2>3, ConstantsAssumption DEF OpenedNow, Present, IsOpen
  <2>6. OpensFit
    <3>1. i # 0 /\ j # 0
      BY ZeroIsNoItem
    <3> QED
      BY <1>1, <2>2, <2>5, <3>1 DEF OpensFit, OpenedFits, HasStatus, HaReasons, CatalogReasons
  <2>7. items[i].prop.value \in Structural => InSlot(i)' = {}
    <3> SUFFICES ASSUME items[i].prop.value \in Structural, NEW n \in InSlot(i)' PROVE FALSE
      OBVIOUS
    <3>1. n \in ItemIds \ {i} /\ HasStatus(n, "applied")' /\ SharesSlot(items[i].prop, items'[n].prop)
      BY <2>4 DEF InSlot
    <3>2. n # j
      BY <2>4, <3>1 DEF HasStatus
    <3>3. HasStatus(n, "applied") /\ SharesSlot(items[i].prop, items[n].prop)
      BY <2>4, <3>1, <3>2 DEF HasStatus, Present
    <3>4. items[j].prop.value \in Structural /\ SharesSlot(items[j].prop, items[n].prop)
      BY <2>2, <3>3 DEF SharesSlot
    <3> QED
      BY <2>2, <3>1, <3>2, <3>3, <3>4 DEF Calm, OneAppliedPerSlot
  <2>8. Releases /\ Applies
    BY <1>1, <2>2, <2>4, <2>7 DEF Releases, Applies, BecomesApplied, HasStatus, Present
  <2> QED
    BY <2>6, <2>8 DEF CalmEdit
<1>5. CASE ApplyIntoConflict(w, i, j)
  <2> DEFINE its == [items EXCEPT ![i].status = "conflict"]
             r == IF Outranks(j, i) THEN "existing_memory_has_higher_authority"
                  ELSE "same_authority_disagreement"
  <2>1. OpenConflict(its, j, i, r) /\ items[j].prop.subject = items[i].prop.subject
    BY <1>5 DEF ApplyIntoConflict, IsCurrentInSlot, InSlot, SharesSlot
  <2>2. items' = its
    BY <2>1 DEF OpenConflict, Commit
  <2>3. its[i].status = "conflict" /\ \A k \in ItemIds \ {i} : its[k] = items[k]
    BY <1>1 DEF TypeOK, ItemRow
  <2>4. OpensFit
    <3>1. r \in Reasons /\ r \notin HaReasons /\ j # 0
      BY ZeroIsNoItem DEF Reasons, HaReasons, CatalogReasons
    <3> HIDE DEF its, r
    <3> QED
      BY <1>1, <2>1, <2>3, <3>1, OneOpened DEF HasStatus
  <2>5. Releases /\ Applies
    BY <1>1, <2>2, <2>3 DEF Releases, Applies, BecomesApplied, HasStatus, Present
  <2> QED
    BY <2>4, <2>5 DEF CalmEdit
<1> QED
  BY <1>2, <1>3, <1>4, <1>5

LEMMA RejectIsCalm ==
    ASSUME TypeOK, TypeOK', Transaction, NEW i \in ItemIds, Reject(i) PROVE CalmEdit
<1>1. /\ items' = [items EXCEPT ![i].status = "rejected"] /\ conflicts' = AfterRejection(i)
      /\ Present(items, i) /\ items[i] \in ItemRow
  BY PresentRow DEF Reject, Commit
<1>2. items'[i].status = "rejected" /\ \A k \in ItemIds \ {i} : items'[k] = items[k]
  BY <1>1 DEF TypeOK, ItemRow
<1>3. \A c \in ConflictIds : (IsOpen(conflicts, c) /\ conflicts[c].candidate = i) =>
        ~IsOpen(conflicts', c)
  <2> SUFFICES ASSUME NEW c \in ConflictIds, IsOpen(conflicts, c), conflicts[c].candidate = i
               PROVE  ~IsOpen(conflicts', c)
    OBVIOUS
  <2>1. conflicts'[c] = [conflicts[c] EXCEPT !.status = "resolved"]
    BY <1>1 DEF AfterRejection
  <2>2. conflicts[c] \in ConflictRow
    BY PresentConflict DEF IsOpen
  <2> QED
    BY <2>1, <2>2 DEF IsOpen, ConflictRow
<1>4. OpensFit
  <2>1. \A c \in ConflictIds : Present(conflicts', c) => Present(conflicts, c)
    BY <1>1 DEF AfterRejection, IsOpen, Present
  <2> QED
    BY <2>1, NothingOpened
<1>5. Releases /\ Applies
  BY <1>2, <1>3 DEF Releases, Applies, BecomesApplied, HasStatus, Present
<1> QED
  BY <1>4, <1>5 DEF CalmEdit

(* The three outcomes of a resolution.                                     *)
LEMMA ResolveIsCalm ==
    ASSUME TypeOK, TypeOK', Transaction, EvidenceInv, Calm, RollbackCount = 0,
           NEW w \in Workers, NEW c \in ConflictIds,
           ResolveForCandidate(w, c) \/ ResolveForExisting(w, c) \/ ResolveForHa(w, c)
    PROVE  CalmEdit
<1> DEFINE i == conflicts[c].candidate
           j == conflicts[c].existing
<1>1. /\ IsOpen(conflicts, c) /\ IsCurrent(c) /\ conflicts' = Closed(c)
      /\ Present(conflicts, c) /\ conflicts[c] \in ConflictRow
  BY PresentConflict DEF ResolveForCandidate, ResolveForExisting, ResolveForHa, CanResolve, IsOpen,
     Commit
<1>2. i \in ItemIds \union {0} /\ j \in ItemIds \union {0}
  BY <1>1 DEF ConflictRow
<1>3. ~IsOpen(conflicts', c) /\ \A d \in ConflictIds \ {c} : conflicts'[d] = conflicts[d]
  <2>1. conflicts'[c] = [conflicts[c] EXCEPT !.status = "resolved"]
    BY <1>1 DEF Closed, TypeOK
  <2> QED
    BY <1>1, <2>1 DEF Closed, TypeOK, ConflictRow, IsOpen
<1>4. OpensFit
  <2>1. \A d \in ConflictIds : Present(conflicts', d) => Present(conflicts, d)
    BY <1>1, <1>3 DEF Present
  <2> QED
    BY <2>1, NothingOpened
<1>5. \A k \in ItemIds : k # i /\ k # j => items'[k] = items[k]
  BY DEF ResolveForCandidate, ResolveForExisting, ResolveForHa, Commit
<1>6. /\ i # 0 => HasStatus(i, "conflict") /\ items[i] \in ItemRow
      /\ j # 0 => HasStatus(j, "applied") /\ items[j] \in ItemRow
  BY <1>1, <1>2, PresentRow DEF IsCurrent, HasStatus
<1>7. Releases
  <2> SUFFICES ASSUME NEW k \in ItemIds, HasStatus(k, "conflict"), ~HasStatus(k, "conflict")',
                      NEW d \in ConflictIds, IsOpen(conflicts, d), conflicts[d].candidate = k
               PROVE  d = c
    BY <1>3 DEF Releases
  <2>1. k = i
    BY <1>2, <1>5, <1>6, ZeroIsNoItem DEF HasStatus, Present
  <2> QED
    BY <1>1, <2>1, ZeroIsNoItem DEF Calm, OneOpenPerCandidate
<1>8. CASE ~ResolveForCandidate(w, c)
  <2>1. \A k \in ItemIds : items'[k] = items[k] \/ items'[k].status \in {"rejected", "superseded"}
    <3>1. \A k \in ItemIds : Present(items, k) => items[k] \in ItemRow
      BY PresentRow
    <3>2. CASE ResolveForExisting(w, c)
      BY <1>2, <1>6, <3>2 DEF ResolveForExisting, Commit, ItemRow
    <3>3. CASE ResolveForHa(w, c)
      BY <1>2, <1>6, <3>3 DEF ResolveForHa, Commit, ItemRow
    <3> QED
      BY <1>8, <3>2, <3>3
  <2>2. Applies
    BY <2>1 DEF Applies, BecomesApplied, HasStatus, Present
  <2> QED
    BY <1>4, <1>7, <2>2 DEF CalmEdit
<1>9. CASE ResolveForCandidate(w, c)
  <2>1. /\ i # 0 /\ stage[w] = [op |-> "resolve", conflict |-> c, winner |-> "candidate"]
        /\ items' = [k \in ItemIds |->
                       IF k = i THEN [items[i] EXCEPT !.status = "applied", !.supersedes = j]
                       ELSE IF k = j THEN [items[j] EXCEPT !.status = "superseded"]
                       ELSE items[k]]
    BY <1>9 DEF ResolveForCandidate, CanResolve, Commit
  <2>2. j # 0 /\ items[i].method # "none"
    <3>1. stage[w].op = "resolve" /\ stage[w].conflict = c /\ stage[w].winner = "candidate"
      BY <2>1
    <3>2. MayWin(c, "candidate") /\ ConflictFits(c)
      BY <1>1, <3>1 DEF Calm, StagedMayWin, ConflictsFit
    <3> QED
      BY <2>1, <3>2 DEF MayWin, ConflictFits
  <2>3. IsCurrentInSlot(i, j)
    BY <1>1, <2>1, <2>2 DEF IsCurrent
  <2>4. j # i /\ HasStatus(j, "applied") /\ SharesSlot(items[i].prop, items[j].prop)
    BY <2>3 DEF IsCurrentInSlot, InSlot
  <2>5. /\ items'[i].prop = items[i].prop /\ items'[j].status = "superseded"
        /\ \A k \in ItemIds : k # i /\ k # j => items'[k] = items[k]
    BY <1>2, <1>6, <2>1, <2>2, <2>4 DEF ItemRow
  <2>6. PICK a \in ItemIds, b \in ItemIds : a = i /\ b = j
    BY <1>2, <2>1, <2>2
  <2>7. items[a].prop.value \in Structural => InSlot(a)' = {}
    <3> SUFFICES ASSUME items[a].prop.value \in Structural, NEW n \in InSlot(a)' PROVE FALSE
      OBVIOUS
    <3>1. n \in ItemIds \ {a} /\ HasStatus(n, "applied")' /\ SharesSlot(items[a].prop, items'[n].prop)
      BY <2>5, <2>6 DEF InSlot
    <3>2. n # b
      BY <2>5, <2>6, <3>1 DEF HasStatus
    <3>3. HasStatus(n, "applied") /\ SharesSlot(items[a].prop, items[n].prop)
      BY <2>5, <2>6, <3>1, <3>2 DEF HasStatus, Present
    <3>4. items[b].prop.value \in Structural /\ SharesSlot(items[b].prop, items[n].prop)
      BY <2>4, <2>6, <3>3 DEF SharesSlot
    <3> QED
      BY <2>2, <2>4, <2>6, <3>1, <3>2, <3>3, <3>4 DEF Calm, OneAppliedPerSlot
  <2>8. Applies
    BY <1>2, <2>2, <2>5, <2>6, <2>7 DEF Applies, BecomesApplied, HasStatus, Present
  <2> QED
    BY <1>4, <1>7, <2>8 DEF CalmEdit
<1> QED
  BY <1>8, <1>9

(* A refresh opens each complaint once, and only what is not open yet.     *)
LEMMA ReplaceIsCalm ==
    ASSUME TypeOK, TypeOK', NEW cat \in Catalogs, Replace(cat), Transaction PROVE CalmEdit
<1>1. PICK top \in ConflictIds \union {0} :
        /\ IsNextId(conflicts, top + 1)
        /\ items' = items /\ (conflicts' = conflicts \/ conflicts' = Reconciled(cat, top))
        /\ catalog' = cat
  BY DEF Replace, Commit
<1>2. conflicts' = conflicts => OpensFit
  BY NothingOpened
<1>3. ASSUME conflicts' = Reconciled(cat, top) PROVE OpensFit
  <2>1. ASSUME NEW c \in ConflictIds, OpenedNow(c)
        PROVE  /\ conflicts'[c].existing \in NewlyContested(cat)
               /\ conflicts'[c] = [subject |-> items[conflicts'[c].existing].prop.subject,
                                   existing |-> conflicts'[c].existing, candidate |-> 0,
                                   reason |-> Complaint(cat, conflicts'[c].existing),
                                   status |-> "open"]
               /\ c = top + Cardinality({j \in NewlyContested(cat) : j <= conflicts'[c].existing})
    <3>1. RefreshedRow(cat, top, c)
      BY <1>1, ReconciledRows
    <3>2. ~IsRestored(cat, c) /\ ~Present(conflicts, c) /\ conflicts'[c] # conflicts[c]
      BY <2>1, ConstantsAssumption DEF OpenedNow, IsRestored, IsOpen, Present
    <3> QED
      BY <1>3, <3>1, <3>2 DEF RefreshedRow
  <2>2. ASSUME NEW c \in ConflictIds, OpenedNow(c) PROVE OpenedFits(c)
    <3>1. PICK i \in ItemIds : i = conflicts'[c].existing
      BY <2>1, <2>2 DEF NewlyContested
    <3>2. /\ i \in NewlyContested(cat)
          /\ conflicts'[c] = [subject |-> items[i].prop.subject, existing |-> i, candidate |-> 0,
                              reason |-> Complaint(cat, i), status |-> "open"]
          /\ c = top + Cardinality({j \in NewlyContested(cat) : j <= i})
      BY <2>1, <2>2, <3>1
    <3>3. i # 0 /\ Complaint(cat, i) \in CatalogReasons
      BY <3>2, ZeroIsNoItem DEF NewlyContested, Complaint, CatalogReasons
    <3>4. \A d \in ConflictIds : IsOpen(conflicts, d) => conflicts[d] # conflicts'[c]
      BY <3>2 DEF NewlyContested
    <3>5. /\ conflicts'[c].candidate = 0 /\ conflicts'[c].reason = Complaint(cat, i)
          /\ conflicts'[c].subject = items[i].prop.subject
      BY <3>2
    <3>6. \A d \in ConflictIds : (OpenedNow(d) /\ conflicts'[d].existing = i) => d = c
      BY <2>1, <3>2
    <3> QED
      BY <1>1, <3>1, <3>2, <3>3, <3>4, <3>5, <3>6 DEF OpenedFits
  <2> QED
    BY <2>2 DEF OpensFit
<1>4. OpensFit
  BY <1>1, <1>2, <1>3
<1>5. Releases /\ Applies
  BY <1>1 DEF Releases, Applies, BecomesApplied, HasStatus
<1> QED
  BY <1>4, <1>5 DEF CalmEdit

-----------------------------------------------------------------------------
(* What such a transaction keeps.                                          *)

LEMMA FitsKept ==
    ASSUME TypeOK, TypeOK', Transaction, EvidenceInv, CalmEdit, ConflictsFit PROVE ConflictsFit'
<1>1. ASSUME NEW i \in ItemIds, Present(items, i)
      PROVE  /\ Present(items', i) /\ items'[i].prop = items[i].prop
             /\ items[i].method # "none" => items'[i].method # "none"
             /\ items[i].status = "verified" => items'[i].method # "none"
             /\ items[i].status \in {"applied", "superseded"} =>
                  items'[i].status \in {"applied", "superseded"}
  <2>1. MethodFits(items[i])
    BY <1>1 DEF EvidenceInv, EvidenceFits
  <2> QED
    BY <1>1, <2>1, RowsKept DEF MethodFits, Moves
<1> SUFFICES ASSUME NEW c \in ConflictIds, Present(conflicts', c) PROVE ConflictFits(c)'
  BY DEF ConflictsFit
<1> DEFINE i == conflicts'[c].candidate
           j == conflicts'[c].existing
<1>2. conflicts'[c] \in ConflictRow /\ i \in ItemIds \union {0} /\ j \in ItemIds \union {0}
  BY DEF TypeOK, Present, ConflictRow
<1>3. CASE Present(conflicts, c)
  <2>1. /\ conflicts[c].candidate = i /\ conflicts[c].existing = j
        /\ conflicts[c].subject = conflicts'[c].subject /\ conflicts[c].reason = conflicts'[c].reason
        /\ ConflictFits(c)
    BY <1>3, RowsKept DEF ConflictsFit
  <2> HIDE DEF i, j
  <2>2. /\ i = 0 => j # 0 /\ conflicts'[c].reason \in CatalogReasons
        /\ i # 0 => /\ Present(items, i) /\ items[i].prop.subject = conflicts'[c].subject
                    /\ conflicts'[c].reason \in HaReasons <=> j = 0
                    /\ j # 0 => items[i].method # "none"
        /\ j # 0 => /\ Present(items, j) /\ items[j].status \in {"applied", "superseded"}
                    /\ items[j].prop.subject = conflicts'[c].subject
    BY <2>1 DEF ConflictFits
  <2> QED
    BY <1>1, <1>2, <2>2 DEF ConflictFits, i, j
<1>4. CASE ~Present(conflicts, c)
  <2>1. OpenedNow(c)
    BY <1>4 DEF Transaction, ConflictEdit, ClosedNow, IsOpen, Present
  <2>2. OpenedFits(c)
    BY <2>1 DEF CalmEdit, OpensFit
  <2>3. /\ i # 0 => Present(items, i)
        /\ j # 0 => HasStatus(j, "applied") /\ Present(items, j)
    BY <2>1 DEF OpenedNow, MovedNow, MovedTo, HasStatus
  <2> HIDE DEF i, j
  <2>4. /\ i = 0 => j # 0 /\ conflicts'[c].reason \in CatalogReasons
        /\ i # 0 => /\ items[i].prop.subject = conflicts'[c].subject
                    /\ conflicts'[c].reason \in HaReasons <=> j = 0
                    /\ j # 0 => items[i].status = "verified"
        /\ j # 0 => items[j].prop.subject = conflicts'[c].subject
    BY <2>2 DEF OpenedFits, i, j
  <2> QED
    BY <1>1, <1>2, <2>3, <2>4 DEF ConflictFits, i, j, HasStatus
<1> QED
  BY <1>3, <1>4

LEMMA HeldKept ==
    ASSUME TypeOK, TypeOK', Transaction, CalmEdit, ConflictsFit, OneOpenPerCandidate,
           OpenConflictHoldsCandidate, NoDuplicateComplaint, RollbackCount = 0
    PROVE  OneOpenPerCandidate' /\ OpenConflictHoldsCandidate' /\ NoDuplicateComplaint'
<1>1. ASSUME NEW c \in ConflictIds, IsOpen(conflicts', c)
      PROVE  \/ IsOpen(conflicts, c) /\ conflicts'[c] = conflicts[c]
             \/ OpenedNow(c) /\ OpenedFits(c) /\ conflicts'[c] \in ConflictRow
  <2>1. conflicts'[c].status = "open"
    BY <1>1 DEF IsOpen
  <2>2. CASE Present(conflicts, c)
    BY <2>1, <2>2, RowsKept DEF IsOpen
  <2>3. CASE ~Present(conflicts, c)
    <3>1. conflicts'[c] # conflicts[c]
      BY <1>1, <2>3 DEF IsOpen, Present
    <3> QED
      BY <2>3, <3>1 DEF Transaction, ConflictEdit, ClosedNow, IsOpen, CalmEdit, OpensFit, OpenedNow
  <2> QED
    BY <2>2, <2>3
<1>2. ASSUME NEW c \in ConflictIds, IsOpen(conflicts', c), conflicts'[c].candidate # 0
      PROVE  HasStatus(conflicts[c].candidate, "conflict")'
  <2>0. PICK i : i = conflicts'[c].candidate
    OBVIOUS
  <2>1. CASE IsOpen(conflicts, c) /\ conflicts'[c] = conflicts[c]
    <3>1. HasStatus(i, "conflict") /\ i \in ItemIds
      <4>1. conflicts[c] \in ConflictRow
        BY <2>1, PresentConflict DEF IsOpen
      <4> QED
        BY <1>2, <2>0, <2>1, <4>1 DEF OpenConflictHoldsCandidate, ConflictRow
    <3> QED
      BY <1>2, <2>0, <2>1, <3>1 DEF CalmEdit, Releases
  <2>2. CASE OpenedNow(c) /\ OpenedFits(c) /\ conflicts'[c] \in ConflictRow
    <3>1. i \in ItemIds /\ Present(items, i)
      BY <1>2, <2>0, <2>2 DEF ConflictRow, OpenedNow, MovedNow, MovedTo
    <3>2. items'[i].status = "conflict"
      BY <1>2, <2>0, <2>2 DEF OpenedFits, IsOpen
    <3> QED
      BY <2>0, <3>1, <3>2, RowsKept DEF HasStatus
  <2> QED
    BY <1>1, <1>2, <2>1, <2>2
<1>3. ASSUME NEW c \in ConflictIds, NEW d \in ConflictIds, IsOpen(conflicts, c),
             conflicts[c].candidate # 0, OpenedNow(d), OpenedFits(d)
      PROVE  conflicts'[d].candidate # conflicts[c].candidate
  <2>1. HasStatus(conflicts[c].candidate, "conflict")
    BY <1>3 DEF OpenConflictHoldsCandidate
  <2> QED
    BY <1>3, <2>1 DEF OpenedFits, HasStatus
<1>4. ASSUME NEW c \in ConflictIds, NEW d \in ConflictIds, OpenedNow(c), OpenedNow(d),
             OpenedFits(c), OpenedFits(d), IsOpen(conflicts', c), IsOpen(conflicts', d),
             conflicts'[c].candidate # 0, conflicts'[c].candidate = conflicts'[d].candidate
      PROVE  c = d
  BY <1>4 DEF OpenedFits
<1>5. OneOpenPerCandidate'
  BY <1>1, <1>3, <1>4 DEF OneOpenPerCandidate
<1>6. NoDuplicateComplaint'
  <2> SUFFICES ASSUME NEW c \in ConflictIds, NEW d \in ConflictIds, IsOpen(conflicts', c),
                      conflicts'[d] = conflicts'[c]
               PROVE  c = d
    BY DEF NoDuplicateComplaint
  <2>1. IsOpen(conflicts', d)
    BY DEF IsOpen, Present
  <2>2. CASE conflicts'[c].candidate # 0
    BY <1>5, <2>1, <2>2 DEF OneOpenPerCandidate
  <2>3. CASE conflicts'[c].candidate = 0
    BY <1>1, <2>1, <2>3 DEF OpenedFits, NoDuplicateComplaint
  <2> QED
    BY <2>2, <2>3
<1> QED
  BY <1>2, <1>5, <1>6 DEF OpenConflictHoldsCandidate

(* A row that appears is a pending candidate.                              *)
LEMMA NewRowIsPending ==
    ASSUME Transaction, NEW i \in ItemIds, Present(items', i), ~Present(items, i)
    PROVE  items'[i].status = "pending"
  BY DEF Transaction, ItemEdit, ProposedNow, VerifiedBy, MovedNow, MovedTo, HasStatus, Present

LEMMA SlotsKept ==
    ASSUME TypeOK, TypeOK', Transaction, EvidenceInv, CalmEdit, OneAppliedPerSlot, InForceVerified,
           RollbackCount = 0
    PROVE  OneAppliedPerSlot' /\ InForceVerified'
<1>1. ASSUME NEW i \in ItemIds, Present(items', i), items'[i].status \in {"applied", "superseded"}
      PROVE  items'[i].method # "none"
  <2>1. Present(items, i)
    BY <1>1, NewRowIsPending
  <2>2. /\ items[i].status # "pending" => items'[i].method = items[i].method
        /\ \/ items'[i].status = items[i].status
           \/ <<items[i].status, items'[i].status>> \in Moves \union {<<"pending", "verified">>}
    BY <2>1, RowsKept
  <2>3. MethodFits(items[i])
    BY <2>1 DEF EvidenceInv, EvidenceFits
  <2>4. CASE items[i].status \in {"applied", "superseded", "verified"}
    BY <2>1, <2>2, <2>3, <2>4 DEF InForceVerified, MethodFits
  <2>5. CASE items[i].status = "conflict" /\ items'[i].status = "applied"
    <3>1. BecomesApplied(i)
      BY <1>1, <2>5 DEF BecomesApplied, HasStatus
    <3> QED
      BY <2>2, <2>5, <3>1 DEF CalmEdit, Applies
  <2> QED
    BY <1>1, <2>2, <2>4, <2>5 DEF Moves
<1>2. ASSUME NEW i \in ItemIds, NEW j \in ItemIds, i # j, HasStatus(i, "applied")',
             HasStatus(j, "applied")', items'[i].prop.value \in Structural,
             SharesSlot(items'[i].prop, items'[j].prop)
      PROVE  FALSE
  <2>1. Present(items, i) /\ Present(items, j)
    BY <1>2, NewRowIsPending DEF HasStatus
  <2>2. items'[i].prop = items[i].prop /\ items'[j].prop = items[j].prop
    BY <2>1, RowsKept
  <2>3. items'[j].prop.value \in Structural /\ SharesSlot(items'[j].prop, items'[i].prop)
    BY <1>2 DEF SharesSlot
  <2>4. CASE BecomesApplied(i)
    <3>1. InSlot(i)' = {}
      BY <1>2, <2>2, <2>4 DEF CalmEdit, Applies
    <3> QED
      BY <1>2, <3>1 DEF InSlot
  <2>5. CASE BecomesApplied(j)
    <3>1. InSlot(j)' = {}
      BY <2>2, <2>3, <2>5 DEF CalmEdit, Applies
    <3> QED
      BY <1>2, <2>3, <3>1 DEF InSlot
  <2>6. CASE HasStatus(i, "applied") /\ HasStatus(j, "applied")
    BY <1>2, <2>2, <2>6 DEF OneAppliedPerSlot
  <2> QED
    BY <1>2, <2>4, <2>5, <2>6 DEF BecomesApplied
<1> QED
  BY <1>1, <1>2 DEF OneAppliedPerSlot, InForceVerified

(* Under the same catalog no conflict becomes one that a refresh ends.     *)
LEMMA NoneRestoredKept ==
    ASSUME TypeOK, TypeOK', Transaction, CalmEdit, ConflictsFit, NoneRestored, catalog' = catalog
    PROVE  NoneRestored'
<1> SUFFICES ASSUME NEW c \in ConflictIds, IsRestored(catalog, c)' PROVE FALSE
  BY DEF NoneRestored
<1>1. PICK j : j = conflicts'[c].existing
  OBVIOUS
<1>2. /\ IsOpen(conflicts', c) /\ j # 0 /\ conflicts'[c].reason \in CatalogReasons
      /\ Present(items', j) /\ items'[j].status = "applied" /\ items'[j].prop.subject \in catalog.active
      /\ conflicts'[c].reason = "ha_canonical_relationship_changed" =>
           /\ items'[j].prop.value \in Structural
           /\ <<items'[j].prop.subject, items'[j].prop.value>> \in catalog.relations
  BY <1>1 DEF IsRestored, HasStatus
<1>3. CASE Present(conflicts, c)
  <2>1. conflicts'[c] = conflicts[c] /\ conflicts[c] \in ConflictRow
    BY <1>2, <1>3, RowsKept DEF IsOpen
  <2>2. j \in ItemIds /\ Present(items, j) /\ items[j].status \in {"applied", "superseded"}
    BY <1>1, <1>2, <1>3, <2>1 DEF ConflictsFit, ConflictFits, ConflictRow
  <2>3. items'[j].prop = items[j].prop /\ items[j].status = "applied"
    BY <1>2, <2>2, RowsKept DEF Moves
  <2>4. IsRestored(catalog, c)
    BY <1>1, <1>2, <1>3, <2>1, <2>2, <2>3 DEF IsRestored, IsOpen, HasStatus
  <2> QED
    BY <2>4 DEF NoneRestored
<1>4. CASE ~Present(conflicts, c)
  <2>1. OpenedNow(c)
    BY <1>2, <1>4 DEF Transaction, ConflictEdit, ClosedNow, IsOpen, Present
  <2>2. OpenedFits(c) /\ HasStatus(j, "applied") /\ conflicts'[c] \in ConflictRow
    BY <1>1, <1>2, <2>1 DEF CalmEdit, OpensFit, OpenedNow
  <2>3. conflicts'[c].candidate = 0 /\ Complaint(catalog, j) = conflicts'[c].reason
    BY <1>1, <1>2, <2>2 DEF OpenedFits, HaReasons
  <2>4. j \in ItemIds /\ items'[j].prop = items[j].prop
    BY <1>1, <1>2, <2>2, RowsKept DEF HasStatus, ConflictRow
  <2> QED
    BY <1>2, <2>3, <2>4 DEF Complaint, CatalogReasons
<1> QED
  BY <1>3, <1>4

(* Nor does a refresh leave one.                                           *)
LEMMA ReplaceRestores ==
    ASSUME TypeOK, TypeOK', NEW cat \in Catalogs, Replace(cat)
    PROVE  NoneRestored'
<1> SUFFICES ASSUME NEW c \in ConflictIds, IsRestored(catalog, c)' PROVE FALSE
  BY DEF NoneRestored
<1>1. PICK top \in ConflictIds \union {0} :
        /\ IsNextId(conflicts, top + 1)
        /\ items' = items /\ catalog' = cat /\ conflicts' = Reconciled(cat, top)
  BY DEF Replace, Commit
<1>2. RefreshedRow(cat, top, c)
  BY <1>1, ReconciledRows
<1>3. IsOpen(conflicts', c)
  BY DEF IsRestored
<1>4. CASE ~IsRestored(cat, c) /\ conflicts'[c] = conflicts[c]
  BY <1>1, <1>4 DEF IsRestored, IsOpen, Present, HasStatus
<1>5. CASE IsRestored(cat, c) /\ conflicts'[c] = [conflicts[c] EXCEPT !.status = "resolved"]
  <2>1. conflicts[c] \in ConflictRow
    BY <1>5, PresentConflict DEF IsRestored, IsOpen
  <2> QED
    BY <1>3, <1>5, <2>1 DEF IsOpen, ConflictRow
<1>6. ASSUME NEW i \in NewlyContested(cat),
             conflicts'[c] = [subject |-> items[i].prop.subject, existing |-> i, candidate |-> 0,
                              reason |-> Complaint(cat, i), status |-> "open"]
      PROVE  FALSE
  <2>1. conflicts'[c].existing = i /\ conflicts'[c].reason = Complaint(cat, i)
    BY <1>6
  <2> QED
    BY <1>1, <2>1 DEF IsRestored, Complaint, HasStatus, CatalogReasons
<1> QED
  BY <1>1, <1>2, <1>4, <1>5, <1>6 DEF RefreshedRow

-----------------------------------------------------------------------------
(* The search index.                                                       *)

Indexed(s) ==
    /\ Indexable(items, conflicts, catalog.active, s) \subseteq search[s]
    /\ search[s] \subseteq Indexable(items, WithoutStructureComplaints, catalog.active, s)

(* What a transaction that rebuilds the rows of the subjects T changes     *)
(* about the applied memories of all others: nothing.                      *)
OnlyAbout(T) ==
    /\ \A i \in ItemIds :
         \/ items'[i] = items[i]
         \/ Present(items, i) /\ items[i].prop.subject \in T
         \/ ~HasStatus(i, "applied") /\ ~HasStatus(i, "applied")'
    /\ \A c \in ConflictIds :
         \/ conflicts'[c] = conflicts[c]
         \/ conflicts'[c].subject \in T
         \/ \A i \in ItemIds : Names(conflicts'[c], i) => ~HasStatus(i, "applied")

LEMMA RebuiltIsIndexed ==
    ASSUME TypeOK', NEW T \in SUBSET Subjects, Rebuild(T, catalog'), NEW s \in T
    PROVE  Indexed(s)'
<1>1. search'[s] = Indexable(items', conflicts', (catalog').active, s)
  BY DEF Rebuild
<1>2. \A i \in ItemIds : Contested(WithoutStructureComplaints', i) => Contested(conflicts', i)
  BY DEF Contested, WithoutStructureComplaints, IsOpen, Present
<1> QED
  BY <1>1, <1>2 DEF Indexed, Indexable

LEMMA IndexKept ==
    ASSUME TypeOK, TypeOK', Transaction, CalmEdit, ConflictsFit, catalog' = catalog,
           NEW T \in SUBSET Subjects, OnlyAbout(T), Rebuild(T, catalog),
           \A s \in Subjects : Indexed(s)
    PROVE  \A s \in Subjects : Indexed(s)'
<1> SUFFICES ASSUME NEW s \in Subjects, s \notin T PROVE Indexed(s)'
  BY RebuiltIsIndexed
<1>1. search'[s] = search[s]
  BY DEF Rebuild
<1>2. ASSUME NEW i \in ItemIds
      PROVE  (HasStatus(i, "applied") /\ items[i].prop.subject = s)'
               <=> HasStatus(i, "applied") /\ items[i].prop.subject = s
  <2>1. Present(items, i) => items'[i].prop = items[i].prop
    BY RowsKept
  <2> QED
    BY <2>1 DEF OnlyAbout, HasStatus, Present
<1>3. ASSUME NEW c \in ConflictIds, conflicts'[c] # conflicts[c], NEW i \in ItemIds,
             HasStatus(i, "applied"), items[i].prop.subject = s
      PROVE  ~Names(conflicts[c], i) /\ ~Names(conflicts'[c], i)
  <2>1. CASE Present(conflicts, c)
    <3>1. /\ conflicts'[c].subject = conflicts[c].subject
          /\ conflicts'[c].candidate = conflicts[c].candidate
          /\ conflicts'[c].existing = conflicts[c].existing
          /\ Present(conflicts', c) /\ ConflictFits(c)
      BY <2>1, RowsKept DEF ConflictsFit
    <3>2. Names(conflicts[c], i) => items[i].prop.subject = conflicts[c].subject
      BY <3>1, ZeroIsNoItem DEF ConflictFits, Names
    <3>3. Names(conflicts[c], i) <=> Names(conflicts'[c], i)
      BY <2>1, <3>1 DEF Names, Present
    <3> QED
      BY <1>3, <3>1, <3>2, <3>3 DEF OnlyAbout
  <2>2. CASE ~Present(conflicts, c)
    <3>1. OpenedNow(c)
      BY <1>3, <2>2 DEF Transaction, ConflictEdit, ClosedNow, IsOpen
    <3>2. OpenedFits(c)
      BY <3>1 DEF CalmEdit, OpensFit
    <3>3. Names(conflicts'[c], i) => items[i].prop.subject = conflicts'[c].subject
      BY <3>2, ZeroIsNoItem DEF OpenedFits, Names
    <3> QED
      BY <1>3, <2>2, <3>3 DEF OnlyAbout, Names, Present
  <2> QED
    BY <2>1, <2>2
<1>4. ASSUME NEW i \in ItemIds, HasStatus(i, "applied"), items[i].prop.subject = s
      PROVE  /\ Contested(conflicts', i) <=> Contested(conflicts, i)
             /\ Contested(WithoutStructureComplaints', i) <=> Contested(WithoutStructureComplaints, i)
  <2>1. ASSUME NEW c \in ConflictIds
        PROVE  (IsOpen(conflicts', c) /\ i \in {conflicts'[c].existing, conflicts'[c].candidate})
                 <=> IsOpen(conflicts, c) /\ i \in {conflicts[c].existing, conflicts[c].candidate}
    BY <1>3, <1>4 DEF Names, IsOpen, Present
  <2>2. ASSUME NEW c \in ConflictIds, IsOpen(conflicts, c),
               i \in {conflicts[c].existing, conflicts[c].candidate}
        PROVE  conflicts'[c] = conflicts[c]
    BY <1>3, <1>4, <2>2 DEF Names, IsOpen, Present
  <2>3. Contested(conflicts', i) <=> Contested(conflicts, i)
    BY <2>1 DEF Contested
  <2>4. Contested(WithoutStructureComplaints', i) <=> Contested(WithoutStructureComplaints, i)
    BY <2>1, <2>2 DEF Contested, WithoutStructureComplaints, IsOpen, Present
  <2> QED
    BY <2>3, <2>4
<1>5. Indexable(items', conflicts', (catalog').active, s)
        = Indexable(items, conflicts, catalog.active, s)
  BY <1>2, <1>4 DEF Indexable, HasStatus
<1>6. Indexable(items', WithoutStructureComplaints', (catalog').active, s)
        = Indexable(items, WithoutStructureComplaints, catalog.active, s)
  BY <1>2, <1>4 DEF Indexable, HasStatus
<1> QED
  BY <1>1, <1>5, <1>6 DEF Indexed

(* A refresh rebuilds every row, or found no object or relation changed.   *)
LEMMA ReplaceKeepsIndex ==
    ASSUME TypeOK, TypeOK', NEW cat \in Catalogs, Replace(cat), NoneRestored,
           \A s \in Subjects : Indexed(s)
    PROVE  \A s \in Subjects : Indexed(s)'
<1>1. catalog' = cat
  BY DEF Replace
<1>2. CASE Rebuild(Subjects, cat)
  BY <1>1, <1>2, RebuiltIsIndexed
<1>3. CASE cat = catalog /\ search' = search
  <2>1. PICK top \in ConflictIds \union {0} :
          /\ IsNextId(conflicts, top + 1)
          /\ items' = items /\ conflicts' = Reconciled(catalog, top)
    BY <1>3 DEF Replace, Commit
  <2>2. ASSUME NEW c \in ConflictIds
        PROVE  \/ conflicts'[c] = conflicts[c]
               \/ /\ ~Present(conflicts, c) /\ Present(conflicts', c)
                  /\ \E i \in ItemIds :
                       /\ conflicts'[c].existing = i /\ conflicts'[c].candidate = 0
                       /\ \/ items[i].prop.subject \notin catalog.active
                          \/ conflicts'[c].reason = "ha_canonical_relationship_changed"
    <3>1. RefreshedRow(catalog, top, c) /\ ~IsRestored(catalog, c)
      BY <1>3, <2>1, ReconciledRows DEF NoneRestored
    <3>2. CASE conflicts'[c] = conflicts[c]
      BY <3>2
    <3>3. ASSUME NEW i \in NewlyContested(catalog), ~Present(conflicts, c),
                 conflicts'[c] = [subject |-> items[i].prop.subject, existing |-> i,
                                  candidate |-> 0, reason |-> Complaint(catalog, i),
                                  status |-> "open"]
          PROVE  /\ Present(conflicts', c)
                 /\ i \in ItemIds
                 /\ conflicts'[c].existing = i /\ conflicts'[c].candidate = 0
                 /\ \/ items[i].prop.subject \notin catalog.active
                    \/ conflicts'[c].reason = "ha_canonical_relationship_changed"
      <4>1. conflicts'[c].existing = i /\ conflicts'[c].candidate = 0
            /\ conflicts'[c].reason = Complaint(catalog, i) /\ conflicts'[c].status = "open"
        BY <3>3
      <4>2. i \in ItemIds /\ Complaint(catalog, i) # "none" /\ HasStatus(i, "applied")
        BY DEF NewlyContested
      <4>3. Present(conflicts', c)
        <5>1. conflicts'[c] \in ConflictRow
          <6>1. items[i].prop \in Proposals
            BY <4>2, PresentRow DEF HasStatus, ItemRow
          <6>2. items[i].prop.subject \in Subjects
            BY <6>1, ConstantsAssumption DEF Proposal
          <6>3. Complaint(catalog, i) \in Reasons
            BY <4>2 DEF Complaint, Reasons, HaReasons, CatalogReasons
          <6> QED
            BY <3>3, <4>2, <6>2, <6>3 DEF ConflictRow
        <5> QED
          BY <5>1, ConstantsAssumption DEF Present
      <4> QED
        BY <4>1, <4>2, <4>3 DEF Complaint
    <3> QED
      BY <2>1, <3>1, <3>2, <3>3 DEF RefreshedRow
  <2> SUFFICES ASSUME NEW s \in Subjects PROVE Indexed(s)'
    OBVIOUS
  <2>3. \A i \in ItemIds : Contested(conflicts, i) => Contested(conflicts', i)
    BY <2>2 DEF Contested, IsOpen, Present
  <2>4. ASSUME NEW i \in ItemIds, items[i].prop.subject \in catalog.active,
               Contested(WithoutStructureComplaints', i)
        PROVE  Contested(WithoutStructureComplaints, i)
    <3>1. PICK c \in ConflictIds :
            /\ Present(conflicts', c) /\ conflicts'[c].reason # "ha_canonical_relationship_changed"
            /\ conflicts'[c].status = "open"
            /\ i \in {conflicts'[c].existing, conflicts'[c].candidate}
      BY <2>4 DEF Contested, WithoutStructureComplaints, IsOpen, Present
    <3>2. conflicts'[c] = conflicts[c]
      BY <2>2, <2>4, <3>1, ZeroIsNoItem
    <3> QED
      BY <3>1, <3>2 DEF Contested, WithoutStructureComplaints, IsOpen, Present
  <2> QED
    BY <1>1, <1>3, <2>1, <2>3, <2>4 DEF Indexed, Indexable
<1> QED
  BY <1>2, <1>3 DEF Replace

Reindexed == \E T \in SUBSET Subjects : OnlyAbout(T) /\ Rebuild(T, catalog) /\ catalog' = catalog

LEMMA NothingReindexed ==
    ASSUME TypeOK, UNCHANGED <<catalog, search>>,
           \A i \in ItemIds : \/ items'[i] = items[i]
                              \/ ~HasStatus(i, "applied") /\ ~HasStatus(i, "applied")',
           \A c \in ConflictIds : \/ conflicts'[c] = conflicts[c]
                                  \/ \A i \in ItemIds : Names(conflicts'[c], i) => ~HasStatus(i, "applied")
    PROVE  Reindexed
<1>1. OnlyAbout({})
  BY DEF OnlyAbout
<1>2. Rebuild({}, catalog)
  BY DEF Rebuild, TypeOK
<1> QED
  BY <1>1, <1>2 DEF Reindexed

LEMMA LifeIsIndexed ==
    ASSUME TypeOK, TypeOK',
           \/ \E w \in Workers : CommitPropose(w)
           \/ \E i \in ItemIds, x \in CallerEvidence : AddEvidence(i, x[1], x[2])
           \/ \E w \in Workers : CommitVerify(w)
    PROVE  Reindexed
<1>1. conflicts' = conflicts /\ UNCHANGED <<catalog, search>>
  BY DEF CommitPropose, AddEvidence, CommitVerify, Commit
<1>2. \A i \in ItemIds : items'[i] = items[i] \/ (~HasStatus(i, "applied") /\ ~HasStatus(i, "applied")')
  BY LifeEdits DEF HasStatus
<1> QED
  BY <1>1, <1>2, NothingReindexed

LEMMA ContestIsIndexed ==
    ASSUME TypeOK, TypeOK', Transaction, CalmEdit, NEW w \in Workers, PutCandidateInConflict(w)
    PROVE  Reindexed
<1> DEFINE i == stage[w].item
           its == [items EXCEPT ![i].status = "conflict"]
           row == [subject |-> items[i].prop.subject, existing |-> 0, candidate |-> i,
                   reason |-> stage[w].reason, status |-> "open"]
<1>1. /\ i \in ItemIds /\ stage[w].from \in {"pending", "verified"} /\ HasStatus(i, stage[w].from)
      /\ OpenConflict(its, 0, i, stage[w].reason) /\ UNCHANGED <<catalog, search>>
  BY StageFields DEF TypeOK, PutCandidateInConflict
<1>2. items[i] \in ItemRow
  BY <1>1, PresentRow DEF HasStatus
<1>3. PICK k \in ConflictIds :
        items' = its /\ (conflicts' = conflicts \/ conflicts' = [conflicts EXCEPT ![k] = row])
  BY <1>1 DEF OpenConflict, Commit
<1>4. items'[i].status = "conflict" /\ \A n \in ItemIds \ {i} : items'[n] = items[n]
  BY <1>1, <1>2, <1>3 DEF TypeOK, ItemRow
<1>5. \A n \in ItemIds : \/ items'[n] = items[n]
                         \/ ~HasStatus(n, "applied") /\ ~HasStatus(n, "applied")'
  BY <1>1, <1>4 DEF HasStatus
<1>6. ASSUME NEW c \in ConflictIds, conflicts'[c] # conflicts[c], NEW n \in ItemIds,
             Names(conflicts'[c], n)
      PROVE  ~HasStatus(n, "applied")
  <2>1. conflicts'[c] = row
    BY <1>3, <1>6 DEF TypeOK
  <2>2. n = i
    BY <1>6, <2>1, ZeroIsNoItem DEF Names
  <2> QED
    BY <1>1, <2>2 DEF HasStatus
<1> QED
  BY <1>1, <1>5, <1>6, NothingReindexed

LEMMA ApplyIsIndexed ==
    ASSUME TypeOK, TypeOK', Transaction, CalmEdit, ConflictsFit,
           NEW w \in Workers, NEW i \in ItemIds, NEW j \in ItemIds,
           \/ ApplyToFreeSlot(w, i) \/ ApplyDuplicate(w, i, j)
           \/ ApplyOverLower(w, i, j) \/ ApplyIntoConflict(w, i, j)
    PROVE  Reindexed
<1> DEFINE T == {items[i].prop.subject}
<1>1. HasStatus(i, "verified") /\ Present(items, i) /\ items[i] \in ItemRow /\ ApplyDone(w, i)
  <2>1. CanApply(w, i) /\ ApplyDone(w, i)
    BY DEF ApplyToFreeSlot, ApplyDuplicate, ApplyOverLower, ApplyIntoConflict
  <2> QED
    BY <2>1, CanApplyFacts DEF CanApply
<1>2. T \in SUBSET Subjects
  <2>1. items[i].prop \in Proposals
    BY <1>1 DEF ItemRow
  <2> QED
    BY <2>1, ConstantsAssumption DEF Proposal
<1>3. catalog' = catalog /\ Rebuild(T, catalog)
  BY <1>1 DEF ApplyDone
<1>4. ASSUME IsCurrentInSlot(i, j)
      PROVE  Present(items, j) /\ items[j].prop.subject \in T
  BY <1>4 DEF IsCurrentInSlot, InSlot, SharesSlot, HasStatus
<1>5. \A k \in ItemIds : \/ items'[k] = items[k]
                         \/ Present(items, k) /\ items[k].prop.subject \in T
  <2>1. \A k \in ItemIds : k = i \/ (k = j /\ IsCurrentInSlot(i, j)) \/ items'[k] = items[k]
    BY DEF ApplyToFreeSlot, ApplyDuplicate, ApplyOverLower, ApplyIntoConflict, OpenConflict, Commit,
       TypeOK
  <2> QED
    BY <1>1, <1>4, <2>1
<1>6. ASSUME NEW c \in ConflictIds, conflicts'[c] # conflicts[c] PROVE conflicts'[c].subject \in T
  <2>1. CASE ApplyToFreeSlot(w, i) \/ ApplyDuplicate(w, i, j)
    BY <1>6, <2>1 DEF ApplyToFreeSlot, ApplyDuplicate, Commit
  <2>2. CASE ApplyOverLower(w, i, j)
    <3>1. PICK k \in ConflictIds :
            conflicts' = [d \in ConflictIds |->
               IF d = k THEN [subject |-> items[i].prop.subject, existing |-> j, candidate |-> i,
                              reason |-> "higher_authority_candidate", status |-> "resolved"]
               ELSE IF IsOpen(conflicts, d) /\ conflicts[d].existing = j
                    THEN [conflicts[d] EXCEPT !.status = "resolved"]
                    ELSE conflicts[d]]
      BY <2>2 DEF ApplyOverLower, Commit
    <3>2. CASE c = k
      BY <3>1, <3>2
    <3>3. CASE c # k
      <4>1. Present(conflicts, c) /\ conflicts[c].existing = j
        BY <1>6, <3>1, <3>3 DEF IsOpen
      <4>2. conflicts[c].subject = items[j].prop.subject
        BY <4>1, ZeroIsNoItem DEF ConflictsFit, ConflictFits
      <4>3. conflicts'[c].subject = conflicts[c].subject
        BY <4>1, RowsKept
      <4>4. items[j].prop.subject \in T
        BY <1>4, <2>2 DEF ApplyOverLower
      <4> QED
        BY <4>2, <4>3, <4>4
    <3> QED
      BY <3>2, <3>3
  <2>3. CASE ApplyIntoConflict(w, i, j)
    <3> DEFINE r == IF Outranks(j, i) THEN "existing_memory_has_higher_authority"
                    ELSE "same_authority_disagreement"
    <3> HIDE DEF r
    <3>1. PICK k \in ConflictIds :
            \/ conflicts' = conflicts
            \/ conflicts' = [conflicts EXCEPT ![k] =
                 [subject |-> items[i].prop.subject, existing |-> j, candidate |-> i,
                  reason |-> r, status |-> "open"]]
      BY <2>3 DEF ApplyIntoConflict, OpenConflict, Commit, r
    <3>2. conflicts'[c] = [subject |-> items[i].prop.subject, existing |-> j, candidate |-> i,
                           reason |-> r, status |-> "open"]
      BY <1>6, <3>1 DEF TypeOK
    <3> QED
      BY <3>2
  <2> QED
    BY <2>1, <2>2, <2>3
<1>7. OnlyAbout(T)
  BY <1>5, <1>6 DEF OnlyAbout
<1> HIDE DEF T
<1> QED
  BY <1>2, <1>3, <1>7 DEF Reindexed

LEMMA RejectIsIndexed ==
    ASSUME TypeOK, TypeOK', Transaction, ConflictsFit, NEW i \in ItemIds, Reject(i) PROVE Reindexed
<1> DEFINE T == {items[i].prop.subject}
<1>1. /\ items' = [items EXCEPT ![i].status = "rejected"] /\ conflicts' = AfterRejection(i)
      /\ Present(items, i) /\ items[i] \in ItemRow
      /\ catalog' = catalog /\ Rebuild(T, catalog)
  BY PresentRow DEF Reject, Commit
<1>2. T \in SUBSET Subjects
  <2>1. items[i].prop \in Proposals
    BY <1>1 DEF ItemRow
  <2> QED
    BY <2>1, ConstantsAssumption DEF Proposal
<1>3. ASSUME NEW c \in ConflictIds, conflicts'[c] # conflicts[c] PROVE conflicts'[c].subject \in T
  <2>1. Present(conflicts, c) /\ conflicts[c].candidate = i
    BY <1>1, <1>3 DEF AfterRejection, IsOpen
  <2>2. conflicts[c].subject = items[i].prop.subject
    BY <2>1, ZeroIsNoItem DEF ConflictsFit, ConflictFits
  <2> QED
    BY <2>1, <2>2, RowsKept
<1>4. OnlyAbout(T)
  BY <1>1, <1>3 DEF OnlyAbout, TypeOK
<1> HIDE DEF T
<1> QED
  BY <1>1, <1>2, <1>4 DEF Reindexed

LEMMA ResolveIsIndexed ==
    ASSUME TypeOK, TypeOK', Transaction, ConflictsFit, NEW w \in Workers, NEW c \in ConflictIds,
           ResolveForCandidate(w, c) \/ ResolveForExisting(w, c) \/ ResolveForHa(w, c)
    PROVE  Reindexed
<1> DEFINE T == {conflicts[c].subject}
           i == conflicts[c].candidate
           j == conflicts[c].existing
<1>1. /\ Present(conflicts, c) /\ conflicts[c] \in ConflictRow /\ conflicts' = Closed(c)
      /\ catalog' = catalog /\ Rebuild(T, catalog)
  BY PresentConflict DEF ResolveForCandidate, ResolveForExisting, ResolveForHa, CanResolve, IsOpen,
     Commit, ResolveDone
<1>2. T \in SUBSET Subjects
  BY <1>1 DEF ConflictRow
<1>3. \A k \in ItemIds : items'[k] = items[k] \/ k = i \/ k = j
  BY DEF ResolveForCandidate, ResolveForExisting, ResolveForHa, Commit
<1>4. ConflictFits(c)
  BY <1>1 DEF ConflictsFit
<1>5. \A k \in ItemIds : k = i \/ k = j => Present(items, k) /\ items[k].prop.subject \in T
  BY <1>4, ZeroIsNoItem DEF ConflictFits
<1>6. \A d \in ConflictIds : conflicts'[d] # conflicts[d] => d = c /\ conflicts'[d].subject \in T
  BY <1>1, RowsKept DEF Closed, TypeOK
<1>7. OnlyAbout(T)
  BY <1>3, <1>5, <1>6 DEF OnlyAbout
<1> HIDE DEF T
<1> QED
  BY <1>1, <1>2, <1>7 DEF Reindexed

-----------------------------------------------------------------------------
(* Calm is inductive.                                                      *)

LEMMA StoreStep ==
    ASSUME TypeOK, TypeOK', [Next]_vars, EvidenceInv, Calm, RollbackCount = 0
    PROVE  \/ UNCHANGED store
           \/ \E n \in 1..MaxEvents : Rollback(n)
           \/ \E cat \in Catalogs : Replace(cat)
           \/ Transaction /\ CalmEdit /\ Reindexed
<1>0. ConflictsFit
  BY DEF Calm
<1>1. CASE \E w \in Workers :
             \/ \E p \in Proposals : BeginPropose(w, p)
             \/ \E i \in ItemIds, m \in Methods : BeginVerify(w, i, m)
             \/ \E i \in ItemIds : BeginHaVerify(w, i)
             \/ HaChecks(w)
             \/ \E i \in ItemIds : BeginApply(w, i)
             \/ \E c \in ConflictIds, winner \in Winners : BeginResolve(w, c, winner)
             \/ Abandon(w)
  BY <1>1 DEF BeginPropose, BeginVerify, BeginHaVerify, HaChecks, BeginApply, BeginResolve,
     Abandon
<1>2. CASE \E cat \in Catalogs : Sync(cat) \/ \E w \in Workers : HaRefresh(w, cat)
  BY <1>2 DEF Sync, HaRefresh
<1>3. CASE \E w \in Workers : CommitPropose(w) \/ CommitVerify(w)
  BY <1>3, ProposeShape, VerifyShape, LifeIsCalm, LifeIsIndexed
<1>4. CASE \E w \in Workers : PutCandidateInConflict(w)
  BY <1>4, PutCandidateInConflictShape, ContestIsCalm, ContestIsIndexed
<1>5. CASE \E i \in ItemIds, x \in CallerEvidence : AddEvidence(i, x[1], x[2])
  BY <1>5, AddEvidenceShape, LifeIsCalm, LifeIsIndexed
<1>6. CASE \E w \in Workers, i, j \in ItemIds :
             \/ ApplyToFreeSlot(w, i) \/ ApplyDuplicate(w, i, j)
             \/ ApplyOverLower(w, i, j) \/ ApplyIntoConflict(w, i, j)
  BY <1>0, <1>6, ApplyShape, ApplyIsCalm, ApplyIsIndexed
<1>7. CASE \E i \in ItemIds : Reject(i)
  BY <1>0, <1>7, RejectShape, RejectIsCalm, RejectIsIndexed
<1>8. CASE \E w \in Workers, c \in ConflictIds :
             ResolveForCandidate(w, c) \/ ResolveForExisting(w, c) \/ ResolveForHa(w, c)
  BY <1>0, <1>8, ResolveShape, ResolveIsCalm, ResolveIsIndexed
<1>9. CASE UNCHANGED vars
  BY <1>9 DEF vars, store
<1> QED
  BY <1>1, <1>2, <1>3, <1>4, <1>5, <1>6, <1>7, <1>8, <1>9 DEF Next

(* A process begins a resolution only as its conflict allows.              *)
LEMMA ResolutionsBegin ==
    ASSUME TypeOK, [Next]_vars, NEW v \in Workers
    PROVE  \/ stage'[v] = stage[v]
           \/ stage'[v].op # "resolve"
           \/ \E c \in ConflictIds, winner \in Winners :
                /\ BeginResolve(v, c, winner)
                /\ stage'[v] = [op |-> "resolve", conflict |-> c, winner |-> winner]
<1>1. ASSUME NEW w \in Workers, NEW st, MoveTo(w, st)
      PROVE  stage'[v] = stage[v] \/ (v = w /\ stage'[v] = st)
  BY <1>1 DEF MoveTo, TypeOK
<1>2. ASSUME NEW w \in Workers, NEW st, MoveTo(w, st), st.op # "resolve"
      PROVE  stage'[v] = stage[v] \/ stage'[v].op # "resolve"
  BY <1>1, <1>2
<1>3. Idle.op # "resolve"
  BY DEF Idle
<1>4. ASSUME NEW w \in Workers, NEW i \in ItemIds, NEW m \in Methods, Checks(w, i, m)
      PROVE  stage'[v] = stage[v] \/ stage'[v].op # "resolve"
  <2>1. \E st : MoveTo(w, st) /\ st.op # "resolve"
    <3>1. /\ [op |-> "verify", item |-> i, method |-> m].op # "resolve"
          /\ \A r : [op |-> "contest", item |-> i, from |-> "pending", reason |-> r].op # "resolve"
      OBVIOUS
    <3> QED
      BY <1>4, <3>1 DEF Checks
  <2> QED
    BY <1>2, <2>1
<1>5. CASE \E w \in Workers :
             \/ \E p \in Proposals : BeginPropose(w, p)
             \/ \E i \in ItemIds : BeginHaVerify(w, i)
             \/ \E i \in ItemIds : BeginApply(w, i)
             \/ \E cat \in Catalogs : HaRefresh(w, cat)
  <2>1. PICK w \in Workers :
             \/ \E p \in Proposals : BeginPropose(w, p)
             \/ \E i \in ItemIds : BeginHaVerify(w, i)
             \/ \E i \in ItemIds : BeginApply(w, i)
             \/ \E cat \in Catalogs : HaRefresh(w, cat)
    BY <1>5
  <2>2. \A i, p, r : /\ [op |-> "propose", prop |-> p].op # "resolve"
                     /\ [op |-> "refresh", item |-> i].op # "resolve"
                     /\ [op |-> "refreshed", item |-> i].op # "resolve"
                     /\ [op |-> "apply", item |-> i].op # "resolve"
                     /\ [op |-> "contest", item |-> i, from |-> "verified", reason |-> r].op # "resolve"
    OBVIOUS
  <2>3. \E st : MoveTo(w, st) /\ st.op # "resolve"
    BY <2>1, <2>2 DEF BeginPropose, BeginHaVerify, BeginApply, HaRefresh
  <2> QED
    BY <1>2, <2>3
<1>6. CASE \E w \in Workers :
             (\E i \in ItemIds, m \in Methods : BeginVerify(w, i, m)) \/ HaChecks(w)
  <2>1. PICK w \in Workers :
          (\E i \in ItemIds, m \in Methods : BeginVerify(w, i, m)) \/ HaChecks(w)
    BY <1>6
  <2>2. HaChecks(w) => stage[w].item \in ItemIds
    BY StageFields DEF HaChecks, TypeOK
  <2> QED
    BY <1>4, <2>1, <2>2 DEF BeginVerify, HaChecks, Methods
<1>7. CASE \E w \in Workers, c \in ConflictIds, winner \in Winners : BeginResolve(w, c, winner)
  <2>1. PICK w \in Workers, c \in ConflictIds, winner \in Winners : BeginResolve(w, c, winner)
    BY <1>7
  <2>2. MoveTo(w, [op |-> "resolve", conflict |-> c, winner |-> winner])
    BY <2>1 DEF BeginResolve
  <2> QED
    BY <1>1, <2>1, <2>2
<1>8. CASE \E w \in Workers :
             \/ CommitPropose(w) \/ CommitVerify(w) \/ PutCandidateInConflict(w) \/ Abandon(w)
             \/ \E i, j \in ItemIds : \/ ApplyToFreeSlot(w, i) \/ ApplyDuplicate(w, i, j)
                                      \/ ApplyOverLower(w, i, j) \/ ApplyIntoConflict(w, i, j)
             \/ \E c \in ConflictIds :
                  ResolveForCandidate(w, c) \/ ResolveForExisting(w, c) \/ ResolveForHa(w, c)
  <2>1. ASSUME NEW w \in Workers,
               \/ CommitPropose(w) \/ CommitVerify(w) \/ PutCandidateInConflict(w) \/ Abandon(w)
        PROVE  MoveTo(w, Idle)
    BY <2>1 DEF CommitPropose, CommitVerify, PutCandidateInConflict, Abandon
  <2>2. ASSUME NEW w \in Workers, NEW i \in ItemIds, NEW j \in ItemIds,
               \/ ApplyToFreeSlot(w, i) \/ ApplyDuplicate(w, i, j)
               \/ ApplyOverLower(w, i, j) \/ ApplyIntoConflict(w, i, j)
        PROVE  MoveTo(w, Idle)
    BY <2>2 DEF ApplyToFreeSlot, ApplyDuplicate, ApplyOverLower, ApplyIntoConflict, ApplyDone
  <2>3. ASSUME NEW w \in Workers, NEW c \in ConflictIds,
               ResolveForCandidate(w, c) \/ ResolveForExisting(w, c) \/ ResolveForHa(w, c)
        PROVE  MoveTo(w, Idle)
    BY <2>3 DEF ResolveForCandidate, ResolveForExisting, ResolveForHa, ResolveDone
  <2>4. \E w \in Workers : MoveTo(w, Idle)
    BY <1>8, <2>1, <2>2, <2>3
  <2> QED
    BY <1>2, <1>3, <2>4
<1>9. CASE \/ \E i \in ItemIds, x \in CallerEvidence : AddEvidence(i, x[1], x[2])
           \/ \E cat \in Catalogs : Sync(cat)
           \/ \E i \in ItemIds : Reject(i)
           \/ \E n \in 1..MaxEvents : Rollback(n)
           \/ UNCHANGED vars
  BY <1>9 DEF AddEvidence, Sync, Reject, Rollback, vars
<1> QED
  BY <1>5, <1>6, <1>7, <1>8, <1>9 DEF Next

LEMMA StagedKept ==
    ASSUME TypeOK, TypeOK', [Next]_vars, StagedMayWin, Transaction \/ conflicts' = conflicts
    PROVE  StagedMayWin'
<1>1. ASSUME NEW c \in ConflictIds, Present(conflicts, c), NEW winner, MayWin(c, winner)
      PROVE  Present(conflicts', c) /\ MayWin(c, winner)'
  <2>1. /\ Present(conflicts', c) /\ conflicts'[c].candidate = conflicts[c].candidate
        /\ conflicts'[c].existing = conflicts[c].existing /\ conflicts'[c].reason = conflicts[c].reason
    BY <1>1, RowsKept
  <2> QED
    BY <1>1, <2>1 DEF MayWin
<1> SUFFICES ASSUME NEW w \in Workers, stage'[w].op = "resolve"
             PROVE  Present(conflicts', stage'[w].conflict)
                    /\ MayWin(stage[w].conflict, stage[w].winner)'
  BY DEF StagedMayWin
<1>2. CASE stage'[w] = stage[w]
  <2>1. stage[w].conflict \in ConflictIds
    BY <1>2, StageFields DEF TypeOK
  <2>2. Present(conflicts, stage[w].conflict) /\ MayWin(stage[w].conflict, stage[w].winner)
    BY <1>2 DEF StagedMayWin
  <2>3. PICK c \in ConflictIds : c = stage[w].conflict
    BY <2>1
  <2>4. PICK winner : winner = stage[w].winner
    OBVIOUS
  <2>5. Present(conflicts', c) /\ MayWin(c, winner)'
    BY <1>1, <2>2, <2>3, <2>4
  <2> QED
    BY <1>2, <2>3, <2>4, <2>5
<1>3. CASE \E c \in ConflictIds, winner \in Winners :
             /\ BeginResolve(w, c, winner)
             /\ stage'[w] = [op |-> "resolve", conflict |-> c, winner |-> winner]
  <2>1. PICK c \in ConflictIds, winner \in Winners :
             /\ BeginResolve(w, c, winner)
             /\ stage'[w] = [op |-> "resolve", conflict |-> c, winner |-> winner]
    BY <1>3
  <2>2. stage'[w].conflict = c /\ stage'[w].winner = winner
    BY <2>1
  <2>3. Present(conflicts, c) /\ MayWin(c, winner)
    BY <2>1 DEF BeginResolve, IsOpen
  <2>4. Present(conflicts', c) /\ MayWin(c, winner)'
    BY <1>1, <2>3
  <2> QED
    BY <2>2, <2>4
<1> QED
  BY <1>2, <1>3, ResolutionsBegin

LEMMA CalmInit == Init => Calm
<1> SUFFICES ASSUME Init PROVE Calm
  OBVIOUS
<1>1. /\ \A i \in ItemIds : ~Present(items, i)
      /\ \A c \in ConflictIds : ~Present(conflicts, c)
      /\ \A w \in Workers : stage[w].op # "resolve"
      /\ \A s \in Subjects : search[s] = {}
  BY DEF Init, Present, Idle
<1>2. \A s \in Subjects : Indexable(items, conflicts, catalog.active, s) = {}
  BY <1>1 DEF Indexable
<1> QED
  BY <1>1, <1>2 DEF Calm, ConflictsFit, StagedMayWin, OneOpenPerCandidate, NoneRestored,
     InForceVerified, OpenConflictHoldsCandidate, OneAppliedPerSlot, NoDuplicateComplaint,
     IndexIsCurrent, IsRestored, IsOpen, HasStatus

LEMMA CalmStep == TypeOK /\ EvidenceInv /\ Calm /\ [Next]_vars => Calm'
<1> SUFFICES ASSUME TypeOK, EvidenceInv, Calm, [Next]_vars, RollbackCount' = 0 PROVE Calm'
  BY DEF Calm, OpenConflictHoldsCandidate, OneAppliedPerSlot, NoDuplicateComplaint, IndexIsCurrent
<1>1. TypeOK'
  BY NextType
<1>2. RollbackCount = 0 /\ \A n \in 1..MaxEvents : ~Rollback(n)
  <2>1. \A n \in 1..MaxEvents : ~Rollback(n)
    BY <1>1, RollbackCounts
  <2>2. log' = log \/ Transaction
    BY <1>1, <2>1, StepShape
  <2> QED
    BY <1>1, <2>1, <2>2, RollbackCounts
<1>3. /\ ConflictsFit /\ StagedMayWin /\ OneOpenPerCandidate /\ NoneRestored /\ InForceVerified
      /\ OpenConflictHoldsCandidate /\ OneAppliedPerSlot /\ NoDuplicateComplaint
      /\ \A s \in Subjects : Indexed(s)
  BY <1>2 DEF Calm, IndexIsCurrent, Indexed
<1>4. UNCHANGED <<items, evidence, conflicts, log>> \/ (Transaction /\ CalmEdit)
  BY <1>1, <1>2, StoreStep, ReplaceShape, ReplaceIsCalm DEF store
<1>5. StagedMayWin'
  BY <1>1, <1>3, <1>4, StagedKept
<1>6. /\ ConflictsFit' /\ OneOpenPerCandidate' /\ InForceVerified'
      /\ OpenConflictHoldsCandidate' /\ OneAppliedPerSlot' /\ NoDuplicateComplaint'
  <2>1. CASE UNCHANGED <<items, evidence, conflicts, log>>
    <3>1. ConflictsFit' /\ OneOpenPerCandidate' /\ InForceVerified'
      BY <1>3, <2>1 DEF ConflictsFit, ConflictFits, OneOpenPerCandidate, InForceVerified
    <3>2. OpenConflictHoldsCandidate' /\ OneAppliedPerSlot' /\ NoDuplicateComplaint'
      BY <1>2, <1>3, <2>1 DEF OpenConflictHoldsCandidate, OneAppliedPerSlot, NoDuplicateComplaint,
         HasStatus
    <3> QED
      BY <3>1, <3>2
  <2>2. CASE Transaction /\ CalmEdit
    BY <1>1, <1>2, <1>3, <2>2, FitsKept, HeldKept, SlotsKept
  <2> QED
    BY <1>4, <2>1, <2>2
<1>7. NoneRestored' /\ \A s \in Subjects : Indexed(s)'
  <2>1. CASE UNCHANGED store
    BY <1>3, <2>1 DEF store, NoneRestored, IsRestored, HasStatus, Indexed, WithoutStructureComplaints
  <2>2. CASE \E cat \in Catalogs : Replace(cat)
    BY <1>1, <1>3, <2>2, ReplaceRestores, ReplaceKeepsIndex
  <2>3. CASE Transaction /\ CalmEdit /\ Reindexed
    <3>1. PICK T \in SUBSET Subjects : OnlyAbout(T) /\ Rebuild(T, catalog) /\ catalog' = catalog
      BY <2>3 DEF Reindexed
    <3> QED
      BY <1>1, <1>3, <2>3, <3>1, NoneRestoredKept, IndexKept
  <2> QED
    BY <1>1, <1>2, <2>1, <2>2, <2>3, StoreStep
<1>8. IndexIsCurrent'
  BY <1>7 DEF IndexIsCurrent, Indexed
<1> QED
  BY <1>5, <1>6, <1>7, <1>8 DEF Calm

(* The three inductive facts, for every reachable state.                   *)
LEMMA AlwaysCalm == Spec => [](TypeOK /\ EvidenceInv /\ Calm)
<1>1. Init => TypeOK /\ EvidenceInv /\ Calm
  BY InitType, EvidenceInit, CalmInit
<1>2. (TypeOK /\ EvidenceInv /\ Calm) /\ [Next]_vars => (TypeOK /\ EvidenceInv /\ Calm)'
  BY NextType, EvidenceStep, CalmStep
<1> QED
  BY <1>1, <1>2, PTL DEF Spec

(* What went through verification keeps the evidence its method demands,   *)
(* whatever is rolled back; and until something is, nothing is in force    *)
(* that did not go through it.                                             *)
THEOREM AppliedRests == Spec => []AppliedRestsOnEvidence
<1>1. TypeOK /\ EvidenceInv /\ Calm => AppliedRestsOnEvidence
  BY DEF EvidenceInv, EvidenceFits, MethodFits, Calm, InForceVerified, AppliedRestsOnEvidence
<1> QED
  BY <1>1, AlwaysCalm, PTL

(* Until something is rolled back, a reserved relation has one applied     *)
(* memory, under whatever keys it was proposed.                            *)
THEOREM SlotHasOneApplied == Spec => []OneAppliedPerSlot
<1>1. Calm => OneAppliedPerSlot
  BY DEF Calm
<1> QED
  BY <1>1, AlwaysCalm, PTL

(* Until something is rolled back, the candidate of an open conflict is    *)
(* held in it.                                                             *)
THEOREM CandidateIsHeld == Spec => []OpenConflictHoldsCandidate
<1>1. Calm => OpenConflictHoldsCandidate
  BY DEF Calm
<1> QED
  BY <1>1, AlwaysCalm, PTL

(* Until something is rolled back, no complaint is open twice.             *)
THEOREM ComplaintsDiffer == Spec => []NoDuplicateComplaint
<1>1. Calm => NoDuplicateComplaint
  BY DEF Calm
<1> QED
  BY <1>1, AlwaysCalm, PTL

(* Until something is rolled back, the index serves every applied and      *)
(* uncontested memory and hides every other, but for a reserved relation   *)
(* whose absence a refresh without changes has found.                      *)
THEOREM IndexStaysCurrent == Spec => []IndexIsCurrent
<1>1. Calm => IndexIsCurrent
  BY DEF Calm
<1> QED
  BY <1>1, AlwaysCalm, PTL

(* Until something is rolled back, a conflict Home Assistant decides is    *)
(* never closed for anyone else by a resolution, however long it was       *)
(* staged.                                                                 *)
THEOREM HaDecidesItsConflicts == Spec => HaConflictOnlyForHa
<1> DEFINE Act == \A w \in Workers, c \in ConflictIds :
                    (/\ RollbackCount = 0
                     /\ stage[w].op = "resolve" /\ stage'[w] = Idle
                     /\ stage[w].conflict = c /\ stage[w].winner # "ha"
                     /\ IsOpen(conflicts, c) /\ ~IsOpen(conflicts', c))
                       => conflicts[c].reason \notin HaReasons
<1>1. TypeOK /\ EvidenceInv /\ Calm => Act
  BY StageFields DEF Calm, StagedMayWin, MayWin, TypeOK
<1>2. TypeOK /\ EvidenceInv /\ Calm => [Act]_vars
  BY <1>1
<1>3. Spec => [][Act]_vars
  <2> HIDE DEF Act
  <2> QED
    BY <1>2, AlwaysCalm, PTL
<1> QED
  BY <1>3 DEF HaConflictOnlyForHa

-----------------------------------------------------------------------------
(* What comes into force, and what leaves it                               *)

(* Outside resolutions and rollbacks only an application changes which     *)
(* memories are applied.                                                   *)
LEMMA OnlyApplicationsApply ==
    ASSUME TypeOK, TypeOK', [Next]_vars, ~IsRollbackStep, ~IsResolveStep
    PROVE  \/ \A i \in ItemIds : HasStatus(i, "applied")' <=> HasStatus(i, "applied")
           \/ \E w \in Workers, i, j \in ItemIds :
                \/ ApplyToFreeSlot(w, i) \/ ApplyDuplicate(w, i, j)
                \/ ApplyOverLower(w, i, j) \/ ApplyIntoConflict(w, i, j)
<1> DEFINE Same == \A i \in ItemIds : HasStatus(i, "applied")' <=> HasStatus(i, "applied")
<1>1. items' = items => Same
  BY DEF HasStatus
<1>2. CASE \/ UNCHANGED vars
           \/ \E w \in Workers :
                \/ \E p \in Proposals : BeginPropose(w, p)
                \/ \E i \in ItemIds, m \in Methods : BeginVerify(w, i, m)
                \/ \E i \in ItemIds : BeginHaVerify(w, i)
                \/ HaChecks(w)
                \/ \E i \in ItemIds : BeginApply(w, i)
                \/ \E c \in ConflictIds, winner \in Winners : BeginResolve(w, c, winner)
                \/ Abandon(w)
  BY <1>1, <1>2 DEF BeginPropose, BeginVerify, BeginHaVerify, HaChecks, BeginApply, BeginResolve,
     Abandon, store, vars
<1>3. CASE \E cat \in Catalogs : Sync(cat) \/ \E w \in Workers : HaRefresh(w, cat)
  BY <1>1, <1>3 DEF Sync, HaRefresh, Replace, Commit, store
<1>4. CASE \/ \E w \in Workers : CommitPropose(w)
           \/ \E i \in ItemIds, x \in CallerEvidence : AddEvidence(i, x[1], x[2])
           \/ \E w \in Workers : CommitVerify(w)
  BY <1>4, LifeEdits DEF HasStatus, Present
<1>5. CASE \E w \in Workers : PutCandidateInConflict(w)
  <2>1. PICK w \in Workers : PutCandidateInConflict(w)
    BY <1>5
  <2>2. PICK i \in ItemIds : i = stage[w].item
    BY <2>1, StageFields DEF TypeOK, PutCandidateInConflict
  <2>3. stage[w].from \in {"pending", "verified"} /\ HasStatus(i, stage[w].from)
        /\ items' = [items EXCEPT ![i].status = "conflict"]
    BY <2>1, <2>2, StageFields DEF TypeOK, PutCandidateInConflict, OpenConflict, Commit
  <2>4. items'[i].status = "conflict" /\ \A k \in ItemIds \ {i} : items'[k] = items[k]
    BY <2>3, PresentRow DEF TypeOK, HasStatus, ItemRow
  <2> QED
    BY <2>3, <2>4 DEF HasStatus, Present
<1>6. CASE \E i \in ItemIds : Reject(i)
  <2>1. PICK i \in ItemIds : Reject(i)
    BY <1>6
  <2>2. items' = [items EXCEPT ![i].status = "rejected"] /\ items[i] \in ItemRow
        /\ items[i].status \in {"pending", "verified", "conflict"}
    BY <2>1, PresentRow DEF Reject, Commit
  <2>3. items'[i].status = "rejected" /\ \A k \in ItemIds \ {i} : items'[k] = items[k]
    BY <2>2 DEF TypeOK, ItemRow
  <2> QED
    BY <2>2, <2>3 DEF HasStatus, Present
<1>7. \A w \in Workers, c \in ConflictIds :
        ~ResolveForCandidate(w, c) /\ ~ResolveForExisting(w, c) /\ ~ResolveForHa(w, c)
  <2> SUFFICES ASSUME NEW w \in Workers, NEW c \in ConflictIds,
                      ResolveForCandidate(w, c) \/ ResolveForExisting(w, c) \/ ResolveForHa(w, c)
               PROVE  FALSE
    OBVIOUS
  <2>1. MoveTo(w, Idle) /\ \E winner : stage[w] = [op |-> "resolve", conflict |-> c, winner |-> winner]
    BY DEF ResolveForCandidate, ResolveForExisting, ResolveForHa, ResolveDone, CanResolve
  <2>2. stage[w].op = "resolve" /\ stage'[w] = Idle
    BY <2>1 DEF MoveTo, TypeOK
  <2> QED
    BY <2>2 DEF IsResolveStep
<1>8. \A n \in 1..MaxEvents : ~Rollback(n)
  <2> SUFFICES ASSUME NEW n \in 1..MaxEvents, Rollback(n) PROVE FALSE
    OBVIOUS
  <2>1. RollbackCount \in Nat /\ RollbackCount' = RollbackCount + 1 /\ Len(log') > Len(log)
    BY RollbackCounts
  <2>2. RollbackCount' > RollbackCount
    BY <2>1
  <2> QED
    BY <2>1, <2>2 DEF IsRollbackStep
<1> QED
  BY <1>2, <1>3, <1>4, <1>5, <1>6, <1>7, <1>8 DEF Next

(* An application brings its candidate into force, after it has looked at  *)
(* the catalog again, or takes the memory it outranks out of force.        *)
LEMMA ApplicationEffect ==
    ASSUME TypeOK, TypeOK', NEW w \in Workers, NEW i \in ItemIds, NEW j \in ItemIds,
           \/ ApplyToFreeSlot(w, i) \/ ApplyDuplicate(w, i, j)
           \/ ApplyOverLower(w, i, j) \/ ApplyIntoConflict(w, i, j)
    PROVE  /\ CanApply(w, i)
           /\ \A k \in ItemIds : BecomesApplied(k) => k = i
           /\ \A k \in ItemIds : (HasStatus(k, "applied") /\ ~HasStatus(k, "applied")') =>
                ApplyOverLower(w, i, k) /\ BecomesApplied(i)
<1>1. CanApply(w, i) /\ HasStatus(i, "verified") /\ items[i] \in ItemRow
  BY CanApplyFacts DEF ApplyToFreeSlot, ApplyDuplicate, ApplyOverLower, ApplyIntoConflict, CanApply
<1>2. CASE ~ApplyOverLower(w, i, j)
  <2>1. \A k \in ItemIds \ {i} : items'[k] = items[k]
    BY <1>2 DEF ApplyToFreeSlot, ApplyDuplicate, ApplyIntoConflict, OpenConflict, Commit, TypeOK
  <2> QED
    BY <1>1, <2>1 DEF BecomesApplied, HasStatus, Present
<1>3. CASE ApplyOverLower(w, i, j)
  <2>1. /\ items' = [items EXCEPT ![i].status = "applied", ![i].supersedes = j,
                                  ![j].status = "superseded"]
        /\ IsCurrentInSlot(i, j)
    BY <1>3 DEF ApplyOverLower, Commit
  <2>2. j # i /\ Present(items, j) /\ items[j] \in ItemRow
    BY <2>1, InSlotFacts
  <2>3. /\ items'[i].status = "applied" /\ items'[i] \in ItemRow
        /\ items'[j].status = "superseded"
        /\ \A k \in ItemIds \ {i, j} : items'[k] = items[k]
    BY <1>1, <2>1, <2>2 DEF TypeOK, ItemRow, Statuses
  <2>4. BecomesApplied(i)
    BY <1>1, <2>3, ConstantsAssumption DEF BecomesApplied, HasStatus, Present
  <2> QED
    BY <1>1, <1>3, <2>3, <2>4 DEF BecomesApplied, HasStatus, Present
<1> QED
  BY <1>2, <1>3

(* Nothing comes into force without its subject and its target, unless a   *)
(* user resolved a conflict for it or rolled an event back.                *)
THEOREM AppliedIsBacked == Spec => ApplyIsBacked
<1> DEFINE Act == \A i \in ItemIds :
                    (BecomesApplied(i) /\ ~IsRollbackStep /\ ~IsResolveStep)
                      => SubjectExists(items[i].prop.subject) /\ Backed(items[i].prop)
<1>1. TypeOK /\ [Next]_vars => Act
  <2> SUFFICES ASSUME TypeOK, [Next]_vars, NEW i \in ItemIds, BecomesApplied(i),
                      ~IsRollbackStep, ~IsResolveStep
               PROVE  SubjectExists(items[i].prop.subject) /\ Backed(items[i].prop)
    OBVIOUS
  <2>1. TypeOK'
    BY NextType
  <2>2. ~\A k \in ItemIds : HasStatus(k, "applied")' <=> HasStatus(k, "applied")
    BY DEF BecomesApplied
  <2>3. \E w \in Workers, k, j \in ItemIds :
          \/ ApplyToFreeSlot(w, k) \/ ApplyDuplicate(w, k, j)
          \/ ApplyOverLower(w, k, j) \/ ApplyIntoConflict(w, k, j)
    BY <2>1, <2>2, OnlyApplicationsApply
  <2>4. \E w \in Workers : CanApply(w, i)
    BY <2>1, <2>3, ApplicationEffect
  <2> QED
    BY <2>4 DEF CanApply
<1>2. TypeOK /\ [Next]_vars => [Act]_vars
  BY <1>1
<1>3. Spec => [][Act]_vars
  <2> HIDE DEF Act
  <2> QED
    BY <1>2, TypeCorrect, PTL DEF Spec
<1> QED
  BY <1>3 DEF ApplyIsBacked

(* Only the user, or a reserved relation Home Assistant confirms, takes a  *)
(* memory the user stated out of force: no other authority reaches it.     *)
THEOREM UsersWordStands == Spec => UserWordStands
<1> DEFINE Act == \A i \in ItemIds :
                    (/\ HasStatus(i, "applied") /\ ~(HasStatus(i, "applied"))'
                     /\ items[i].prop.source = "user_explicit"
                     /\ ~IsRollbackStep /\ ~IsResolveStep)
                       => \E j \in ItemIds : /\ BecomesApplied(j)
                                             /\ items[j].method = "ha_api"
                                             /\ items[j].prop.value \in Structural
<1>1. TypeOK /\ [Next]_vars => Act
  <2> SUFFICES ASSUME TypeOK, [Next]_vars, NEW i \in ItemIds, HasStatus(i, "applied"),
                      ~HasStatus(i, "applied")', items[i].prop.source = "user_explicit",
                      ~IsRollbackStep, ~IsResolveStep
               PROVE  \E j \in ItemIds : /\ BecomesApplied(j)
                                         /\ items[j].method = "ha_api"
                                         /\ items[j].prop.value \in Structural
    OBVIOUS
  <2>1. TypeOK'
    BY NextType
  <2>2. \E w \in Workers, k, j \in ItemIds :
          \/ ApplyToFreeSlot(w, k) \/ ApplyDuplicate(w, k, j)
          \/ ApplyOverLower(w, k, j) \/ ApplyIntoConflict(w, k, j)
    BY <2>1, OnlyApplicationsApply
  <2>3. PICK w \in Workers, k \in ItemIds : ApplyOverLower(w, k, i) /\ BecomesApplied(k)
    BY <2>1, <2>2, ApplicationEffect
  <2>4. EffectiveAuthority(items[k]) > EffectiveAuthority(items[i]) /\ HasStatus(k, "verified")
    BY <2>3 DEF ApplyOverLower, Outranks, CanApply
  <2>5. EffectiveAuthority(items[i]) \in {300, 1000}
    BY DEF EffectiveAuthority, Authority, StructuralAuthority
  <2>6. items[k].prop.source \in Sources
    <3>1. items[k].prop \in Proposals
      BY <2>4, PresentRow DEF HasStatus, ItemRow
    <3> QED
      BY <3>1, ConstantsAssumption DEF Proposal
  <2>7. Authority[items[k].prop.source] \in {100, 150, 250, 300}
    BY <2>6 DEF Authority, Sources
  <2>8. EffectiveAuthority(items[k]) # Authority[items[k].prop.source]
    BY <2>4, <2>5, <2>7
  <2> QED
    BY <2>3, <2>8 DEF EffectiveAuthority
<1>2. TypeOK /\ [Next]_vars => [Act]_vars
  BY <1>1
<1>3. Spec => [][Act]_vars
  <2> HIDE DEF Act
  <2> QED
    BY <1>2, TypeCorrect, PTL DEF Spec
<1> QED
  BY <1>3 DEF UserWordStands

=============================================================================
