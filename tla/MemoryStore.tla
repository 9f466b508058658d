------------------------------ MODULE MemoryStore ------------------------------
(***************************************************************************)
(* The verified-memory store of ha-memory-core.mjs: memory candidates that *)
(* are proposed, verified and applied, the conflicts between them and Home *)
(* Assistant, and the audit log that lets a user roll one event back.      *)
(*                                                                         *)
(* The SQLite database is shared by the ha-memory CLI, the MCP server (one *)
(* CLI process per call) and the refresh daemon.  An operation first reads *)
(* and checks outside a transaction, then commits in one BEGIN IMMEDIATE   *)
(* transaction; `stage' holds what a process has read in between.          *)
(* Timestamps are abstracted: outside a rollback no row returns to earlier *)
(* contents, so two images of a row are equal here only if they are there. *)
(***************************************************************************)
EXTENDS Naturals, Sequences, FiniteSets

CONSTANTS
    Subjects,     \* subjects memory is about; one active in every catalog is home:household
    Keys,         \* (memory_type, memory_key) pairs
    Values,       \* normalised memory values
    Linked,       \* the values of type relationship, which name a target subject
    Structural,   \* the Linked values whose relation is reserved to Home Assistant
    TargetOf,     \* the subject a Linked value names
    SlotOf,       \* the slot of a Structural value: its relation, and target for references
    Proposals,    \* what callers may propose
    Labels,       \* evidence references
    Catalogs,     \* the snapshots Home Assistant may report
    Attested,     \* <<subject, value>> facts proved by verified change records
    CallerEvidence, \* the <<type, reference>> pairs callers add as evidence
    Workers,      \* processes that can be between their reads and their transaction
    Absent,       \* no row, and no image of a row
    MaxItems, MaxConflicts, MaxEvents, MaxRollbacks   \* bounds on the tables

ItemIds == 1..MaxItems
ConflictIds == 1..MaxConflicts

Sources == {"inference", "observation", "antigravity_change", "user_explicit"}
Methods == {"user_explicit", "repeated_observation", "ha_api", "change_verification"}
EvidenceTypes == {"user_explicit", "observation", "ha_api", "change_verification", "manual_review"}
Statuses == {"pending", "verified", "applied", "rejected", "conflict", "superseded"}
CatalogReasons == {"ha_subject_missing", "ha_canonical_relationship_changed"}
HaReasons == CatalogReasons \union {"ha_canonical_mismatch"}
Reasons == HaReasons \union {"higher_authority_candidate", "existing_memory_has_higher_authority",
                             "same_authority_disagreement"}
Winners == {"candidate", "existing", "ha"}

Proposal == [subject : Subjects, key : Keys, value : Values, source : Sources, ref : Labels]
Catalog == [active : SUBSET Subjects, relations : SUBSET (Subjects \X Structural)]
ItemRow == [prop : Proposals, status : Statuses, method : Methods \union {"none"},
            supersedes : ItemIds \union {0}]
ConflictRow == [subject : Subjects, existing : ItemIds \union {0}, candidate : ItemIds \union {0},
                reason : Reasons, status : {"open", "resolved"}]
Evidence == [item : ItemIds, type : EvidenceTypes, label : Labels \union {"verification"}]

(* The before and after images an event keeps of the rows it changed.      *)
Image(Row) == [before : Row \union {Absent}, after : Row \union {Absent}]
Images(Ids, Row) == [Ids -> Image(Row) \union {Absent}]
Event == [reversible : BOOLEAN, undone : Nat, items : Images(ItemIds, ItemRow),
          conflicts : Images(ConflictIds, ConflictRow), evidence : SUBSET Evidence]

Idle == [op |-> "idle"]
Stage ==
    {Idle}
    \union [op : {"propose"}, prop : Proposals]
    \union [op : {"refresh", "refreshed", "apply"}, item : ItemIds]
    \union [op : {"verify"}, item : ItemIds, method : Methods]
    \union [op : {"contest"}, item : ItemIds, from : {"pending", "verified"},
             reason : {"ha_subject_missing", "ha_canonical_mismatch"}]
    \union [op : {"resolve"}, conflict : ConflictIds, winner : Winners]

ASSUME ConstantsAssumption ==
    /\ Linked \subseteq Values /\ Structural \subseteq Linked
    /\ TargetOf \in [Linked -> Subjects]
    /\ DOMAIN SlotOf = Structural
    /\ Proposals \subseteq Proposal
    /\ Catalogs \subseteq Catalog
    /\ Attested \subseteq Subjects \X Linked
    /\ CallerEvidence \subseteq EvidenceTypes \X Labels
    /\ MaxItems \in Nat /\ MaxConflicts \in Nat /\ MaxEvents \in Nat /\ MaxRollbacks \in Nat
    /\ Absent \notin ItemRow /\ Absent \notin ConflictRow
    /\ Absent \notin Image(ItemRow) /\ Absent \notin Image(ConflictRow)

VARIABLES
    items,       \* memory_items
    evidence,    \* memory_evidence
    conflicts,   \* conflicts
    log,         \* audit_events with their audit_changes
    catalog,     \* the active catalog_objects and catalog_relations
    search,      \* the applied memories in each subject's search_fts row
    stage        \* what each process holds between its reads and its transaction

vars == <<items, evidence, conflicts, log, catalog, search, stage>>
store == <<items, evidence, conflicts, log, catalog, search>>

-----------------------------------------------------------------------------
(* Readings of the database                                                *)

Present(table, k) == table[k] # Absent
HasStatus(i, s) == Present(items, i) /\ items[i].status = s
IsOpen(table, c) == Present(table, c) /\ table[c].status = "open"

(* A table's next INTEGER PRIMARY KEY is one above its largest: the id of  *)
(* a deleted last row is given out again.                                  *)
IsNextId(table, k) ==
    /\ \A j \in DOMAIN table : j >= k => ~Present(table, j)
    /\ k > 1 => Present(table, k - 1)

SubjectExists(s) == s \in catalog.active

(* candidateRelationshipMatchesCatalog *)
Backed(p) ==
    p.value \in Linked =>
        /\ SubjectExists(TargetOf[p.value])
        /\ p.value \in Structural => <<p.subject, p.value>> \in catalog.relations

Authority ==
    [inference |-> 100, observation |-> 150, antigravity_change |-> 250, user_explicit |-> 300]
StructuralAuthority == 1000
EffectiveAuthority(row) ==
    IF row.prop.value \in Structural /\ row.method = "ha_api" /\ Backed(row.prop)
    THEN StructuralAuthority
    ELSE Authority[row.prop.source]

(* currentAppliedMemoryInSlot: a reserved relationship occupies its        *)
(* relation's slot under whatever key, any other value its type and key.   *)
SharesSlot(p, q) ==
    /\ p.subject = q.subject
    /\ IF p.value \in Structural
       THEN q.value \in Structural /\ SlotOf[p.value] = SlotOf[q.value]
       ELSE p.key = q.key
InSlotByKey(i) ==          \* mutant: reserved relations looked up by key
    {j \in ItemIds \ {i} : /\ HasStatus(j, "applied")
                           /\ items[j].prop.subject = items[i].prop.subject
                           /\ items[j].prop.key = items[i].prop.key}
InSlot(i) == {j \in ItemIds \ {i} : HasStatus(j, "applied")
                                    /\ SharesSlot(items[i].prop, items[j].prop)}
IsCurrentInSlot(i, j) == j \in InSlot(i) /\ \A k \in InSlot(i) : k <= j

(* The unique index memory_applied_slot, which aborts a transaction.       *)
UniqueAppliedKeys(its) ==
    \A i, j \in ItemIds :
        (/\ Present(its, i) /\ its[i].status = "applied"
         /\ Present(its, j) /\ its[j].status = "applied"
         /\ its[i].prop.subject = its[j].prop.subject
         /\ its[i].prop.key = its[j].prop.key) => i = j

Contested(cfs, i) == \E c \in ConflictIds : IsOpen(cfs, c) /\ i \in {cfs[c].existing, cfs[c].candidate}

(* rebuildSearchSubject: the memories it would index for s.                *)
Indexable(its, cfs, active, s) ==
    {i \in ItemIds : /\ s \in active
                     /\ Present(its, i) /\ its[i].prop.subject = s /\ its[i].status = "applied"
                     /\ ~Contested(cfs, i)}
Rebuild(S, cat) ==
    search' = [s \in Subjects |-> IF s \in S THEN Indexable(items', conflicts', cat.active, s)
                                  ELSE search[s]]

Diff(old, new) ==
    [k \in DOMAIN old |->
        IF old[k] = new[k] THEN Absent ELSE [before |-> old[k], after |-> new[k]]]
Changed(images) == {k \in DOMAIN images : images[k] # Absent}

(* One audited transaction: the rows change and one event records how.     *)
Commit(its, evs, cfs, rev) ==
    /\ Len(log) < MaxEvents
    /\ items' = its /\ evidence' = evs /\ conflicts' = cfs
    /\ log' = Append(log, [reversible |-> rev, undone |-> 0, items |-> Diff(items, its),
                           conflicts |-> Diff(conflicts, cfs), evidence |-> evs \ evidence])

(* openConflict within an audited transaction: a conflict about the same   *)
(* pair that is still open for the same reason is used again.              *)
OpenConflict(its, j, i, reason) ==
    LET row == [subject |-> items[i].prop.subject, existing |-> j, candidate |-> i,
                reason |-> reason, status |-> "open"] IN
    \E k \in ConflictIds :
        /\ IsNextId(conflicts, k)
        /\ Commit(its, evidence,
                  IF \E c \in ConflictIds : conflicts[c] = row THEN conflicts
                  ELSE [conflicts EXCEPT ![k] = row],
                  TRUE)

MoveTo(w, st) == stage' = [stage EXCEPT ![w] = st]

-----------------------------------------------------------------------------
Init ==
    /\ items = [i \in ItemIds |-> Absent]
    /\ evidence = {}
    /\ conflicts = [c \in ConflictIds |-> Absent]
    /\ log = <<>>
    /\ catalog \in Catalogs
    /\ search = [s \in Subjects |-> {}]
    /\ stage = [w \in Workers |-> Idle]

-----------------------------------------------------------------------------
(* Proposing and collecting evidence                                       *)

(* A live candidate with the same fact and at least the proposed authority *)
(* is returned instead of a new one.                                       *)
IsKnown(p) ==
    \E i \in ItemIds :
        /\ Present(items, i)
        /\ items[i].prop.subject = p.subject /\ items[i].prop.key = p.key
        /\ items[i].prop.value = p.value
        /\ Authority[items[i].prop.source] >= Authority[p.source]
        /\ items[i].status \in {"pending", "verified", "applied", "conflict"}

InitialEvidence(i, p) ==
    [item |-> i, label |-> p.ref,
     type |-> IF p.source \in {"user_explicit", "observation"} THEN p.source ELSE "manual_review"]

BeginPropose(w, p) ==
    /\ stage[w] = Idle
    /\ SubjectExists(p.subject)
    /\ ~IsKnown(p)
    /\ MoveTo(w, [op |-> "propose", prop |-> p])
    /\ UNCHANGED store

(* The transaction looks for a duplicate again, but not for the subject.   *)
CommitPropose(w) ==
    /\ stage[w].op = "propose"
    /\ LET p == stage[w].prop IN
         /\ ~IsKnown(p)
         /\ \E i \in ItemIds :
              /\ IsNextId(items, i)
              /\ Commit([items EXCEPT ![i] = [prop |-> p, status |-> "pending",
                                              method |-> "none", supersedes |-> 0]],
                        evidence \union {InitialEvidence(i, p)}, conflicts, TRUE)
    /\ MoveTo(w, Idle)
    /\ UNCHANGED <<catalog, search>>

(* A repeated reference only logs an event without changes.                *)
AddEvidence(i, t, l) ==
    /\ HasStatus(i, "pending")
    /\ LET e == [item |-> i, type |-> t, label |-> l] IN
         /\ e \notin evidence
         /\ Commit(items, evidence \union {e}, conflicts, TRUE)
    /\ UNCHANGED <<catalog, search, stage>>

-----------------------------------------------------------------------------
(* The Home Assistant catalog                                              *)

(* What resolveCatalogConflicts finds wrong with an applied memory.        *)
Complaint(cat, i) ==
    LET p == items[i].prop IN
    IF p.subject \notin cat.active THEN "ha_subject_missing"
    ELSE IF p.value \in Structural /\ <<p.subject, p.value>> \notin cat.relations
         THEN "ha_canonical_relationship_changed"
         ELSE "none"

NewlyContestedAgain(cat) ==     \* mutant: an open conflict is not looked for
    {i \in ItemIds : HasStatus(i, "applied") /\ Complaint(cat, i) # "none"}
NewlyContested(cat) ==
    {i \in ItemIds :
        /\ HasStatus(i, "applied")
        /\ Complaint(cat, i) # "none"
        /\ ~\E c \in ConflictIds :
              /\ IsOpen(conflicts, c)
              /\ conflicts[c].existing = i /\ conflicts[c].candidate = 0
              /\ conflicts[c].reason = Complaint(cat, i)}

(* Only an applied memory's conflicts are looked at, and a missing subject *)
(* hides the state of its relationship.                                    *)
IsRestored(cat, c) ==
    /\ IsOpen(conflicts, c)
    /\ conflicts[c].existing # 0
    /\ conflicts[c].reason \in CatalogReasons
    /\ LET i == conflicts[c].existing IN
         /\ HasStatus(i, "applied")
         /\ items[i].prop.subject \in cat.active
         /\ conflicts[c].reason = "ha_canonical_relationship_changed" =>
              /\ items[i].prop.value \in Structural
              /\ <<items[i].prop.subject, items[i].prop.value>> \in cat.relations

Reconciled(cat, top) ==
    LET new == NewlyContested(cat)
        Id(i) == top + Cardinality({j \in new : j <= i})
        Row(i) == [subject |-> items[i].prop.subject, existing |-> i, candidate |-> 0,
                   reason |-> Complaint(cat, i), status |-> "open"]
    IN  [c \in ConflictIds |->
            IF \E i \in new : Id(i) = c THEN Row(CHOOSE i \in new : Id(i) = c)
            ELSE IF IsRestored(cat, c) THEN [conflicts[c] EXCEPT !.status = "resolved"]
            ELSE conflicts[c]]

(* applyNormalizedSnapshot: the catalog is replaced, conflicts follow it,  *)
(* and the index is rebuilt only when some object or relation changed,     *)
(* which includes a change of name the catalog here does not show.         *)
Replace(cat) ==
    /\ catalog' = cat
    /\ \E top \in ConflictIds \union {0} :
         /\ IsNextId(conflicts, top + 1)
         /\ top + Cardinality(NewlyContested(cat)) <= MaxConflicts
         /\ LET cfs == Reconciled(cat, top) IN
            IF cfs = conflicts
            THEN UNCHANGED <<items, evidence, conflicts, log>>
            ELSE Commit(items, evidence, cfs, FALSE)
    /\ \/ cat = catalog /\ UNCHANGED search
       \/ Rebuild(Subjects, cat)

Sync(cat) == Replace(cat) /\ UNCHANGED stage

-----------------------------------------------------------------------------
(* Verifying a candidate                                                   *)

Observations(i) == {e \in evidence : e.item = i /\ e.type = "observation"}
UserEvidence(i) == {e \in evidence : e.item = i /\ e.type = "user_explicit"}

(* What a method demands before the transaction, and inside it again: the  *)
(* candidate's source and the kind of its relation are only looked at      *)
(* before it.                                                              *)
Supports(i, m) ==
    /\ m = "ha_api" => Backed(items[i].prop)
    /\ m = "user_explicit" => UserEvidence(i) # {}
    /\ m = "repeated_observation" => Cardinality(Observations(i)) >= 2
    /\ m = "change_verification" => <<items[i].prop.subject, items[i].prop.value>> \in Attested
Admits(i, m) ==
    LET p == items[i].prop IN
    /\ m = "user_explicit" => p.source = "user_explicit" /\ p.value \notin Structural
    /\ m = "repeated_observation" => p.source \in {"observation", "inference"}
    /\ m = "change_verification" => p.source = "antigravity_change"

VerificationEvidenceUnmapped(m) == m      \* mutant: the method names the evidence
VerificationEvidence(m) == IF m = "repeated_observation" THEN "observation" ELSE m

(* The checks of one verification, against what the database holds now.    *)
Checks(w, i, m) ==
    IF ~SubjectExists(items[i].prop.subject)
    THEN MoveTo(w, [op |-> "contest", item |-> i, from |-> "pending",
                    reason |-> "ha_subject_missing"])
    ELSE IF m = "ha_api" /\ ~Backed(items[i].prop)
         THEN MoveTo(w, [op |-> "contest", item |-> i, from |-> "pending",
                         reason |-> "ha_canonical_mismatch"])
         ELSE /\ Admits(i, m) /\ Supports(i, m)
              /\ MoveTo(w, [op |-> "verify", item |-> i, method |-> m])

BeginVerify(w, i, m) ==
    /\ stage[w] = Idle
    /\ m # "ha_api"
    /\ HasStatus(i, "pending")
    /\ Checks(w, i, m)
    /\ UNCHANGED store

(* Verification against Home Assistant awaits a forced refresh, which      *)
(* replaces the catalog or finds that a newer one has already done so.     *)
BeginHaVerify(w, i) ==
    /\ stage[w] = Idle
    /\ HasStatus(i, "pending")
    /\ items[i].prop.value \in Linked
    /\ MoveTo(w, [op |-> "refresh", item |-> i])
    /\ UNCHANGED store

HaRefresh(w, cat) ==
    /\ stage[w].op = "refresh"
    /\ MoveTo(w, [op |-> "refreshed", item |-> stage[w].item])
    /\ Replace(cat) \/ UNCHANGED store

HaChecks(w) ==
    /\ stage[w].op = "refreshed"
    /\ LET i == stage[w].item IN HasStatus(i, "pending") /\ Checks(w, i, "ha_api")
    /\ UNCHANGED store

CommitVerify(w) ==
    /\ stage[w].op = "verify"
    /\ LET i == stage[w].item
           m == stage[w].method IN
         /\ HasStatus(i, "pending")
         /\ SubjectExists(items[i].prop.subject)
         /\ Supports(i, m)
         /\ Commit([items EXCEPT ![i].status = "verified", ![i].method = m],
                   evidence \union {[item |-> i, type |-> VerificationEvidence(m),
                                      label |-> "verification"]},
                   conflicts, TRUE)
    /\ MoveTo(w, Idle)
    /\ UNCHANGED <<catalog, search>>

(* putCandidateInConflict: the reason must still hold in the transaction.  *)
PutCandidateInConflict(w) ==
    /\ stage[w].op = "contest"
    /\ LET i == stage[w].item IN
         /\ HasStatus(i, stage[w].from)
         /\ CASE stage[w].reason = "ha_subject_missing" -> ~SubjectExists(items[i].prop.subject)
              [] stage[w].reason = "ha_canonical_mismatch" -> ~Backed(items[i].prop)
         /\ OpenConflict([items EXCEPT ![i].status = "conflict"], 0, i, stage[w].reason)
    /\ MoveTo(w, Idle)
    /\ UNCHANGED <<catalog, search>>

-----------------------------------------------------------------------------
(* Applying a verified candidate                                           *)

BeginApply(w, i) ==
    /\ stage[w] = Idle
    /\ HasStatus(i, "verified")
    /\ SubjectExists(items[i].prop.subject)
    /\ MoveTo(w, IF Backed(items[i].prop) THEN [op |-> "apply", item |-> i]
                 ELSE [op |-> "contest", item |-> i, from |-> "verified",
                       reason |-> "ha_canonical_mismatch"])
    /\ UNCHANGED store

(* The common part of the apply transaction.                               *)
CanApplyUnchecked(w, i) ==     \* mutant: the catalog is not looked at again
    /\ stage[w] = [op |-> "apply", item |-> i]
    /\ HasStatus(i, "verified")
CanApply(w, i) ==
    /\ stage[w] = [op |-> "apply", item |-> i]
    /\ HasStatus(i, "verified")
    /\ SubjectExists(items[i].prop.subject)
    /\ Backed(items[i].prop)
ApplyDone(w, i) ==
    /\ UniqueAppliedKeys(items')
    /\ Rebuild({items[i].prop.subject}, catalog)
    /\ MoveTo(w, Idle)
    /\ UNCHANGED catalog

ApplyToFreeSlot(w, i) ==
    /\ CanApply(w, i)
    /\ InSlot(i) = {}
    /\ Commit([items EXCEPT ![i].status = "applied"], evidence, conflicts, TRUE)
    /\ ApplyDone(w, i)

OutranksOrEquals(i, j) ==      \* mutant: off by one
    EffectiveAuthority(items[i]) >= EffectiveAuthority(items[j])
Outranks(i, j) == EffectiveAuthority(items[i]) > EffectiveAuthority(items[j])
SameValue(i, j) == items[i].prop.value = items[j].prop.value

ApplyDuplicate(w, i, j) ==
    /\ CanApply(w, i)
    /\ IsCurrentInSlot(i, j)
    /\ SameValue(i, j) /\ ~Outranks(i, j)
    /\ Commit([items EXCEPT ![i].status = "superseded", ![i].supersedes = j],
              evidence, conflicts, TRUE)
    /\ ApplyDone(w, i)

(* The lower-authority memory gives way, and every conflict about it is    *)
(* closed, whoever its candidate is.                                       *)
ApplyOverLower(w, i, j) ==
    /\ CanApply(w, i)
    /\ IsCurrentInSlot(i, j)
    /\ Outranks(i, j)
    /\ \E k \in ConflictIds :
         /\ IsNextId(conflicts, k)
         /\ Commit([items EXCEPT ![i].status = "applied", ![i].supersedes = j,
                                 ![j].status = "superseded"],
                   evidence,
                   [c \in ConflictIds |->
                      IF c = k
                      THEN [subject |-> items[i].prop.subject, existing |-> j, candidate |-> i,
                            reason |-> "higher_authority_candidate", status |-> "resolved"]
                      ELSE IF IsOpen(conflicts, c) /\ conflicts[c].existing = j
                           THEN [conflicts[c] EXCEPT !.status = "resolved"]
                           ELSE conflicts[c]],
                   TRUE)
    /\ ApplyDone(w, i)

ApplyIntoConflict(w, i, j) ==
    /\ CanApply(w, i)
    /\ IsCurrentInSlot(i, j)
    /\ ~SameValue(i, j) /\ ~Outranks(i, j)
    /\ OpenConflict([items EXCEPT ![i].status = "conflict"], j, i,
                    IF Outranks(j, i) THEN "existing_memory_has_higher_authority"
                    ELSE "same_authority_disagreement")
    /\ ApplyDone(w, i)

-----------------------------------------------------------------------------
(* Rejecting a candidate and resolving a conflict                          *)

AfterRejectionUnclosed(i) == conflicts      \* mutant: conflicts stay open
AfterRejection(i) ==
    [c \in ConflictIds |-> IF IsOpen(conflicts, c) /\ conflicts[c].candidate = i
                           THEN [conflicts[c] EXCEPT !.status = "resolved"]
                           ELSE conflicts[c]]
Reject(i) ==
    /\ Present(items, i)
    /\ items[i].status \in {"pending", "verified", "conflict"}
    /\ Commit([items EXCEPT ![i].status = "rejected"], evidence, AfterRejection(i), TRUE)
    /\ Rebuild({items[i].prop.subject}, catalog)
    /\ UNCHANGED <<catalog, stage>>

(* Who may win is decided by the conflict read before the transaction.     *)
MayWinAnything(c, winner) ==     \* mutant: Home Assistant's authority is forgotten
    /\ winner = "candidate" => conflicts[c].candidate # 0
    /\ winner = "existing" => conflicts[c].existing # 0
MayWin(c, winner) ==
    /\ winner = "candidate" => conflicts[c].candidate # 0
    /\ winner = "existing" => conflicts[c].existing # 0
    /\ winner = "ha" <=> conflicts[c].reason \in HaReasons

BeginResolve(w, c, winner) ==
    /\ stage[w] = Idle
    /\ IsOpen(conflicts, c)
    /\ MayWin(c, winner)
    /\ MoveTo(w, [op |-> "resolve", conflict |-> c, winner |-> winner])
    /\ UNCHANGED store

(* The conflict still describes its candidate and the applied memory.      *)
IsCurrent(c) ==
    LET i == conflicts[c].candidate
        j == conflicts[c].existing IN
    /\ i # 0 => HasStatus(i, "conflict")
    /\ j # 0 => HasStatus(j, "applied")
    /\ (i # 0 /\ j # 0) => IsCurrentInSlot(i, j)
HaStillDisagrees(c) ==
    LET i == conflicts[c].candidate
        j == conflicts[c].existing
        r == conflicts[c].reason IN
    \/ r = "ha_subject_missing" /\ ~SubjectExists(conflicts[c].subject)
    \/ r = "ha_canonical_mismatch" /\ i # 0 /\ ~Backed(items[i].prop)
    \/ r = "ha_canonical_relationship_changed" /\ j # 0 /\ ~Backed(items[j].prop)

CanResolve(w, c, winner) ==
    /\ stage[w] = [op |-> "resolve", conflict |-> c, winner |-> winner]
    /\ IsOpen(conflicts, c)
    /\ IsCurrent(c)
Closed(c) == [conflicts EXCEPT ![c].status = "resolved"]
ResolveDoneUnindexed(w, c) ==     \* mutant: the search row is left as it was
    UniqueAppliedKeys(items') /\ MoveTo(w, Idle) /\ UNCHANGED <<catalog, search>>
ResolveDone(w, c) ==
    /\ UniqueAppliedKeys(items')
    /\ Rebuild({conflicts[c].subject}, catalog)
    /\ MoveTo(w, Idle)
    /\ UNCHANGED catalog

ResolveForCandidate(w, c) ==
    /\ CanResolve(w, c, "candidate")
    /\ LET i == conflicts[c].candidate
           j == conflicts[c].existing IN
         /\ i # 0
         /\ Commit([k \in ItemIds |->
                      IF k = i THEN [items[i] EXCEPT !.status = "applied", !.supersedes = j]
                      ELSE IF k = j THEN [items[j] EXCEPT !.status = "superseded"]
                      ELSE items[k]],
                   evidence, Closed(c), TRUE)
    /\ ResolveDone(w, c)

ResolveForExisting(w, c) ==
    /\ CanResolve(w, c, "existing")
    /\ conflicts[c].existing # 0
    /\ Commit([k \in ItemIds |-> IF k = conflicts[c].candidate
                                 THEN [items[k] EXCEPT !.status = "rejected"] ELSE items[k]],
              evidence, Closed(c), TRUE)
    /\ ResolveDone(w, c)

ResolveForHa(w, c) ==
    /\ CanResolve(w, c, "ha")
    /\ HaStillDisagrees(c)
    /\ Commit([k \in ItemIds |->
                 IF k = conflicts[c].candidate THEN [items[k] EXCEPT !.status = "rejected"]
                 ELSE IF k = conflicts[c].existing THEN [items[k] EXCEPT !.status = "superseded"]
                 ELSE items[k]],
              evidence, Closed(c), TRUE)
    /\ ResolveDone(w, c)

-----------------------------------------------------------------------------
(* Rolling an event back                                                   *)

Inserted(images) == {k \in Changed(images) : images[k].before = Absent}

(* The memories whose row, evidence or conflicts an event changed.         *)
Names(row, i) == row # Absent /\ i \in {row.existing, row.candidate}
Touches(e, i) ==
    \/ i \in Changed(e.items)
    \/ \E x \in e.evidence : x.item = i
    \/ \E c \in Changed(e.conflicts) :
          Names(e.conflicts[c].before, i) \/ Names(e.conflicts[c].after, i)

(* validateRollbackDependencies: evidence stays while the candidate it     *)
(* helped is past pending, unless the same event takes it back there.      *)
EvidenceUnchecked(e) == TRUE     \* mutant
EvidenceIsFree(e) ==
    \A x \in e.evidence :
        (Present(items, x.item) /\ items[x.item].status # "pending") =>
            /\ x.item \in Changed(e.items)
            /\ e.items[x.item].before # Absent
            /\ e.items[x.item].before.status = "pending"

(* A candidate is only deleted if nothing else knows it.                   *)
DeletionsUnchecked(n) == TRUE     \* mutant
DeletionsAreSafe(n) ==
    \A i \in Inserted(log[n].items) :
        /\ {x \in evidence : x.item = i} \subseteq log[n].evidence
        /\ \A c \in ConflictIds : Names(conflicts[c], i) => c \in Inserted(log[n].conflicts)
        /\ \A m \in (n + 1)..Len(log) : ~Touches(log[m], i)

(* Every row the event changed is still as the event left it.              *)
StillPresent(e) ==     \* mutant: rows are only looked for
    \A i \in Changed(e.items) : Present(items, i)
StandsAsLeftBy(e) ==
    /\ \A i \in Changed(e.items) : items[i] = e.items[i].after
    /\ \A c \in Changed(e.conflicts) : conflicts[c] = e.conflicts[c].after
    /\ e.evidence \subseteq evidence

Restored(table, images) ==
    [k \in DOMAIN table |-> IF k \in Changed(images) THEN images[k].before ELSE table[k]]
Swapped(images) ==
    [k \in DOMAIN images |->
        IF k \in Changed(images) THEN [before |-> images[k].after, after |-> images[k].before]
        ELSE Absent]
RollbackCount == Cardinality({n \in DOMAIN log : log[n].undone # 0})

(* Deleting a candidate cascades to the evidence about it.                 *)
Rollback(n) ==
    /\ RollbackCount < MaxRollbacks
    /\ Len(log) < MaxEvents
    /\ n \in DOMAIN log
    /\ log[n].reversible /\ log[n].undone = 0
    /\ EvidenceIsFree(log[n])
    /\ DeletionsAreSafe(n)
    /\ StandsAsLeftBy(log[n])
    /\ LET e == log[n] IN
         /\ items' = Restored(items, e.items)
         /\ conflicts' = Restored(conflicts, e.conflicts)
         /\ evidence' = {x \in evidence \ e.evidence : Present(items', x.item)}
         /\ log' = Append([log EXCEPT ![n].undone = Len(log) + 1],
                          [reversible |-> FALSE, undone |-> 0, items |-> Swapped(e.items),
                           conflicts |-> Swapped(e.conflicts), evidence |-> e.evidence])
         /\ UniqueAppliedKeys(items')
         /\ Rebuild({items[i].prop.subject : i \in Changed(e.items)}, catalog)
    /\ UNCHANGED <<catalog, stage>>

(* A process fails its checks, cannot begin its transaction or is killed.  *)
Abandon(w) == stage[w] # Idle /\ MoveTo(w, Idle) /\ UNCHANGED store

Next ==
    \/ \E w \in Workers, p \in Proposals : BeginPropose(w, p)
    \/ \E w \in Workers : CommitPropose(w)
    \/ \E i \in ItemIds, x \in CallerEvidence : AddEvidence(i, x[1], x[2])
    \/ \E cat \in Catalogs : Sync(cat)
    \/ \E w \in Workers, i \in ItemIds, m \in Methods : BeginVerify(w, i, m)
    \/ \E w \in Workers, i \in ItemIds : BeginHaVerify(w, i)
    \/ \E w \in Workers, cat \in Catalogs : HaRefresh(w, cat)
    \/ \E w \in Workers : HaChecks(w)
    \/ \E w \in Workers : CommitVerify(w)
    \/ \E w \in Workers : PutCandidateInConflict(w)
    \/ \E w \in Workers, i \in ItemIds : BeginApply(w, i)
    \/ \E w \in Workers, i \in ItemIds : ApplyToFreeSlot(w, i)
    \/ \E w \in Workers, i, j \in ItemIds : ApplyDuplicate(w, i, j)
    \/ \E w \in Workers, i, j \in ItemIds : ApplyOverLower(w, i, j)
    \/ \E w \in Workers, i, j \in ItemIds : ApplyIntoConflict(w, i, j)
    \/ \E i \in ItemIds : Reject(i)
    \/ \E w \in Workers, c \in ConflictIds, winner \in Winners : BeginResolve(w, c, winner)
    \/ \E w \in Workers, c \in ConflictIds : ResolveForCandidate(w, c)
    \/ \E w \in Workers, c \in ConflictIds : ResolveForExisting(w, c)
    \/ \E w \in Workers, c \in ConflictIds : ResolveForHa(w, c)
    \/ \E n \in 1..MaxEvents : Rollback(n)
    \/ \E w \in Workers : Abandon(w)

Spec == Init /\ [][Next]_vars

-----------------------------------------------------------------------------
(* Properties                                                              *)

(* Every table, log image and stage has the columns and values its code    *)
(* declares (schema of ha-memory-core.mjs and its CHECK constraints).      *)
TypeOK ==
    /\ items \in [ItemIds -> ItemRow \union {Absent}]
    /\ evidence \in SUBSET Evidence
    /\ conflicts \in [ConflictIds -> ConflictRow \union {Absent}]
    /\ log \in Seq(Event)
    /\ catalog \in Catalogs
    /\ search \in [Subjects -> SUBSET ItemIds]
    /\ stage \in [Workers -> Stage]

(* A memory that went through verification still has the evidence its      *)
(* method demands, under references callers gave and not only as the       *)
(* record of the verification itself, whatever was rolled back, rejected   *)
(* or resolved since; and until something is rolled back, none is or was   *)
(* in force without verification (verifyMemoryCandidate,                   *)
(* applyMemoryCandidate, resolveMemoryConflict,                            *)
(* validateRollbackDependencies).                                          *)
EvidenceHolds(i) ==
    LET m == items[i].method IN
    /\ m = "user_explicit" => UserEvidence(i) # {}
    /\ m = "repeated_observation" =>
         Cardinality({e \in Observations(i) : e.label \in Labels}) >= 2
    /\ m \in {"ha_api", "change_verification"} => \E e \in evidence : e.item = i /\ e.type = m
AppliedRestsOnEvidence ==
    \A i \in ItemIds : Present(items, i) =>
        /\ items[i].method # "none" => EvidenceHolds(i)
        /\ items[i].status = "verified" => items[i].method # "none"
        /\ (RollbackCount = 0 /\ items[i].status \in {"applied", "superseded"})
              => items[i].method # "none"

(* No conflict or superseding memory names a memory that a rollback has    *)
(* deleted: the foreign keys of the schema never abort a rollback.         *)
ReferencesResolve ==
    /\ \A c \in ConflictIds : Present(conflicts, c) =>
         \A i \in ({conflicts[c].existing, conflicts[c].candidate} \ {0}) : Present(items, i)
    /\ \A i \in ItemIds : (Present(items, i) /\ items[i].supersedes # 0) =>
         Present(items, items[i].supersedes)

(* Undoing respects history: an event is only rolled back once every event *)
(* that changed one of its rows after it is rolled back (the after-image   *)
(* comparison of rollbackMemoryEvent).                                     *)
SharesRow(d, e) ==
    \/ Changed(d.items) \intersect Changed(e.items) # {}
    \/ Changed(d.conflicts) \intersect Changed(e.conflicts) # {}
UndoIsCausal ==
    \A m, n \in DOMAIN log :
        (m < n /\ n < log[m].undone /\ SharesRow(log[m], log[n]))
            => \/ log[n].undone \in (n + 1)..log[m].undone
               \/ \E k \in DOMAIN log : log[k].undone = n   \* a rollback event itself

(* Until something is rolled back, one subject has one applied memory for  *)
(* each reserved relation, under whatever keys they were proposed          *)
(* (currentAppliedMemoryInSlot; the unique index only knows keys).         *)
OneAppliedPerSlot ==
    RollbackCount = 0 =>
        \A i, j \in ItemIds :
            (/\ i # j /\ HasStatus(i, "applied") /\ HasStatus(j, "applied")
             /\ items[i].prop.value \in Structural)
                => ~SharesSlot(items[i].prop, items[j].prop)

(* Until something is rolled back, an open conflict that names a candidate *)
(* still holds it in conflict, so that it can be rejected or resolved.     *)
OpenConflictHoldsCandidate ==
    RollbackCount = 0 =>
        \A c \in ConflictIds :
            (IsOpen(conflicts, c) /\ conflicts[c].candidate # 0)
                => HasStatus(conflicts[c].candidate, "conflict")

(* Until something is rolled back, the same complaint is never open twice  *)
(* (openConflict and resolveCatalogConflicts look for it).                 *)
NoDuplicateComplaint ==
    RollbackCount = 0 =>
        \A c, d \in ConflictIds :
            (IsOpen(conflicts, c) /\ conflicts[d] = conflicts[c]) => c = d

(* Until something is rolled back, search finds every applied and          *)
(* uncontested memory of each active subject, and nothing else but what a  *)
(* refresh that changed no object or relation has just found a reserved    *)
(* relation of to be gone (rebuildSearchSubject and the conditional        *)
(* rebuildAllSearch of applyNormalizedSnapshot).                           *)
WithoutStructureComplaints ==
    [c \in ConflictIds |->
        IF Present(conflicts, c) /\ conflicts[c].reason = "ha_canonical_relationship_changed"
        THEN Absent ELSE conflicts[c]]
IndexIsCurrent ==
    RollbackCount = 0 =>
        \A s \in Subjects :
            /\ Indexable(items, conflicts, catalog.active, s) \subseteq search[s]
            /\ search[s] \subseteq Indexable(items, WithoutStructureComplaints, catalog.active, s)

(* A conflict the catalog opened about a memory ends when the catalog      *)
(* again has what it missed (resolveCatalogConflicts).                     *)
RestoredStructureClosesConflict ==
    \A c \in ConflictIds :
        (IsOpen(conflicts, c) /\ conflicts[c].candidate = 0)
            => /\ Present(items, conflicts[c].existing)
               /\ Complaint(catalog, conflicts[c].existing) = conflicts[c].reason

(* What becomes applied names a subject and a target that Home Assistant   *)
(* has at that moment, unless the user resolved a conflict for it or       *)
(* rolled an event back (the repeated checks of applyMemoryCandidate).     *)
BecomesApplied(i) == ~HasStatus(i, "applied") /\ HasStatus(i, "applied")'
IsRollbackStep == Len(log') > Len(log) /\ RollbackCount' > RollbackCount
IsResolveStep == \E w \in Workers : stage[w].op = "resolve" /\ stage'[w] = Idle
ApplyIsBacked ==
    [][\A i \in ItemIds :
         (BecomesApplied(i) /\ ~IsRollbackStep /\ ~IsResolveStep)
            => SubjectExists(items[i].prop.subject) /\ Backed(items[i].prop)]_vars

(* A memory the user stated is only replaced or withdrawn by the user: by  *)
(* resolving a conflict or a rollback, or for a reserved relation Home     *)
(* Assistant confirms (the authorities applyMemoryCandidate compares).     *)
UserWordStands ==
    [][\A i \in ItemIds :
         (/\ HasStatus(i, "applied") /\ ~(HasStatus(i, "applied"))'
          /\ items[i].prop.source = "user_explicit"
          /\ ~IsRollbackStep /\ ~IsResolveStep)
            => \E j \in ItemIds : /\ BecomesApplied(j)
                                  /\ items[j].method = "ha_api"
                                  /\ items[j].prop.value \in Structural]_vars

(* Until something is rolled back, a conflict in which Home Assistant is   *)
(* the authority is only closed in its favour, by a later catalog or with  *)
(* its candidate or memory (resolveMemoryConflict: it "can only be         *)
(* resolved in favor of ha").                                              *)
HaConflictOnlyForHa ==
    [][\A w \in Workers, c \in ConflictIds :
         (/\ RollbackCount = 0
          /\ stage[w].op = "resolve" /\ stage'[w] = Idle
          /\ stage[w].conflict = c /\ stage[w].winner # "ha"
          /\ IsOpen(conflicts, c) /\ ~IsOpen(conflicts', c))
            => conflicts[c].reason \notin HaReasons]_vars

=============================================================================
