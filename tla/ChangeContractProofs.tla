-------------------------- MODULE ChangeContractProofs --------------------------
(***************************************************************************)
(* Proofs about ChangeContract: a change is only verified against a        *)
(* picture of Home Assistant that is younger than its announcement, a      *)
(* verified change stays verified, and its conflicts are closed.           *)
(*                                                                         *)
(* They rest on the invariant of CatalogSyncProofs, which says that ids    *)
(* follow the order in which refreshes began as long as the rows that      *)
(* something names are there: the refresh that a change was announced      *)
(* after is such a row, and so every later verification has a larger id.   *)
(***************************************************************************)
EXTENDS ChangeContract, CatalogSyncProofs

ChangeStatuses == {"none", "pending", "unavailable", "mismatch", "verified"}
ChangeRow == [status : ChangeStatuses, before : SyncIds, after : SyncIds, since : Worlds,
              seen : Snapshot, doubted : SyncIds]

(* The refresh a change was announced after keeps its row, and no change   *)
(* is announced in the future.                                             *)
AnnouncedAfterRow ==
    \A c \in Changes : /\ change[c].before # 0 => change[c].before \in cited
                       /\ change[c].since <= world
(* So does the refresh of its verdict, also when another change goes on to *)
(* one of its own.                                                         *)
VerdictRow == \A c \in Changes : change[c].after # 0 => change[c].after \in cited
(* A change that is verified was announced, and a refresh that is under    *)
(* way for it, or has just succeeded, began after that.                    *)
VerifiesAnnounced ==
    \A w \in Workers : Verifying(w) => change[verifier[w].change].status # "none"
AtWork(w) == Verifying(w) /\ (Active(w) \/ proc[w].at = "success")
VerifiesLater ==
    \A w \in Workers : AtWork(w) =>
        /\ change[verifier[w].change].before < proc[w].run
        /\ change[verifier[w].change].since <= proc[w].since
(* What a successful refresh hands on is no older than the refresh.        *)
HandedOnInOrder ==
    \A w \in Workers : proc[w].at = "success" => proc[w].since <= proc[w].snap.registries
(* It was installed, and nothing but pruning has touched its row since.    *)
HandedOnSucceeded ==
    \A w \in Workers : proc[w].at = "success" =>
        /\ proc[w].run \in RunIds /\ proc[w].run <= catalog.sync
        /\ run[proc[w].run] \in {"none", "success"}

CInv ==
    /\ IInv /\ CitedHasRow /\ ContractTypeOK
    /\ AnnouncedAfterRow /\ VerifiesAnnounced /\ VerifiesLater /\ HandedOnInOrder
    /\ VerdictRow /\ HandedOnSucceeded
    /\ VerifiedIsWitnessed

-----------------------------------------------------------------------------
(* Steps of the catalog's refreshes                                        *)

(* An announced change in the table.                                       *)
LEMMA ChangeTyped ==
    ASSUME ContractTypeOK, NEW c \in Changes
    PROVE  change[c] \in ChangeRow
  BY DEF ContractTypeOK, ChangeRow, ChangeStatuses

(* A process that takes a step of a refresh moves to a typed row: the next *)
(* place, with the id and the moment it began with, or a new beginning.    *)
LEMMA RefreshStep ==
    ASSUME IInv, IInv', NEW w \in Workers, Refresh(w)
    PROVE  /\ world' = world
           /\ cited \subseteq cited'
           /\ \A v \in Workers \ {w} : proc'[v] = proc[v]
           /\ \/ Begin(w)
              \/ proc'[w].at \in {"idle", "fresh", "failed", "superseded"}
              \/ /\ Active(w) /\ (Active(w)' \/ proc'[w].at = "success")
                 /\ proc'[w].run = proc[w].run /\ proc'[w].since = proc[w].since
           /\ proc'[w].at = "success" =>
                proc'[w].since <= proc'[w].snap.registries
<1>1. world' = world /\ cited \subseteq cited'
  BY DEF Refresh, FindFresh, Begin, ReadRegistries, ReadAutomations, Supersede, Install, Fail, Crash
<1>2. proc \in [Workers -> ProcRow] /\ proc[w] \in ProcRow
  BY DEF IInv, TypeOK, ProcRow
<1>3. \A v \in Workers \ {w} : proc'[v] = proc[v]
  BY <1>2 DEF Refresh, FindFresh, Begin, ReadRegistries, ReadAutomations, Supersede, Install, Fail,
     Crash, Rest, Advance
<1>4. CASE Begin(w)
  <2>1. proc'[w].at = "reading"
    BY <1>2, <1>4 DEF Begin, Advance
  <2>2. QED
    BY <1>1, <1>3, <1>4, <2>1
<1>5. CASE FindFresh(w) \/ Supersede(w) \/ Fail(w) \/ Crash(w)
  <2>1. CASE Supersede(w)
    <3>1. proc'[w] = [proc[w] EXCEPT !.at = "superseded"]
      BY <1>2, <2>1 DEF Supersede, Advance
    <3>2. proc'[w].at = "superseded"
      BY <1>2, <3>1 DEF ProcRow
    <3>3. QED
      BY <1>1, <1>3, <3>2
  <2>2. CASE FindFresh(w) \/ Fail(w) \/ Crash(w)
    <3>1. PICK o \in {"idle", "fresh", "failed"} : Rest(w, o)
      BY <2>2 DEF FindFresh, Fail, Crash
    <3>2. proc'[w].at = o
      BY <1>2, <3>1 DEF Rest, Advance
    <3>3. QED
      BY <1>1, <1>3, <3>1, <3>2
  <2>3. QED
    BY <1>5, <2>1, <2>2
<1>6. CASE ReadRegistries(w) \/ ReadAutomations(w)
  <2>1. /\ proc'[w].at \in {"detailing", "applying"}
        /\ proc'[w].run = proc[w].run /\ proc'[w].since = proc[w].since
    <3>1. PICK p \in ProcRow :
            /\ Advance(w, p) /\ p.at \in {"detailing", "applying"}
            /\ p.run = proc[w].run /\ p.since = proc[w].since
      BY <1>6, ReadFacts DEF IInv
    <3>2. proc'[w] = p
      BY <3>1, AdvanceType DEF IInv
    <3>3. QED
      BY <3>1, <3>2
  <2>2. Active(w)
    BY <1>6 DEF ReadRegistries, ReadAutomations, Active, Progress
  <2>3. QED
    BY <1>1, <1>3, <2>1, <2>2 DEF Active, Progress
<1>7. CASE Install(w)
  <2>1. proc'[w] = [proc[w] EXCEPT !.at = "success"] /\ proc[w].at = "applying"
    BY <1>2, <1>7 DEF Install, Advance
  <2>2. /\ proc'[w].at = "success" /\ proc'[w].run = proc[w].run
        /\ proc'[w].since = proc[w].since /\ proc'[w].snap = proc[w].snap
    BY <1>2, <2>1 DEF ProcRow
  <2>3. proc[w].since <= proc[w].snap.registries
    BY <2>1 DEF IInv, ReadsInOrder
  <2>4. QED
    BY <1>1, <1>3, <2>1, <2>2, <2>3 DEF Active, Progress
<1>8. QED
  BY <1>4, <1>5, <1>6, <1>7 DEF Refresh

(* A new refresh has a larger id than any that something names.            *)
LEMMA BeginIsLater ==
    ASSUME IInv, CitedHasRow, NEW w \in Workers, Begin(w)
    PROVE  /\ proc'[w].at = "reading" /\ proc'[w].since = world
           /\ proc'[w].run \in RunIds
           /\ \A k \in cited \union {0} : k < proc'[w].run
<1>1. PICK k \in RunIds :
        /\ \A j \in RunIds : j >= k => run[j] = "none"
        /\ Advance(w, [at |-> "reading", run |-> k, since |-> world, snap |-> Unread])
  BY DEF Begin
<1>2. proc'[w] = [at |-> "reading", run |-> k, since |-> world, snap |-> Unread]
  BY <1>1 DEF Advance, IInv, TypeOK
<1>3. \A j \in cited : j \in RunIds /\ run[j] # "none"
  BY DEF IInv, TypeOK, CitedHasRow
<1>4. \A j \in cited \union {0} : j < k
  BY <1>1, <1>3, BoundsAssumption DEF RunIds
<1>5. QED
  BY <1>2, <1>4

(* The row of a success stays a success until it is pruned, which it is    *)
(* not while something names it; its id is not used again.                 *)
LEMMA SuccessStays ==
    ASSUME IInv, NEW w \in Workers, Refresh(w),
           NEW k \in RunIds, k <= catalog.sync, run[k] \in {"none", "success"}
    PROVE  /\ catalog.sync <= catalog'.sync
           /\ run'[k] \in {"none", "success"}
           /\ k \in cited => run'[k] = run[k]
<1>1. run \in RunTable /\ proc[w] \in ProcRow
  BY DEF IInv, TypeOK, RunTable, ProcRow
<1>2. catalog.sync \in RunIds /\ run[catalog.sync] = "success"
  BY BoundsAssumption DEF IInv, IsLatestSuccess, RunIds
<1>3. catalog.sync <= catalog.sync
  BY <1>2, BoundsAssumption DEF RunIds
<1>4. Active(w) => proc[w].run \in RunIds /\ run[proc[w].run] = "running"
  BY DEF IInv, RowsOfActive
<1>5. CASE FindFresh(w) \/ ReadRegistries(w) \/ ReadAutomations(w) \/ Crash(w)
  BY <1>3, <1>5 DEF FindFresh, ReadRegistries, ReadAutomations, Crash
<1>6. CASE Begin(w)
  <2>1. PICK j \in RunIds :
          /\ \A i \in RunIds : i >= j => run[i] = "none"
          /\ run' = [run EXCEPT ![j] = "running"]
    BY <1>6 DEF Begin
  <2>2. catalog.sync < j
    BY <1>2, <2>1, BoundsAssumption DEF RunIds
  <2>3. k # j
    BY <1>2, <2>2, BoundsAssumption DEF RunIds
  <2>4. UNCHANGED catalog
    BY <1>6 DEF Begin
  <2>5. QED
    BY <1>1, <1>3, <2>1, <2>3, <2>4 DEF RunTable
<1>7. CASE Supersede(w) \/ Fail(w)
  <2>1. /\ Active(w) /\ UNCHANGED <<catalog, cited>>
        /\ run' = Pruned([run EXCEPT ![proc[w].run] = "failed"], cited, catalog.sync)
    BY <1>7 DEF Supersede, Fail, Active, Progress
  <2> DEFINE rows == [run EXCEPT ![proc[w].run] = "failed"]
  <2>2. rows \in RunTable /\ rows[k] = run[k]
    BY <1>1, <1>4, <2>1 DEF RunTable
  <2>3. run' = Pruned(rows, cited, catalog.sync)
    BY <2>1
  <2> HIDE DEF rows
  <2>4. run'[k] = rows[k] \/ (run'[k] = "none" /\ k \notin cited)
    <3>1. \/ Pruned(rows, cited, catalog.sync)[k] = rows[k]
          \/ Pruned(rows, cited, catalog.sync)[k] = "none" /\ k \notin cited
      BY <2>2, PrunedRows
    <3>2. QED
      BY <2>3, <3>1
  <2>5. QED
    BY <1>3, <2>1, <2>2, <2>4
<1>8. CASE Install(w)
  <2>1. /\ Active(w) /\ catalog'.sync = proc[w].run /\ cited \subseteq cited'
        /\ ~NewerSuccess(proc[w].run)
        /\ run' = Pruned([run EXCEPT ![proc[w].run] = "success"], cited', proc[w].run)
    BY <1>8 DEF Install, Active, Progress
  <2> DEFINE rows == [run EXCEPT ![proc[w].run] = "success"]
  <2>2. rows \in RunTable /\ rows[k] = run[k]
    BY <1>1, <1>4, <2>1 DEF RunTable
  <2>3. run' = Pruned(rows, cited', proc[w].run)
    BY <2>1
  <2> HIDE DEF rows
  <2>4. run'[k] = rows[k] \/ (run'[k] = "none" /\ k \notin cited')
    <3>1. \/ Pruned(rows, cited', proc[w].run)[k] = rows[k]
          \/ Pruned(rows, cited', proc[w].run)[k] = "none" /\ k \notin cited'
      BY <2>2, PrunedRows
    <3>2. QED
      BY <2>3, <3>1
  <2>5. catalog.sync <= proc[w].run
    BY <1>2, <1>4, <2>1, BoundsAssumption DEF NewerSuccess, RunIds
  <2>6. QED
    BY <2>1, <2>2, <2>4, <2>5
<1>9. QED
  BY <1>5, <1>6, <1>7, <1>8 DEF Refresh

(* A refresh that succeeds is the one in force.                            *)
LEMMA InstalledSucceeds ==
    ASSUME IInv, IInv', NEW w \in Workers, Refresh(w), proc'[w].at = "success"
    PROVE  /\ proc'[w].run \in RunIds /\ proc'[w].run <= catalog'.sync
           /\ run'[proc'[w].run] = "success"
<1>1. proc \in [Workers -> ProcRow] /\ proc[w] \in ProcRow
  BY DEF IInv, TypeOK, ProcRow
<1>2. Install(w)
  <2>1. ~Begin(w)
    BY <1>1 DEF Begin, Advance
  <2>2. ~(ReadRegistries(w) \/ ReadAutomations(w))
    <3>1. ASSUME ReadRegistries(w) \/ ReadAutomations(w) PROVE FALSE
      <4>1. PICK p \in ProcRow : Advance(w, p) /\ p.at \in {"detailing", "applying"}
        BY <3>1, ReadFacts DEF IInv
      <4>2. proc'[w] = p
        BY <4>1, AdvanceType DEF IInv
      <4>3. QED
        BY <4>1, <4>2
    <3>2. QED
      BY <3>1
  <2>3. ~Supersede(w)
    BY <1>1 DEF Supersede, Advance, ProcRow
  <2>4. ~(FindFresh(w) \/ Fail(w) \/ Crash(w))
    BY <1>1 DEF FindFresh, Fail, Crash, Rest, Advance
  <2>5. QED
    BY <2>1, <2>2, <2>3, <2>4 DEF Refresh
<1>3. proc'[w].run = proc[w].run /\ catalog'.sync = proc[w].run
  <2>1. proc'[w] = [proc[w] EXCEPT !.at = "success"] /\ catalog'.sync = proc[w].run
    BY <1>1, <1>2 DEF Install, Advance
  <2>2. QED
    BY <1>1, <2>1 DEF ProcRow
<1>4. proc[w].run \in RunIds
  BY <1>2 DEF Install, IInv, RowsOfActive, Active, Progress
<1>5. run'[catalog'.sync] = "success"
  BY <1>3, <1>4, BoundsAssumption DEF IInv, IsLatestSuccess, RunIds
<1>6. QED
  BY <1>3, <1>4, <1>5, BoundsAssumption DEF RunIds

(* A step of a refresh, for a verification or another caller, keeps the    *)
(* invariant.  If it begins, then for nothing or for an announced change;  *)
(* if not, then for what it began for, or it is given up.                  *)
VerifierRow == [change : Changes \union {"none"}, tries : 0..2]
LEMMA RefreshCInv ==
    ASSUME CInv, NEW w \in Workers, Refresh(w),
           UNCHANGED <<change, dispute, undone>>,
           verifier' \in [Workers -> VerifierRow],
           \A v \in Workers \ {w} : verifier'[v] = verifier[v],
           (Begin(w) /\ Verifying(w)') => change[verifier'[w].change].status # "none",
           (~Begin(w) /\ Verifying(w)') => verifier'[w].change = verifier[w].change
    PROVE  CInv'
<1>1. IInv' /\ CitedHasRow'
  BY NextInv, CitedStep DEF CInv, Next
<1>2. ContractTypeOK'
  BY <1>1 DEF IInv, CInv, ContractTypeOK, VerifierRow
<1>3. /\ world' = world
      /\ cited \subseteq cited'
      /\ \A v \in Workers \ {w} : proc'[v] = proc[v]
      /\ \/ Begin(w)
         \/ proc'[w].at \in {"idle", "fresh", "failed", "superseded"}
         \/ /\ Active(w) /\ (Active(w)' \/ proc'[w].at = "success")
            /\ proc'[w].run = proc[w].run /\ proc'[w].since = proc[w].since
      /\ proc'[w].at = "success" => proc'[w].since <= proc'[w].snap.registries
  BY <1>1, RefreshStep DEF CInv
<1>4. AnnouncedAfterRow' /\ VerdictRow' /\ VerifiedIsWitnessed'
  <2>1. AnnouncedAfterRow' /\ VerdictRow'
    BY <1>3 DEF CInv, AnnouncedAfterRow, VerdictRow
  <2>2. ASSUME NEW c \in Changes, change[c].status = "verified"
        PROVE  run'[change[c].after] = "success"
    <3> DEFINE k == change[c].after
    <3>1. k \in RunIds /\ run[k] = "success"
      <4>1. change[c].before < k /\ run[k] = "success"
        BY <2>2 DEF CInv, VerifiedIsWitnessed
      <4>2. change[c].before \in SyncIds /\ k \in SyncIds
        BY ChangeTyped DEF CInv, ChangeRow
      <4>3. QED
        BY <4>1, <4>2, BoundsAssumption DEF SyncIds, RunIds
    <3>2. k \in cited
      BY <3>1, BoundsAssumption DEF CInv, VerdictRow, RunIds
    <3>3. k <= catalog.sync
      BY <3>1 DEF CInv, IInv, IsLatestSuccess
    <3>4. QED
      BY <3>1, <3>2, <3>3, SuccessStays DEF CInv
  <2>3. VerifiedIsWitnessed'
    BY <2>2 DEF CInv, VerifiedIsWitnessed
  <2>4. QED
    BY <2>1, <2>3
<1>5. HandedOnInOrder' /\ HandedOnSucceeded'
  <2>1. HandedOnInOrder'
    BY <1>3 DEF CInv, HandedOnInOrder
  <2>2. ASSUME NEW v \in Workers, proc'[v].at = "success"
        PROVE  /\ proc'[v].run \in RunIds /\ proc'[v].run <= catalog'.sync
               /\ run'[proc'[v].run] \in {"none", "success"}
    <3>1. CASE v = w
      BY <1>1, <2>2, <3>1, InstalledSucceeds DEF CInv
    <3>2. CASE v # w
      <4>1. proc'[v] = proc[v]
        BY <1>3, <3>2
      <4>2. /\ proc[v].run \in RunIds /\ proc[v].run <= catalog.sync
            /\ run[proc[v].run] \in {"none", "success"}
        BY <2>2, <4>1 DEF CInv, HandedOnSucceeded
      <4>3. catalog.sync <= catalog'.sync /\ run'[proc[v].run] \in {"none", "success"}
        BY <4>2, SuccessStays DEF CInv
      <4>4. catalog.sync \in SyncIds /\ catalog'.sync \in SyncIds
        BY <1>1 DEF CInv, IInv, TypeOK, SyncIds
      <4>5. QED
        BY <4>1, <4>2, <4>3, <4>4, BoundsAssumption DEF SyncIds, RunIds
    <3>3. QED
      BY <3>1, <3>2
  <2>3. QED
    BY <2>1, <2>2 DEF HandedOnSucceeded
<1>6. \A v \in Workers \ {w} : (Verifying(v)' <=> Verifying(v)) /\ (AtWork(v)' <=> AtWork(v))
  BY <1>3 DEF Verifying, AtWork, Active
<1>7. VerifiesAnnounced'
  <2>1. Verifying(w)' => change[verifier'[w].change].status # "none"
    BY DEF CInv, VerifiesAnnounced, Verifying
  <2>2. QED
    BY <1>6, <2>1 DEF CInv, VerifiesAnnounced
<1>8. VerifiesLater'
  <2>1. ASSUME AtWork(w)'
        PROVE  /\ change[verifier'[w].change].before < proc'[w].run
               /\ change[verifier'[w].change].since <= proc'[w].since
    <3> DEFINE c == verifier'[w].change
    <3>1. c \in Changes
      BY <2>1 DEF AtWork, Verifying
    <3>2. CASE Begin(w)
      <4>1. proc'[w].since = world /\ \A k \in cited \union {0} : k < proc'[w].run
        BY <3>2, BeginIsLater DEF CInv
      <4>2. change[c].before \in cited \union {0} /\ change[c].since <= world
        BY <3>1 DEF CInv, AnnouncedAfterRow
      <4>3. QED
        BY <4>1, <4>2
    <3>3. CASE ~Begin(w)
      <4>1. Active(w) /\ proc'[w].run = proc[w].run /\ proc'[w].since = proc[w].since
        BY <1>3, <2>1, <3>3 DEF AtWork, Active, Progress
      <4>2. AtWork(w) /\ verifier[w].change = c
        BY <2>1, <3>3, <4>1 DEF AtWork, Verifying
      <4>3. QED
        BY <4>1, <4>2 DEF CInv, VerifiesLater
    <3>4. QED
      BY <3>2, <3>3
  <2>2. QED
    BY <1>3, <1>6, <2>1 DEF CInv, VerifiesLater
<1>9. QED
  BY <1>1, <1>2, <1>4, <1>5, <1>7, <1>8 DEF CInv

(* Refreshes for verifications, their crashes, and those of other callers. *)
LEMMA AnyRefreshCInv ==
    ASSUME CInv, NEW w \in Workers,
           \/ \E c \in Changes : BeginVerify(w, c)
           \/ Retry(w) \/ OwnRefresh(w) \/ OtherRefresh(w) \/ VerifierCrashes(w)
    PROVE  CInv'
<1>1. verifier \in [Workers -> VerifierRow]
  BY DEF CInv, ContractTypeOK, VerifierRow
<1>2. CASE \E c \in Changes : BeginVerify(w, c)
  <2>1. PICK c \in Changes : BeginVerify(w, c)
    BY <1>2
  <2>2. Refresh(w) /\ Begin(w) /\ UNCHANGED <<change, dispute, undone>>
    BY <2>1 DEF BeginVerify, Refresh
  <2>3. verifier' = [verifier EXCEPT ![w] = [change |-> c, tries |-> 1]]
    BY <2>1 DEF BeginVerify
  <2>4. verifier' \in [Workers -> VerifierRow] /\ verifier'[w].change = c
        /\ \A v \in Workers \ {w} : verifier'[v] = verifier[v]
    BY <1>1, <2>3 DEF VerifierRow
  <2>5. change[c].status # "none"
    BY <2>1 DEF BeginVerify
  <2>6. QED
    BY <2>2, <2>4, <2>5, RefreshCInv
<1>3. CASE Retry(w)
  <2>1. Refresh(w) /\ Begin(w) /\ UNCHANGED <<change, dispute, undone>> /\ Verifying(w)
    BY <1>3 DEF Retry, Refresh
  <2>2. verifier' \in [Workers -> VerifierRow] /\ verifier'[w].change = verifier[w].change
        /\ \A v \in Workers \ {w} : verifier'[v] = verifier[v]
    BY <1>1, <1>3 DEF Retry, VerifierRow
  <2>3. change[verifier[w].change].status # "none"
    BY <2>1 DEF CInv, VerifiesAnnounced
  <2>4. QED
    BY <2>1, <2>2, <2>3, RefreshCInv
<1>4. CASE OwnRefresh(w)
  <2>1. Refresh(w) /\ Active(w) /\ UNCHANGED contract
    BY <1>4 DEF OwnRefresh, Refresh, ReadRegistries, ReadAutomations, Supersede, Install, Fail,
       Active, Progress
  <2>2. ~Begin(w)
    BY <2>1 DEF Begin
  <2>3. QED
    BY <1>1, <2>1, <2>2, RefreshCInv DEF contract
<1>5. CASE OtherRefresh(w)
  <2>1. Refresh(w) /\ UNCHANGED contract /\ ~Verifying(w)'
    BY <1>5 DEF OtherRefresh, contract, Verifying
  <2>2. QED
    BY <1>1, <2>1, RefreshCInv DEF contract
<1>6. CASE VerifierCrashes(w)
  <2>1. Refresh(w) /\ UNCHANGED <<change, dispute, undone>>
    BY <1>6 DEF VerifierCrashes, Refresh
  <2>2. verifier' \in [Workers -> VerifierRow] /\ verifier'[w] = NoVerifier
        /\ \A v \in Workers \ {w} : verifier'[v] = verifier[v]
    BY <1>1, <1>6 DEF VerifierCrashes, Done, VerifierRow, NoVerifier
  <2>3. ~Verifying(w)'
    BY <2>2, ContractAssumption DEF Verifying, NoVerifier
  <2>4. QED
    BY <2>1, <2>2, <2>3, RefreshCInv
<1>7. QED
  BY <1>2, <1>3, <1>4, <1>5, <1>6

-----------------------------------------------------------------------------
(* Steps on the contracts                                                  *)

(* The refreshes do not mind what else is recorded of their ids.           *)
LEMMA CitingIInv ==
    ASSUME IInv, UNCHANGED <<world, run, catalog, status, proc>>, cited' \subseteq RunIds
    PROVE  IInv'
  BY DEF IInv, TypeOK, IsLatestSuccess, RowsOfActive, ActiveInOrder, CatalogInOrder, ReadsInOrder,
     HeldInOrder, ReturnedInOrder, Returned, Active

(* A verdict of any kind, or none, by a process that is done afterwards:   *)
(* it changes one change's row, but not what it was announced after.       *)
LEMMA VerdictCInv ==
    ASSUME CInv, NEW w \in Workers, NEW c \in Changes, NEW row \in ChangeRow,
           change' = [change EXCEPT ![c] = row],
           row.before = change[c].before, row.since = change[c].since, row.status # "none",
           row.status = "verified" =>
              /\ row.seen \in Meets[c] /\ row.seen.registries >= row.since
              /\ row.before < row.after /\ run[row.after] = "success",
           Done(w),
           UNCHANGED <<world, run, catalog, status, proc>>,
           cited' \subseteq RunIds, \A k \in cited' : run[k] # "none",
           \A b \in Changes : change[b].before \in cited => change[b].before \in cited',
           \A b \in Changes \ {c} : change[b].after \in cited => change[b].after \in cited',
           row.after # 0 => row.after \in cited',
           dispute' \in [DisputeIds -> [change : Changes \union {"none"},
                                        state : {"none", "open", "conceded", "passed"}]],
           undone' \in 0..MaxUndone
    PROVE  CInv'
<1>1. IInv'
  BY CitingIInv DEF CInv
<1>2. CitedHasRow'
  BY DEF CitedHasRow
<1>3. change \in [Changes -> ChangeRow]
  BY DEF CInv, ContractTypeOK, ChangeRow, ChangeStatuses
<1>4. /\ change' \in [Changes -> ChangeRow] /\ change'[c] = row
      /\ \A b \in Changes \ {c} : change'[b] = change[b]
  BY <1>3
<1>5. /\ verifier' \in [Workers -> VerifierRow] /\ ~Verifying(w)'
      /\ \A v \in Workers \ {w} : verifier'[v] = verifier[v]
  <2>1. verifier \in [Workers -> VerifierRow]
    BY DEF CInv, ContractTypeOK, VerifierRow
  <2>2. QED
    BY <2>1, ContractAssumption DEF Done, VerifierRow, NoVerifier, Verifying
<1>6. ContractTypeOK'
  BY <1>1, <1>4, <1>5 DEF IInv, ContractTypeOK, ChangeRow, ChangeStatuses, VerifierRow
<1>7. \A b \in Changes :
        /\ change'[b].before = change[b].before /\ change'[b].since = change[b].since
        /\ change[b].status # "none" => change'[b].status # "none"
  BY <1>4
<1>8. AnnouncedAfterRow' /\ VerdictRow'
  BY <1>4, <1>7 DEF CInv, AnnouncedAfterRow, VerdictRow
<1>9. VerifiesAnnounced' /\ VerifiesLater'
  BY <1>5, <1>7 DEF CInv, VerifiesAnnounced, VerifiesLater, AtWork, Verifying, Active
<1>10. HandedOnInOrder' /\ HandedOnSucceeded'
  BY DEF CInv, HandedOnInOrder, HandedOnSucceeded
<1>11. VerifiedIsWitnessed'
  BY <1>4 DEF CInv, VerifiedIsWitnessed
<1>12. QED
  BY <1>1, <1>2, <1>6, <1>8, <1>9, <1>10, <1>11 DEF CInv

(* Recording the verdict's refresh keeps what else needs its row.          *)
LEMMA CiteFacts ==
    ASSUME CInv, NEW c \in Changes, NEW k \in RunIds, run[k] # "none", CiteVerdict(c, k)
    PROVE  /\ cited' \subseteq RunIds /\ \A j \in cited' : run[j] # "none"
           /\ \A b \in Changes : change[b].before \in cited => change[b].before \in cited'
           /\ \A b \in Changes \ {c} : change[b].after \in cited => change[b].after \in cited'
           /\ k \in cited'
  BY DEF CiteVerdict, CInv, IInv, TypeOK, CitedHasRow

(* A process that may decide holds a picture and a refresh younger than    *)
(* the announcement.                                                       *)
LEMMA DecideFacts ==
    ASSUME CInv, NEW w \in Workers, NEW c \in Changes, CanDecide(w, c)
    PROVE  /\ change[c] \in ChangeRow /\ change[c].status \notin {"none", "verified"}
           /\ proc[w].run \in RunIds /\ run[proc[w].run] = "success"
           /\ proc[w].snap \in Snapshot
           /\ change[c].before < proc[w].run
           /\ proc[w].snap.registries >= change[c].since
<1>1. change[c] \in ChangeRow
  BY ChangeTyped DEF CInv
<1>2. proc[w] \in ProcRow
  BY DEF CInv, IInv, TypeOK, ProcRow
<1>3. AtWork(w) /\ verifier[w].change = c
  BY DEF CanDecide, AtWork
<1>4. change[c].before < proc[w].run /\ change[c].since <= proc[w].since
  BY <1>3 DEF CInv, VerifiesLater
<1>5. change[c].status \notin {"none", "verified"}
  BY <1>3 DEF CInv, VerifiesAnnounced, AtWork, CanDecide, StillUndecided
<1>6. proc[w].since <= proc[w].snap.registries
  BY DEF CInv, HandedOnInOrder, CanDecide
<1>7. proc[w].snap.registries >= change[c].since
  BY <1>1, <1>2, <1>4, <1>6, BoundsAssumption DEF ChangeRow, ProcRow, Snapshot, Worlds
<1>8. proc[w].run \in RunIds
  BY <1>1, <1>2, <1>4, BoundsAssumption DEF ChangeRow, ProcRow, SyncIds, RunIds
<1>9. QED
  BY <1>1, <1>2, <1>4, <1>5, <1>7, <1>8 DEF CanDecide, ProcRow, CInv, HandedOnSucceeded

DisputeTable == [DisputeIds -> [change : Changes \union {"none"},
                                state : {"none", "open", "conceded", "passed"}]]

(* A verdict of verified.                                                  *)
LEMMA DecideVerifiedCInv ==
    ASSUME CInv, NEW w \in Workers, NEW c \in Changes, DecideVerified(w, c)
    PROVE  CInv'
<1> DEFINE row == [change[c] EXCEPT !.status = "verified", !.after = proc[w].run,
                                    !.seen = proc[w].snap]
<1>1. /\ change[c] \in ChangeRow /\ proc[w].run \in RunIds /\ run[proc[w].run] = "success"
      /\ proc[w].snap \in Snapshot
      /\ change[c].before < proc[w].run /\ proc[w].snap.registries >= change[c].since
  BY DecideFacts DEF DecideVerified
<1>2. row \in ChangeRow
  BY <1>1 DEF ChangeRow, ChangeStatuses, SyncIds
<1>3. /\ row.before = change[c].before /\ row.since = change[c].since
      /\ row.status = "verified" /\ row.seen = proc[w].snap /\ row.after = proc[w].run
  BY <1>1 DEF ChangeRow
<1>4. change' = [change EXCEPT ![c] = row]
  BY DEF DecideVerified
<1>5. proc[w].snap \in Meets[c]
  BY DEF DecideVerified, Matches
<1>6. /\ cited' \subseteq RunIds /\ \A j \in cited' : run[j] # "none"
      /\ \A b \in Changes : change[b].before \in cited => change[b].before \in cited'
      /\ \A b \in Changes \ {c} : change[b].after \in cited => change[b].after \in cited'
      /\ proc[w].run \in cited'
  BY <1>1, CiteFacts DEF DecideVerified
<1>7. dispute' \in DisputeTable /\ undone' \in 0..MaxUndone
  BY DEF DecideVerified, AfterPassing, CInv, ContractTypeOK, DisputeTable
<1>8. Done(w) /\ UNCHANGED <<world, run, catalog, status, proc>>
  BY DEF DecideVerified
<1> HIDE DEF row
<1>9. QED
  BY <1>1, <1>2, <1>3, <1>4, <1>5, <1>6, <1>7, <1>8, VerdictCInv DEF DisputeTable

(* A verdict of mismatch.                                                  *)
LEMMA DecideMismatchCInv ==
    ASSUME CInv, NEW w \in Workers, NEW c \in Changes, DecideMismatch(w, c)
    PROVE  CInv'
<1> DEFINE late == IF change[c].doubted < proc[w].run THEN proc[w].run ELSE change[c].doubted
           row == [change[c] EXCEPT !.status = "mismatch", !.after = proc[w].run,
                                    !.seen = proc[w].snap, !.doubted = late]
<1>1. /\ change[c] \in ChangeRow /\ proc[w].run \in RunIds /\ run[proc[w].run] = "success"
      /\ proc[w].snap \in Snapshot
  BY DecideFacts DEF DecideMismatch
<1>2. late \in SyncIds
  BY <1>1 DEF ChangeRow, SyncIds
<1>3. row \in ChangeRow
  BY <1>1, <1>2 DEF ChangeRow, ChangeStatuses, SyncIds
<1>4. /\ row.before = change[c].before /\ row.since = change[c].since
      /\ row.status = "mismatch" /\ row.after = proc[w].run
  BY <1>1 DEF ChangeRow
<1>5. change' = [change EXCEPT ![c] = row]
  BY DEF DecideMismatch
<1>6. /\ cited' \subseteq RunIds /\ \A j \in cited' : run[j] # "none"
      /\ \A b \in Changes : change[b].before \in cited => change[b].before \in cited'
      /\ \A b \in Changes \ {c} : change[b].after \in cited => change[b].after \in cited'
      /\ proc[w].run \in cited'
  BY <1>1, CiteFacts DEF DecideMismatch
<1>7. dispute' \in DisputeTable /\ undone' \in 0..MaxUndone
  BY DEF DecideMismatch, CInv, ContractTypeOK, DisputeTable
<1>8. Done(w) /\ UNCHANGED <<world, run, catalog, status, proc>>
  BY DEF DecideMismatch
<1> HIDE DEF row
<1>9. QED
  BY <1>1, <1>3, <1>4, <1>5, <1>6, <1>7, <1>8, VerdictCInv DEF DisputeTable

(* No verdict, because Home Assistant could not be read.                   *)
LEMMA UnavailableCInv ==
    ASSUME CInv, NEW w \in Workers, MarkChangeUnavailable(w)
    PROVE  CInv'
<1> DEFINE c == verifier[w].change
           row == [change[c] EXCEPT !.status = "unavailable"]
<1>1. c \in Changes /\ change' = [change EXCEPT ![c] = row] /\ Done(w)
      /\ UNCHANGED <<vars, dispute, undone>>
  BY DEF MarkChangeUnavailable, Verifying
<1>2. change[c] \in ChangeRow
  BY <1>1, ChangeTyped DEF CInv
<1>3. /\ row \in ChangeRow /\ row.before = change[c].before /\ row.since = change[c].since
      /\ row.status = "unavailable" /\ row.after = change[c].after
  BY <1>2 DEF ChangeRow, ChangeStatuses
<1>4. /\ cited' \subseteq RunIds /\ \A k \in cited' : run[k] # "none"
      /\ \A b \in Changes : change[b].before \in cited => change[b].before \in cited'
      /\ \A b \in Changes \ {c} : change[b].after \in cited => change[b].after \in cited'
      /\ change[c].after # 0 => change[c].after \in cited'
  BY <1>1 DEF vars, CInv, IInv, TypeOK, CitedHasRow, VerdictRow
<1>5. dispute' \in DisputeTable /\ undone' \in 0..MaxUndone
  BY <1>1 DEF CInv, ContractTypeOK, DisputeTable
<1>6. UNCHANGED <<world, run, catalog, status, proc>>
  BY <1>1 DEF vars
<1> HIDE DEF c, row
<1>7. QED
  BY <1>1, <1>3, <1>4, <1>5, <1>6, VerdictCInv DEF DisputeTable

(* An announcement notes the refresh in force, which has a row, and now.   *)
LEMMA BeginChangeCInv ==
    ASSUME CInv, NEW c \in Changes, BeginChange(c)
    PROVE  CInv'
<1>1. /\ change' = [change EXCEPT ![c].status = "pending", ![c].before = catalog.sync,
                                  ![c].since = world]
      /\ change[c].status = "none"
      /\ cited' = cited \union ({catalog.sync} \ {0})
      /\ UNCHANGED <<world, run, catalog, status, proc, dispute, undone, verifier>>
  BY DEF BeginChange
<1>2. change \in [Changes -> ChangeRow] /\ world \in Worlds /\ catalog.sync \in SyncIds
  BY DEF CInv, ContractTypeOK, ChangeRow, ChangeStatuses, TypeOK, SyncIds
<1>3. /\ change' \in [Changes -> ChangeRow]
      /\ change'[c].status = "pending" /\ change'[c].before = catalog.sync
      /\ change'[c].since = world /\ change'[c].after = change[c].after
      /\ \A b \in Changes \ {c} : change'[b] = change[b]
  <2> DEFINE row == [[[change[c] EXCEPT !.status = "pending"] EXCEPT !.before = catalog.sync]
                       EXCEPT !.since = world]
  <2>1. change[c] \in ChangeRow
    BY <1>2
  <2>2. /\ row \in ChangeRow
        /\ row.status = "pending" /\ row.before = catalog.sync /\ row.since = world
        /\ row.after = change[c].after
    BY <1>2, <2>1 DEF ChangeRow, ChangeStatuses
  <2>3. change' = [change EXCEPT ![c] = row]
    BY <1>1, <1>2
  <2> HIDE DEF row
  <2> QED
    BY <1>2, <2>2, <2>3
<1>4. catalog.sync # 0 => catalog.sync \in RunIds /\ run[catalog.sync] # "none"
  BY DEF CInv, IInv, IsLatestSuccess
<1>5. cited' \subseteq RunIds
  BY <1>1, <1>4 DEF CInv, IInv, TypeOK
<1>6. IInv'
  BY <1>1, <1>5, CitingIInv DEF CInv
<1>7. CitedHasRow'
  BY <1>1, <1>4 DEF CInv, CitedHasRow
<1>8. ContractTypeOK'
  BY <1>1, <1>3, <1>6 DEF IInv, CInv, ContractTypeOK, ChangeRow, ChangeStatuses
<1>9. AnnouncedAfterRow'
  <2>1. change'[c].since <= world'
    BY <1>1, <1>2, <1>3, BoundsAssumption DEF Worlds
  <2>2. \A b \in Changes : change'[b].before # 0 => change'[b].before \in cited'
    BY <1>1, <1>3 DEF CInv, AnnouncedAfterRow
  <2>3. QED
    BY <1>1, <1>3, <2>1, <2>2 DEF CInv, AnnouncedAfterRow
<1>10. \A w \in Workers : Verifying(w) => verifier[w].change # c
  BY <1>1 DEF CInv, VerifiesAnnounced
<1>11. VerifiesAnnounced' /\ VerifiesLater'
  BY <1>1, <1>3, <1>10 DEF CInv, VerifiesAnnounced, VerifiesLater, AtWork, Verifying, Active
<1>12. HandedOnInOrder' /\ HandedOnSucceeded' /\ VerdictRow' /\ VerifiedIsWitnessed'
  BY <1>1, <1>3 DEF CInv, HandedOnInOrder, HandedOnSucceeded, VerdictRow, VerifiedIsWitnessed
<1>13. QED
  BY <1>6, <1>7, <1>8, <1>9, <1>11, <1>12 DEF CInv

(* The remaining steps touch neither the changes nor what was read.        *)
LEMMA OtherCInv ==
    ASSUME CInv,
           \/ HomeAssistantChanges /\ UNCHANGED contract
           \/ \E w \in Workers : GiveUpVerify(w)
           \/ \E d \in DisputeIds : ResolveForHa(d) \/ RollbackResolution(d)
           \/ UNCHANGED allVars
    PROVE  CInv'
<1>1. CASE HomeAssistantChanges /\ UNCHANGED contract
  <2>1. IInv' /\ CitedHasRow'
    BY <1>1, ChangeInv, CitedStep DEF CInv, Next
  <2>2. world' = world + 1 /\ world \in Nat /\ UNCHANGED <<run, catalog, cited, status, proc>>
    BY <1>1, BoundsAssumption DEF HomeAssistantChanges, CInv, IInv, TypeOK, Worlds
  <2>3. \A c \in Changes : change[c].since \in Nat
    BY ChangeTyped, BoundsAssumption DEF CInv, ChangeRow, Worlds
  <2>4. AnnouncedAfterRow'
    BY <1>1, <2>2, <2>3 DEF CInv, AnnouncedAfterRow, contract
  <2>5. QED
    BY <1>1, <2>1, <2>2, <2>4 DEF CInv, IInv, ContractTypeOK, contract, VerifiesAnnounced, VerifiesLater,
       HandedOnInOrder, HandedOnSucceeded, VerdictRow, VerifiedIsWitnessed, AtWork, Verifying, Active
<1>2. CASE UNCHANGED <<vars, change>> /\ dispute' \in DisputeTable /\ undone' \in 0..MaxUndone
           /\ \/ UNCHANGED verifier
              \/ \E w \in Workers : Done(w)
  <2>1. UNCHANGED <<world, run, catalog, cited, status, proc, change>>
    BY <1>2 DEF vars
  <2>2. IInv' /\ CitedHasRow'
    BY <1>2, NextInv, CitedStep DEF CInv
  <2>3. verifier' \in [Workers -> VerifierRow]
        /\ \A w \in Workers : Verifying(w)' => Verifying(w) /\ verifier'[w] = verifier[w]
    BY <1>2, ContractAssumption DEF CInv, ContractTypeOK, VerifierRow, Done, NoVerifier, Verifying
  <2>4. ContractTypeOK'
    BY <1>2, <2>1, <2>2, <2>3 DEF IInv, CInv, ContractTypeOK, VerifierRow, DisputeTable
  <2>5. /\ AnnouncedAfterRow' /\ VerdictRow' /\ HandedOnInOrder' /\ HandedOnSucceeded'
        /\ VerifiedIsWitnessed'
    BY <2>1 DEF CInv, AnnouncedAfterRow, VerdictRow, HandedOnInOrder, HandedOnSucceeded,
       VerifiedIsWitnessed
  <2>6. VerifiesAnnounced' /\ VerifiesLater'
    BY <2>1, <2>3 DEF CInv, VerifiesAnnounced, VerifiesLater, AtWork, Active
  <2>7. QED
    BY <2>2, <2>4, <2>5, <2>6 DEF CInv
<1>3. dispute \in DisputeTable /\ undone \in 0..MaxUndone
  BY DEF CInv, ContractTypeOK, DisputeTable
<1>4. CASE \E w \in Workers : GiveUpVerify(w)
  BY <1>2, <1>3, <1>4 DEF GiveUpVerify
<1>5. CASE \E d \in DisputeIds : ResolveForHa(d) \/ RollbackResolution(d)
  <2>1. dispute' \in DisputeTable /\ undone' \in 0..MaxUndone
    BY <1>3, <1>5, ContractAssumption DEF ResolveForHa, RollbackResolution, DisputeTable
  <2>2. QED
    BY <1>2, <1>5, <2>1 DEF ResolveForHa, RollbackResolution
<1>6. CASE UNCHANGED allVars
  BY <1>2, <1>3, <1>6 DEF allVars, contract
<1>7. QED
  BY <1>1, <1>4, <1>5, <1>6

(* Before anything is announced the invariant holds.                       *)
LEMMA ContractInitInv == ContractInit => CInv
<1> SUFFICES ASSUME ContractInit PROVE CInv
  OBVIOUS
<1>1. IInv
  BY InitInv DEF ContractInit
<1>2. CitedHasRow
  BY DEF ContractInit, Init, CitedHasRow
<1>3. Unread \in Snapshot /\ 0 \in Worlds
  BY BoundsAssumption DEF Unread, Snapshot, Worlds
<1>4. ContractTypeOK
  BY <1>1, <1>3, ContractAssumption DEF IInv, ContractInit, ContractTypeOK, SyncIds, NoVerifier
<1>5. \A c \in Changes : /\ change[c].before = 0 /\ change[c].since = 0
                        /\ change[c].after = 0 /\ change[c].status = "none"
  BY DEF ContractInit
<1>6. \A w \in Workers : ~Verifying(w) /\ proc[w].at = "idle"
  BY ContractAssumption DEF ContractInit, Init, Verifying, NoVerifier
<1>7. world = 0
  BY DEF ContractInit, Init
<1>8. QED
  BY <1>1, <1>2, <1>4, <1>5, <1>6, <1>7 DEF CInv, AnnouncedAfterRow, VerifiesAnnounced, VerifiesLater,
     AtWork, VerdictRow, HandedOnInOrder, HandedOnSucceeded, VerifiedIsWitnessed

(* Every step keeps the invariant.                                         *)
LEMMA ContractNextInv == CInv /\ [ContractNext]_allVars => CInv'
<1> SUFFICES ASSUME CInv, [ContractNext]_allVars PROVE CInv'
  OBVIOUS
<1>1. CASE \E w \in Workers :
             \/ \E c \in Changes : BeginVerify(w, c)
             \/ Retry(w) \/ OwnRefresh(w) \/ OtherRefresh(w) \/ VerifierCrashes(w)
  BY <1>1, AnyRefreshCInv
<1>2. CASE \E c \in Changes : BeginChange(c)
  BY <1>2, BeginChangeCInv
<1>3. CASE \E w \in Workers : \/ MarkChangeUnavailable(w)
                              \/ \E c \in Changes : DecideVerified(w, c) \/ DecideMismatch(w, c)
  BY <1>3, UnavailableCInv, DecideVerifiedCInv, DecideMismatchCInv
<1>4. CASE \/ HomeAssistantChanges /\ UNCHANGED contract
           \/ \E w \in Workers : GiveUpVerify(w)
           \/ \E d \in DisputeIds : ResolveForHa(d) \/ RollbackResolution(d)
           \/ UNCHANGED allVars
  BY <1>4, OtherCInv
<1>5. QED
  BY <1>1, <1>2, <1>3, <1>4 DEF ContractNext

-----------------------------------------------------------------------------
(* What follows                                                            *)

(* The tables of changes and disputes are always typed.                    *)
THEOREM ContractTypeCorrect == ContractSpec => []ContractTypeOK
<1>1. CInv => ContractTypeOK
  BY DEF CInv
<1>2. QED
  BY <1>1, ContractInitInv, ContractNextInv, PTL DEF ContractSpec

(* A change is only verified against a picture that meets its contract and *)
(* was read, all of it, after the announcement, by a refresh that has a    *)
(* later id, succeeded and is still on record: whatever other refreshes    *)
(* fail, crash or overtake it, and whatever rows are pruned meanwhile.     *)
THEOREM VerifiedWasWitnessed == ContractSpec => []VerifiedIsWitnessed
<1>1. CInv => VerifiedIsWitnessed
  BY DEF CInv
<1>2. QED
  BY <1>1, ContractInitInv, ContractNextInv, PTL DEF ContractSpec

(* No process that read the change before it was verified, and decides or  *)
(* gives up after, takes the verdict back.                                 *)
THEOREM VerifiedStaysVerified == ContractSpec => VerifiedIsFinal
<1> DEFINE Kept == \A c \in Changes : change[c].status = "verified" => change'[c] = change[c]
<1>1. CInv /\ [ContractNext]_allVars => Kept
  <2> SUFFICES ASSUME CInv, [ContractNext]_allVars,
                      NEW c \in Changes, change[c].status = "verified"
               PROVE  change'[c] = change[c]
    OBVIOUS
  <2>1. change \in [Changes -> ChangeRow]
    BY DEF CInv, ContractTypeOK, ChangeRow, ChangeStatuses
  <2>2. CASE \E b \in Changes : BeginChange(b)
    <3>1. PICK b \in Changes : BeginChange(b)
      BY <2>2
    <3>2. b # c
      BY <3>1 DEF BeginChange
    <3>3. QED
      BY <2>1, <3>1, <3>2 DEF BeginChange
  <2>3. CASE \E w \in Workers, b \in Changes : DecideVerified(w, b) \/ DecideMismatch(w, b)
    <3>1. PICK w \in Workers, b \in Changes : DecideVerified(w, b) \/ DecideMismatch(w, b)
      BY <2>3
    <3>2. b # c
      BY <3>1 DEF DecideVerified, DecideMismatch, CanDecide, StillUndecided
    <3>3. QED
      BY <2>1, <3>1, <3>2 DEF DecideVerified, DecideMismatch
  <2>4. CASE \E w \in Workers : MarkChangeUnavailable(w)
    <3>1. PICK w \in Workers : MarkChangeUnavailable(w)
      BY <2>4
    <3>2. verifier[w].change # c
      BY <3>1 DEF MarkChangeUnavailable, StillUndecided
    <3>3. QED
      BY <2>1, <3>1, <3>2 DEF MarkChangeUnavailable
  <2>5. CASE UNCHANGED change
    BY <2>5
  <2>6. QED
    BY <2>2, <2>3, <2>4, <2>5 DEF ContractNext, BeginVerify, Retry, GiveUpVerify, ResolveForHa,
       RollbackResolution, OwnRefresh, OtherRefresh, VerifierCrashes, contract, allVars
<1>2. QED
  BY <1>1, ContractInitInv, ContractNextInv, PTL DEF ContractSpec, VerifiedIsFinal

(* Who opens a conflict about a change looks for an open one, and who      *)
(* verifies the change closes it; nobody comes between in one transaction. *)
THEOREM VerifiedDisputesEnd == ContractSpec => []VerifiedSettlesDispute
<1>1. ContractInit => VerifiedSettlesDispute
  BY DEF ContractInit, VerifiedSettlesDispute, IsOpen
<1>2. CInv /\ VerifiedSettlesDispute /\ [ContractNext]_allVars => VerifiedSettlesDispute'
  <2> SUFFICES ASSUME CInv, VerifiedSettlesDispute, [ContractNext]_allVars, undone' = 0,
                      NEW c \in Changes, NEW d \in DisputeIds, IsOpen(d, c)'
               PROVE  /\ change'[c].status # "verified"
                      /\ \A e \in DisputeIds : IsOpen(e, c)' => d = e
    BY DEF VerifiedSettlesDispute
  <2>1. dispute \in DisputeTable /\ change \in [Changes -> ChangeRow] /\ undone \in Nat
    BY ContractAssumption DEF CInv, ContractTypeOK, DisputeTable, ChangeRow, ChangeStatuses
  <2>2. undone = 0
    <3>1. UNCHANGED undone \/ \E f \in DisputeIds : RollbackResolution(f)
      BY DEF ContractNext, BeginChange, BeginVerify, Retry, MarkChangeUnavailable, DecideVerified,
         DecideMismatch, GiveUpVerify, ResolveForHa, OwnRefresh, OtherRefresh, VerifierCrashes,
         contract, allVars
    <3>2. QED
      BY <2>1, <3>1 DEF RollbackResolution
  <2>3. CASE UNCHANGED <<change, dispute>>
    BY <2>2, <2>3 DEF VerifiedSettlesDispute, IsOpen
  <2>4. CASE \E b \in Changes : BeginChange(b)
    <3>1. PICK b \in Changes : BeginChange(b)
      BY <2>4
    <3>2. UNCHANGED dispute /\ change'[c].status \in {"pending", change[c].status}
      BY <2>1, <3>1 DEF BeginChange, ChangeRow
    <3>3. QED
      BY <2>2, <3>2 DEF VerifiedSettlesDispute, IsOpen
  <2>5. CASE \E w \in Workers : MarkChangeUnavailable(w)
    <3>1. UNCHANGED dispute /\ change'[c].status \in {"unavailable", change[c].status}
      BY <2>1, <2>5 DEF MarkChangeUnavailable, ChangeRow
    <3>2. QED
      BY <2>2, <3>1 DEF VerifiedSettlesDispute, IsOpen
  <2>6. CASE \E w \in Workers, b \in Changes : DecideVerified(w, b)
    <3>1. PICK w \in Workers, b \in Changes : DecideVerified(w, b)
      BY <2>6
    <3>2. dispute' = AfterPassing(b)
      BY <3>1 DEF DecideVerified
    <3>3. \A e \in DisputeIds, a \in Changes : IsOpen(e, a)' => IsOpen(e, a) /\ a # b
      BY <3>2 DEF AfterPassing, IsOpen
    <3>4. change'[c] = change[c]
      BY <2>1, <3>1, <3>3 DEF DecideVerified
    <3>5. QED
      BY <2>2, <3>3, <3>4 DEF VerifiedSettlesDispute
  <2>7. CASE \E w \in Workers, b \in Changes : DecideMismatch(w, b)
    <3>1. PICK w \in Workers, b \in Changes : DecideMismatch(w, b)
      BY <2>7
    <3>2. change'[c].status \in {"mismatch", change[c].status}
          /\ (c # b => change'[c] = change[c]) /\ change'[b].status = "mismatch"
      BY <2>1, <3>1 DEF DecideMismatch, ChangeRow
    <3>3. CASE UNCHANGED dispute
      BY <2>2, <3>2, <3>3 DEF VerifiedSettlesDispute, IsOpen
    <3>4. CASE dispute' # dispute
      <4>1. PICK f \in DisputeIds :
              dispute' = [dispute EXCEPT ![f] = [change |-> b, state |-> "open"]]
        BY <3>1, <3>4 DEF DecideMismatch
      <4>2. \A e \in DisputeIds : ~IsOpen(e, b)
        BY <3>1, <3>4 DEF DecideMismatch
      <4>3. \A e \in DisputeIds, a \in Changes :
              IsOpen(e, a)' => IsOpen(e, a) \/ (e = f /\ a = b)
        BY <2>1, <4>1 DEF IsOpen, DisputeTable
      <4>4. QED
        BY <2>1, <2>2, <3>2, <4>1, <4>2, <4>3 DEF VerifiedSettlesDispute, IsOpen, DisputeTable
    <3>5. QED
      BY <3>3, <3>4
  <2>8. CASE \E f \in DisputeIds : ResolveForHa(f)
    <3>1. PICK f \in DisputeIds : ResolveForHa(f)
      BY <2>8
    <3>2. \A e \in DisputeIds, a \in Changes : IsOpen(e, a)' => IsOpen(e, a)
      BY <2>1, <3>1 DEF ResolveForHa, IsOpen, DisputeTable
    <3>3. UNCHANGED change
      BY <3>1 DEF ResolveForHa
    <3>4. QED
      BY <2>2, <3>2, <3>3 DEF VerifiedSettlesDispute
  <2>9. ~\E f \in DisputeIds : RollbackResolution(f)
    BY <2>1, <2>2 DEF RollbackResolution
  <2>10. QED
    BY <2>3, <2>4, <2>5, <2>6, <2>7, <2>8, <2>9 DEF ContractNext, BeginVerify, Retry, GiveUpVerify,
       OwnRefresh, OtherRefresh, VerifierCrashes, contract, allVars
<1>3. QED
  BY <1>1, <1>2, ContractInitInv, ContractNextInv, PTL DEF ContractSpec

=============================================================================
