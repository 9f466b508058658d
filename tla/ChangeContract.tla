---------------------------- MODULE ChangeContract ----------------------------
(***************************************************************************)
(* Changes of Home Assistant that are announced before they are made and   *)
(* verified afterwards (beginMemoryChange and verifyMemoryChange), on top  *)
(* of the catalog refreshes of CatalogSync: a verification runs up to two  *)
(* refreshes of its own, compares what it read with the contract, and      *)
(* records the verdict in a transaction of its own.                        *)
(*                                                                         *)
(* A contract is the set of pictures of Home Assistant that satisfy it.    *)
(* `since', `seen' and `doubted' are history components: when a change was *)
(* announced, what its last verdict is about, and the latest refresh that  *)
(* a verification found not to match.                                      *)
(***************************************************************************)
EXTENDS CatalogSync

CONSTANTS
    Changes,       \* the changes that may be announced
    Meets,         \* the snapshots that satisfy each change's contract
    MaxDisputes,   \* bound on the conflicts about change results
    MaxUndone      \* bound on the resolutions that are rolled back

ASSUME ContractAssumption ==
    /\ "none" \notin Changes
    /\ Meets \in [Changes -> SUBSET Snapshot]
    /\ MaxDisputes \in Nat /\ MaxUndone \in Nat

DisputeIds == 1..MaxDisputes
SyncIds == RunIds \union {0}

VARIABLES
    change,      \* change_records
    dispute,     \* the conflicts opened by mismatches
    undone,      \* how many resolutions have been rolled back
    verifier     \* the change a process verifies, and how many refreshes it began

contract == <<change, dispute, undone, verifier>>
allVars == <<vars, contract>>

NoVerifier == [change |-> "none", tries |-> 0]

ContractInit ==
    /\ Init
    /\ change = [c \in Changes |->
                   [status |-> "none", before |-> 0, after |-> 0,
                    since |-> 0, seen |-> Unread, doubted |-> 0]]
    /\ dispute = [d \in DisputeIds |-> [change |-> "none", state |-> "none"]]
    /\ undone = 0
    /\ verifier = [w \in Workers |-> NoVerifier]

Verifying(w) == verifier[w].change \in Changes
IsOpen(d, c) == dispute[d] = [change |-> c, state |-> "open"]

-----------------------------------------------------------------------------
(* beginMemoryChange                                                       *)
BeginChange(c) ==
    /\ change[c].status = "none"
    /\ change' = [change EXCEPT ![c].status = "pending", ![c].before = catalog.sync,
                                ![c].since = world]
    /\ cited' = cited \union ({catalog.sync} \ {0})
    /\ UNCHANGED <<world, run, catalog, status, proc, dispute, undone, verifier>>

(* verifyMemoryChange: the change must not be verified already, and the    *)
(* refresh is forced.                                                      *)
BeginVerify(w, c) ==
    /\ ~Verifying(w)
    /\ change[c].status \in {"pending", "unavailable", "mismatch"}
    /\ Begin(w)
    /\ verifier' = [verifier EXCEPT ![w] = [change |-> c, tries |-> 1]]
    /\ UNCHANGED <<change, dispute, undone>>

(* A refresh that was superseded is tried once more.                       *)
Retry(w) ==
    /\ Verifying(w) /\ verifier[w].tries = 1
    /\ proc[w].at = "superseded"
    /\ Begin(w)
    /\ verifier' = [verifier EXCEPT ![w].tries = 2]
    /\ UNCHANGED <<change, dispute, undone>>

Done(w) == verifier' = [verifier EXCEPT ![w] = NoVerifier]

(* Both transactions read the change again.                                *)
StillUndecidedUnread(c) == TRUE      \* mutant: what was read before the refresh is trusted
StillUndecided(c) == change[c].status # "verified"

(* markChangeUnavailable, after a refresh that failed, could not begin, or *)
(* was superseded twice.                                                   *)
MarkChangeUnavailable(w) ==
    /\ Verifying(w)
    /\ proc[w].at \in {"failed", "superseded"}
    /\ LET c == verifier[w].change IN
         /\ StillUndecided(c)
         /\ change' = [change EXCEPT ![c].status = "unavailable"]
    /\ Done(w)
    /\ UNCHANGED <<vars, dispute, undone>>

(* verifyExpectations compares the snapshot this very refresh read.        *)
MatchesRegistries(c, snap) ==     \* mutant: automation details are not compared
    \E m \in Meets[c] : m.registries = snap.registries
Matches(c, snap) == snap \in Meets[c]

(* The new after_sync_id replaces the old, which may then be pruned unless *)
(* something else refers to it.                                            *)
CiteVerdict(c, k) ==
    \E drop \in SUBSET ({change[c].after} \ ({change[b].before : b \in Changes}
                                            \union {change[b].after : b \in Changes \ {c}})) :
        cited' = (cited \ drop) \union {k}

(* A superseded refresh hands on what it read too, but it is not used.     *)
CanDecideSuperseded(w, c) ==      \* mutant: what a superseded refresh read is used
    /\ Verifying(w) /\ verifier[w].change = c
    /\ proc[w].at \in {"success", "superseded"}
    /\ StillUndecided(c)
    /\ run[proc[w].run] # "none"
CanDecide(w, c) ==
    /\ Verifying(w) /\ verifier[w].change = c
    /\ proc[w].at = "success"
    /\ StillUndecided(c)
    /\ run[proc[w].run] # "none"       \* the foreign key after_sync_id

(* The conflicts about a change that now is as announced.                  *)
AfterPassingUnclosed(c) == dispute      \* mutant: they are left open
AfterPassing(c) ==
    [d \in DisputeIds |-> IF IsOpen(d, c) THEN [change |-> c, state |-> "passed"]
                          ELSE dispute[d]]

DecideVerified(w, c) ==
    /\ CanDecide(w, c)
    /\ Matches(c, proc[w].snap)
    /\ change' = [change EXCEPT ![c].status = "verified", ![c].after = proc[w].run,
                                ![c].seen = proc[w].snap]
    /\ dispute' = AfterPassing(c)
    /\ CiteVerdict(c, proc[w].run)
    /\ Done(w)
    /\ UNCHANGED <<world, run, catalog, status, proc, undone>>

(* A mismatch opens a conflict unless one is open already.                 *)
DecideMismatch(w, c) ==
    /\ CanDecide(w, c)
    /\ ~Matches(c, proc[w].snap)
    /\ change' = [change EXCEPT ![c].status = "mismatch", ![c].after = proc[w].run,
                                ![c].seen = proc[w].snap,
                                ![c].doubted = IF @ < proc[w].run THEN proc[w].run ELSE @]
    /\ IF \E d \in DisputeIds : IsOpen(d, c)
       THEN UNCHANGED dispute
       ELSE \E d \in DisputeIds :
              /\ \A e \in DisputeIds : dispute[e].state = "none" <=> e >= d
              /\ dispute' = [dispute EXCEPT ![d] = [change |-> c, state |-> "open"]]
    /\ CiteVerdict(c, proc[w].run)
    /\ Done(w)
    /\ UNCHANGED <<world, run, catalog, status, proc, undone>>

(* change_closed: another process decided first; or a transaction fails.   *)
GiveUpVerify(w) ==
    /\ Verifying(w) /\ ~Active(w)
    /\ Done(w)
    /\ UNCHANGED <<vars, change, dispute, undone>>

(* resolveMemoryConflict in favour of ha, while the mismatch still stands. *)
ResolveForHa(d) ==
    /\ dispute[d].state = "open"
    /\ change[dispute[d].change].status = "mismatch"
    /\ dispute' = [dispute EXCEPT ![d].state = "conceded"]
    /\ UNCHANGED <<vars, change, undone, verifier>>

(* rollbackMemoryEvent of such a resolution puts the open row back.        *)
RollbackResolution(d) ==
    /\ undone < MaxUndone
    /\ dispute[d].state = "conceded"
    /\ dispute' = [dispute EXCEPT ![d].state = "open"]
    /\ undone' = undone + 1
    /\ UNCHANGED <<vars, change, verifier>>

(* Refreshes go on: those of verifications, and those of other callers.    *)
OwnRefresh(w) ==
    /\ Verifying(w)
    /\ ReadRegistries(w) \/ ReadAutomations(w) \/ Supersede(w) \/ Install(w) \/ Fail(w)
    /\ UNCHANGED contract
OtherRefresh(w) == ~Verifying(w) /\ Refresh(w) /\ UNCHANGED contract
VerifierCrashes(w) ==
    /\ Verifying(w) /\ Crash(w)
    /\ Done(w)
    /\ UNCHANGED <<change, dispute, undone>>

ContractNext ==
    \/ HomeAssistantChanges /\ UNCHANGED contract
    \/ \E c \in Changes : BeginChange(c)
    \/ \E w \in Workers, c \in Changes : BeginVerify(w, c)
    \/ \E w \in Workers : Retry(w)
    \/ \E w \in Workers : MarkChangeUnavailable(w)
    \/ \E w \in Workers, c \in Changes : DecideVerified(w, c)
    \/ \E w \in Workers, c \in Changes : DecideMismatch(w, c)
    \/ \E w \in Workers : GiveUpVerify(w)
    \/ \E d \in DisputeIds : ResolveForHa(d)
    \/ \E d \in DisputeIds : RollbackResolution(d)
    \/ \E w \in Workers : OwnRefresh(w)
    \/ \E w \in Workers : OtherRefresh(w)
    \/ \E w \in Workers : VerifierCrashes(w)

ContractSpec == ContractInit /\ [][ContractNext]_allVars

-----------------------------------------------------------------------------
(* Properties                                                              *)

(* Every variable has the values of its table.                             *)
ContractTypeOK ==
    /\ TypeOK
    /\ change \in [Changes -> [status : {"none", "pending", "unavailable", "mismatch", "verified"},
                               before : SyncIds, after : SyncIds, since : Worlds,
                               seen : Snapshot, doubted : SyncIds]]
    /\ dispute \in [DisputeIds -> [change : Changes \union {"none"},
                                   state : {"none", "open", "conceded", "passed"}]]
    /\ undone \in 0..MaxUndone
    /\ verifier \in [Workers -> [change : Changes \union {"none"}, tries : 0..2]]

(* A verified change was met by a picture of Home Assistant all of which   *)
(* was read after the change was announced, by a refresh later than the    *)
(* one it was announced after.  That refresh was installed, not superseded *)
(* or failed, and the row that after_sync_id names still says so, whatever *)
(* later refreshes prune (verifyMemoryChange, pruneTerminalSyncRuns).      *)
VerifiedIsWitnessed ==
    \A c \in Changes :
        change[c].status = "verified" =>
            /\ change[c].seen \in Meets[c]
            /\ change[c].seen.registries >= change[c].since
            /\ change[c].before < change[c].after
            /\ run[change[c].after] = "success"

(* A verdict of verified is final: no verification that was under way at   *)
(* the time, and read the change before it, takes it back.                 *)
VerifiedIsFinal ==
    [][\A c \in Changes : change[c].status = "verified" => change'[c] = change[c]]_allVars

(* Unless a resolution is rolled back, a verified change has no open       *)
(* conflict, and no change has two.                                        *)
VerifiedSettlesDispute ==
    undone = 0 =>
        \A c \in Changes, d, e \in DisputeIds :
            IsOpen(d, c) => change[c].status # "verified" /\ (IsOpen(e, c) => d = e)

(* A conflict is closed with "later_api_verification_passed" by a          *)
(* verification later than the one that opened it.  The code breaks this:  *)
(* see the README.                                                         *)
PassedIsLater ==
    \A d \in DisputeIds :
        dispute[d].state = "passed" =>
            change[dispute[d].change].after > change[dispute[d].change].doubted

=============================================================================
