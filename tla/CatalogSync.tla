------------------------------ MODULE CatalogSync ------------------------------
(***************************************************************************)
(* The refreshes of the memory catalog in ha-memory-core.mjs.  Any number  *)
(* of processes refresh it at once: the daemon, the CLI, and the MCP tools *)
(* that verify a candidate or a change.  Each stores a row in sync_runs,   *)
(* reads Home Assistant outside any transaction, and then installs what it *)
(* read in one transaction unless a refresh that began later already has.  *)
(*                                                                         *)
(* What the catalog means for memories is in MemoryStore; here its content *)
(* is the moments at which Home Assistant was read.  `since' is a history  *)
(* component: the moment a refresh began.                                  *)
(***************************************************************************)
EXTENDS Naturals, FiniteSets

CONSTANTS
    Workers,      \* processes that refresh the catalog
    Nothing,      \* an empty catalog
    Retention,    \* TERMINAL_SYNC_RUN_RETENTION
    MaxWorld,     \* bound on the changes of Home Assistant
    MaxRuns       \* bound on the rows of sync_runs

ASSUME RetentionAssumption == Retention \in Nat \ {0}
ASSUME BoundsAssumption == MaxWorld \in Nat /\ MaxRuns \in Nat

Worlds == 0..MaxWorld
RunIds == 1..MaxRuns
Snapshot == [registries : Worlds, automations : Worlds]
ASSUME NothingAssumption == Nothing \notin Snapshot

Unread == [registries |-> 0, automations |-> 0]
Progress == {"reading", "detailing", "applying"}
Outcomes == {"idle", "fresh", "success", "superseded", "failed"}

VARIABLES
    world,    \* how often Home Assistant has changed
    run,      \* the status of each row of sync_runs, "none" where there is no row
    catalog,  \* the active catalog: what it shows, and the refresh that installed it
    cited,    \* the sync ids that revisions, inactive rows, audit events and changes name
    status,   \* metadata catalog_status
    proc      \* what each process is doing

vars == <<world, run, catalog, cited, status, proc>>

Init ==
    /\ world = 0
    /\ run = [k \in RunIds |-> "none"]
    /\ catalog = [snap |-> Nothing, sync |-> 0, since |-> 0]
    /\ cited = {}
    /\ status = "empty"
    /\ proc = [w \in Workers |-> [at |-> "idle", run |-> 0, since |-> 0, snap |-> Unread]]

Active(w) == proc[w].at \in Progress
Advance(w, p) == proc' = [proc EXCEPT ![w] = p]
Rest(w, outcome) == Advance(w, [at |-> outcome, run |-> 0, since |-> 0, snap |-> Unread])

(* latestSuccessfulSyncId                                                  *)
IsLatestSuccess(rows, k) ==
    \/ k = 0 /\ \A j \in RunIds : rows[j] # "success"
    \/ k \in RunIds /\ rows[k] = "success" /\ \A j \in RunIds : rows[j] = "success" => j <= k

(* pruneTerminalSyncRuns: the newest rows stay, and every row that         *)
(* something in the database refers to.                                    *)
Terminal(rows) == {k \in RunIds : rows[k] \in {"success", "failed"}}
ProtectedOnlyNewest(rows, cites, sync) ==      \* mutant: references are forgotten
    {k \in RunIds : Cardinality({j \in Terminal(rows) : j > k}) < Retention}
Protected(rows, cites, sync) ==
    {k \in RunIds : Cardinality({j \in Terminal(rows) : j > k}) < Retention}
        \union cites \union {sync}
Pruned(rows, cites, sync) ==
    [k \in RunIds |-> IF k \in Terminal(rows) \ Protected(rows, cites, sync)
                      THEN "none" ELSE rows[k]]

-----------------------------------------------------------------------------
HomeAssistantChanges ==
    /\ world < MaxWorld
    /\ world' = world + 1
    /\ UNCHANGED <<run, catalog, cited, status, proc>>

(* refreshMemory with --if-stale, when the last success is recent enough.  *)
FindFresh(w) ==
    /\ ~Active(w)
    /\ status = "ready"
    /\ Rest(w, "fresh")
    /\ UNCHANGED <<world, run, catalog, cited, status>>

(* beginSync: the row id is one above the largest in the table.            *)
Begin(w) ==
    /\ ~Active(w)
    /\ \E k \in RunIds :
         /\ \A j \in RunIds : j >= k => run[j] = "none"
         /\ k > 1 => run[k - 1] # "none"
         /\ run' = [run EXCEPT ![k] = "running"]
         /\ Advance(w, [at |-> "reading", run |-> k, since |-> world, snap |-> Unread])
    /\ UNCHANGED <<world, catalog, cited, status>>

(* fetchHomeAssistantSnapshot asks for the registries and states at once,  *)
(* and then for the details of each automation it found among them.        *)
ReadRegistries(w) ==
    /\ proc[w].at = "reading"
    /\ Advance(w, [proc[w] EXCEPT !.at = "detailing", !.snap.registries = world])
    /\ UNCHANGED <<world, run, catalog, cited, status>>

ReadAutomationsFirst(w) ==      \* mutant: the details come first
    /\ proc[w].at = "detailing"
    /\ Advance(w, [proc[w] EXCEPT !.at = "applying",
                      !.snap = [registries |-> world, automations |-> @.registries]])
    /\ UNCHANGED <<world, run, catalog, cited, status>>
ReadAutomations(w) ==
    /\ proc[w].at = "detailing"
    /\ Advance(w, [proc[w] EXCEPT !.at = "applying", !.snap.automations = world])
    /\ UNCHANGED <<world, run, catalog, cited, status>>

(* applyNormalizedSnapshot finds a success with a larger id.  The caller   *)
(* still holds what was read.                                              *)
NewerSuccessNever(k) == FALSE      \* mutant: the check is left out
NewerSuccess(k) == \E j \in RunIds : j > k /\ run[j] = "success"
Supersede(w) ==
    /\ proc[w].at = "applying"
    /\ NewerSuccess(proc[w].run)
    /\ run' = Pruned([run EXCEPT ![proc[w].run] = "failed"], cited, catalog.sync)
    /\ Advance(w, [proc[w] EXCEPT !.at = "superseded"])
    /\ UNCHANGED <<world, catalog, cited, status>>

(* It installs what was read.  Revisions and audit events name the new     *)
(* refresh if it changed anything; rows of objects that are gone keep the  *)
(* name of the refresh that last saw them.                                 *)
Install(w) ==
    /\ proc[w].at = "applying"
    /\ ~NewerSuccess(proc[w].run)
    /\ catalog' = [snap |-> proc[w].snap, sync |-> proc[w].run, since |-> proc[w].since]
    /\ \E changed, removed \in BOOLEAN :
         /\ removed => changed /\ catalog.sync # 0
         /\ cited' = cited \union (IF changed THEN {proc[w].run} ELSE {})
                           \union (IF removed THEN {catalog.sync} ELSE {})
    /\ status' = "ready"
    /\ run' = Pruned([run EXCEPT ![proc[w].run] = "success"], cited', proc[w].run)
    /\ Advance(w, [proc[w] EXCEPT !.at = "success"])
    /\ UNCHANGED world

(* failSync: Home Assistant cannot be read, answers something malformed,   *)
(* or the transaction fails.                                               *)
StatusAfterFailureCode(k) == IF NewerSuccess(k) THEN "ready" ELSE "failed"   \* mutant
StatusAfterFailureDowngrade(k) ==     \* mutant: a later success is not looked for
    IF catalog.sync # 0 THEN "stale" ELSE "degraded"
StatusAfterFailure(k) ==
    IF NewerSuccess(k) THEN "ready"
    ELSE IF \E j \in RunIds : run[j] = "success" THEN "stale" ELSE "degraded"
Fail(w) ==
    /\ Active(w)
    /\ status' = StatusAfterFailure(proc[w].run)
    /\ run' = Pruned([run EXCEPT ![proc[w].run] = "failed"], cited, catalog.sync)
    /\ Rest(w, "failed")
    /\ UNCHANGED <<world, catalog, cited>>

(* The process is killed, or failSync cannot begin its transaction either: *)
(* the row stays running.                                                  *)
Crash(w) ==
    /\ Active(w)
    /\ Rest(w, "idle")
    /\ UNCHANGED <<world, run, catalog, cited, status>>

Refresh(w) ==
    \/ FindFresh(w) \/ Begin(w) \/ ReadRegistries(w) \/ ReadAutomations(w)
    \/ Supersede(w) \/ Install(w) \/ Fail(w) \/ Crash(w)

Next == HomeAssistantChanges \/ \E w \in Workers : Refresh(w)

Spec == Init /\ [][Next]_vars

-----------------------------------------------------------------------------
(* Properties                                                              *)

(* Every variable has the values of its table or metadata entry.           *)
TypeOK ==
    /\ world \in Worlds
    /\ run \in [RunIds -> {"none", "running", "success", "failed"}]
    /\ catalog \in [snap : Snapshot \union {Nothing}, sync : RunIds \union {0}, since : Worlds]
    /\ cited \subseteq RunIds
    /\ status \in {"empty", "ready", "stale", "degraded"}
    /\ proc \in [Workers -> [at : Progress \union Outcomes, run : RunIds \union {0},
                             since : Worlds, snap : Snapshot]]

(* A caller whose refresh succeeded, or was superseded, finds a catalog in *)
(* which nothing is older than its call, although the refresh ids that     *)
(* applyNormalizedSnapshot compares say nothing of when data was read.     *)
NotOlderThan(t) ==
    /\ catalog.snap # Nothing
    /\ catalog.snap.registries >= t
    /\ catalog.snap.automations >= t
ReturnIsFresh ==
    \A w \in Workers :
        proc[w].at \in {"success", "superseded"} => NotOlderThan(proc[w].since)

(* Whatever names a refresh can be looked up: pruneTerminalSyncRuns never  *)
(* deletes a row that a foreign key or an audit event refers to, nor the   *)
(* row of a refresh that is still under way.                               *)
CitationsResolve ==
    /\ \A k \in cited \union ({catalog.sync} \ {0}) : run[k] # "none"
    /\ \A w \in Workers : Active(w) => run[proc[w].run] = "running"

(* The stored status tells the truth about the last success: a store that  *)
(* is stale has a refresh that failed after the one in force began, one    *)
(* that is degraded has never had a success ("A late failure from an older *)
(* refresh cannot downgrade a newer successful catalog", ha_memory_test).  *)
StatusExplained ==
    /\ IsLatestSuccess(run, catalog.sync)
    /\ status = "stale" => \E k \in RunIds : k > catalog.sync /\ run[k] = "failed"
    /\ status = "degraded" => catalog.sync = 0
    /\ status = "ready" => catalog.sync # 0

(* The catalog implements the register: what callers are told is what      *)
(* FreshRegister promises.                                                 *)
Asked == [w \in Workers |-> proc[w].since]
Answers == [w \in Workers |-> IF Active(w) THEN "waiting"
                              ELSE IF proc[w].at \in {"success", "superseded"} THEN "current"
                              ELSE "none"]
Register == INSTANCE FreshRegister WITH
    held <- catalog.snap, asOf <- catalog.since, asked <- Asked, answer <- Answers
ImplementsRegister == Register!Spec

=============================================================================
