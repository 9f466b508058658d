--------------------------- MODULE CatalogSyncProofs ---------------------------
(***************************************************************************)
(* Proofs about CatalogSync: with any number of processes, and any number  *)
(* of refreshes that fail or crash, the catalog is the register of         *)
(* FreshRegister.                                                          *)
(*                                                                         *)
(* Refresh ids are compared by applyNormalizedSnapshot, yet the promise is *)
(* about moments.  The inductive invariant relates the two: as long as a   *)
(* row is there for every refresh under way and for the latest success, a  *)
(* larger id means a later beginning.                                      *)
(***************************************************************************)
EXTENDS CatalogSync, FiniteSetTheorems, WellFoundedInduction, TLAPS

Returned(w) == proc[w].at \in {"success", "superseded"}

(* A refresh under way has its row, and ids follow the order of beginning. *)
RowsOfActive == \A w \in Workers : Active(w) => proc[w].run \in RunIds /\ run[proc[w].run] = "running"
ActiveInOrder ==
    \A v, w \in Workers :
        (Active(v) /\ Active(w) /\ v # w) =>
            /\ proc[v].run # proc[w].run
            /\ proc[v].run < proc[w].run => proc[v].since <= proc[w].since
CatalogInOrder ==
    \A w \in Workers :
        Active(w) => /\ proc[w].run < catalog.sync => proc[w].since <= catalog.since
                     /\ proc[w].run > catalog.sync => catalog.since <= proc[w].since
(* What a process has read is no older than its refresh.                   *)
ReadsInOrder ==
    \A w \in Workers :
        /\ proc[w].since <= world
        /\ proc[w].at = "detailing" =>
             proc[w].since <= proc[w].snap.registries /\ proc[w].snap.registries <= world
        /\ proc[w].at = "applying" =>
             /\ proc[w].since <= proc[w].snap.registries
             /\ proc[w].snap.registries <= proc[w].snap.automations
             /\ proc[w].snap.automations <= world
HeldInOrder ==
    /\ catalog.since <= world
    /\ catalog.sync = 0 => catalog.since = 0
    /\ catalog.sync # 0 => /\ catalog.snap \in Snapshot
                           /\ catalog.since <= catalog.snap.registries
                           /\ catalog.since <= catalog.snap.automations
ReturnedInOrder ==
    \A w \in Workers : Returned(w) => catalog.sync # 0 /\ proc[w].since <= catalog.since

IInv ==
    /\ TypeOK
    /\ IsLatestSuccess(run, catalog.sync)
    /\ RowsOfActive /\ ActiveInOrder /\ CatalogInOrder
    /\ ReadsInOrder /\ HeldInOrder /\ ReturnedInOrder

-----------------------------------------------------------------------------
RunTable == [RunIds -> {"none", "running", "success", "failed"}]
ProcRow == [at : Progress \union Outcomes, run : RunIds \union {0}, since : Worlds, snap : Snapshot]

(* Pruning keeps the type of the table and deletes nothing but rows of     *)
(* refreshes that have ended and that nothing refers to.                   *)
LEMMA PrunedRows ==
    ASSUME NEW rows \in RunTable, NEW cites, NEW sync
    PROVE  /\ Pruned(rows, cites, sync) \in RunTable
           /\ \A k \in RunIds :
                \/ Pruned(rows, cites, sync)[k] = rows[k]
                \/ /\ Pruned(rows, cites, sync)[k] = "none"
                   /\ rows[k] \in {"success", "failed"}
                   /\ k \notin cites /\ k # sync
  BY DEF Pruned, RunTable, Terminal, Protected

(* A process moves to a typed row.                                         *)
LEMMA AdvanceType ==
    ASSUME TypeOK, NEW w \in Workers, NEW p \in ProcRow, Advance(w, p)
    PROVE  /\ proc' \in [Workers -> ProcRow]
           /\ proc'[w] = p
           /\ \A v \in Workers \ {w} : proc'[v] = proc[v]
  BY DEF TypeOK, Advance, ProcRow

(* It may rest with any outcome.                                           *)
LEMMA RestType ==
    ASSUME NEW o \in Outcomes
    PROVE  [at |-> o, run |-> 0, since |-> 0, snap |-> Unread] \in ProcRow
  BY BoundsAssumption DEF ProcRow, Unread, Snapshot, Worlds

(* Before the first refresh the invariant holds.                           *)
LEMMA InitInv == Init => IInv
<1> SUFFICES ASSUME Init PROVE IInv
  OBVIOUS
<1>1. [at |-> "idle", run |-> 0, since |-> 0, snap |-> Unread] \in ProcRow
  BY RestType DEF Outcomes
<1>2. TypeOK
  BY <1>1, BoundsAssumption DEF Init, TypeOK, Worlds, ProcRow
<1>3. IsLatestSuccess(run, catalog.sync)
  BY DEF Init, IsLatestSuccess
<1>4. \A w \in Workers : proc[w].at = "idle" /\ proc[w].since = 0
  BY DEF Init
<1>5. RowsOfActive /\ ActiveInOrder /\ CatalogInOrder /\ ReturnedInOrder
  BY <1>4 DEF RowsOfActive, ActiveInOrder, CatalogInOrder, ReturnedInOrder, Active, Returned, Progress
<1>6. ReadsInOrder /\ HeldInOrder
  BY <1>4 DEF Init, ReadsInOrder, HeldInOrder
<1>7. QED
  BY <1>2, <1>3, <1>5, <1>6 DEF IInv

(* A process that ends, or never begins, a refresh leaves the order of the *)
(* others as it was: the common part of five actions.                      *)
LEMMA EndInv ==
    ASSUME IInv, NEW w \in Workers, NEW p \in ProcRow, Advance(w, p),
           p.at \in Outcomes, p.since <= world,
           p.at \in {"success", "superseded"} => catalog.sync # 0 /\ p.since <= catalog.since,
           UNCHANGED <<world, catalog>>,
           run' \in RunTable, cited' \subseteq RunIds,
           status' \in {"empty", "ready", "stale", "degraded"},
           IsLatestSuccess(run', catalog.sync),
           \A k \in RunIds :
              run[k] = "running" /\ ~(Active(w) /\ k = proc[w].run) => run'[k] = "running"
    PROVE  IInv'
<1>1. /\ proc' \in [Workers -> ProcRow] /\ proc'[w] = p
      /\ \A v \in Workers \ {w} : proc'[v] = proc[v]
  BY AdvanceType DEF IInv
<1>2. ~Active(w)'
  BY <1>1 DEF Active, Progress, Outcomes
<1>3. \A v \in Workers : Active(v)' => v # w /\ Active(v) /\ proc'[v] = proc[v]
  BY <1>1, <1>2 DEF Active
<1>4. TypeOK'
  BY <1>1 DEF IInv, TypeOK, RunTable, ProcRow
<1>5. RowsOfActive'
  BY <1>3 DEF IInv, RowsOfActive, ActiveInOrder
<1>6. ActiveInOrder'
  BY <1>3 DEF IInv, ActiveInOrder
<1>7. CatalogInOrder'
  BY <1>3 DEF IInv, CatalogInOrder
<1>8. ReadsInOrder'
  BY <1>1 DEF IInv, ReadsInOrder, Outcomes
<1>9. HeldInOrder' /\ IsLatestSuccess(run, catalog.sync)'
  BY DEF IInv, HeldInOrder
<1>10. ReturnedInOrder'
  BY <1>1 DEF IInv, ReturnedInOrder, Returned
<1>11. QED
  BY <1>4, <1>5, <1>6, <1>7, <1>8, <1>9, <1>10 DEF IInv

(* Home Assistant changes: everything read so far only becomes older.      *)
LEMMA ChangeInv == ASSUME IInv, HomeAssistantChanges PROVE IInv'
<1>1. world' = world + 1 /\ world' \in Worlds /\ world \in Nat
  BY BoundsAssumption DEF HomeAssistantChanges, IInv, TypeOK, Worlds
<1>2. UNCHANGED <<run, catalog, cited, status, proc>>
  BY DEF HomeAssistantChanges
<1>3. TypeOK'
  BY <1>1, <1>2 DEF IInv, TypeOK
<1>4. ReadsInOrder'
  <2>1. \A w \in Workers : proc[w].since \in Nat /\ proc[w].snap.registries \in Nat
                           /\ proc[w].snap.automations \in Nat
    BY BoundsAssumption DEF IInv, TypeOK, Snapshot, Worlds
  <2>2. QED
    BY <1>1, <1>2, <2>1 DEF IInv, ReadsInOrder
<1>5. HeldInOrder'
  <2>1. catalog.since \in Nat
    BY BoundsAssumption DEF IInv, TypeOK, Worlds
  <2>2. QED
    BY <1>1, <1>2, <2>1 DEF IInv, HeldInOrder
<1>6. RowsOfActive' /\ ActiveInOrder' /\ CatalogInOrder' /\ ReturnedInOrder'
  BY <1>2 DEF IInv, RowsOfActive, ActiveInOrder, CatalogInOrder, ReturnedInOrder, Returned, Active
<1>7. IsLatestSuccess(run, catalog.sync)'
  BY <1>2 DEF IInv, IsLatestSuccess
<1>8. QED
  BY <1>3, <1>4, <1>5, <1>6, <1>7 DEF IInv

(* A refresh begins after all others, with a larger id than any of them.   *)
LEMMA BeginInv == ASSUME IInv, NEW w \in Workers, Begin(w) PROVE IInv'
<1>1. PICK k \in RunIds :
        /\ \A j \in RunIds : j >= k => run[j] = "none"
        /\ run' = [run EXCEPT ![k] = "running"]
        /\ Advance(w, [at |-> "reading", run |-> k, since |-> world, snap |-> Unread])
  BY DEF Begin
<1> DEFINE p == [at |-> "reading", run |-> k, since |-> world, snap |-> Unread]
<1>2. p \in ProcRow
  BY BoundsAssumption DEF IInv, TypeOK, ProcRow, Progress, Unread, Snapshot, Worlds
<1>3. /\ proc' \in [Workers -> ProcRow] /\ proc'[w] = p
      /\ \A v \in Workers \ {w} : proc'[v] = proc[v]
  <2> HIDE DEF p
  <2>1. QED
    BY <1>1, <1>2, AdvanceType DEF IInv, p
<1>4. UNCHANGED <<world, catalog, cited, status>>
  BY DEF Begin
<1>5. TypeOK'
  BY <1>1, <1>3, <1>4 DEF IInv, TypeOK, ProcRow
<1>6. \A j \in RunIds : run[j] # "none" => j < k /\ run'[j] = run[j]
  BY <1>1 DEF IInv, TypeOK, RunIds
<1>7. \A v \in Workers \ {w} : Active(v)' => /\ Active(v) /\ proc'[v] = proc[v]
                                           /\ proc[v].run \in RunIds /\ proc[v].run < k
                                           /\ run'[proc[v].run] = "running"
  BY <1>3, <1>6 DEF IInv, RowsOfActive, Active
<1>8. catalog.sync < k /\ catalog.since <= world
  <2>1. catalog.sync < k
    BY <1>6 DEF IInv, IsLatestSuccess, RunIds
  <2>2. QED
    BY <2>1 DEF IInv, HeldInOrder
<1>9. proc'[w].run = k /\ proc'[w].since = world /\ proc'[w].at = "reading" /\ run'[k] = "running"
  BY <1>1, <1>3 DEF IInv, TypeOK
<1>10. RowsOfActive'
  BY <1>7, <1>9 DEF RowsOfActive
<1>11. ActiveInOrder'
  <2>1. \A v \in Workers \ {w} : Active(v)' =>
           proc'[v].run # k /\ proc'[v].run < k /\ proc'[v].since <= world
    BY <1>7 DEF IInv, ReadsInOrder, RunIds
  <2>2. \A v \in Workers \ {w} : proc'[v].run \in Nat /\ k \in Nat
    BY <1>3, BoundsAssumption DEF ProcRow, RunIds
  <2>3. \A u, v \in Workers \ {w} : (Active(u)' /\ Active(v)' /\ u # v) =>
           /\ proc'[u].run # proc'[v].run
           /\ proc'[u].run < proc'[v].run => proc'[u].since <= proc'[v].since
    BY <1>7 DEF IInv, ActiveInOrder
  <2>4. \A v \in Workers \ {w} : Active(v)' => ~(k < proc'[v].run)
    BY <2>1, <2>2
  <2>5. QED
    BY <1>9, <2>1, <2>3, <2>4 DEF ActiveInOrder
<1>12. CatalogInOrder'
  <2>1. ~(k < catalog.sync)
    BY <1>8 DEF IInv, TypeOK, RunIds
  <2>2. QED
    BY <1>4, <1>7, <1>8, <1>9, <2>1 DEF IInv, CatalogInOrder
<1>13. ReadsInOrder'
  BY <1>3, <1>4, <1>9, BoundsAssumption DEF IInv, ReadsInOrder, TypeOK, Worlds
<1>14. HeldInOrder'
  BY <1>4 DEF IInv, HeldInOrder
<1>15. ReturnedInOrder'
  BY <1>3, <1>4, <1>9 DEF IInv, ReturnedInOrder, Returned
<1>16. IsLatestSuccess(run, catalog.sync)'
  BY <1>1, <1>4 DEF IInv, IsLatestSuccess, TypeOK
<1>17. QED
  BY <1>5, <1>10, <1>11, <1>12, <1>13, <1>14, <1>15, <1>16 DEF IInv

(* What the two reads do to the process.                                   *)
LEMMA ReadFacts ==
    ASSUME TypeOK, NEW w \in Workers, ReadRegistries(w) \/ ReadAutomations(w)
    PROVE  \E p \in ProcRow :
             /\ Advance(w, p)
             /\ p.run = proc[w].run /\ p.since = proc[w].since
             /\ \/ /\ proc[w].at = "reading" /\ p.at = "detailing"
                   /\ p.snap.registries = world
                \/ /\ proc[w].at = "detailing" /\ p.at = "applying"
                   /\ p.snap.registries = proc[w].snap.registries
                   /\ p.snap.automations = world
<1>1. proc[w] \in ProcRow /\ world \in Worlds
  BY DEF TypeOK, ProcRow
<1>2. CASE ReadRegistries(w)
  <2>1. [proc[w] EXCEPT !.at = "detailing", !.snap.registries = world] \in ProcRow
    BY <1>1 DEF ProcRow, Snapshot, Progress
  <2>2. QED
    BY <1>1, <1>2, <2>1 DEF ReadRegistries, ProcRow, Snapshot
<1>3. CASE ReadAutomations(w)
  <2>1. [proc[w] EXCEPT !.at = "applying", !.snap.automations = world] \in ProcRow
    BY <1>1 DEF ProcRow, Snapshot, Progress
  <2>2. QED
    BY <1>1, <1>3, <2>1 DEF ReadAutomations, ProcRow, Snapshot
<1>4. QED
  BY <1>2, <1>3

(* Each of the two reads is later than what its refresh has read before.   *)
LEMMA ReadInv ==
    ASSUME IInv, NEW w \in Workers, ReadRegistries(w) \/ ReadAutomations(w) PROVE IInv'
<1>1. UNCHANGED <<world, run, catalog, cited, status>>
  BY DEF ReadRegistries, ReadAutomations
<1>2. proc[w] \in ProcRow /\ world \in Worlds
  BY DEF IInv, TypeOK, ProcRow
<1>3. PICK p \in ProcRow :
        /\ Advance(w, p)
        /\ p.run = proc[w].run /\ p.since = proc[w].since
        /\ \/ /\ proc[w].at = "reading" /\ p.at = "detailing"
              /\ p.snap.registries = world
           \/ /\ proc[w].at = "detailing" /\ p.at = "applying"
              /\ p.snap.registries = proc[w].snap.registries
              /\ p.snap.automations = world
  BY ReadFacts DEF IInv
<1>4. /\ proc' \in [Workers -> ProcRow] /\ proc'[w] = p
      /\ \A v \in Workers \ {w} : proc'[v] = proc[v]
  BY <1>3, AdvanceType DEF IInv
<1>5. Active(w)
  BY <1>3 DEF Active, Progress
<1>6. \A v \in Workers : /\ Active(v)' => Active(v)
                         /\ proc'[v].run = proc[v].run /\ proc'[v].since = proc[v].since
                         /\ Returned(v)' => Returned(v)
  BY <1>3, <1>4, <1>5 DEF Active, Returned
<1>7. TypeOK'
  BY <1>1, <1>4 DEF IInv, TypeOK, ProcRow
<1>8. RowsOfActive' /\ ActiveInOrder' /\ CatalogInOrder' /\ ReturnedInOrder'
  BY <1>1, <1>6 DEF IInv, RowsOfActive, ActiveInOrder, CatalogInOrder, ReturnedInOrder
<1>9. ReadsInOrder'
  <2>1. world \in Nat /\ p.snap.registries \in Nat /\ p.since \in Nat
    BY <1>2, BoundsAssumption DEF Worlds, ProcRow, Snapshot
  <2>2. /\ p.since <= world
        /\ p.at = "detailing" => p.since <= p.snap.registries /\ p.snap.registries <= world
        /\ p.at = "applying" => /\ p.since <= p.snap.registries
                                /\ p.snap.registries <= p.snap.automations
                                /\ p.snap.automations <= world
    BY <1>3, <2>1 DEF IInv, ReadsInOrder
  <2>3. QED
    BY <1>1, <1>4, <2>2 DEF IInv, ReadsInOrder
<1>10. QED
  BY <1>1, <1>7, <1>8, <1>9 DEF IInv, HeldInOrder, IsLatestSuccess

(* The latest success stays the latest when a running row fails.           *)
LEMMA FailedRows ==
    ASSUME IInv, NEW k \in RunIds, run[k] = "running", NEW cites,
           run' = Pruned([run EXCEPT ![k] = "failed"], cites, catalog.sync)
    PROVE  /\ run' \in RunTable
           /\ IsLatestSuccess(run', catalog.sync)
           /\ \A j \in RunIds : run[j] = "running" /\ j # k => run'[j] = "running"
           /\ \A j \in RunIds : run[j] # "none" /\ j \in cites \union {catalog.sync} => run'[j] # "none"
<1> DEFINE rows == [run EXCEPT ![k] = "failed"]
<1>1. rows \in RunTable /\ rows[k] = "failed" /\ \A j \in RunIds \ {k} : rows[j] = run[j]
  BY DEF IInv, TypeOK, RunTable
<1>2. /\ run' \in RunTable
      /\ \A j \in RunIds : \/ run'[j] = rows[j]
                            \/ /\ run'[j] = "none" /\ rows[j] \in {"success", "failed"}
                               /\ j \notin cites /\ j # catalog.sync
  <2>1. run' = Pruned(rows, cites, catalog.sync)
    OBVIOUS
  <2> HIDE DEF rows
  <2>2. /\ Pruned(rows, cites, catalog.sync) \in RunTable
        /\ \A j \in RunIds :
             \/ Pruned(rows, cites, catalog.sync)[j] = rows[j]
             \/ /\ Pruned(rows, cites, catalog.sync)[j] = "none"
                /\ rows[j] \in {"success", "failed"}
                /\ j \notin cites /\ j # catalog.sync
    <3>1. rows \in RunTable
      BY <1>1
    <3>2. QED
      BY <3>1, PrunedRows
  <2>3. QED
    BY <2>1, <2>2
<1>3. \A j \in RunIds : run[j] = "running" /\ j # k => run'[j] = "running"
  BY <1>1, <1>2
<1>4. \A j \in RunIds : run'[j] = "success" => run[j] = "success"
  BY <1>1, <1>2
<1>5. catalog.sync # 0 => catalog.sync \in RunIds /\ run'[catalog.sync] = "success"
  BY <1>1, <1>2 DEF IInv, IsLatestSuccess
<1>6. IsLatestSuccess(run', catalog.sync)
  <2>1. CASE catalog.sync = 0
    <3>1. \A j \in RunIds : run[j] # "success"
      BY <2>1 DEF IInv, IsLatestSuccess, RunIds
    <3>2. QED
      BY <1>4, <2>1, <3>1 DEF IsLatestSuccess
  <2>2. CASE catalog.sync # 0
    BY <1>4, <1>5, <2>2 DEF IInv, IsLatestSuccess
  <2>3. QED
    BY <2>1, <2>2
<1>7. \A j \in RunIds : run[j] # "none" /\ j \in cites \union {catalog.sync} => run'[j] # "none"
  BY <1>1, <1>2
<1>8. QED
  BY <1>2, <1>3, <1>6, <1>7

(* A refresh that fails keeps the invariant.                               *)
LEMMA FailInv == ASSUME IInv, NEW w \in Workers, Fail(w) PROVE IInv'
<1>1. proc[w].run \in RunIds /\ run[proc[w].run] = "running"
  BY DEF Fail, IInv, RowsOfActive
<1>2. /\ run' \in RunTable /\ IsLatestSuccess(run', catalog.sync)
      /\ \A j \in RunIds : run[j] = "running" /\ j # proc[w].run => run'[j] = "running"
  BY <1>1, FailedRows DEF Fail
<1> DEFINE p == [at |-> "failed", run |-> 0, since |-> 0, snap |-> Unread]
<1>3. p \in ProcRow /\ p.since <= world
  BY RestType, BoundsAssumption DEF Outcomes, IInv, TypeOK, Worlds
<1>4. status' \in {"empty", "ready", "stale", "degraded"}
  BY DEF Fail, StatusAfterFailure
<1>5. Advance(w, p) /\ Active(w) /\ UNCHANGED <<world, catalog, cited>>
  BY DEF Fail, Rest
<1>6. cited' \subseteq RunIds
  BY <1>5 DEF IInv, TypeOK
<1>7. p.at = "failed"
  OBVIOUS
<1>8. QED
  <2> HIDE DEF p
  <2>1. QED
    BY <1>2, <1>3, <1>4, <1>5, <1>6, <1>7, EndInv DEF Outcomes

(* A refresh that finds a newer one returns although it installed nothing. *)
LEMMA SupersedeInv == ASSUME IInv, NEW w \in Workers, Supersede(w) PROVE IInv'
<1>1. Active(w) /\ proc[w].run \in RunIds /\ run[proc[w].run] = "running" /\ proc[w] \in ProcRow
  BY DEF Supersede, Active, Progress, IInv, RowsOfActive, TypeOK, ProcRow
<1>2. /\ run' \in RunTable /\ IsLatestSuccess(run', catalog.sync)
      /\ \A j \in RunIds : run[j] = "running" /\ j # proc[w].run => run'[j] = "running"
  BY <1>1, FailedRows DEF Supersede
<1>3. catalog.sync # 0 /\ proc[w].since <= catalog.since
  <2>1. PICK j \in RunIds : j > proc[w].run /\ run[j] = "success"
    BY DEF Supersede, NewerSuccess
  <2>2. catalog.sync \in RunIds /\ j <= catalog.sync
    BY <2>1 DEF IInv, IsLatestSuccess
  <2>3. proc[w].run < catalog.sync
    BY <1>1, <2>1, <2>2 DEF RunIds
  <2>4. QED
    BY <1>1, <2>2, <2>3 DEF IInv, CatalogInOrder, RunIds
<1> DEFINE p == [proc[w] EXCEPT !.at = "superseded"]
<1>4. p \in ProcRow /\ p.since = proc[w].since /\ p.at = "superseded"
  BY <1>1 DEF ProcRow, Outcomes
<1>5. Advance(w, p) /\ UNCHANGED <<world, catalog, cited, status>>
  BY DEF Supersede
<1>6. p.since <= world
  BY <1>4 DEF IInv, ReadsInOrder
<1>7. cited' \subseteq RunIds /\ status' \in {"empty", "ready", "stale", "degraded"}
  BY <1>5 DEF IInv, TypeOK
<1>8. QED
  <2> HIDE DEF p
  <2>1. QED
    BY <1>1, <1>2, <1>3, <1>4, <1>5, <1>6, <1>7, EndInv DEF Outcomes

(* A caller that is content with what is there, or a process that dies.    *)
LEMMA RestInv == ASSUME IInv, NEW w \in Workers, FindFresh(w) \/ Crash(w) PROVE IInv'
<1>1. PICK o \in {"fresh", "idle"} : Rest(w, o)
  BY DEF FindFresh, Crash
<1>2. UNCHANGED <<world, run, catalog, cited, status>>
  BY DEF FindFresh, Crash
<1> DEFINE p == [at |-> o, run |-> 0, since |-> 0, snap |-> Unread]
<1>3. p \in ProcRow /\ p.since <= world /\ p.at = o
  BY RestType, BoundsAssumption DEF Outcomes, IInv, TypeOK, Worlds
<1>4. Advance(w, p)
  BY <1>1 DEF Rest
<1>5. /\ run' \in RunTable /\ cited' \subseteq RunIds
      /\ status' \in {"empty", "ready", "stale", "degraded"}
      /\ IsLatestSuccess(run', catalog.sync)
  BY <1>2 DEF IInv, TypeOK, RunTable
<1>6. QED
  <2> HIDE DEF p
  <2>1. QED
    BY <1>2, <1>3, <1>4, <1>5, EndInv DEF Outcomes

(* A refresh that installs what it read becomes the latest success, and    *)
(* every other refresh under way keeps its place in the order.             *)
LEMMA InstallFacts ==
    ASSUME IInv, NEW w \in Workers, Install(w)
    PROVE  /\ proc[w] \in ProcRow /\ proc[w].run \in RunIds
           /\ run[proc[w].run] = "running"
           /\ catalog.sync < proc[w].run /\ catalog.since <= proc[w].since
           /\ run' \in RunTable /\ run'[proc[w].run] = "success"
           /\ \A j \in RunIds : run[j] = "running" /\ j # proc[w].run => run'[j] = "running"
           /\ \A j \in RunIds : run'[j] = "success" => j <= proc[w].run
           /\ \A j \in cited' : run[j] # "none" => run'[j] # "none"
<1> DEFINE k == proc[w].run
           rows == [run EXCEPT ![k] = "success"]
<1>1. k \in RunIds /\ run[k] = "running" /\ proc[w] \in ProcRow /\ Active(w)
  BY DEF Install, Active, Progress, IInv, RowsOfActive, TypeOK, ProcRow
<1>2. \A j \in RunIds : run[j] = "success" => j < k
  BY <1>1 DEF Install, NewerSuccess, RunIds
<1>3. catalog.sync < k
  <2>1. CASE catalog.sync = 0
    BY <1>1, <2>1 DEF RunIds
  <2>2. CASE catalog.sync # 0
    BY <1>2, <2>2 DEF IInv, IsLatestSuccess
  <2>3. QED
    BY <2>1, <2>2
<1>4. catalog.since <= proc[w].since
  BY <1>1, <1>3 DEF IInv, CatalogInOrder, TypeOK, RunIds
<1>5. rows \in RunTable /\ rows[k] = "success" /\ \A j \in RunIds \ {k} : rows[j] = run[j]
  BY <1>1 DEF IInv, TypeOK, RunTable
<1>6. run' = Pruned(rows, cited', k)
  BY DEF Install
<1>7. /\ run' \in RunTable
      /\ \A j \in RunIds : \/ run'[j] = rows[j]
                            \/ /\ run'[j] = "none" /\ rows[j] \in {"success", "failed"}
                               /\ j \notin cited' /\ j # k
  <2> HIDE DEF rows, k
  <2>1. /\ Pruned(rows, cited', k) \in RunTable
        /\ \A j \in RunIds :
             \/ Pruned(rows, cited', k)[j] = rows[j]
             \/ /\ Pruned(rows, cited', k)[j] = "none"
                /\ rows[j] \in {"success", "failed"}
                /\ j \notin cited' /\ j # k
    <3>1. rows \in RunTable
      BY <1>5
    <3>2. QED
      BY <3>1, PrunedRows
  <2>2. QED
    BY <1>6, <2>1
<1>8. run'[k] = "success"
  BY <1>1, <1>5, <1>7
<1>9. \A j \in RunIds : run[j] = "running" /\ j # k => run'[j] = "running"
  BY <1>5, <1>7
<1>10. \A j \in RunIds : run'[j] = "success" => j <= k
  BY <1>1, <1>2, <1>5, <1>7 DEF RunIds
<1>11. cited' \subseteq RunIds
  <2>1. cited \subseteq RunIds /\ catalog.sync \in RunIds \union {0}
    BY DEF IInv, TypeOK
  <2>2. QED
    BY <1>1, <2>1 DEF Install
<1>12. \A j \in cited' : run[j] # "none" => run'[j] # "none"
  BY <1>5, <1>7, <1>11
<1>13. QED
  BY <1>1, <1>3, <1>4, <1>7, <1>8, <1>9, <1>10, <1>12

(* Installing keeps the invariant.                                         *)
LEMMA InstallInv == ASSUME IInv, NEW w \in Workers, Install(w) PROVE IInv'
<1> DEFINE k == proc[w].run
           p == [proc[w] EXCEPT !.at = "success"]
<1>1. /\ proc[w] \in ProcRow /\ k \in RunIds
      /\ run[k] = "running" /\ catalog.sync < k /\ catalog.since <= proc[w].since
      /\ run' \in RunTable /\ run'[k] = "success"
      /\ \A j \in RunIds : run[j] = "running" /\ j # k => run'[j] = "running"
      /\ \A j \in RunIds : run'[j] = "success" => j <= k
  BY InstallFacts
<1>2. /\ p \in ProcRow /\ p.at = "success" /\ p.run = k /\ p.since = proc[w].since
  BY <1>1 DEF ProcRow, Outcomes
<1>3. Advance(w, p) /\ UNCHANGED world /\ status' = "ready" /\ Active(w)
  BY DEF Install, Active, Progress
<1>4. /\ proc' \in [Workers -> ProcRow] /\ proc'[w] = p
      /\ \A v \in Workers \ {w} : proc'[v] = proc[v]
  <2> HIDE DEF p
  <2>1. QED
    BY <1>2, <1>3, AdvanceType DEF IInv
<1>5. catalog' = [snap |-> proc[w].snap, sync |-> k, since |-> proc[w].since]
  BY DEF Install
<1>6. catalog'.sync = k /\ catalog'.since = proc[w].since /\ catalog'.snap = proc[w].snap
  BY <1>5
<1>7. cited' \subseteq RunIds
  <2>1. cited \subseteq RunIds /\ catalog.sync \in RunIds \union {0}
    BY DEF IInv, TypeOK
  <2>2. QED
    BY <1>1, <2>1 DEF Install
<1>8. TypeOK'
  <2>1. catalog' \in [snap : Snapshot \union {Nothing}, sync : RunIds \union {0}, since : Worlds]
    BY <1>1, <1>5 DEF ProcRow
  <2>2. QED
    BY <1>1, <1>3, <1>4, <1>7, <2>1 DEF IInv, TypeOK, RunTable, ProcRow
<1>9. \A v \in Workers : Active(v)' => v # w /\ Active(v) /\ proc'[v] = proc[v] /\ proc[v].run # k
  <2>1. ~Active(w)'
    BY <1>2, <1>4 DEF Active, Progress
  <2>2. QED
    BY <1>3, <1>4, <2>1 DEF Active, IInv, ActiveInOrder
<1>10. RowsOfActive'
  BY <1>1, <1>9 DEF IInv, RowsOfActive
<1>11. ActiveInOrder'
  BY <1>9 DEF IInv, ActiveInOrder
<1>12. CatalogInOrder'
  <2>1. \A v \in Workers : Active(v)' =>
          /\ proc'[v].run < k => proc'[v].since <= proc[w].since
          /\ proc'[v].run > k => proc[w].since <= proc'[v].since
    BY <1>3, <1>9, BoundsAssumption DEF IInv, ActiveInOrder, TypeOK, RunIds
  <2>2. QED
    BY <1>6, <2>1 DEF CatalogInOrder
<1>13. ReadsInOrder'
  BY <1>2, <1>3, <1>4 DEF IInv, ReadsInOrder
<1>14. HeldInOrder'
  <2>1. proc[w].since <= world
    BY DEF IInv, ReadsInOrder
  <2>2. /\ proc[w].since <= proc[w].snap.registries
        /\ proc[w].snap.registries <= proc[w].snap.automations
    BY DEF Install, IInv, ReadsInOrder
  <2>3. proc[w].since <= proc[w].snap.automations
    BY <1>1, <2>2, BoundsAssumption DEF ProcRow, Snapshot, Worlds
  <2>4. proc[w].snap \in Snapshot
    BY <1>1 DEF ProcRow
  <2>5. k # 0
    BY <1>1 DEF RunIds
  <2>6. QED
    BY <1>3, <1>6, <2>1, <2>2, <2>3, <2>4, <2>5 DEF HeldInOrder
<1>15. ReturnedInOrder'
  <2>1. \A v \in Workers : proc[v].since \in Nat
    BY BoundsAssumption DEF IInv, TypeOK, Worlds
  <2>2. catalog.since \in Nat
    BY BoundsAssumption DEF IInv, TypeOK, Worlds
  <2>3. \A v \in Workers \ {w} : Returned(v)' => proc'[v].since <= proc[w].since
    BY <1>1, <1>4, <2>1, <2>2 DEF IInv, ReturnedInOrder, Returned
  <2>4. k # 0
    BY <1>1 DEF RunIds
  <2>5. proc'[w].since <= proc[w].since
    BY <1>2, <1>4, <2>1
  <2>6. QED
    BY <1>6, <2>3, <2>4, <2>5 DEF ReturnedInOrder
<1>16. IsLatestSuccess(run, catalog.sync)'
  BY <1>1, <1>6 DEF IsLatestSuccess
<1>17. QED
  BY <1>8, <1>10, <1>11, <1>12, <1>13, <1>14, <1>15, <1>16 DEF IInv

(* Every step keeps the invariant.                                         *)
LEMMA NextInv == IInv /\ [Next]_vars => IInv'
<1> SUFFICES ASSUME IInv, [Next]_vars PROVE IInv'
  OBVIOUS
<1>1. CASE HomeAssistantChanges
  BY <1>1, ChangeInv
<1>2. CASE \E w \in Workers : Refresh(w)
  BY <1>2, BeginInv, ReadInv, FailInv, SupersedeInv, InstallInv, RestInv DEF Refresh
<1>3. CASE UNCHANGED vars
  BY <1>3 DEF vars, IInv, TypeOK, IsLatestSuccess, RowsOfActive, ActiveInOrder, CatalogInOrder,
              ReadsInOrder, HeldInOrder, ReturnedInOrder, Returned, Active
<1>4. QED
  BY <1>1, <1>2, <1>3 DEF Next

(* The catalog is always typed.                                            *)
THEOREM TypeCorrect == Spec => []TypeOK
<1>1. IInv => TypeOK
  BY DEF IInv
<1>2. QED
  BY <1>1, InitInv, NextInv, PTL DEF Spec

(* Whoever is told that a refresh succeeded, or that a newer one already   *)
(* did, finds nothing in the catalog that is older than the call: with any *)
(* number of processes, in any interleaving, with failures and crashes.    *)
THEOREM ReturnsAreFresh == Spec => []ReturnIsFresh
<1>1. IInv => ReturnIsFresh
  <2> SUFFICES ASSUME IInv, NEW w \in Workers, Returned(w) PROVE NotOlderThan(proc[w].since)
    BY DEF ReturnIsFresh, Returned
  <2>1. /\ proc[w].since <= catalog.since /\ catalog.snap \in Snapshot
        /\ catalog.since <= catalog.snap.registries
        /\ catalog.since <= catalog.snap.automations
    BY DEF IInv, ReturnedInOrder, HeldInOrder
  <2>2. /\ proc[w].since \in Nat /\ catalog.since \in Nat
        /\ catalog.snap.registries \in Nat /\ catalog.snap.automations \in Nat
    BY <2>1, BoundsAssumption DEF IInv, TypeOK, Worlds, Snapshot
  <2>3. QED
    BY <2>1, <2>2, NothingAssumption DEF NotOlderThan
<1>2. QED
  BY <1>1, InitInv, NextInv, PTL DEF Spec

(* Whatever names a refresh names one that has a row.                      *)
CitedHasRow == \A k \in cited : run[k] # "none"

(* No step takes away a row that something refers to.                      *)
LEMMA CitedStep == IInv /\ CitedHasRow /\ [Next]_vars => CitedHasRow'
<1> SUFFICES ASSUME IInv, CitedHasRow, [Next]_vars PROVE CitedHasRow'
  OBVIOUS
<1> USE DEF CitedHasRow
<1>1. CASE UNCHANGED <<run, cited>>
  BY <1>1
<1>2. CASE \E w \in Workers : Begin(w)
  <2>1. PICK k \in RunIds : run' = [run EXCEPT ![k] = "running"]
    BY <1>2 DEF Begin
  <2>2. UNCHANGED cited
    BY <1>2 DEF Begin
  <2>3. QED
    BY <2>1, <2>2 DEF IInv, TypeOK
<1>3. CASE \E w \in Workers : Fail(w) \/ Supersede(w)
  <2>1. PICK w \in Workers : Fail(w) \/ Supersede(w)
    BY <1>3
  <2>2. proc[w].run \in RunIds /\ run[proc[w].run] = "running" /\ cited' = cited
    BY <2>1 DEF Fail, Supersede, Active, Progress, IInv, RowsOfActive
  <2>3. run' = Pruned([run EXCEPT ![proc[w].run] = "failed"], cited, catalog.sync)
    BY <2>1 DEF Fail, Supersede
  <2>4. \A j \in RunIds : run[j] # "none" /\ j \in cited \union {catalog.sync} => run'[j] # "none"
    BY <2>2, <2>3, FailedRows
  <2>5. QED
    BY <2>2, <2>4 DEF IInv, TypeOK
<1>4. CASE \E w \in Workers : Install(w)
  <2>1. PICK w \in Workers : Install(w)
    BY <1>4
  <2>2. run[proc[w].run] = "running" /\ \A j \in cited' : run[j] # "none" => run'[j] # "none"
    BY <2>1, InstallFacts
  <2>3. cited' \subseteq cited \union {proc[w].run} \union ({catalog.sync} \ {0})
    BY <2>1 DEF Install
  <2>4. catalog.sync # 0 => run[catalog.sync] = "success"
    BY DEF IInv, IsLatestSuccess
  <2>5. QED
    BY <2>2, <2>3, <2>4
<1>5. QED
  BY <1>1, <1>2, <1>3, <1>4 DEF Next, Refresh, HomeAssistantChanges, FindFresh, ReadRegistries,
     ReadAutomations, Crash, vars

(* Pruning never takes away a row that something refers to, so that no     *)
(* foreign key aborts a refresh and every citation can be looked up.       *)
THEOREM CitationsAlwaysResolve == Spec => []CitationsResolve
<1>1. Init => CitedHasRow
  BY DEF Init, CitedHasRow
<1>2. IInv /\ CitedHasRow => CitationsResolve
  BY DEF IInv, RowsOfActive, IsLatestSuccess, CitationsResolve, CitedHasRow
<1>3. QED
  BY <1>1, <1>2, InitInv, NextInv, CitedStep, PTL DEF Spec

-----------------------------------------------------------------------------
(* The stored status                                                       *)

(* Every set of natural numbers has a least element, so that a bounded one *)
(* has a greatest.                                                         *)
LEMMA LeastOf ==
    ASSUME NEW T \in SUBSET Nat, T # {}
    PROVE  \E x \in T : \A y \in T : x <= y
<1>1. IsWellFoundedOn(OpToRel(<, Nat), Nat)
  BY NatLessThanWellFounded
<1>2. PICK x \in T : \A y \in T : ~(<<y, x>> \in OpToRel(<, Nat))
  BY <1>1, WFMin
<1>3. \A y \in T : <<y, x>> \in Nat \X Nat
  OBVIOUS
<1>4. \A y \in T : ~(y < x)
  BY <1>2, <1>3 DEF OpToRel
<1>5. QED
  BY <1>4
LEMMA GreatestOf ==
    ASSUME NEW n \in Nat, NEW T \in SUBSET (1..n), T # {}
    PROVE  \E x \in T : \A y \in T : y <= x
<1> DEFINE U == {n - x : x \in T}
<1>1. U \in SUBSET Nat
  <2>1. \A x \in T : n - x \in Nat
    OBVIOUS
  <2>2. QED
    BY <2>1
<1>2. U # {}
  OBVIOUS
<1>3. PICK u \in U : \A y \in U : u <= y
  BY <1>1, <1>2, LeastOf
<1>4. PICK x \in T : u = n - x
  BY <1>3
<1>5. \A y \in T : n - x <= n - y
  BY <1>3, <1>4
<1>6. QED
  BY <1>5

(* The newest refresh that has ended is never pruned.                      *)
LEMMA NewestIsKept ==
    ASSUME NEW rows \in RunTable, NEW cites, NEW sync,
           NEW k \in RunIds, rows[k] \in {"success", "failed"}
    PROVE  \E m \in RunIds : /\ k <= m /\ rows[m] \in {"success", "failed"}
                            /\ Pruned(rows, cites, sync)[m] = rows[m]
<1>1. k \in Terminal(rows) /\ Terminal(rows) \subseteq 1..MaxRuns
  BY DEF Terminal, RunIds
<1>2. PICK m \in Terminal(rows) : \A j \in Terminal(rows) : j <= m
  <2>1. Terminal(rows) # {} /\ Terminal(rows) \in SUBSET (1..MaxRuns)
    BY <1>1
  <2> HIDE DEF Terminal
  <2>2. QED
    BY <2>1, GreatestOf, BoundsAssumption
<1>3. {j \in Terminal(rows) : j > m} = {}
  BY <1>1, <1>2
<1>4. Cardinality({j \in Terminal(rows) : j > m}) < Retention
  BY <1>3, FS_EmptySet, RetentionAssumption
<1>5. m \in Protected(rows, cites, sync)
  BY <1>1, <1>2, <1>4 DEF Protected, RunIds
<1>6. Pruned(rows, cites, sync)[m] = rows[m] /\ m \in RunIds
  BY <1>1, <1>2, <1>5 DEF Pruned, RunIds
<1>7. k <= m /\ rows[m] \in {"success", "failed"}
  BY <1>1, <1>2 DEF Terminal
<1>8. QED
  BY <1>6, <1>7

(* What the stored status says of the rows and of the refresh in force.    *)
StatusTells ==
    /\ status = "stale" => \E k \in RunIds : k > catalog.sync /\ run[k] = "failed"
    /\ status = "degraded" => catalog.sync = 0
    /\ status = "ready" => catalog.sync # 0

(* A refresh that fails, or finds itself superseded, leaves a failed row   *)
(* above the latest success if there was one, or if it began later itself. *)
LEMMA FailureIsSeen ==
    ASSUME IInv, NEW k \in RunIds, run[k] = "running", NEW cites,
           run' = Pruned([run EXCEPT ![k] = "failed"], cites, catalog.sync),
           \/ k > catalog.sync
           \/ \E j \in RunIds : j > catalog.sync /\ run[j] = "failed"
    PROVE  \E j \in RunIds : j > catalog.sync /\ run'[j] = "failed"
<1> DEFINE rows == [run EXCEPT ![k] = "failed"]
<1>1. rows \in RunTable /\ rows[k] = "failed" /\ \A j \in RunIds \ {k} : rows[j] = run[j]
  BY DEF IInv, TypeOK, RunTable
<1>2. PICK j \in RunIds : j > catalog.sync /\ rows[j] = "failed"
  BY <1>1
<1>3. PICK m \in RunIds : j <= m /\ rows[m] \in {"success", "failed"} /\ run'[m] = rows[m]
  <2>1. run' = Pruned(rows, cites, catalog.sync)
    OBVIOUS
  <2> HIDE DEF rows
  <2>2. QED
    BY <1>1, <1>2, <2>1, NewestIsKept
<1>4. m > catalog.sync
  BY <1>2, <1>3, BoundsAssumption DEF IInv, TypeOK, RunIds
<1>5. run[m] # "success"
  BY <1>4, BoundsAssumption DEF IInv, IsLatestSuccess, TypeOK, RunIds
<1>6. rows[m] = "failed"
  BY <1>1, <1>3, <1>5
<1>7. QED
  BY <1>3, <1>4, <1>6

(* Every step keeps what the status says true.                             *)
LEMMA StatusStep == IInv /\ StatusTells /\ [Next]_vars => StatusTells'
<1> SUFFICES ASSUME IInv, StatusTells, [Next]_vars PROVE StatusTells'
  OBVIOUS
<1>1. CASE UNCHANGED <<run, catalog, status>>
  BY <1>1 DEF StatusTells
<1>2. CASE \E w \in Workers : Begin(w)
  <2>1. PICK k \in RunIds : /\ run' = [run EXCEPT ![k] = "running"]
                           /\ \A j \in RunIds : j >= k => run[j] = "none"
    BY <1>2 DEF Begin
  <2>2. UNCHANGED <<catalog, status>>
    BY <1>2 DEF Begin
  <2>3. run[k] = "none"
    BY <2>1 DEF RunIds
  <2>4. QED
    BY <2>1, <2>2, <2>3 DEF StatusTells, IInv, TypeOK
<1>3. CASE \E w \in Workers : Supersede(w)
  <2>1. PICK w \in Workers : Supersede(w)
    BY <1>3
  <2>2. proc[w].run \in RunIds /\ run[proc[w].run] = "running"
    BY <2>1 DEF Supersede, Active, Progress, IInv, RowsOfActive
  <2>3. UNCHANGED <<catalog, status>>
    BY <2>1 DEF Supersede
  <2>4. run' = Pruned([run EXCEPT ![proc[w].run] = "failed"], cited, catalog.sync)
    BY <2>1 DEF Supersede
  <2>5. status = "stale" => \E k \in RunIds : k > catalog.sync /\ run'[k] = "failed"
    BY <2>2, <2>4, FailureIsSeen DEF StatusTells
  <2>6. QED
    BY <2>3, <2>5 DEF StatusTells
<1>4. CASE \E w \in Workers : Fail(w)
  <2>1. PICK w \in Workers : Fail(w)
    BY <1>4
  <2> DEFINE k == proc[w].run
  <2>2. k \in RunIds /\ run[k] = "running"
    BY <2>1 DEF Fail, IInv, RowsOfActive
  <2>3. status' = StatusAfterFailure(k) /\ UNCHANGED catalog
    BY <2>1 DEF Fail
  <2>4. run' = Pruned([run EXCEPT ![k] = "failed"], cited, catalog.sync)
    BY <2>1 DEF Fail
  <2>5. (\E j \in RunIds : run[j] = "success") <=> catalog.sync # 0
    BY BoundsAssumption DEF IInv, IsLatestSuccess, RunIds
  <2>6. ~NewerSuccess(k) => k > catalog.sync
    BY <2>2, BoundsAssumption DEF IInv, IsLatestSuccess, NewerSuccess, RunIds
  <2>7. status' = "stale" => \E j \in RunIds : j > catalog.sync /\ run'[j] = "failed"
    <3>1. status' = "stale" => k > catalog.sync
      BY <2>3, <2>6 DEF StatusAfterFailure
    <3> HIDE DEF k
    <3>2. QED
      BY <2>2, <2>4, <3>1, FailureIsSeen
  <2>8. QED
    BY <2>3, <2>5, <2>7 DEF StatusTells, StatusAfterFailure, NewerSuccess
<1>5. CASE \E w \in Workers : Install(w)
  <2>1. PICK w \in Workers : Install(w)
    BY <1>5
  <2>2. status' = "ready" /\ catalog'.sync = proc[w].run
    BY <2>1 DEF Install
  <2>3. proc[w].run # 0
    BY <2>1, InstallFacts DEF RunIds
  <2>4. QED
    BY <2>2, <2>3 DEF StatusTells
<1>6. QED
  BY <1>1, <1>2, <1>3, <1>4, <1>5 DEF Next, Refresh, HomeAssistantChanges, FindFresh, ReadRegistries,
     ReadAutomations, Crash, vars

(* The stored status never lies about the last success: a late failure     *)
(* does not downgrade a catalog that a later refresh renewed, and the row  *)
(* that explains a stale store is never pruned away.                       *)
THEOREM StatusIsExplained == Spec => []StatusExplained
<1>1. Init => StatusTells
  BY DEF Init, StatusTells
<1>2. IInv /\ StatusTells => StatusExplained
  BY DEF IInv, StatusTells, StatusExplained
<1>3. QED
  BY <1>1, <1>2, InitInv, NextInv, StatusStep, PTL DEF Spec

-----------------------------------------------------------------------------
(* The catalog implements the register                                     *)

(* What the register sees of a process that moves.                         *)
LEMMA AdvanceSeen ==
    ASSUME TypeOK, NEW w \in Workers, NEW p \in ProcRow, Advance(w, p)
    PROVE  /\ Asked' = [Asked EXCEPT ![w] = p.since]
           /\ Answers' = [Answers EXCEPT ![w] = IF p.at \in Progress THEN "waiting"
                                               ELSE IF p.at \in {"success", "superseded"}
                                                    THEN "current" ELSE "none"]
<1>1. /\ proc' \in [Workers -> ProcRow] /\ proc'[w] = p
      /\ \A v \in Workers \ {w} : proc'[v] = proc[v]
  BY AdvanceType
<1>2. QED
  BY <1>1 DEF Asked, Answers, Active

(* Every step of a refresh is a step of the register, or none.             *)
LEMMA RefreshImplements ==
    ASSUME IInv, IInv', NEW w \in Workers, Refresh(w)
    PROVE  \/ Register!Ask(w) \/ Register!AskLoosely(w) \/ Register!Install(w)
           \/ Register!Confirm(w) \/ Register!GiveUp(w)
           \/ UNCHANGED <<world, catalog.snap, catalog.since, Asked, Answers>>
<1>1. TypeOK /\ proc[w] \in ProcRow
  BY DEF IInv, TypeOK, ProcRow, Active
<1>2. Asked[w] = proc[w].since /\ (Answers[w] = "waiting" <=> Active(w))
  BY DEF Asked, Answers
<1>3. CASE Begin(w)
  <2>1. PICK k \in RunIds : Advance(w, [at |-> "reading", run |-> k, since |-> world, snap |-> Unread])
    BY <1>3 DEF Begin
  <2> DEFINE p == [at |-> "reading", run |-> k, since |-> world, snap |-> Unread]
  <2>2. p \in ProcRow /\ p.since = world /\ p.at \in Progress
    BY BoundsAssumption DEF IInv, TypeOK, ProcRow, Progress, Unread, Snapshot, Worlds
  <2>3. Asked' = [Asked EXCEPT ![w] = world] /\ Answers' = [Answers EXCEPT ![w] = "waiting"]
    <3> HIDE DEF p
    <3>1. Advance(w, p)
      BY <2>1 DEF p
    <3>2. QED
      BY <1>1, <2>2, <3>1, AdvanceSeen
  <2>4. QED
    BY <1>2, <1>3, <2>3 DEF Begin, Register!Ask, Register!Answer
<1>4. CASE ReadRegistries(w) \/ ReadAutomations(w)
  <2>1. UNCHANGED <<world, catalog>>
    BY <1>4 DEF ReadRegistries, ReadAutomations
  <2>2. PICK p \in ProcRow :
          /\ Advance(w, p) /\ p.since = proc[w].since
          /\ p.at \in Progress /\ proc[w].at \in Progress
    BY <1>1, <1>4, ReadFacts DEF Progress
  <2>3. Asked' = [Asked EXCEPT ![w] = proc[w].since] /\ Answers' = [Answers EXCEPT ![w] = "waiting"]
    BY <1>1, <2>2, AdvanceSeen
  <2>4. Asked' = Asked /\ Answers' = Answers
    BY <2>2, <2>3 DEF Asked, Answers, Active
  <2>5. QED
    BY <2>1, <2>4
<1>5. CASE Supersede(w)
  <2> DEFINE p == [proc[w] EXCEPT !.at = "superseded"]
  <2>1. p \in ProcRow /\ p.since = proc[w].since /\ p.at = "superseded"
    BY <1>1 DEF ProcRow, Outcomes
  <2>2. Advance(w, p) /\ Active(w) /\ UNCHANGED <<world, catalog>>
    BY <1>5 DEF Supersede, Active, Progress
  <2>3. Asked' = [Asked EXCEPT ![w] = proc[w].since] /\ Answers' = [Answers EXCEPT ![w] = "current"]
    <3> HIDE DEF p
    <3>1. QED
      BY <1>1, <2>1, <2>2, AdvanceSeen DEF Progress
  <2>4. Asked' = Asked
    BY <1>2, <2>3 DEF Asked
  <2>5. proc'[w].since <= catalog.since /\ catalog.snap # Nothing /\ proc'[w] = p
    <3>1. proc'[w] = p
      BY <1>1, <2>2 DEF Advance, TypeOK
    <3>2. Returned(w)'
      BY <2>1, <3>1 DEF Returned
    <3>3. proc'[w].since <= catalog'.since /\ catalog'.sync # 0
      BY <3>2 DEF IInv, ReturnedInOrder
    <3>4. QED
      BY <2>2, <3>1, <3>3, NothingAssumption DEF IInv, HeldInOrder
  <2>6. QED
    BY <1>2, <2>1, <2>2, <2>3, <2>4, <2>5 DEF Register!Confirm, Register!Answer
<1>6. CASE Install(w)
  <2> DEFINE p == [proc[w] EXCEPT !.at = "success"]
  <2>1. p \in ProcRow /\ p.since = proc[w].since /\ p.at = "success"
    BY <1>1 DEF ProcRow, Outcomes
  <2>2. Advance(w, p) /\ Active(w) /\ UNCHANGED world
    BY <1>6 DEF Install, Active, Progress
  <2>3. Asked' = [Asked EXCEPT ![w] = proc[w].since] /\ Answers' = [Answers EXCEPT ![w] = "current"]
    <3> HIDE DEF p
    <3>1. QED
      BY <1>1, <2>1, <2>2, AdvanceSeen DEF Progress
  <2>4. Asked' = Asked
    BY <1>2, <2>3 DEF Asked
  <2>5. catalog'.since = proc[w].since /\ catalog'.snap = proc[w].snap
        /\ catalog.since <= proc[w].since
    BY <1>6, InstallFacts DEF Install
  <2>6. \E r, a \in proc[w].since..world :
          r <= a /\ proc[w].snap = [registries |-> r, automations |-> a]
    <3> DEFINE r == proc[w].snap.registries
               a == proc[w].snap.automations
    <3>1. proc[w].since <= r /\ r <= a /\ a <= world
      BY <1>6 DEF Install, IInv, ReadsInOrder
    <3>2. r \in Nat /\ a \in Nat /\ world \in Nat /\ proc[w].since \in Nat
      BY <1>1, BoundsAssumption DEF TypeOK, ProcRow, Snapshot, Worlds
    <3>3. proc[w].snap = [registries |-> r, automations |-> a]
      BY <1>1 DEF ProcRow, Snapshot
    <3> HIDE DEF r, a
    <3>4. r \in proc[w].since..world /\ a \in proc[w].since..world
      BY <3>1, <3>2
    <3>5. QED
      BY <3>1, <3>3, <3>4
  <2>7. QED
    BY <1>2, <2>2, <2>3, <2>4, <2>5, <2>6 DEF Register!Install, Register!Answer
<1>7. CASE Fail(w) \/ Crash(w) \/ FindFresh(w)
  <2>1. PICK o \in {"failed", "idle", "fresh"} : Rest(w, o) /\ UNCHANGED <<world, catalog>>
    BY <1>7 DEF Fail, Crash, FindFresh
  <2> DEFINE p == [at |-> o, run |-> 0, since |-> 0, snap |-> Unread]
  <2>2. p \in ProcRow /\ p.since = 0 /\ p.at = o
    BY RestType DEF Outcomes
  <2>3. Advance(w, p)
    BY <2>1 DEF Rest
  <2>4. Asked' = [Asked EXCEPT ![w] = 0] /\ Answers' = [Answers EXCEPT ![w] = "none"]
    <3> HIDE DEF p
    <3>1. QED
      BY <1>1, <2>2, <2>3, AdvanceSeen DEF Progress
  <2>5. CASE Active(w)
    BY <1>2, <2>1, <2>4, <2>5 DEF Register!GiveUp, Register!Answer
  <2>6. CASE ~Active(w)
    BY <1>2, <2>1, <2>4, <2>6 DEF Register!AskLoosely, Register!Answer
  <2>7. QED
    BY <2>5, <2>6
<1>8. QED
  BY <1>3, <1>4, <1>5, <1>6, <1>7 DEF Refresh

(* The refreshes of any number of processes implement the register.        *)
THEOREM RegisterImplemented == Spec => ImplementsRegister
<1>1. Init => Register!Init
  <2> SUFFICES ASSUME Init PROVE Register!Init
    OBVIOUS
  <2>1. Asked = [w \in Workers |-> 0] /\ Answers = [w \in Workers |-> "none"]
    BY DEF Init, Asked, Answers, Active, Progress
  <2>2. QED
    BY <2>1 DEF Init, Register!Init
<1>2. IInv /\ IInv' /\ [Next]_vars => [Register!Next]_(Register!vars)
  <2> SUFFICES ASSUME IInv, IInv', [Next]_vars PROVE [Register!Next]_(Register!vars)
    OBVIOUS
  <2>1. CASE HomeAssistantChanges
    <3>1. world' = world + 1 /\ UNCHANGED <<catalog, Asked, Answers>>
      BY <2>1 DEF HomeAssistantChanges, Asked, Answers, Active
    <3>2. QED
      BY <3>1 DEF Register!Next, Register!HomeAssistantChanges
  <2>2. CASE \E w \in Workers : Refresh(w)
    BY <2>2, RefreshImplements DEF Register!Next, Register!vars
  <2>3. CASE UNCHANGED vars
    BY <2>3 DEF vars, Register!vars, Asked, Answers, Active
  <2>4. QED
    BY <2>1, <2>2, <2>3 DEF Next
<1>3. QED
  BY <1>1, <1>2, InitInv, NextInv, PTL DEF Spec, ImplementsRegister, Register!Spec

=============================================================================
