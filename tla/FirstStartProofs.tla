---------------------------- MODULE FirstStartProofs ----------------------------
(***************************************************************************)
(* The resets of the first start, for any set of targets and any number of *)
(* failures.                                                               *)
(***************************************************************************)
EXTENDS FirstStart, TLAPS

(* Until the marker is there, every start goes through the deletion, and   *)
(* what it has passed is still as it was left; the options that may be     *)
(* used are those of the new version.                                      *)
Deleting == {"removing", "filling", "renaming"}
BeforeSnapshot == {"checking", "removing", "filling", "renaming", "preparing"}

OldIsSafeToDelete ==
    boot \in Deleting => ~marker /\ TargetsSafe
NothingOldIsLeft ==
    boot \in {"filling", "renaming"} => AllRemoved
NothingNewYet ==
    (\E t \in Targets : dir[t] = "new") => marker
OptionsAreNew ==
    /\ optMarker => options # "legacy"
    /\ boot = "recording" => options # "legacy"
    /\ optMarker /\ boot \in BeforeSnapshot => file # "legacy"

(* A choice is in effect only after the reset has been recorded, and then  *)
(* the Supervisor keeps it and hands it to every later start.              *)
ChoiceIsRecorded ==
    /\ snapshot = "chosen" => optMarker /\ options = "chosen"
    /\ snapshot = "chosen" /\ boot \in BeforeSnapshot => file = "chosen"
    /\ optMarker /\ boot \in BeforeSnapshot /\ file = "chosen" => options = "chosen"

IInv ==
    /\ TypeOK
    /\ CompletedMeansGone
    /\ OldIsSafeToDelete
    /\ NothingOldIsLeft
    /\ NothingNewYet
    /\ OptionsAreNew
    /\ NoLegacyOptions
    /\ ChoiceIsRecorded

(* A first start finds no marker, no data of its own, and runs with the    *)
(* defaults.                                                               *)
LEMMA InitIInv == Init => IInv
<1> SUFFICES ASSUME Init PROVE IInv
  OBVIOUS
<1> USE FailuresAssumption DEF Init
<1>1. TypeOK
  <2>1. dir \in [Targets -> DirStates]
    <3>1. {"absent", "old", "unsafe"} \subseteq DirStates
      BY DEF DirStates
    <3> QED
      BY <3>1
  <2>2. options \in OptionValues /\ file \in OptionValues /\ snapshot \in OptionValues
    BY DEF OptionValues
  <2>3. failures \in 0..MaxFailures
    OBVIOUS
  <2> QED
    BY <2>1, <2>2, <2>3 DEF TypeOK
<1>2. CompletedMeansGone
  BY DEF CompletedMeansGone
<1>3. NothingNewYet
  BY DEF NothingNewYet
<1> QED
  BY <1>1, <1>2, <1>3
  DEF IInv, OldIsSafeToDelete, NothingOldIsLeft, OptionsAreNew, NoLegacyOptions, ChoiceIsRecorded,
      Deleting

(* Every step of a start, of the user and of a crash keeps it.             *)
LEMMA NextIInv == IInv /\ [Next]_vars => IInv'
<1> SUFFICES ASSUME IInv, [Next]_vars PROVE IInv'
  OBVIOUS
<1> USE FailuresAssumption
    DEF IInv, TypeOK, DirStates, OptionValues, CompletedMeansGone, OldIsSafeToDelete,
        NothingOldIsLeft, NothingNewYet, OptionsAreNew, NoLegacyOptions, ChoiceIsRecorded,
        Deleting,
        BeforeSnapshot, At, AllRemoved, TargetsSafe
<1>1. CASE Start
  BY <1>1 DEF Start
<1>2. CASE Check
  BY <1>2 DEF Check
<1>3. ASSUME NEW t \in Targets, Remove(t) PROVE IInv'
  BY <1>3 DEF Remove, Fails
<1>4. CASE CreateTemporary
  BY <1>4 DEF CreateTemporary, TemporaryUsable
<1>5. CASE FillTemporary
  BY <1>5 DEF FillTemporary, Fails, AfterWriteFailure
<1>6. CASE RenameTemporary
  BY <1>6 DEF RenameTemporary, Fails
<1>7. CASE Prepare
  BY <1>7 DEF Prepare, SnapshotOf
<1>8. CASE ResetOptions
  BY <1>8 DEF ResetOptions, OptionsAreReset, Posted
<1>9. CASE RecordOptions
  <2> USE <1>9 DEF RecordOptions, Fails
  <2>1. TypeOK'
    <3>1. CASE optMarker' = TRUE /\ UNCHANGED failures
      BY <3>1
    <3>2. CASE Fails /\ UNCHANGED optMarker
      BY <3>2
    <3> QED
      BY <3>1, <3>2
  <2>2. CompletedMeansGone'
    OBVIOUS
  <2>3. OptionsAreNew' /\ ChoiceIsRecorded'
    OBVIOUS
  <2>4. OldIsSafeToDelete' /\ NothingOldIsLeft'
    OBVIOUS
  <2>5. NothingNewYet' /\ NoLegacyOptions'
    OBVIOUS
  <2> QED
    BY <2>1, <2>2, <2>3, <2>4, <2>5
<1>10. CASE Stop
  BY <1>10 DEF Stop
<1>11. CASE Crash
  <2> USE <1>11 DEF Crash, Fails
  <2>1. CASE dir' = dir
    BY <2>1
  <2>2. ASSUME NEW t \in Targets, boot = "removing", dir[t] = "old",
               dir' = [dir EXCEPT ![t] = "partial"]
        PROVE  IInv'
    BY <2>2
  <2> QED
    BY <2>1, <2>2
<1>12. CASE ChooseOptions
  BY <1>12 DEF ChooseOptions
<1>13. ASSUME NEW t \in Targets, Use(t) PROVE IInv'
  BY <1>13 DEF Use
<1>14. ASSUME NEW t \in Targets, Repair(t) PROVE IInv'
  BY <1>14 DEF Repair
<1>15. CASE UNCHANGED vars
  BY <1>15 DEF vars
<1> QED
  BY <1>1, <1>2, <1>3, <1>4, <1>5, <1>6, <1>7, <1>8, <1>9, <1>10, <1>11, <1>12, <1>13,
     <1>14, <1>15 DEF Next, Boot

(* The invariant of all starts.                                            *)
LEMMA Invariance == Spec => []IInv
  BY InitIInv, NextIInv, PTL DEF Spec

(* Every variable has the values of its file.                              *)
THEOREM TypeCorrect == Spec => []TypeOK
<1>1. IInv => TypeOK
  BY DEF IInv
<1> QED
  BY <1>1, Invariance, PTL

(* The completion marker is written only when nothing of an earlier        *)
(* version is left, and no service runs without it.                        *)
THEOREM CompletionIsTrue == Spec => []CompletedMeansGone
<1>1. IInv => CompletedMeansGone
  BY DEF IInv
<1> QED
  BY <1>1, Invariance, PTL

(* The options of an earlier version are never used.                       *)
THEOREM LegacyOptionsAreGone == Spec => []NoLegacyOptions
<1>1. IInv => NoLegacyOptions
  BY DEF IInv
<1> QED
  BY <1>1, Invariance, PTL

(* What version 3 has written is never deleted by a later start.           *)
THEOREM NewDataIsKept == Spec => NewDataSurvives
<1>1. ASSUME IInv, [Next]_vars, NEW t \in Targets, dir[t] = "new" PROVE dir'[t] = "new"
  <2> USE <1>1 DEF IInv, TypeOK, NothingNewYet, OldIsSafeToDelete, Deleting, At
  <2>1. ASSUME NEW u \in Targets, Remove(u) PROVE dir'[t] = "new"
    BY <2>1 DEF Remove
  <2>2. CASE Prepare
    BY <2>2 DEF Prepare
  <2>3. CASE Crash
    BY <2>3 DEF Crash
  <2>4. ASSUME NEW u \in Targets, Use(u) \/ Repair(u) PROVE dir'[t] = "new"
    BY <2>4 DEF Use, Repair
  <2>5. CASE UNCHANGED dir
    BY <2>5
  <2> QED
    BY <2>1, <2>2, <2>3, <2>4, <2>5
    DEF Next, Boot, Start, Check, CreateTemporary, FillTemporary, RenameTemporary,
        ResetOptions, RecordOptions, Stop, ChooseOptions, vars
<1>2. IInv /\ [Next]_vars => [\A t \in Targets : dir[t] = "new" => dir'[t] = "new"]_vars
  BY <1>1
<1> QED
  BY <1>2, Invariance, PTL DEF Spec, NewDataSurvives

(* Nothing is deleted while any target is unsafe.                          *)
THEOREM DeletionFailsClosed == Spec => FailsClosed
<1>1. ASSUME IInv, [Next]_vars, NEW t \in Targets, NEW u \in Targets, dir[u] = "unsafe",
             dir[t] \in {"old", "partial"}
      PROVE  dir'[t] = dir[t]
  <2> USE <1>1 DEF IInv, TypeOK, OldIsSafeToDelete, TargetsSafe, Deleting, At
  <2>1. ASSUME NEW x \in Targets, Remove(x) PROVE FALSE
    BY <2>1 DEF Remove
  <2>2. CASE Prepare
    BY <2>2 DEF Prepare
  <2>3. CASE Crash
    BY <2>3 DEF Crash
  <2>4. ASSUME NEW x \in Targets, Use(x) \/ Repair(x) PROVE dir'[t] = dir[t]
    BY <2>4 DEF Use, Repair
  <2>5. CASE UNCHANGED dir
    BY <2>5
  <2> QED
    BY <2>1, <2>2, <2>3, <2>4, <2>5
    DEF Next, Boot, Start, Check, CreateTemporary, FillTemporary, RenameTemporary,
        ResetOptions, RecordOptions, Stop, ChooseOptions, vars
<1>2. IInv /\ [Next]_vars =>
        [\A t, u \in Targets :
           (dir[u] = "unsafe" /\ dir[t] \in {"old", "partial"}) => dir'[t] = dir[t]]_vars
  BY <1>1
<1> QED
  BY <1>2, Invariance, PTL DEF Spec, FailsClosed

(* Options the App has run with stay, whatever is lost or interrupted: a   *)
(* start uses chosen options only when it finds the record of the reset,   *)
(* and no start that finds the record posts the defaults again.            *)
THEOREM ChoiceIsSafe == Spec => ChoiceInEffectStays
<1>1. ASSUME IInv, [Next]_vars, snapshot = "chosen"
      PROVE  options' = "chosen" /\ snapshot' = "chosen"
  <2> USE <1>1 DEF IInv, ChoiceIsRecorded, BeforeSnapshot, At
  <2>1. CASE ResetOptions
    BY <2>1 DEF ResetOptions, OptionsAreReset
  <2>2. CASE ChooseOptions
    BY <2>2 DEF ChooseOptions
  <2>3. CASE Prepare
    BY <2>3 DEF Prepare, SnapshotOf
  <2>4. CASE UNCHANGED <<options, snapshot>>
    BY <2>4
  <2> QED
    BY <2>1, <2>2, <2>3, <2>4
    DEF Next, Boot, Start, Check, Remove, CreateTemporary, FillTemporary, RenameTemporary,
        RecordOptions, Use, Repair, Stop, Crash, vars
<1>2. IInv /\ [Next]_vars =>
        [snapshot = "chosen" => (options' = "chosen" /\ snapshot' = "chosen")]_vars
  BY <1>1
<1> QED
  BY <1>2, Invariance, PTL DEF Spec, ChoiceInEffectStays

=============================================================================
