------------------------------- MODULE FirstStart -------------------------------
(***************************************************************************)
(* The start of the App (antigravity-ha-init) as far as it concerns the    *)
(* two one-time resets of version 3.0: v3-factory-reset deletes the data   *)
(* of earlier versions, supervisor-options-migrate puts the options back   *)
(* to their defaults.  Both must survive an interruption anywhere.         *)
(*                                                                         *)
(* A crash is the end of every process at once, with the file system as it *)
(* is; what an unsynced rename leaves after a power loss is not modelled.  *)
(***************************************************************************)
EXTENDS Naturals

CONSTANTS
    Targets,       \* RESET_TARGET_NAMES
    MaxFailures    \* bound on crashes and on file operations that fail

ASSUME FailuresAssumption == MaxFailures \in Nat

DirStates == {"absent", "old", "partial", "unsafe", "new"}
OptionValues == {"legacy", "default", "chosen"}

VARIABLES
    dir,         \* each target: its data is of an earlier version, or new
    marker,      \* .antigravity-ha-v3-reset-complete.json is there
    temporary,   \* and its .tmp: none, partial or whole
    boot,        \* where antigravity-ha-init is
    options,     \* the options the Supervisor keeps
    file,        \* /data/options.json, written by the Supervisor at a start
    snapshot,    \* the options the App runs with
    optMarker,   \* .antigravity-ha-v3-options-complete.json is there
    failures

vars == <<dir, marker, temporary, boot, options, file, snapshot, optMarker, failures>>

(* A new installation, or an upgrade whose targets may be anything.        *)
Init ==
    /\ dir \in [Targets -> {"absent", "old", "unsafe"}]
    /\ marker = FALSE /\ temporary = "none"
    /\ boot = "off"
    /\ options \in {"legacy", "default"}
    /\ file = options /\ snapshot = "default"
    /\ optMarker = FALSE
    /\ failures = 0

At(from, to) == boot = from /\ boot' = to
Fails == failures < MaxFailures /\ failures' = failures + 1

-----------------------------------------------------------------------------
(* The Supervisor starts the App, with the options it has.                 *)
Start ==
    /\ At("off", "checking")
    /\ file' = options
    /\ UNCHANGED <<dir, marker, temporary, options, snapshot, optMarker, failures>>

(* readCompletedMarker, and the validation of all targets before any is    *)
(* touched.  A fatal error ends the start.                                 *)
TargetsSafeOnes == \E t \in Targets : dir[t] # "unsafe"      \* mutant: not all are looked at
TargetsSafe == \A t \in Targets : dir[t] # "unsafe"
Check ==
    /\ \/ marker /\ At("checking", "preparing")
       \/ ~marker /\ TargetsSafe /\ At("checking", "removing")
       \/ ~marker /\ ~TargetsSafe /\ At("checking", "off")
    /\ UNCHANGED <<dir, marker, temporary, options, file, snapshot, optMarker, failures>>

(* rmSync of one target; the order of the targets is of no account.        *)
Remove(t) ==
    /\ dir[t] # "absent"
    /\ \/ /\ At("removing", "removing")
          /\ dir' = [dir EXCEPT ![t] = "absent"]
          /\ UNCHANGED failures
       \/ /\ At("removing", "off") /\ Fails
          /\ dir' = [dir EXCEPT ![t] = "partial"]
    /\ UNCHANGED <<marker, temporary, options, file, snapshot, optMarker>>

(* writeCompletedMarker: a temporary file left by an earlier start goes    *)
(* first, for the new one is created exclusively.                          *)
AllRemovedOrBegun == \A t \in Targets : dir[t] # "old"      \* mutant: what is left of one is not seen
AllRemoved == \A t \in Targets : dir[t] = "absent"
TemporaryFreeOnly == temporary = "none"      \* mutant: the earlier file is in the way
TemporaryUsable == TRUE
CreateTemporary ==
    /\ AllRemoved
    /\ \/ TemporaryUsable /\ At("removing", "filling") /\ temporary' = "partial"
       \/ ~TemporaryUsable /\ At("removing", "off") /\ UNCHANGED temporary
    /\ UNCHANGED <<dir, marker, options, file, snapshot, optMarker, failures>>

AfterWriteFailureOn == "preparing"      \* mutant: the start goes on without a marker
AfterWriteFailure == "off"
FillTemporary ==
    /\ \/ /\ At("filling", "renaming")
          /\ temporary' = "whole"
          /\ UNCHANGED failures
       \/ /\ At("filling", AfterWriteFailure) /\ Fails
          /\ temporary' = "none"
    /\ UNCHANGED <<dir, marker, options, file, snapshot, optMarker>>

(* The rename, and the fsync of the directory, which may fail after it.    *)
RenameTemporary ==
    /\ \/ At("renaming", "preparing") /\ UNCHANGED failures
       \/ At("renaming", "off") /\ Fails
    /\ marker' = TRUE
    /\ temporary' = "none"
    /\ UNCHANGED <<dir, options, file, snapshot, optMarker>>

(* The init script makes its directories and the snapshot of the options:  *)
(* the defaults until the reset of the options has been recorded.  Options *)
(* of an earlier version are not valid.                                    *)
SnapshotAlways == file      \* mutant: the stored options are used from the start
SnapshotValid ==      \* mutant: options of version 3 need no record of the reset
    IF optMarker \/ file # "legacy" THEN file ELSE "default"
SnapshotOf == IF optMarker THEN file ELSE "default"
Prepare ==
    /\ \E made \in SUBSET Targets :
         dir' = [t \in Targets |-> IF dir[t] = "absent" /\ t \in made THEN "new" ELSE dir[t]]
    /\ At("preparing", "resetting")
    /\ snapshot' = SnapshotOf
    /\ UNCHANGED <<marker, temporary, options, file, optMarker, failures>>

(* resetSupervisorOptions: nothing to do, or no credential, or the request *)
(* is answered, or it is lost, or its answer is.                           *)
OptionsAreReset == optMarker
Posted == options' = "default"
ResetOptions ==
    /\ \/ At("resetting", "services") /\ UNCHANGED options
       \/ At("resetting", "services") /\ ~OptionsAreReset /\ Posted
       \/ At("resetting", "recording") /\ ~OptionsAreReset /\ Posted
    /\ UNCHANGED <<dir, marker, temporary, file, snapshot, optMarker, failures>>

(* writeCompletion, whose failure only leaves the reset to the next start. *)
RecordOptions ==
    /\ At("recording", "services")
    /\ \/ optMarker' = TRUE /\ UNCHANGED failures
       \/ Fails /\ UNCHANGED optMarker
    /\ UNCHANGED <<dir, marker, temporary, options, file, snapshot>>

-----------------------------------------------------------------------------
(* While the services run, they make data of their own.                    *)
Use(t) ==
    /\ boot = "services"
    /\ dir[t] = "absent"
    /\ dir' = [dir EXCEPT ![t] = "new"]
    /\ UNCHANGED <<marker, temporary, boot, options, file, snapshot, optMarker, failures>>

(* The user saves options; they take effect at the next start.             *)
ChooseOptions ==
    /\ options' = "chosen"
    /\ UNCHANGED <<dir, marker, temporary, boot, file, snapshot, optMarker, failures>>

(* The user puts right what the reset refused to touch.                    *)
Repair(t) ==
    /\ boot = "off" /\ dir[t] = "unsafe"
    /\ \E d \in {"absent", "old"} : dir' = [dir EXCEPT ![t] = d]
    /\ UNCHANGED <<marker, temporary, boot, options, file, snapshot, optMarker, failures>>

Stop ==
    /\ At("services", "off")
    /\ UNCHANGED <<dir, marker, temporary, options, file, snapshot, optMarker, failures>>

Crash ==
    /\ boot \notin {"off", "services"} /\ boot' = "off" /\ Fails
    /\ dir' \in {dir} \union {[dir EXCEPT ![t] = "partial"] :
                                t \in {u \in Targets : boot = "removing" /\ dir[u] = "old"}}
    /\ UNCHANGED <<marker, temporary, options, file, snapshot, optMarker>>

-----------------------------------------------------------------------------
Boot ==
    \/ Check \/ (\E t \in Targets : Remove(t))
    \/ CreateTemporary \/ FillTemporary \/ RenameTemporary
    \/ Prepare \/ ResetOptions \/ RecordOptions

Next ==
    \/ Start \/ Boot \/ Stop \/ Crash \/ ChooseOptions
    \/ \E t \in Targets : Use(t) \/ Repair(t)

(* A start that is under way goes on; nobody need ever start the App.      *)
Spec == Init /\ [][Next]_vars /\ WF_vars(Boot)

-----------------------------------------------------------------------------
(* Properties                                                              *)

(* Every variable has the values of its file, and a reset of the options   *)
(* that has been recorded is not recorded again.                           *)
TypeOK ==
    /\ dir \in [Targets -> DirStates]
    /\ marker \in BOOLEAN /\ temporary \in {"none", "partial", "whole"}
    /\ boot \in {"off", "checking", "removing", "filling", "renaming", "preparing",
                 "resetting", "recording", "services"}
    /\ options \in OptionValues /\ file \in OptionValues /\ snapshot \in OptionValues
    /\ optMarker \in BOOLEAN
    /\ boot = "recording" => ~optMarker
    /\ failures \in 0..MaxFailures

(* The marker is there only when nothing of an earlier version is (RST-03: *)
(* "records completion only after success"), and no service runs without   *)
(* it.                                                                     *)
CompletedMeansGone ==
    /\ marker => \A t \in Targets : dir[t] \in {"absent", "new"}
    /\ boot \in {"preparing", "resetting", "recording", "services"} => marker

(* What version 3 has written is never deleted by a later start (RST-01:   *)
(* "perform the reset exactly once").                                      *)
NewDataSurvives ==
    [][\A t \in Targets : dir[t] = "new" => dir'[t] = "new"]_vars

(* While one target is unsafe, nothing is deleted from the others (RST-04).*)
FailsClosed ==
    [][\A t, u \in Targets :
         (dir[u] = "unsafe" /\ dir[t] \in {"old", "partial"}) => dir'[t] = dir[t]]_vars

(* "Discarded options cannot reappear" (RST-05), although the Supervisor   *)
(* writes options.json before the reset and may not hear of it.            *)
NoLegacyOptions == snapshot # "legacy"

(* Options the user has chosen and the App has once run with stay, stored  *)
(* and in effect.  The init script (options_reset_complete) and the        *)
(* migration (resetSupervisorOptions) each look for the record of the      *)
(* reset, at different moments; when an answer or a record is lost the     *)
(* defaults are posted again, and what the user has saved meanwhile is     *)
(* overwritten: none of it may have been in effect.                        *)
ChoiceInEffectStays ==
    [][snapshot = "chosen" => (options' = "chosen" /\ snapshot' = "chosen")]_vars

(* An App that is started again and again, or stays up, gets through its   *)
(* reset, once its targets are safe and failures have ended (RST-03).      *)
ResetCompletes ==
    (/\ <>[](\A t \in Targets : dir[t] # "unsafe")
     /\ []<>(boot \in {"checking", "services"})) => <>[]marker

=============================================================================
