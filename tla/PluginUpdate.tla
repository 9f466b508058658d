------------------------------ MODULE PluginUpdate ------------------------------
(***************************************************************************)
(* managed-plugin-update: the transaction that puts the plugin of the      *)
(* image in place of the installed one, which the user may have edited, at *)
(* a start of the App, before any service runs.  A journal on disk says    *)
(* how far it got; a failure, or the next start after a crash, goes back   *)
(* or forward by it.                                                       *)
(*                                                                         *)
(* A tree is its version and whether the user edited it: two trees are the *)
(* same when their digests are.  Whatever a step does without effect on    *)
(* the disk (the native validation, a digest, a comparison) can fail like  *)
(* the write that comes next.  Left out are the fatal errors for a target  *)
(* that is neither the old tree nor the new one, and for an old tree that  *)
(* is gone: BeforeIsThere shows that they cannot be met.                   *)
(***************************************************************************)
EXTENDS Naturals, SequencesExt

CONSTANTS
    Versions,      \* the versions of the image
    None,          \* no tree, or no journal
    MaxImages,     \* bound on how often the App is updated
    MaxEdits,      \* bound on what the user does to the plugin
    MaxFailures    \* bound on crashes and on steps that fail

ASSUME BoundsAssumption == MaxImages \in Nat /\ MaxEdits \in Nat /\ MaxFailures \in Nat

BACKUP_RETENTION == 2

Trees == [version : Versions, edited : BOOLEAN]
Candidate(v) == [version |-> v, edited |-> FALSE]
Phases == {"preflighted", "backed_up", "staged", "validated", "activating",
           "activated", "postcondition_verified", "committed"}
Journals == [phase : Phases, before : Trees \union {None}, candidate : Trees \union {None}]
Places == Phases \union
    {"off", "recovering", "restoring", "clearing", "finishing", "looking",
     "staging", "describing", "displacing", "replacing", "pruning", "services"}
ASSUME NoneAssumption == None \notin Trees \union Journals

VARIABLES
    image,      \* the version of the image
    target,     \* the installed plugin
    journal,    \* managed-plugin.json
    stage,      \* the plugin that is about to be installed: none, partial or whole
    dir,        \* the directory of the journal's transaction: plugin.displaced, manifest
    kept,       \* the directories of earlier ones that have a manifest, by their mtime
    at,         \* what the updater does
    run,        \* recovering at the start, installing or caught; the old tree
    used        \* the bounded events that have happened

vars == <<image, target, journal, stage, dir, kept, at, run, used>>

NewDirectory == [displaced |-> None, manifest |-> FALSE]

Init ==
    /\ image \in Versions
    /\ target = None /\ journal = None /\ stage = "none"
    /\ dir = NewDirectory /\ kept = <<>>
    /\ at = "off"
    /\ run = [mode |-> "start", before |-> None]
    /\ used = [images |-> 0, edits |-> 0, failures |-> 0]

Goes(from, to) == at = from /\ at' = to
Fails == used.failures < MaxFailures /\ used' = [used EXCEPT !.failures = @ + 1]

-----------------------------------------------------------------------------
(* The directory of a transaction that has ended is one of those that may  *)
(* be pruned if it has a manifest.  The clock of a host may be wrong when  *)
(* the App starts: the newest directory is not always the last one made.   *)
Ended == [whole |-> TRUE, aside |-> FALSE,
          mark |-> IF run.mode # "start" /\ run.before # None THEN "current" ELSE "none"]
Leaves ==
    /\ journal' = None
    /\ IF dir.manifest
       THEN \E i \in 1..Len(kept) + 1 : kept' = InsertAt(kept, i, Ended)
       ELSE UNCHANGED kept
    /\ dir' = NewDirectory

(* What follows a recovery: the start looks at the plugin; an installation *)
(* that was caught leaves the services the old plugin, or ends the start.  *)
AfterRecovery ==
    IF run.mode = "start" THEN "looking"
    ELSE IF run.before # None THEN "pruning" ELSE "off"
Recovered == at' = AfterRecovery

(* recoverPendingTransaction                                               *)
DonePhasesEarly == {"activated", "postcondition_verified", "committed"}      \* mutant: too early
DonePhases == {"postcondition_verified", "committed"}
Recover ==
    /\ at = "recovering"
    /\ \/ journal = None /\ Recovered
       \/ /\ journal # None
          /\ at' = IF journal.phase \in DonePhases THEN "finishing" ELSE "restoring"
    /\ UNCHANGED <<image, target, journal, stage, dir, kept, run, used>>

(* restorePreviousPlugin: the new tree is moved aside, the old one back,   *)
(* and it must be valid.                                                   *)
MoveNewAside ==
    /\ at = "restoring"
    /\ target # None /\ target = journal.candidate
    /\ target' = None
    /\ UNCHANGED <<image, journal, stage, dir, kept, at, run, used>>

MoveOldBack ==
    /\ at = "restoring"
    /\ target = None /\ journal.before # None
    /\ target' = dir.displaced
    /\ dir' = [dir EXCEPT !.displaced = None]
    /\ UNCHANGED <<image, journal, stage, kept, at, run, used>>

IsRestored == target = journal.before
Restored ==
    /\ Goes("restoring", "clearing")
    /\ IsRestored
    /\ UNCHANGED <<image, target, journal, stage, dir, kept, run, used>>

MoveStageAside ==
    /\ at = "clearing" /\ stage # "none"
    /\ stage' = "none"
    /\ UNCHANGED <<image, target, journal, dir, kept, at, run, used>>

StageMayStay == TRUE      \* mutant: the staged plugin is left where it is
StageIsGone == stage = "none"
EndRestoring ==
    /\ at = "clearing" /\ StageIsGone
    /\ Leaves
    /\ Recovered
    /\ UNCHANGED <<image, target, stage, run, used>>

(* finishCommittedPlugin, at the end of an installation or to recover it.  *)
CanFinish == target = journal.candidate
Finish ==
    /\ at = "finishing"
    /\ CanFinish
    /\ Leaves
    /\ IF run.mode = "install" THEN at' = "pruning" ELSE Recovered
    /\ UNCHANGED <<image, target, stage, run, used>>

-----------------------------------------------------------------------------
(* main, after the recovery: is the plugin of this image installed?        *)
IsInstalled == target # None /\ target.version = image
Look ==
    /\ at = "looking"
    /\ \/ IsInstalled /\ at' = "pruning" /\ UNCHANGED run
       \/ /\ ~IsInstalled
          /\ at' = "preflighted"
          /\ run' = [mode |-> "install", before |-> target]
    /\ UNCHANGED <<image, target, journal, stage, dir, kept, used>>

(* saveJournal, with the phase that is the updater's place.  The digest of *)
(* the new tree is there from the phase staged on.                         *)
JournalLate ==      \* mutant: the digest is saved once the new tree is in place
    [phase |-> at, before |-> run.before,
     candidate |-> IF at \in {"preflighted", "backed_up", "staged", "validated", "activating"}
                   THEN None ELSE Candidate(image)]
Journal ==
    [phase |-> at, before |-> run.before,
     candidate |-> IF at \in {"preflighted", "backed_up"} THEN None ELSE Candidate(image)]
AfterSaving ==
    CASE at = "preflighted" -> "backed_up"
      [] at = "backed_up" -> "staging"
      [] at = "staged" -> "describing"
      [] at = "validated" -> "activating"
      [] at = "activating" -> IF run.before # None THEN "displacing" ELSE "replacing"
      [] at = "activated" -> "postcondition_verified"
      [] at = "postcondition_verified" -> "committed"
      [] at = "committed" -> "finishing"
Save ==
    /\ at \in Phases
    /\ journal' = Journal
    /\ at' = AfterSaving
    /\ UNCHANGED <<image, target, stage, dir, kept, run, used>>

Stage ==
    /\ Goes("staging", "staged")
    /\ stage' = "whole"
    /\ UNCHANGED <<image, target, journal, dir, kept, run, used>>

Describe ==
    /\ Goes("describing", "validated")
    /\ dir' = [dir EXCEPT !.manifest = TRUE]
    /\ UNCHANGED <<image, target, journal, stage, kept, run, used>>

Displace ==
    /\ Goes("displacing", "replacing")
    /\ dir' = [dir EXCEPT !.displaced = target]
    /\ target' = None
    /\ UNCHANGED <<image, journal, stage, kept, run, used>>

Replace ==
    /\ Goes("replacing", "activated")
    /\ target' = Candidate(image)
    /\ stage' = "none"
    /\ UNCHANGED <<image, journal, dir, kept, run, used>>

-----------------------------------------------------------------------------
(* pruneCompletedPluginBackups: of the directories that are not preserved, *)
(* the newest ones stay.  The directory of this start is preserved, and    *)
(* counts even if it has no manifest.                                      *)
IsCandidateUnpreserved(k) == ~k.aside      \* mutant: nothing is preserved
IsCandidate(k) == k.mark = "none" /\ ~k.aside
Newer(i) == {j \in i + 1..Len(kept) : IsCandidate(kept[j])}
Preserved == IF run.mode # "start" /\ run.before # None THEN 1 ELSE 0
DoomedBeyond ==      \* mutant: one more stays
    {i \in DOMAIN kept : /\ IsCandidate(kept[i])
                         /\ Cardinality(Newer(i)) + Preserved > BACKUP_RETENTION}
Doomed ==
    {i \in DOMAIN kept : /\ IsCandidate(kept[i])
                         /\ Cardinality(Newer(i)) + Preserved >= BACKUP_RETENTION}
LeftAside == {i \in DOMAIN kept : kept[i].aside /\ kept[i].mark = "none"}
Removable == IF LeftAside # {} THEN LeftAside ELSE Doomed

Prune ==
    /\ at = "pruning"
    /\ \E i \in Removable : kept' = RemoveAt(kept, i)
    /\ UNCHANGED <<image, target, journal, stage, dir, at, run, used>>

(* A removal that fails is not tried again in this start.  If files of the *)
(* directory are gone it is the newest one, if its manifest is gone nobody *)
(* removes it any more.  It may keep its other name, as after a crash.      *)
Spoilt(i, aside, mark) ==
    \/ kept' = [kept EXCEPT ![i].aside = aside, ![i].mark = mark]
    \/ kept' = Append(RemoveAt(kept, i), [whole |-> FALSE, aside |-> aside, mark |-> mark])
    \/ kept' = RemoveAt(kept, i)
PruneFails ==
    /\ at = "pruning" /\ Fails
    /\ \E i \in Removable, aside \in BOOLEAN :
         /\ kept[i].aside => aside
         /\ Spoilt(i, aside, "spared")
    /\ UNCHANGED <<image, target, journal, stage, dir, at, run>>
PruneCrashes ==
    /\ Goes("pruning", "off") /\ Fails
    /\ \E i \in Removable : Spoilt(i, TRUE, "none")
    /\ UNCHANGED <<image, target, journal, stage, dir, run>>

Serve ==
    /\ Goes("pruning", "services")
    /\ Removable = {}
    /\ UNCHANGED <<image, target, journal, stage, dir, kept, run, used>>

-----------------------------------------------------------------------------
(* A step fails: before its effect, or after it when it is the directory   *)
(* that cannot be synced.  What an installation does once its journal is   *)
(* there is caught; the recovery's own failures end the start.             *)
Halfway ==
    \/ UNCHANGED <<target, journal, stage, dir, kept>>
    \/ at = "staging" /\ stage' = "partial" /\ UNCHANGED <<target, journal, dir, kept>>
    \/ at \in Phases /\ journal' = Journal /\ UNCHANGED <<target, stage, dir, kept>>
    \/ at = "describing" /\ dir' = [dir EXCEPT !.manifest = TRUE]
       /\ UNCHANGED <<target, journal, stage, kept>>
    \/ at = "displacing" /\ dir' = [dir EXCEPT !.displaced = target] /\ target' = None
       /\ UNCHANGED <<journal, stage, kept>>
    \/ at = "replacing" /\ target' = Candidate(image) /\ stage' = "none"
       /\ UNCHANGED <<journal, dir, kept>>
    \/ at = "finishing" /\ Leaves /\ UNCHANGED <<target, stage>>
    \/ at = "clearing" /\ StageIsGone /\ Leaves /\ UNCHANGED <<target, stage>>
IsCaught == run.mode = "install" /\ at \notin {"preflighted", "pruning"}
Fail ==
    /\ at \notin {"off", "services"} /\ Fails
    /\ Halfway
    /\ IF IsCaught
       THEN at' = "recovering" /\ run' = [run EXCEPT !.mode = "caught"]
       ELSE at' = "off" /\ UNCHANGED run
    /\ UNCHANGED image

Crash ==
    /\ at \notin {"off", "services"} /\ at' = "off" /\ Fails
    /\ \/ UNCHANGED stage
       \/ at = "staging" /\ stage' = "partial"
    /\ UNCHANGED <<image, target, journal, dir, kept, run>>

-----------------------------------------------------------------------------
(* The App starts, with no directory of this start yet.                    *)
Start ==
    /\ Goes("off", "recovering")
    /\ run' = [mode |-> "start", before |-> None]
    /\ kept' = [i \in DOMAIN kept |-> [kept[i] EXCEPT !.mark = "none"]]
    /\ UNCHANGED <<image, target, journal, stage, dir, used>>

Stop ==
    /\ Goes("services", "off")
    /\ UNCHANGED <<image, target, journal, stage, dir, kept, run, used>>

(* The user, or an agent, edits the plugin or removes it.                  *)
Edit ==
    /\ at = "services" /\ target # None
    /\ used.edits < MaxEdits
    /\ used' = [used EXCEPT !.edits = @ + 1]
    /\ target' \in {[target EXCEPT !.edited = TRUE], None} \ {target}
    /\ UNCHANGED <<image, journal, stage, dir, kept, at, run>>

NewImage ==
    /\ at = "off"
    /\ used.images < MaxImages
    /\ used' = [used EXCEPT !.images = @ + 1]
    /\ image' \in Versions \ {image}
    /\ UNCHANGED <<target, journal, stage, dir, kept, at, run>>

-----------------------------------------------------------------------------
Updater ==
    \/ Recover \/ MoveNewAside \/ MoveOldBack \/ Restored \/ MoveStageAside
    \/ EndRestoring \/ Finish \/ Look \/ Save \/ Stage \/ Describe
    \/ Displace \/ Replace \/ Prune \/ Serve

Next ==
    \/ Updater \/ PruneFails \/ PruneCrashes \/ Fail \/ Crash
    \/ Start \/ Stop \/ Edit \/ NewImage

(* A start that is under way goes on; nobody need ever start the App.      *)
Spec == Init /\ [][Next]_vars /\ WF_vars(Updater)

-----------------------------------------------------------------------------
(* Properties                                                              *)

(* Every variable has the values of its file, and an interrupted start     *)
(* leaves no more of a transaction than its journal tells of.              *)
TypeOK ==
    /\ image \in Versions
    /\ target \in Trees \union {None}
    /\ journal \in Journals \union {None}
    /\ stage \in {"none", "partial", "whole"}
    /\ dir \in [displaced : Trees \union {None}, manifest : BOOLEAN]
    /\ kept \in Seq([whole : BOOLEAN, aside : BOOLEAN, mark : {"none", "current", "spared"}])
    /\ at \in Places
    /\ run \in [mode : {"start", "install", "caught"}, before : Trees \union {None}]
    /\ journal = None => stage = "none" /\ dir = NewDirectory
    /\ used \in [images : 0..MaxImages, edits : 0..MaxEdits, failures : 0..MaxFailures]

(* Until its journal is removed, a transaction has the old tree in place   *)
(* or displaced, and nothing else than its two trees is ever in place.     *)
BeforeIsThere ==
    journal # None =>
        /\ journal.before # None => journal.before \in {target, dir.displaced}
        /\ target \in {None, journal.before, journal.candidate}

(* A transaction ends with the old tree, edits included, unless the new    *)
(* one was found good in its place: then with the new one.                 *)
EndsByItsPhase ==
    [][journal # None /\ journal' = None =>
         target' = IF journal.phase \in {"postcondition_verified", "committed"}
                   THEN journal.candidate ELSE journal.before]_vars

(* The services start with a plugin, of this image or, with a warning, the *)
(* one of before, no transaction is open, and the backup that this start   *)
(* reports is whole, however wrong the clock.                              *)
ServesWhole ==
    [][at # "services" /\ at' = "services" =>
         /\ target # None /\ journal = None /\ stage = "none"
         /\ target.version = image \/ (run.mode = "caught" /\ target = run.before)
         /\ run.mode = "install" /\ run.before # None =>
              \E i \in DOMAIN kept : kept[i].mark = "current" /\ kept[i].whole]_vars

(* If the App is started again and again, its services run again and       *)
(* again, in the end with the plugin of the image and two backups at most. *)
Converges ==
    []<>(at = "recovering") =>
        /\ []<>(at = "services")
        /\ <>[](at = "services" => /\ IsInstalled
                                   /\ Len(kept) <= BACKUP_RETENTION)

=============================================================================
