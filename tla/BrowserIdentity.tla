---------------------------- MODULE BrowserIdentity ----------------------------
(***************************************************************************)
(* The provisioning of the browser's read-only Home Assistant user, by     *)
(* browser-user-admin.mjs: auto-setup makes the user, gives it a password  *)
(* credential for as long as it takes to log in, trades that login for a   *)
(* long-lived access token (LLAT) and takes the credential away again;     *)
(* auto-remove deletes the user.  operation.lock lets one run go at a time.*)
(*                                                                         *)
(* A run may die at any point.  A request to Home Assistant is answered,   *)
(* or fails before or after it has taken effect; one that has failed takes *)
(* no effect later.  A write replaces its file whole or fails.             *)
(***************************************************************************)
EXTENDS Naturals

CONSTANTS
    Names,         \* user names of temporary credentials
    Logins,        \* refresh tokens of logins ("normal")
    Llats,         \* refresh tokens of LLATs, each also for its raw token
    None,
    MaxFailures,   \* bound on deaths, failed requests and failed writes
    MaxChanges     \* bound on removals and on what an administrator does

ASSUME NoneAssumption == None \notin Names \cup Logins \cup Llats
ASSUME BoundsAssumption == MaxFailures \in Nat /\ MaxChanges \in Nat

VARIABLES
    disk,          \* managed-user.json: phase, and the journaled user name
    tokenFile,     \* managed-token
    ha,            \* what Home Assistant has of the managed user
    run,           \* the run of browser-user-admin.mjs, and its variables
    failures, changes

vars == <<disk, tokenFile, ha, run, failures, changes>>

Phases == {"none", "creating", "provisioning", "ready"}
State(phase, journal) == [phase |-> phase, journal |-> journal]

(* user: the user is there, and as it was made.  credential: the provider  *)
(* has a password for the name, and the user is linked to it.              *)
Users == {"absent", "exact", "changed"}
Credentials == {"none", "unlinked", "linked"}
HomeAssistant == [user : Users, credential : [Names -> Credentials],
                  logins : SUBSET Logins, llats : SUBSET Llats]
Linked == \E n \in Names : ha.credential[n] = "linked"

(* findManagedUser gave a user; state, the raw tokens and the flags are    *)
(* the variables of setupManagedBrowserAuth, back where reconciliation     *)
(* goes on, error the class of the error caught.                           *)
Off == [at |-> "off", operation |-> "setup", state |-> State("none", None),
        user |-> FALSE, createdThisRun |-> FALSE, temporaryUsername |-> None,
        temporaryCredentialAttempted |-> FALSE, temporaryRefreshToken |-> None,
        temporarySession |-> FALSE, managedToken |-> None, managedSession |-> FALSE,
        managedTokenCleanupAuthorized |-> FALSE, managedTokenCreationAttempted |-> FALSE,
        pendingStoredToken |-> FALSE, temporaryTokenCleanupRequired |-> FALSE,
        journalCleanupRequired |-> FALSE, preservePersistentState |-> FALSE,
        error |-> "none", back |-> "none"]

Init ==
    /\ disk = State("none", None) /\ tokenFile = None
    /\ ha = [user |-> "absent", credential |-> [n \in Names |-> "none"],
             logins |-> {}, llats |-> {}]
    /\ run = Off
    /\ failures = 0 /\ changes = 0

Fails == failures < MaxFailures /\ failures' = failures + 1
Changes == changes < MaxChanges /\ changes' = changes + 1

Goes(place) == [run EXCEPT !.at = place]

(* An error is caught: in auto-setup the rollback begins, auto-remove ends.*)
Thrown(r, error) ==
    IF r.operation = "remove" THEN Off
    ELSE [r EXCEPT !.at = IF ~r.managedSession /\ error = "changed"
                          THEN "disabling" ELSE "sweeping",
                   !.back = "catch", !.error = error,
                   !.preservePersistentState = (r.pendingStoredToken \/ error = "preserve")]

(* A request with its effect.  It is refused where it cannot work, and     *)
(* where it fails any of the partial effects may have happened.            *)
Request(works, effect, partial, answered, failed) ==
    \/ works /\ ha' = effect /\ run' = answered /\ UNCHANGED failures
    \/ works /\ Fails /\ ha' \in partial \cup {ha, effect} /\ run' = failed
    \/ ~works /\ run' = failed /\ UNCHANGED <<ha, failures>>

WriteManagedState(state, done, failed) ==
    \/ disk' = state /\ run' = done /\ UNCHANGED failures
    \/ UNCHANGED disk /\ run' = failed /\ Fails

WithCredential(name, c) == [ha EXCEPT !.credential[name] = c]
WithoutUser ==
    [user |-> "absent", logins |-> {}, llats |-> {},
     credential |-> [n \in Names |-> IF ha.credential[n] = "linked" THEN "none"
                                     ELSE ha.credential[n]]]
(* Other tokens are deleted one by one, so a failure may leave some.       *)
WithTokens(logins, llats) == [ha EXCEPT !.logins = logins, !.llats = llats]
Partly(old, kept) == {old \ K : K \in SUBSET (old \ kept)}
Fewer(logins, llats) ==
    {WithTokens(L, M) : L \in Partly(ha.logins, logins), M \in Partly(ha.llats, llats)}

-----------------------------------------------------------------------------
(* auto-setup: the state is read, or begun.  (Without an answer from the   *)
(* Supervisor, or a list of users, the run ends here: nothing is caught.)  *)
BeginSetup ==
    /\ run.at = "off"
    /\ LET state == IF disk.phase = "none" THEN State("creating", None) ELSE disk
       IN  /\ disk' = state
           /\ run' = [Off EXCEPT !.at = "finding", !.state = state,
                                 !.journalCleanupRequired = (state.journal # None)]
    /\ UNCHANGED <<tokenFile, ha, failures, changes>>

Cleaning(r) == [r EXCEPT !.at = "cleaning", !.pendingStoredToken = (tokenFile # None)]
FindManagedUser ==
    /\ run.at = "finding" /\ run.operation = "setup"
    /\ LET found == [run EXCEPT !.user = TRUE] IN
       \/ /\ ha.user = "absent" /\ run.state.journal # None
          /\ run' = Thrown(run, "orphaned") /\ UNCHANGED tokenFile
       \/ /\ ha.user = "absent" /\ run.state.journal = None
          /\ tokenFile' = None
          /\ run' = [run EXCEPT !.at = "resetting", !.state = State("creating", None)]
       \/ /\ ha.user = "changed"
          /\ run' = Thrown(found, "changed") /\ UNCHANGED tokenFile
       \/ /\ ha.user = "exact" /\ UNCHANGED tokenFile
          /\ run' = CASE run.state.phase = "creating" -> [found EXCEPT !.at = "adopting"]
                      [] run.state.phase = "ready" -> [found EXCEPT !.at = "checking"]
                      [] OTHER -> Cleaning(found)
    /\ UNCHANGED <<disk, ha, failures, changes>>

WriteCreating ==
    /\ run.at = "resetting"
    /\ WriteManagedState(run.state, Goes("asking"), Thrown(run, "other"))
    /\ UNCHANGED <<tokenFile, ha, changes>>

CreateManagedUser ==
    /\ run.at = "asking"
    /\ Request(ha.user = "absent", [ha EXCEPT !.user = "exact"], {},
               [run EXCEPT !.at = "adopting", !.user = TRUE, !.createdThisRun = TRUE],
               Thrown(run, "other"))
    /\ UNCHANGED <<disk, tokenFile, changes>>

(* The state comes to name the user.                                       *)
AdoptUser ==
    /\ run.at = "adopting"
    /\ LET adopted == [run EXCEPT !.state = State("provisioning", None)]
       IN  WriteManagedState(adopted.state, Cleaning(adopted), Thrown(adopted, "other"))
    /\ UNCHANGED <<tokenFile, ha, changes>>

(* A ready identity: its token is validated.  One that Home Assistant      *)
(* rejects is dropped, and before anything is replaced the password        *)
(* provider must be there; one that is valid ends the run.                 *)
Valid(token) == token \in ha.llats /\ ha.llats = {token} /\ ha.logins = {}
CheckReady ==
    /\ run.at = "checking"
    /\ LET dropped == IF Linked \/ tokenFile \in ha.llats THEN tokenFile ELSE None
           answer == CASE Linked -> Thrown(run, "changed")
                       [] Valid(tokenFile) -> Off
                       [] tokenFile \in ha.llats ->
                            [run EXCEPT !.at = "disabling", !.back = "reopening"]
                       [] OTHER -> Goes("reopening")
       IN \/ tokenFile' = dropped /\ run' = answer /\ UNCHANGED failures
          \/ /\ ~Linked /\ Fails
             /\ tokenFile' \in {tokenFile, dropped} /\ run' = Thrown(run, "preserve")
    /\ UNCHANGED <<disk, ha, changes>>

RepairedAsReady ==            \* mutant: a ready identity is repaired as it is
    /\ run.at = "reopening"
    /\ run' = Goes("cleaning")
    /\ UNCHANGED <<disk, tokenFile, ha, failures, changes>>
Reopen ==
    /\ run.at = "reopening"
    /\ LET reopened == [run EXCEPT !.at = "cleaning", !.state.phase = "provisioning"]
       IN  WriteManagedState(reopened.state, reopened, Thrown(reopened, "other"))
    /\ UNCHANGED <<tokenFile, ha, changes>>

(* disableStoredManagedToken: the stored token is deleted, by a session of *)
(* its own, or known to be rejected; only then its file is unlinked.       *)
DisableStoredManagedToken ==
    /\ run.at = "disabling"
    /\ LET done == IF run.operation = "remove" THEN Off
                   ELSE Goes(IF run.back = "catch" THEN "sweeping" ELSE "reopening")
           failed == IF run.back = "catch"
                     THEN [run EXCEPT !.at = "sweeping", !.preservePersistentState = TRUE]
                     ELSE Thrown(run, "preserve")
       IN \/ /\ ha' = WithTokens(ha.logins, ha.llats \ {tokenFile})
             /\ tokenFile' = None /\ run' = done /\ UNCHANGED failures
          \/ /\ tokenFile # None /\ Fails
             /\ ha' \in {ha, WithTokens(ha.logins, ha.llats \ {tokenFile})}
             /\ run' = failed /\ UNCHANGED tokenFile
    /\ UNCHANGED <<disk, changes>>

-----------------------------------------------------------------------------
(* What an interrupted run left: the journaled credential goes, by the     *)
(* name if the user is linked to it, else by reconciliation.               *)
CleanJournaled ==
    /\ run.at = "cleaning"
    /\ LET name == run.state.journal
           cleaned == IF ha.user = "exact" THEN Goes("journaling") ELSE Thrown(run, "other")
       IN IF name # None /\ ha.credential[name] = "linked"
          THEN Request(TRUE, WithCredential(name, "none"), {}, cleaned, Thrown(run, "other"))
          ELSE /\ run' = CASE Linked -> Thrown(run, "changed")
                           [] name = None -> Goes("journaling")
                           [] OTHER -> [run EXCEPT !.at = "deleting", !.back = "cleaned"]
               /\ UNCHANGED <<ha, failures>>
    /\ UNCHANGED <<disk, tokenFile, changes>>

(* The name of a new credential is written down before it is made.         *)
UnjournaledCredential ==      \* mutant: the credential is made, then journaled
    /\ run.at = "journaling"
    /\ \E n \in Names \ {disk.journal} :
          /\ ha.credential[n] = "none"
          /\ run' = [run EXCEPT !.at = "crediting", !.temporaryUsername = n,
                                !.temporaryCredentialAttempted = TRUE]
    /\ UNCHANGED <<disk, tokenFile, ha, failures, changes>>
JournalCredential ==
    /\ run.at = "journaling"
    /\ \E n \in Names \ {disk.journal} :
          /\ ha.credential[n] = "none"
          /\ LET named == [run EXCEPT !.state.journal = n, !.temporaryUsername = n]
             IN  WriteManagedState(named.state,
                     [named EXCEPT !.at = "crediting", !.journalCleanupRequired = TRUE,
                                   !.temporaryCredentialAttempted = TRUE],
                     Thrown(named, "other"))
    /\ UNCHANGED <<tokenFile, ha, changes>>

CreateCredential ==
    /\ run.at = "crediting"
    /\ Request(ha.user # "absent", WithCredential(run.temporaryUsername, "linked"),
               {WithCredential(run.temporaryUsername, "unlinked")},
               [run EXCEPT !.at = "login", !.temporaryTokenCleanupRequired = TRUE],
               Thrown(run, "other"))
    /\ UNCHANGED <<disk, tokenFile, changes>>

LoginWithTemporaryCredential ==
    /\ run.at = "login"
    /\ \E t \in Logins \ ha.logins :
          Request(ha.credential[run.temporaryUsername] = "linked",
                  WithTokens(ha.logins \cup {t}, ha.llats), {},
                  [run EXCEPT !.at = "opening", !.temporaryRefreshToken = t],
                  Thrown(run, "other"))
    /\ UNCHANGED <<disk, tokenFile, changes>>

(* The temporary session is opened; it deletes every other token.          *)
OpenTemporarySession ==
    /\ run.at = "opening"
    /\ Request(run.temporaryRefreshToken \in ha.logins, ha, {},
               [run EXCEPT !.at = "preparing", !.temporarySession = TRUE],
               Thrown(run, "other"))
    /\ UNCHANGED <<disk, tokenFile, changes>>

PrepareTemporaryRefreshToken ==
    /\ run.at = "preparing"
    /\ LET current == {run.temporaryRefreshToken}
       IN  Request(current \subseteq ha.logins, WithTokens(current, {}), Fewer(current, {}),
                   Goes("unpending"), Thrown(run, "other"))
    /\ UNCHANGED <<disk, tokenFile, changes>>

(* Now a token stored by an earlier run is dead.                           *)
DropPendingToken ==
    /\ run.at = "unpending"
    /\ IF run.pendingStoredToken THEN tokenFile' = None ELSE UNCHANGED tokenFile
    /\ run' = [run EXCEPT !.at = "minting", !.pendingStoredToken = FALSE]
    /\ UNCHANGED <<disk, ha, failures, changes>>

CreateManagedToken ==
    /\ run.at = "minting"
    /\ \E l \in Llats \ (ha.llats \cup {tokenFile}) :
          LET tried == [run EXCEPT !.managedTokenCreationAttempted = TRUE]
          IN  Request(run.temporaryRefreshToken \in ha.logins,
                      WithTokens(ha.logins, ha.llats \cup {l}), {},
                      [tried EXCEPT !.at = "admitting", !.managedToken = l],
                      Thrown(tried, "other"))
    /\ UNCHANGED <<disk, tokenFile, changes>>

(* The managed session is opened, and what it says of itself is checked.   *)
OpenManagedSession ==
    /\ run.at = "admitting"
    /\ \E opened \in BOOLEAN :
          Request(run.managedToken \in ha.llats, ha, {},
                  [run EXCEPT !.at = "storing", !.managedSession = TRUE,
                              !.managedTokenCleanupAuthorized = TRUE],
                  Thrown([run EXCEPT !.managedSession = opened], "other"))
    /\ UNCHANGED <<disk, tokenFile, changes>>

StoreManagedToken ==
    /\ run.at = "storing"
    /\ \/ tokenFile' = run.managedToken /\ run' = Goes("enforcing") /\ UNCHANGED failures
       \/ Fails /\ run' = Thrown(run, "other") /\ UNCHANGED tokenFile
    /\ UNCHANGED <<disk, ha, changes>>

(* enforceSingleManagedToken, here and in the rollback.                    *)
Enforced(place) ==
    [run EXCEPT !.at = place, !.temporaryTokenCleanupRequired = FALSE,
                !.temporaryRefreshToken = None, !.temporarySession = FALSE]
EnforceSingleManagedToken(place, failed) ==
    LET current == {run.managedToken}
    IN  Request(current \subseteq ha.llats, WithTokens({}, current), Fewer({}, current),
                Enforced(place), failed)
Enforce ==
    /\ run.at = "enforcing"
    /\ EnforceSingleManagedToken("uncrediting", Thrown(run, "other"))
    /\ UNCHANGED <<disk, tokenFile, changes>>

(* The credential goes, and the list of users shows that it has.           *)
DeleteCredential ==
    /\ run.at = "uncrediting"
    /\ Request(ha.credential[run.temporaryUsername] # "none",
               WithCredential(run.temporaryUsername, "none"), {},
               IF ha.user = "exact" THEN Goes("clearing") ELSE Thrown(run, "other"),
               Thrown(run, "other"))
    /\ UNCHANGED <<disk, tokenFile, changes>>

ClearJournal ==
    /\ run.at = "clearing"
    /\ WriteManagedState(State("provisioning", None),
           [run EXCEPT !.at = "finishing", !.state.journal = None,
                       !.journalCleanupRequired = FALSE,
                       !.temporaryCredentialAttempted = FALSE],
           Thrown(run, "other"))
    /\ UNCHANGED <<tokenFile, ha, changes>>

(* The token is validated and written again, and the state is ready.       *)
Finish ==
    /\ run.at = "finishing"
    /\ \/ /\ Valid(run.managedToken)
          /\ tokenFile' = run.managedToken
          /\ disk' = State("ready", None)
          /\ run' = Off /\ UNCHANGED failures
       \/ /\ ~Valid(run.managedToken) /\ run' = Thrown(run, "other")
          /\ UNCHANGED <<disk, tokenFile, failures>>
       \/ Fails /\ run' = Thrown(run, "other") /\ UNCHANGED <<disk, tokenFile>>
    /\ UNCHANGED <<ha, changes>>

Provision ==
    \/ FindManagedUser \/ WriteCreating \/ CreateManagedUser \/ AdoptUser
    \/ CheckReady \/ Reopen \/ DisableStoredManagedToken
    \/ CleanJournaled \/ JournalCredential \/ CreateCredential
    \/ LoginWithTemporaryCredential \/ OpenTemporarySession
    \/ PrepareTemporaryRefreshToken \/ DropPendingToken \/ CreateManagedToken
    \/ OpenManagedSession \/ StoreManagedToken \/ Enforce
    \/ DeleteCredential \/ ClearJournal \/ Finish

-----------------------------------------------------------------------------
(* The rollback.  First the login: by the managed session if there is one. *)
SweepTokens ==
    /\ run.at = "sweeping"
    /\ IF /\ run.managedSession /\ run.managedTokenCleanupAuthorized
          /\ run.temporaryTokenCleanupRequired
       THEN EnforceSingleManagedToken("unminting", Goes("unminting"))
       ELSE run' = Goes("unminting") /\ UNCHANGED <<ha, failures>>
    /\ UNCHANGED <<disk, tokenFile, changes>>

(* Then the new LLAT: by the temporary session and its client name, or by  *)
(* its own session.  Where neither proves it gone, its raw token is kept.  *)
Unminted == [run EXCEPT !.at = "revoking", !.managedToken = None,
                        !.managedTokenCreationAttempted = FALSE]
PreserveUncertainManagedToken ==
    IF run.managedToken = None
    THEN run' = Goes("revoking") /\ UNCHANGED tokenFile
    ELSE \/ /\ tokenFile' = run.managedToken
            /\ run' = [run EXCEPT !.at = "revoking", !.preservePersistentState = TRUE]
         \/ UNCHANGED tokenFile /\ run' = Goes("revoking")
RemoveNewToken ==
    /\ run.at = "unminting"
    /\ LET byName == run.managedTokenCreationAttempted /\ ~run.managedSession
                     /\ run.temporarySession
           works == IF byName THEN run.temporaryRefreshToken \in ha.logins
                    ELSE run.managedToken \in ha.llats
           kept == IF byName THEN {} ELSE ha.llats \ {run.managedToken}
       IN IF byName \/ run.managedSession
          THEN \/ /\ works /\ ha' = WithTokens(ha.logins, kept)
                  /\ run' = Unminted /\ UNCHANGED <<tokenFile, failures>>
               \/ /\ works /\ Fails /\ ha' \in Fewer(ha.logins, kept)
                  /\ PreserveUncertainManagedToken
               \/ ~works /\ PreserveUncertainManagedToken /\ UNCHANGED <<ha, failures>>
          ELSE run' = Goes("revoking") /\ UNCHANGED <<tokenFile, ha, failures>>
    /\ UNCHANGED <<disk, changes>>

RevokeTemporaryRefreshToken ==
    /\ run.at = "revoking"
    /\ LET next == [run EXCEPT !.at = IF run.temporaryCredentialAttempted
                                      THEN "deleting" ELSE "settling", !.back = "catch"]
       IN  IF run.temporaryTokenCleanupRequired /\ run.temporaryRefreshToken # None
           THEN Request(TRUE, WithTokens(ha.logins \ {run.temporaryRefreshToken}, ha.llats), {},
                        [next EXCEPT !.temporaryRefreshToken = None,
                                     !.temporaryTokenCleanupRequired = FALSE], next)
           ELSE run' = next /\ UNCHANGED <<ha, failures>>
    /\ UNCHANGED <<disk, tokenFile, changes>>

(* reconcileJournaledTemporaryCredential: delete; if that fails create and *)
(* delete, which removes a credential whether it was there, or unlinked.   *)
Name == IF run.back = "catch" THEN run.temporaryUsername ELSE run.state.journal
Reconciled == Goes(CASE run.back = "catch" -> "unjournaling"
                     [] run.back = "remove" -> "unlisting"
                     [] OTHER -> "journaling")
Unreconciled == IF run.back = "catch" THEN Goes("settling") ELSE Thrown(run, "orphaned")
ReconcileByDeletion ==        \* mutant: what cannot be deleted is not made first
    /\ run.at = "deleting"
    /\ Request(ha.credential[Name] # "none", WithCredential(Name, "none"), {},
               Reconciled, Unreconciled)
    /\ UNCHANGED <<disk, tokenFile, changes>>
ReconcileDelete ==
    /\ run.at = "deleting"
    /\ \/ Request(ha.credential[Name] # "none", WithCredential(Name, "none"), {},
                  Reconciled, Goes("recreating"))
       \/ Fails /\ run' = Unreconciled /\ UNCHANGED ha
    /\ UNCHANGED <<disk, tokenFile, changes>>
ReconcileCreate ==
    /\ run.at = "recreating"
    /\ Request(ha.user # "absent" /\ ha.credential[Name] = "none",
               WithCredential(Name, "linked"), {WithCredential(Name, "unlinked")},
               Goes("redeleting"), Goes("redeleting"))
    /\ UNCHANGED <<disk, tokenFile, changes>>
ReconcileDeleteAgain ==
    /\ run.at = "redeleting"
    /\ Request(ha.credential[Name] # "none", WithCredential(Name, "none"), {},
               Reconciled, Unreconciled)
    /\ UNCHANGED <<disk, tokenFile, changes>>
(* The journal is cleared if no login can be left.                         *)
UnjournalAfterRollback ==
    /\ run.at = "unjournaling"
    /\ LET settled == [run EXCEPT !.at = "settling", !.temporaryCredentialAttempted = FALSE]
       IN \/ /\ ha.user = "exact" /\ run.temporaryTokenCleanupRequired
             /\ run' = [settled EXCEPT !.state = State("provisioning", run.temporaryUsername),
                                       !.journalCleanupRequired = TRUE]
             /\ UNCHANGED <<disk, failures>>
          \/ /\ ha.user = "exact" /\ ~run.temporaryTokenCleanupRequired
             /\ WriteManagedState(State("provisioning", None),
                    [settled EXCEPT !.state = State("provisioning", None),
                                    !.journalCleanupRequired = FALSE],
                    Goes("settling"))
          \/ ha.user # "exact" /\ run' = Goes("settling") /\ UNCHANGED <<disk, failures>>
    /\ UNCHANGED <<tokenFile, ha, changes>>

(* What becomes of the files, and of a user made by this run.              *)
PreserveJournalState ==
    \/ run.journalCleanupRequired \/ run.temporaryTokenCleanupRequired
    \/ run.error = "orphaned" \/ run.temporaryCredentialAttempted
Settle ==
    /\ run.at = "settling"
    /\ \/ /\ run.preservePersistentState
          /\ run' = Off /\ UNCHANGED <<tokenFile, ha, failures>>
       \/ /\ ~run.preservePersistentState /\ PreserveJournalState
          /\ tokenFile' = None /\ run' = Off /\ UNCHANGED <<ha, failures>>
       \/ /\ ~run.preservePersistentState /\ ~PreserveJournalState /\ run.createdThisRun
          /\ Request(ha.user # "absent", WithoutUser, {}, Goes("unstating"), Off)
          /\ UNCHANGED tokenFile
       \/ /\ ~run.preservePersistentState /\ ~PreserveJournalState /\ ~run.createdThisRun
          /\ IF run.user THEN tokenFile' = None /\ run' = Goes("resettling")
             ELSE run' = Off /\ UNCHANGED tokenFile
          /\ UNCHANGED <<ha, failures>>
    /\ UNCHANGED <<disk, changes>>
SettleFiles ==
    /\ \/ /\ run.at = "unstating"
          /\ disk' = State("none", None) /\ run' = Goes("untokening") /\ UNCHANGED tokenFile
       \/ /\ run.at = "untokening"
          /\ tokenFile' = None /\ run' = Off /\ UNCHANGED disk
       \/ /\ run.at = "resettling"
          /\ disk' = State("provisioning", None) /\ run' = Off /\ UNCHANGED tokenFile
    /\ UNCHANGED <<ha, failures, changes>>

Rollback ==
    \/ SweepTokens \/ RemoveNewToken \/ RevokeTemporaryRefreshToken
    \/ ReconcileDelete \/ ReconcileCreate \/ ReconcileDeleteAgain
    \/ UnjournalAfterRollback \/ Settle \/ SettleFiles

-----------------------------------------------------------------------------
(* auto-remove, once the option is off.                                    *)
BeginRemove ==
    /\ run.at = "off" /\ disk.phase # "none"
    /\ Changes
    /\ run' = [Off EXCEPT !.at = "finding", !.operation = "remove", !.state = disk]
    /\ UNCHANGED <<disk, tokenFile, ha, failures>>
RemoveFinds ==
    /\ run.at = "finding" /\ run.operation = "remove"
    /\ LET name == run.state.journal
           other == Linked /\ (name # None => ha.credential[name] # "linked")
       IN \/ /\ ha.user = "absent" /\ name # None
             /\ run' = Off /\ UNCHANGED <<ha, failures>>
          \/ /\ ha.user = "absent" /\ name = None
             /\ run' = Goes("forgetting") /\ UNCHANGED <<ha, failures>>
          \/ /\ ha.user = "changed" \/ (ha.user = "exact" /\ other)
             /\ run' = Goes("disabling") /\ UNCHANGED <<ha, failures>>
          \/ /\ ha.user = "exact" /\ ~other /\ name # None
             /\ IF Linked
                THEN Request(TRUE, WithCredential(name, "none"), {}, Goes("unlisting"), Off)
                ELSE /\ run' = [run EXCEPT !.at = "deleting", !.back = "remove"]
                     /\ UNCHANGED <<ha, failures>>
          \/ /\ ha.user = "exact" /\ ~other /\ name = None
             /\ run' = Goes("deletingUser") /\ UNCHANGED <<ha, failures>>
    /\ UNCHANGED <<disk, tokenFile, changes>>
RemoveJournal ==
    /\ run.at = "unlisting"
    /\ WriteManagedState(State("provisioning", None), Goes("deletingUser"), Off)
    /\ UNCHANGED <<tokenFile, ha, changes>>
RemoveUser ==
    /\ run.at = "deletingUser"
    /\ Request(ha.user # "absent", WithoutUser, {}, Goes("forgetting"), Off)
    /\ UNCHANGED <<disk, tokenFile, changes>>
RemoveFiles ==
    /\ \/ run.at = "forgetting" /\ tokenFile' = None /\ run' = Goes("removing") /\ UNCHANGED disk
       \/ run.at = "removing" /\ disk' = State("none", None) /\ run' = Off /\ UNCHANGED tokenFile
    /\ UNCHANGED <<ha, failures, changes>>

Remove == RemoveFinds \/ RemoveJournal \/ RemoveUser \/ RemoveFiles

-----------------------------------------------------------------------------
(* An administrator changes the user, deletes it, or revokes its token.    *)
(* (A user changed before the state names it is not found again: it is the *)
(* administrator's then, and not of this model.)                           *)
Administrator ==
    /\ Changes
    /\ \/ ha.user = "exact" /\ disk.phase # "creating" /\ ha' = [ha EXCEPT !.user = "changed"]
       \/ ha.user # "absent" /\ ha' = WithoutUser
       \/ ha.llats # {} /\ ha' = WithTokens(ha.logins, {})
    /\ UNCHANGED <<disk, tokenFile, run, failures>>

Dies ==
    /\ run.at # "off" /\ Fails /\ run' = Off
    /\ UNCHANGED <<disk, tokenFile, ha, changes>>

Steps == Provision \/ Rollback \/ Remove
Next == BeginSetup \/ BeginRemove \/ Steps \/ Administrator \/ Dies

(* A run goes on, and every start of the App begins one.                   *)
Spec == Init /\ [][Next]_vars /\ WF_vars(Steps) /\ WF_vars(BeginSetup)

-----------------------------------------------------------------------------
(* The two files, the user and the variables of the run keep their values. *)
States == [phase : Phases, journal : Names \cup {None}]
Places ==
    {"off", "finding", "resetting", "asking", "adopting", "checking", "reopening", "disabling",
     "cleaning", "journaling", "crediting", "login", "opening", "preparing", "unpending",
     "minting", "admitting", "storing", "enforcing", "uncrediting", "clearing", "finishing",
     "sweeping", "unminting", "revoking", "deleting", "recreating", "redeleting",
     "unjournaling", "settling", "unstating", "untokening", "resettling",
     "unlisting", "deletingUser", "forgetting", "removing"}
Runs ==
    [at : Places, operation : {"setup", "remove"}, state : States, user : BOOLEAN,
     createdThisRun : BOOLEAN, temporaryUsername : Names \cup {None},
     temporaryCredentialAttempted : BOOLEAN, temporaryRefreshToken : Logins \cup {None},
     temporarySession : BOOLEAN, managedToken : Llats \cup {None}, managedSession : BOOLEAN,
     managedTokenCleanupAuthorized : BOOLEAN, managedTokenCreationAttempted : BOOLEAN,
     pendingStoredToken : BOOLEAN, temporaryTokenCleanupRequired : BOOLEAN,
     journalCleanupRequired : BOOLEAN, preservePersistentState : BOOLEAN,
     error : {"none", "other", "changed", "preserve", "orphaned"},
     back : {"none", "catch", "reopening", "cleaned", "remove"}]
TypeOK ==
    /\ disk \in States /\ tokenFile \in Llats \cup {None}
    /\ ha \in HomeAssistant /\ run \in Runs
    /\ failures \in 0..MaxFailures /\ changes \in 0..MaxChanges

(* An identity that is called ready has left no password credential and no *)
(* login behind, and no token but the one in the file: whatever runs died  *)
(* or failed before it, with whatever answers lost (setupManagedBrowserAuth*)
(* 1427 to 1452).                                                          *)
ReadyMeansClean ==
    disk.phase = "ready" =>
        /\ \A n \in Names : ha.credential[n] = "none"
        /\ ha.logins = {} /\ ha.llats \subseteq {tokenFile}

(* What Home Assistant keeps for the browser can be found again from the   *)
(* disk: a password credential, linked or not, under the name journaled,   *)
(* and the user from any state (lines 1151 to 1452).                       *)
NothingForgotten ==
    /\ \A n \in Names : ha.credential[n] # "none" => disk.journal = n
    /\ disk.phase = "none" => ha.user = "absent"

(* When failures and changes have ended, a start of the App leads to a     *)
(* ready identity, unless the user was changed, or disappeared while a     *)
(* credential was journaled, which are for a person to review.             *)
ForReview == ha.user = "changed" \/ (ha.user = "absent" /\ disk.journal # None)
Identified == disk.phase = "ready" /\ tokenFile \in ha.llats /\ run.at = "off"
Converges == []<>(Identified \/ ForReview)

=============================================================================
