------------------------- MODULE BrowserIdentityProofs -------------------------
(***************************************************************************)
(* What BrowserIdentity keeps for any names, tokens and bounds: an         *)
(* identity that is called ready left nothing behind, and what Home        *)
(* Assistant keeps for the browser can be found again from the disk.       *)
(*                                                                         *)
(* Everything is said of a run r, a disk d, a stored token t and a Home    *)
(* Assistant h, so that the same can be said of what a request or a write  *)
(* would leave behind, and of the run that catches its error.              *)
(***************************************************************************)
EXTENDS BrowserIdentity, TLAPS

Reconciling == {"deleting", "recreating", "redeleting"}
Logged == {"crediting", "login", "opening", "preparing", "unpending", "minting",
           "admitting", "storing", "enforcing", "uncrediting", "clearing"}
Wrecked == {"sweeping", "unminting", "revoking", "settling"}
Removing == {"unlisting", "deletingUser", "forgetting", "removing"}
Errors == {"other", "changed", "preserve", "orphaned"}

(* Before the run makes a credential of its own.                           *)
Fresh(r) ==
    \/ r.at \in {"finding", "checking", "reopening", "cleaning", "journaling"}
    \/ r.at = "disabling" /\ r.back = "reopening"
    \/ r.at \in Reconciling /\ r.back = "cleaned"

(* A setup and a removal keep to their own places.                         *)
Lanes(r) ==
    /\ r.at \in Removing \/ r.back = "remove" => r.operation = "remove"
    /\ r.operation = "remove" =>
          /\ r.at \in {"off", "finding", "disabling"} \cup Reconciling \cup Removing
          /\ r.at \in Reconciling => r.back = "remove"
          /\ r.at \in {"finding", "disabling"} => r.back = "none"
          /\ ~r.temporaryCredentialAttempted
    /\ r.at \in Reconciling => r.back \in {"cleaned", "catch", "remove"}
    /\ r.at = "disabling" /\ r.operation = "setup" => r.back \in {"reopening", "catch"}
    /\ r.at = "unjournaling" => r.back = "catch"

(* What Home Assistant has can be told from the disk.                      *)
DiskTells(d, h) ==
    /\ \A n \in Names : h.credential[n] # "none" => d.journal = n
    /\ d.journal # None => d.phase = "provisioning"
    /\ d.phase = "none" => h.user = "absent"
UserHolds(h) ==
    h.user = "absent" =>
        h.logins = {} /\ h.llats = {} /\ \A n \in Names : h.credential[n] # "linked"
ReadyIsClean(d, t, h) == d.phase = "ready" => h.logins = {} /\ h.llats \subseteq {t}

(* What the run has read of the disk is still so, until it has a           *)
(* credential of its own, whose name then is the one journaled.            *)
RunKnows(r, d) ==
    /\ d.phase = "none" => r.at \in {"off", "untokening"}
    /\ Fresh(r) => r.state = d /\ ~r.temporaryCredentialAttempted
    /\ r.at \in {"finding", "checking"} => ~r.managedSession
    /\ r.at = "resetting" => r.state = State("creating", None)
    /\ r.at \in Reconciling /\ r.back = "remove" => r.state = d
    /\ r.at \in Reconciling /\ r.back # "catch" => r.state.journal # None
    /\ r.at \in {"cleaning", "journaling"} => d.phase = "provisioning"
    /\ r.temporaryCredentialAttempted => r.temporaryUsername = d.journal /\ d.journal # None
    /\ \/ r.at \in Logged \cup {"unjournaling"}
       \/ r.at \in Reconciling /\ r.back = "catch"
       => r.temporaryCredentialAttempted
    /\ r.operation = "setup" /\ r.at # "off" /\ ~r.journalCleanupRequired => d.journal = None

(* What is gone by the time the disk forgets it.                           *)
GoneFirst(r, d, h) ==
    /\ r.at \in {"journaling", "clearing", "unjournaling", "unlisting"} =>
          \A n \in Names : h.credential[n] = "none"
    /\ r.at \in {"resetting", "asking", "adopting", "finishing", "resettling", "unstating",
                 "untokening", "deletingUser", "forgetting", "removing"} => d.journal = None
    /\ r.at \in {"resetting", "unstating", "untokening", "forgetting", "removing"} =>
          h.user = "absent"

(* A run that unlinks the stored token has seen it die, and one with a     *)
(* token of its own has taken the identity out of service before.          *)
TokensTell(r, d, h) ==
    /\ r.at \in {"asking", "adopting", "finishing"} => d.phase # "ready"
    /\ r.managedToken # None => d.phase # "ready"
    /\ d.phase = "ready" =>
          /\ r.at = "reopening" => h.llats = {}
          /\ r.at \in Wrecked /\ ~r.preservePersistentState => h.llats = {}

Kept(d, t, h) ==
    /\ d \in States /\ t \in Llats \cup {None} /\ h \in HomeAssistant
    /\ DiskTells(d, h) /\ UserHolds(h) /\ ReadyIsClean(d, t, h)
Sound(r, d, h) ==
    r \in Runs /\ Lanes(r) /\ RunKnows(r, d) /\ GoneFirst(r, d, h) /\ TokensTell(r, d, h)
Good(r, d, t, h) == Kept(d, t, h) /\ Sound(r, d, h)

Counted == failures \in 0..MaxFailures /\ changes \in 0..MaxChanges
Inv == Good(run, disk, tokenFile, ha) /\ Counted

-----------------------------------------------------------------------------
(* A run that is off is in nobody's way.                                   *)
LEMMA OffGood == ASSUME NEW d, NEW t, NEW h, Kept(d, t, h) PROVE Good(Off, d, t, h)
  <1>1. Off \in Runs
    BY NoneAssumption DEF Off, Runs, States, State, Places, Phases
  <1>2. Lanes(Off)
    BY DEF Off, Lanes, Removing, Reconciling
  <1>3. RunKnows(Off, d)
    BY DEF Off, RunKnows, Fresh, Reconciling, Logged
  <1>4. GoneFirst(Off, d, h) /\ TokensTell(Off, d, h)
    BY DEF Off, GoneFirst, TokensTell, Wrecked
  <1> QED  BY <1>1, <1>2, <1>3, <1>4 DEF Good, Sound

LEMMA InitInv == Init => Inv
  <1> SUFFICES ASSUME Init PROVE Inv  OBVIOUS
  <1>1. Kept(disk, tokenFile, ha)
    BY DEF Init, Kept, State, States, Phases, HomeAssistant, Users, Credentials,
           DiskTells, UserHolds, ReadyIsClean
  <1> QED  BY <1>1, OffGood, BoundsAssumption DEF Init, Inv, Counted

(* The variables of the run that catches an error.                         *)
LEMMA ThrownFacts ==
  ASSUME NEW r \in Runs, r.operation = "setup", NEW error \in Errors
  PROVE  LET c == Thrown(r, error) IN
         /\ c \in Runs
         /\ c.at = IF ~r.managedSession /\ error = "changed" THEN "disabling" ELSE "sweeping"
         /\ c.back = "catch" /\ (error = "preserve" => c.preservePersistentState)
         /\ c.operation = r.operation /\ c.state = r.state
         /\ c.temporaryCredentialAttempted = r.temporaryCredentialAttempted
         /\ c.temporaryUsername = r.temporaryUsername
         /\ c.managedSession = r.managedSession /\ c.managedToken = r.managedToken
         /\ c.journalCleanupRequired = r.journalCleanupRequired
  <1> DEFINE p == IF ~r.managedSession /\ error = "changed" THEN "disabling" ELSE "sweeping"
             b == (r.pendingStoredToken \/ error = "preserve")
  <1>1. p \in Places  BY DEF Places
  <1>2. b \in BOOLEAN  BY DEF Runs
  <1>3. Thrown(r, error) = [r EXCEPT !.at = p, !.back = "catch", !.error = error,
                                     !.preservePersistentState = b]
    BY DEF Thrown
  <1>4. error = "preserve" => b = TRUE  OBVIOUS
  <1> HIDE DEF p, b
  <1> DEFINE c == Thrown(r, error)
  <1>5. c \in Runs  BY <1>1, <1>2, <1>3 DEF Runs, Errors
  <1>6. c.at = p  BY <1>3 DEF Runs
  <1>7. error = "preserve" => c.preservePersistentState  BY <1>3, <1>4 DEF Runs
  <1>8. /\ c.back = "catch" /\ c.operation = r.operation /\ c.state = r.state
        /\ c.temporaryCredentialAttempted = r.temporaryCredentialAttempted
        /\ c.temporaryUsername = r.temporaryUsername
        /\ c.managedSession = r.managedSession /\ c.managedToken = r.managedToken
        /\ c.journalCleanupRequired = r.journalCleanupRequired
    BY <1>3 DEF Runs
  <1> HIDE DEF c
  <1> QED  BY <1>5, <1>6, <1>7, <1>8 DEF p, c

(* What the run that catches an error needs to know.                       *)
Catchable(r, d) ==
    /\ r \in Runs /\ r.operation = "setup" /\ d.phase # "none"
    /\ r.temporaryCredentialAttempted => r.temporaryUsername = d.journal /\ d.journal # None
    /\ ~r.journalCleanupRequired => d.journal = None
    /\ r.managedToken # None => d.phase # "ready"

LEMMA GoodCatchable ==
  ASSUME NEW r, NEW d, NEW h, Sound(r, d, h), r.at \notin {"off", "untokening"}, r.operation # "remove"
  PROVE  Catchable(r, d)
  <1>1. r.operation = "setup"  BY DEF Sound, Runs
  <1> QED  BY <1>1 DEF Sound, RunKnows, TokensTell, Catchable

LEMMA WreckedSound ==
  ASSUME NEW c, NEW d, NEW h, Catchable(c, d), c.at \in Wrecked, c.back # "remove",
         d.phase = "ready" /\ ~c.preservePersistentState => h.llats = {}
  PROVE  Sound(c, d, h)
  <1>1. Lanes(c)  BY DEF Catchable, Lanes, Removing, Reconciling, Wrecked
  <1>2. RunKnows(c, d)  BY DEF Catchable, RunKnows, Fresh, Reconciling, Logged, Wrecked
  <1>3. GoneFirst(c, d, h)  BY DEF GoneFirst, Wrecked
  <1>4. TokensTell(c, d, h)  BY DEF Catchable, TokensTell, Wrecked
  <1> QED  BY <1>1, <1>2, <1>3, <1>4 DEF Sound, Catchable

(* An error can be caught wherever the identity is out of service, or its  *)
(* token dead, or will be preserved, or is about to be disabled.           *)
LEMMA ThrownSound ==
  ASSUME NEW r, NEW d, NEW h, Catchable(r, d), NEW error \in Errors,
         d.phase # "ready" \/ h.llats = {} \/ error = "preserve" \/ (error = "changed" /\ ~r.managedSession)
  PROVE  Sound(Thrown(r, error), d, h)
  <1> DEFINE c == Thrown(r, error)
  <1>1. /\ c \in Runs
        /\ c.at = IF ~r.managedSession /\ error = "changed" THEN "disabling" ELSE "sweeping"
        /\ c.back = "catch" /\ (error = "preserve" => c.preservePersistentState)
        /\ c.operation = r.operation /\ c.state = r.state
        /\ c.temporaryCredentialAttempted = r.temporaryCredentialAttempted
        /\ c.temporaryUsername = r.temporaryUsername
        /\ c.managedSession = r.managedSession /\ c.managedToken = r.managedToken
        /\ c.journalCleanupRequired = r.journalCleanupRequired
    BY ThrownFacts DEF Catchable
  <1> HIDE DEF c
  <1>2. Catchable(c, d)  BY <1>1 DEF Catchable
  <1>3. CASE c.at = "sweeping"
    BY <1>1, <1>2, <1>3, WreckedSound DEF Wrecked, c
  <1>4. CASE c.at = "disabling"
    <2>1. Lanes(c)  BY <1>1, <1>2, <1>4 DEF Catchable, Lanes, Removing, Reconciling
    <2>2. RunKnows(c, d)
      BY <1>1, <1>2, <1>4 DEF Catchable, RunKnows, Fresh, Reconciling, Logged
    <2>3. GoneFirst(c, d, h)  BY <1>4 DEF GoneFirst
    <2>4. TokensTell(c, d, h)  BY <1>2, <1>4 DEF Catchable, TokensTell, Wrecked
    <2> QED  BY <1>1, <2>1, <2>2, <2>3, <2>4 DEF Sound, c
  <1> QED  BY <1>1, <1>3, <1>4

LEMMA ThrownGood ==
  ASSUME NEW r, NEW d, NEW t, NEW h, Good(r, d, t, h), NEW error \in Errors,
         r.at \notin {"off", "untokening"},
         d.phase # "ready" \/ h.llats = {} \/ error = "preserve" \/ (error = "changed" /\ ~r.managedSession)
  PROVE  Good(Thrown(r, error), d, t, h)
  <1>1. CASE r.operation = "remove"
    BY <1>1, OffGood DEF Thrown, Good
  <1>2. CASE r.operation # "remove"
    BY <1>2, GoodCatchable, ThrownSound DEF Good
  <1> QED  BY <1>1, <1>2

(* A request, a write, and a step of neither.                              *)
LEMMA RequestStep ==
  ASSUME Inv, NEW works, NEW effect, NEW partial, NEW answered, NEW failed,
         Request(works, effect, partial, answered, failed), UNCHANGED <<disk, tokenFile, changes>>,
         works => Good(answered, disk, tokenFile, effect),
         works => \A h \in partial \cup {effect} : Good(failed, disk, tokenFile, h),
         Good(failed, disk, tokenFile, ha)
  PROVE  Inv'
  BY BoundsAssumption DEF Request, Inv, Counted, Fails

LEMMA WriteStep ==
  ASSUME Inv, NEW state, NEW done, NEW failed,
         WriteManagedState(state, done, failed), UNCHANGED <<tokenFile, ha, changes>>,
         Good(done, state, tokenFile, ha), Good(failed, disk, tokenFile, ha)
  PROVE  Inv'
  BY BoundsAssumption DEF WriteManagedState, Inv, Counted, Fails

-----------------------------------------------------------------------------
(* What Home Assistant may become, under the same disk.                    *)
LEMMA CredentialKept ==
  ASSUME Kept(disk, tokenFile, ha), NEW n, NEW c \in Credentials,
         c = "none" \/ disk.journal = n, c = "linked" => ha.user # "absent"
  PROVE  Kept(disk, tokenFile, WithCredential(n, c))
  <1> DEFINE h == WithCredential(n, c)
  <1>1. /\ h \in HomeAssistant
        /\ h.user = ha.user /\ h.logins = ha.logins /\ h.llats = ha.llats
        /\ \A m \in Names : h.credential[m] = IF m = n THEN c ELSE ha.credential[m]
    BY DEF Kept, HomeAssistant, WithCredential
  <1> HIDE DEF h
  <1> QED  BY <1>1 DEF Kept, DiskTells, UserHolds, ReadyIsClean, Credentials, h

LEMMA CredentialFacts ==
  ASSUME ha \in HomeAssistant, NEW n, NEW c \in Credentials
  PROVE  /\ WithCredential(n, c).user = ha.user /\ WithCredential(n, c).llats = ha.llats
         /\ \A m \in Names : WithCredential(n, c).credential[m] = IF m = n THEN c ELSE ha.credential[m]
  BY DEF HomeAssistant, WithCredential

LEMMA TokensKept ==
  ASSUME Kept(disk, tokenFile, ha), NEW L \in SUBSET Logins, NEW M \in SUBSET Llats,
         \/ L \subseteq ha.logins /\ M \subseteq ha.llats
         \/ disk.phase # "ready" /\ ha.user # "absent"
  PROVE  /\ Kept(disk, tokenFile, WithTokens(L, M))
         /\ WithTokens(L, M).user = ha.user /\ WithTokens(L, M).credential = ha.credential
         /\ WithTokens(L, M).llats = M
  <1> DEFINE h == WithTokens(L, M)
  <1>1. /\ h \in HomeAssistant /\ h.logins = L /\ h.llats = M
        /\ h.user = ha.user /\ h.credential = ha.credential
    BY DEF Kept, HomeAssistant, WithTokens
  <1> HIDE DEF h
  <1> QED  BY <1>1 DEF Kept, DiskTells, UserHolds, ReadyIsClean, h

LEMMA FewerKept ==
  ASSUME Kept(disk, tokenFile, ha), NEW L, NEW M, NEW h \in Fewer(L, M)
  PROVE  /\ Kept(disk, tokenFile, h)
         /\ h.user = ha.user /\ h.credential = ha.credential /\ h.llats \subseteq ha.llats
  <1>1. PICK K \in Partly(ha.logins, L), O \in Partly(ha.llats, M) : h = WithTokens(K, O)
    BY DEF Fewer
  <1>2. K \subseteq ha.logins /\ O \subseteq ha.llats
    BY DEF Partly
  <1>3. K \in SUBSET Logins /\ O \in SUBSET Llats
    BY <1>2 DEF Kept, HomeAssistant
  <1> QED  BY <1>1, <1>2, <1>3, TokensKept

LEMMA WithoutKept ==
  ASSUME Kept(disk, tokenFile, ha)
  PROVE  /\ Kept(disk, tokenFile, WithoutUser)
         /\ WithoutUser.user = "absent" /\ WithoutUser.llats = {}
         /\ \A n \in Names : ha.credential[n] = "none" => WithoutUser.credential[n] = "none"
  <1> DEFINE h == WithoutUser
  <1>1. /\ h \in HomeAssistant /\ h.user = "absent" /\ h.logins = {} /\ h.llats = {}
        /\ \A n \in Names : h.credential[n] = IF ha.credential[n] = "linked" THEN "none"
                                              ELSE ha.credential[n]
    BY DEF Kept, HomeAssistant, WithoutUser, Users, Credentials
  <1> HIDE DEF h
  <1> QED  BY <1>1 DEF Kept, DiskTells, UserHolds, ReadyIsClean, h

(* What a run knows of Home Assistant is only that something is gone.      *)
LEMMA SoundFewer ==
  ASSUME NEW r, NEW d, NEW h, NEW k, Sound(r, d, h),
         h.user = "absent" => k.user = "absent", k.llats \subseteq h.llats,
         \A n \in Names : h.credential[n] = "none" => k.credential[n] = "none"
  PROVE  Sound(r, d, k)
  BY DEF Sound, GoneFirst, TokensTell

LEMMA SoundAnyway ==
  ASSUME NEW r, NEW d, NEW h, NEW k, Sound(r, d, h),
         r.at \notin {"journaling", "clearing", "unjournaling", "unlisting", "resetting",
                      "unstating", "untokening", "forgetting", "removing"},
         d.phase # "ready"
  PROVE  Sound(r, d, k)
  BY DEF Sound, GoneFirst, TokensTell

-----------------------------------------------------------------------------
(* From the creation of the credential to the clearing of its journal.     *)
LEMMA LoggedFacts ==
  ASSUME Inv, run.at \in Logged
  PROVE  /\ run \in Runs /\ run.operation = "setup" /\ run.back # "remove"
         /\ run.temporaryCredentialAttempted /\ run.temporaryUsername = disk.journal
         /\ run.journalCleanupRequired /\ disk.journal \in Names /\ disk.journal # None /\ disk.phase = "provisioning"
         /\ Kept(disk, tokenFile, ha) /\ Sound(run, disk, ha)
  <1>1. run \in Runs /\ Lanes(run) /\ RunKnows(run, disk) /\ DiskTells(disk, ha) /\ disk \in States
    BY DEF Inv, Good, Sound, Kept
  <1>2. run.operation \in {"setup", "remove"}  BY <1>1 DEF Runs
  <1>3. run.operation = "setup" /\ run.back # "remove"
    BY <1>1, <1>2 DEF Lanes, Logged, Reconciling, Removing
  <1>4. /\ run.temporaryCredentialAttempted /\ run.temporaryUsername = disk.journal
        /\ disk.journal # None
    BY <1>1 DEF RunKnows
  <1>5. run.journalCleanupRequired
    BY <1>1, <1>3, <1>4 DEF RunKnows, Logged
  <1> QED  BY <1>1, <1>3, <1>4, <1>5 DEF DiskTells, States, Inv, Good

LEMMA LoggedSound ==
  ASSUME NEW c \in Runs, NEW d, NEW h, c.at \in Logged,
         c.operation = "setup", c.back # "remove", c.temporaryCredentialAttempted,
         c.journalCleanupRequired, c.temporaryUsername = d.journal, d.journal # None, d.phase = "provisioning",
         c.at = "clearing" => \A n \in Names : h.credential[n] = "none"
  PROVE  Sound(c, d, h)
  <1>1. Lanes(c)  BY DEF Lanes, Logged, Reconciling, Removing
  <1>2. RunKnows(c, d)  BY DEF RunKnows, Fresh, Logged, Reconciling
  <1>3. GoneFirst(c, d, h) /\ TokensTell(c, d, h)  BY DEF GoneFirst, TokensTell, Logged
  <1> QED  BY <1>1, <1>2, <1>3 DEF Sound

(* The error of a request here is caught out of service.                   *)
Follows(c) ==
    /\ c \in Runs /\ c.at \in Logged
    /\ c.operation = run.operation /\ c.back = run.back
    /\ c.temporaryCredentialAttempted = run.temporaryCredentialAttempted
    /\ c.temporaryUsername = run.temporaryUsername
    /\ c.journalCleanupRequired = run.journalCleanupRequired

LEMMA LoggedThrown ==
  ASSUME Inv, run.at \in Logged \ {"clearing"}, NEW h, Kept(disk, tokenFile, h),
         NEW r, Follows(r), r.at # "clearing"
  PROVE  Good(Thrown(r, "other"), disk, tokenFile, h)
  <1>1. Sound(r, disk, h)  BY LoggedFacts, LoggedSound DEF Follows
  <1> QED  BY <1>1, LoggedFacts, ThrownGood DEF Good, Errors, Logged, Follows

LEMMA LoggedRequest ==
  ASSUME Inv, run.at \in Logged \ {"clearing"}, NEW works, NEW effect, NEW partial, NEW answered, NEW r,
         Request(works, effect, partial, answered, Thrown(r, "other")),
         UNCHANGED <<disk, tokenFile, changes>>,
         works => \A h \in partial \cup {effect} : Kept(disk, tokenFile, h),
         Follows(r), r.at # "clearing",
         Follows(answered), answered.at # "clearing"
  PROVE  Inv'
  <1>1. works => \A h \in partial \cup {effect} : Good(Thrown(r, "other"), disk, tokenFile, h)
    BY LoggedThrown
  <1>2. Good(Thrown(r, "other"), disk, tokenFile, ha)
    BY LoggedThrown, LoggedFacts
  <1>3. works => Good(answered, disk, tokenFile, effect)
    BY LoggedFacts, LoggedSound DEF Good, Follows
  <1> QED  BY <1>1, <1>2, <1>3, RequestStep

LEMMA RunFollows == ASSUME Inv, run.at \in Logged PROVE Follows(run)
  BY LoggedFacts DEF Follows

LEMMA CreateCredentialStep == Inv /\ CreateCredential => Inv'
  <1> SUFFICES ASSUME Inv, CreateCredential PROVE Inv'  OBVIOUS
  <1> DEFINE n == run.temporaryUsername
             answered == [run EXCEPT !.at = "login", !.temporaryTokenCleanupRequired = TRUE]
  <1>1. run.at \in Logged /\ run.at # "clearing"  BY DEF CreateCredential, Logged
  <1>2. Follows(answered) /\ answered.at # "clearing"
    <2>0. "login" \in Places  BY DEF Places
    <2>1. run \in Runs  BY <1>1, LoggedFacts
    <2>2. answered \in Runs  BY <2>1, <2>0 DEF Runs
    <2> QED  BY <2>1, <2>2 DEF Follows, Runs, Logged
  <1>3. \A c \in Credentials : ha.user # "absent" => Kept(disk, tokenFile, WithCredential(n, c))
    BY <1>1, LoggedFacts, CredentialKept
  <1>4. Request(ha.user # "absent", WithCredential(n, "linked"), {WithCredential(n, "unlinked")},
                answered, Thrown(run, "other")) /\ UNCHANGED <<disk, tokenFile, changes>>
    BY DEF CreateCredential
  <1> HIDE DEF answered, n
  <1>5. ha.user # "absent" => \A h \in {WithCredential(n, "unlinked")} \cup {WithCredential(n, "linked")} :
            Kept(disk, tokenFile, h)
    BY <1>3 DEF Credentials
  <1> QED  BY <1>1, <1>2, <1>4, <1>5, LoggedRequest, RunFollows

LEMMA LoggedTokens ==
  ASSUME Inv, run.at \in Logged, NEW L \in SUBSET Logins, NEW M \in SUBSET Llats,
         (L \subseteq ha.logins /\ M \subseteq ha.llats) \/ ha.user # "absent"
  PROVE  Kept(disk, tokenFile, WithTokens(L, M))
  BY LoggedFacts, TokensKept

LEMMA HaFacts ==
  ASSUME Inv
  PROVE  /\ ha \in HomeAssistant /\ ha.logins \subseteq Logins /\ ha.llats \subseteq Llats
         /\ ha.user = "absent" => ha.logins = {} /\ ha.llats = {}
         /\ \A n \in Names : ha.credential[n] = "linked" => ha.user # "absent"
  BY DEF Inv, Good, Kept, HomeAssistant, UserHolds

LEMMA LoginStep == Inv /\ LoginWithTemporaryCredential => Inv'
  <1> SUFFICES ASSUME Inv, LoginWithTemporaryCredential PROVE Inv'  OBVIOUS
  <1> DEFINE answered(t) == [run EXCEPT !.at = "opening", !.temporaryRefreshToken = t]
             works == ha.credential[run.temporaryUsername] = "linked"
             effect(t) == WithTokens(ha.logins \cup {t}, ha.llats)
  <1>1. run.at \in Logged /\ run.at # "clearing"  BY DEF LoginWithTemporaryCredential, Logged
  <1>2. PICK t \in Logins \ ha.logins :
            Request(works, effect(t), {}, answered(t), Thrown(run, "other"))
    BY DEF LoginWithTemporaryCredential
  <1>3. UNCHANGED <<disk, tokenFile, changes>>  BY DEF LoginWithTemporaryCredential
  <1>4. Follows(answered(t)) /\ answered(t).at # "clearing"
    <2>1. "opening" \in Places  BY DEF Places
    <2>2. run \in Runs  BY <1>1, LoggedFacts
    <2>3. answered(t) \in Runs  BY <2>1, <2>2 DEF Runs
    <2> QED  BY <2>2, <2>3 DEF Follows, Runs, Logged
  <1>5. works => Kept(disk, tokenFile, effect(t))
    <2>1. ha.logins \cup {t} \in SUBSET Logins /\ ha.llats \in SUBSET Llats  BY HaFacts
    <2>2. works => ha.user # "absent"  BY <1>1, LoggedFacts, HaFacts
    <2> QED  BY <1>1, <2>1, <2>2, LoggedTokens
  <1> HIDE DEF answered, works, effect
  <1> QED  BY <1>1, <1>2, <1>3, <1>4, <1>5, LoggedRequest, RunFollows

LEMMA OpenTemporaryStep == Inv /\ OpenTemporarySession => Inv'
  <1> SUFFICES ASSUME Inv, OpenTemporarySession PROVE Inv'  OBVIOUS
  <1> DEFINE answered == [run EXCEPT !.at = "preparing", !.temporarySession = TRUE]
  <1>1. run.at \in Logged /\ run.at # "clearing"  BY DEF OpenTemporarySession, Logged
  <1>2. Follows(answered) /\ answered.at # "clearing"
    <2>1. "preparing" \in Places  BY DEF Places
    <2>2. run \in Runs  BY <1>1, LoggedFacts
    <2>3. answered \in Runs  BY <2>1, <2>2 DEF Runs
    <2> QED  BY <2>2, <2>3 DEF Follows, Runs, Logged
  <1>3. /\ Request(run.temporaryRefreshToken \in ha.logins, ha, {}, answered, Thrown(run, "other"))
        /\ UNCHANGED <<disk, tokenFile, changes>>
    BY DEF OpenTemporarySession
  <1>4. Kept(disk, tokenFile, ha)  BY DEF Inv, Good
  <1> HIDE DEF answered
  <1> QED  BY <1>1, <1>2, <1>3, <1>4, LoggedRequest, RunFollows

LEMMA PrepareStep == Inv /\ PrepareTemporaryRefreshToken => Inv'
  <1> SUFFICES ASSUME Inv, PrepareTemporaryRefreshToken PROVE Inv'  OBVIOUS
  <1> DEFINE current == {run.temporaryRefreshToken}
             answered == Goes("unpending")
  <1>1. run.at \in Logged /\ run.at # "clearing"  BY DEF PrepareTemporaryRefreshToken, Logged
  <1>2. Follows(answered) /\ answered.at # "clearing"
    <2>1. "unpending" \in Places  BY DEF Places
    <2>2. run \in Runs  BY <1>1, LoggedFacts
    <2>3. answered \in Runs  BY <2>1, <2>2 DEF Runs, Goes
    <2> QED  BY <2>2, <2>3 DEF Follows, Runs, Logged, Goes
  <1>3. /\ Request(current \subseteq ha.logins, WithTokens(current, {}), Fewer(current, {}),
                   answered, Thrown(run, "other"))
        /\ UNCHANGED <<disk, tokenFile, changes>>
    BY DEF PrepareTemporaryRefreshToken
  <1>4. current \subseteq ha.logins => Kept(disk, tokenFile, WithTokens(current, {}))
    BY <1>1, HaFacts, LoggedTokens
  <1>5. \A h \in Fewer(current, {}) : Kept(disk, tokenFile, h)
    BY <1>1, LoggedFacts, FewerKept
  <1> HIDE DEF answered, current
  <1> QED  BY <1>1, <1>2, <1>3, <1>4, <1>5, LoggedRequest, RunFollows

LEMMA CreateTokenStep == Inv /\ CreateManagedToken => Inv'
  <1> SUFFICES ASSUME Inv, CreateManagedToken PROVE Inv'  OBVIOUS
  <1> DEFINE tried == [run EXCEPT !.managedTokenCreationAttempted = TRUE]
             answered(l) == [tried EXCEPT !.at = "admitting", !.managedToken = l]
             works == run.temporaryRefreshToken \in ha.logins
             effect(l) == WithTokens(ha.logins, ha.llats \cup {l})
  <1>1. run.at \in Logged /\ run.at # "clearing"  BY DEF CreateManagedToken, Logged
  <1>2. PICK l \in Llats \ (ha.llats \cup {tokenFile}) :
            Request(works, effect(l), {}, answered(l), Thrown(tried, "other"))
    BY DEF CreateManagedToken
  <1>3. UNCHANGED <<disk, tokenFile, changes>>  BY DEF CreateManagedToken
  <1>4. run \in Runs  BY <1>1, LoggedFacts
  <1>5. Follows(tried) /\ tried.at # "clearing"
    BY <1>1, <1>4 DEF Follows, Runs
  <1>6. Follows(answered(l)) /\ answered(l).at # "clearing"
    <2>1. "admitting" \in Places  BY DEF Places
    <2>2. answered(l) \in Runs  BY <1>4, <2>1 DEF Runs
    <2> QED  BY <1>4, <2>2 DEF Follows, Runs, Logged
  <1>7. works => Kept(disk, tokenFile, effect(l))
    <2>1. ha.logins \in SUBSET Logins /\ ha.llats \cup {l} \in SUBSET Llats  BY HaFacts
    <2>2. works => ha.user # "absent"  BY HaFacts
    <2> QED  BY <1>1, <2>1, <2>2, LoggedTokens
  <1> HIDE DEF answered, works, effect, tried
  <1> QED  BY <1>1, <1>2, <1>3, <1>5, <1>6, <1>7, LoggedRequest

LEMMA OpenManagedStep == Inv /\ OpenManagedSession => Inv'
  <1> SUFFICES ASSUME Inv, OpenManagedSession PROVE Inv'  OBVIOUS
  <1> DEFINE failed(b) == [run EXCEPT !.managedSession = b]
             answered == [run EXCEPT !.at = "storing", !.managedSession = TRUE,
                                     !.managedTokenCleanupAuthorized = TRUE]
  <1>1. run.at \in Logged /\ run.at # "clearing"  BY DEF OpenManagedSession, Logged
  <1>2. PICK b \in BOOLEAN :
            Request(run.managedToken \in ha.llats, ha, {}, answered, Thrown(failed(b), "other"))
    BY DEF OpenManagedSession
  <1>3. UNCHANGED <<disk, tokenFile, changes>>  BY DEF OpenManagedSession
  <1>4. run \in Runs  BY <1>1, LoggedFacts
  <1>5. Follows(failed(b)) /\ failed(b).at # "clearing"
    BY <1>1, <1>4 DEF Follows, Runs
  <1>6. Follows(answered) /\ answered.at # "clearing"
    <2>1. "storing" \in Places  BY DEF Places
    <2>2. answered \in Runs  BY <1>4, <2>1 DEF Runs
    <2> QED  BY <1>4, <2>2 DEF Follows, Runs, Logged
  <1>7. Kept(disk, tokenFile, ha)  BY DEF Inv, Good
  <1> HIDE DEF answered, failed
  <1> QED  BY <1>1, <1>2, <1>3, <1>5, <1>6, <1>7, LoggedRequest

LEMMA EnforceStep == Inv /\ Enforce => Inv'
  <1> SUFFICES ASSUME Inv, Enforce PROVE Inv'  OBVIOUS
  <1> DEFINE current == {run.managedToken}
             answered == Enforced("uncrediting")
  <1>1. run.at \in Logged /\ run.at # "clearing"  BY DEF Enforce, Logged
  <1>2. Follows(answered) /\ answered.at # "clearing"
    <2>1. "uncrediting" \in Places  BY DEF Places
    <2>2. run \in Runs  BY <1>1, LoggedFacts
    <2>3. answered \in Runs  BY <2>1, <2>2 DEF Runs, Enforced
    <2> QED  BY <2>2, <2>3 DEF Follows, Runs, Logged, Enforced
  <1>3. /\ Request(current \subseteq ha.llats, WithTokens({}, current), Fewer({}, current),
                   answered, Thrown(run, "other"))
        /\ UNCHANGED <<disk, tokenFile, changes>>
    BY DEF Enforce, EnforceSingleManagedToken
  <1>4. current \subseteq ha.llats => Kept(disk, tokenFile, WithTokens({}, current))
    BY <1>1, HaFacts, LoggedTokens
  <1>5. \A h \in Fewer({}, current) : Kept(disk, tokenFile, h)
    BY <1>1, LoggedFacts, FewerKept
  <1> HIDE DEF answered, current
  <1> QED  BY <1>1, <1>2, <1>3, <1>4, <1>5, LoggedRequest, RunFollows

LEMMA DeleteCredentialStep == Inv /\ DeleteCredential => Inv'
  <1> SUFFICES ASSUME Inv, DeleteCredential PROVE Inv'  OBVIOUS
  <1> DEFINE n == run.temporaryUsername
             effect == WithCredential(n, "none")
             answered == IF ha.user = "exact" THEN Goes("clearing") ELSE Thrown(run, "other")
  <1>1. run.at \in Logged /\ run.at # "clearing"  BY DEF DeleteCredential, Logged
  <1>2. /\ Request(ha.credential[n] # "none", effect, {}, answered, Thrown(run, "other"))
        /\ UNCHANGED <<disk, tokenFile, changes>>
    BY DEF DeleteCredential
  <1>3. Kept(disk, tokenFile, effect)
    BY <1>1, LoggedFacts, CredentialKept DEF Credentials
  <1>4. Good(Thrown(run, "other"), disk, tokenFile, effect)
    BY <1>1, <1>3, RunFollows, LoggedThrown
  <1>5. Good(Thrown(run, "other"), disk, tokenFile, ha)
    BY <1>1, LoggedFacts, RunFollows, LoggedThrown
  <1>6. Good(Goes("clearing"), disk, tokenFile, effect)
    <2>1. "clearing" \in Places  BY DEF Places
    <2>2. run \in Runs  BY <1>1, LoggedFacts
    <2>3. Goes("clearing") \in Runs  BY <2>1, <2>2 DEF Runs, Goes
    <2>4. \A m \in Names : effect.credential[m] = "none"
      <3>1. \A m \in Names : m # n => ha.credential[m] = "none"
        BY <1>1, LoggedFacts DEF Kept, DiskTells
      <3>2. "none" \in Credentials /\ ha \in HomeAssistant  BY HaFacts DEF Credentials
      <3>3. \A m \in Names : effect.credential[m] = IF m = n THEN "none" ELSE ha.credential[m]
        BY <3>2, CredentialFacts
      <3> QED  BY <3>1, <3>3
    <2>5. Sound(Goes("clearing"), disk, effect)
      <3> DEFINE c == Goes("clearing")
      <3>1. /\ c.at = "clearing" /\ c.operation = run.operation /\ c.back = run.back
            /\ c.temporaryCredentialAttempted = run.temporaryCredentialAttempted
            /\ c.journalCleanupRequired = run.journalCleanupRequired
            /\ c.temporaryUsername = run.temporaryUsername
        BY <2>2 DEF Runs, Goes
      <3>2. c.at \in Logged  BY <3>1 DEF Logged
      <3>3. c \in Runs  BY <2>3
      <3> HIDE DEF c, effect
      <3>4. Sound(c, disk, effect)
        BY <1>1, <2>4, <3>1, <3>2, <3>3, LoggedFacts, LoggedSound
      <3> QED  BY <3>4 DEF c
    <2> QED  BY <1>3, <2>5 DEF Good
  <1>7. Good(answered, disk, tokenFile, effect)
    BY <1>4, <1>6
  <1> HIDE DEF answered, effect
  <1> QED  BY <1>2, <1>4, <1>5, <1>7, RequestStep

(* The steps that touch the files.                                         *)
LEMMA Live ==
  ASSUME Inv, run.at \notin {"off", "untokening"}
  PROVE  disk.phase # "none"
  BY DEF Inv, Good, Sound, RunKnows

LEMMA DropPendingStep == Inv /\ DropPendingToken => Inv'
  <1> SUFFICES ASSUME Inv, DropPendingToken PROVE Inv'  OBVIOUS
  <1>1. run.at \in Logged  BY DEF DropPendingToken, Logged
  <1> DEFINE c == [run EXCEPT !.at = "minting", !.pendingStoredToken = FALSE]
  <1>2. Sound(c, disk, ha)
    <2>1. "minting" \in Places  BY DEF Places
    <2>2. run \in Runs  BY <1>1, LoggedFacts
    <2>3. c \in Runs  BY <2>1, <2>2 DEF Runs
    <2>4. /\ c.at = "minting" /\ c.operation = run.operation /\ c.back = run.back
          /\ c.temporaryCredentialAttempted = run.temporaryCredentialAttempted
          /\ c.journalCleanupRequired = run.journalCleanupRequired
          /\ c.temporaryUsername = run.temporaryUsername
      BY <2>2 DEF Runs
    <2>5. c.at \in Logged  BY <2>4 DEF Logged
    <2> HIDE DEF c
    <2> QED  BY <1>1, <2>3, <2>4, <2>5, LoggedFacts, LoggedSound
  <1>3. Kept(disk, tokenFile', ha)
    <2>1. tokenFile' \in Llats \cup {None}
      BY <1>1, LoggedFacts DEF DropPendingToken, Kept
    <2> QED  BY <1>1, <2>1, LoggedFacts DEF Kept, ReadyIsClean
  <1>4. run' = c /\ UNCHANGED <<disk, ha, changes, failures>>  BY DEF DropPendingToken
  <1> HIDE DEF c
  <1> QED  BY <1>2, <1>3, <1>4 DEF Inv, Good, Counted

LEMMA StoreStep == Inv /\ StoreManagedToken => Inv'
  <1> SUFFICES ASSUME Inv, StoreManagedToken PROVE Inv'  OBVIOUS
  <1>1. run.at \in Logged /\ run.at # "clearing"  BY DEF StoreManagedToken, Logged
  <1>2. UNCHANGED <<disk, ha, changes>>  BY DEF StoreManagedToken
  <1>3. CASE tokenFile' = run.managedToken /\ run' = Goes("enforcing") /\ UNCHANGED failures
    <2> DEFINE c == Goes("enforcing")
    <2>1. "enforcing" \in Places  BY DEF Places
    <2>2. run \in Runs  BY <1>1, LoggedFacts
    <2>3. c \in Runs  BY <2>1, <2>2 DEF Runs, Goes
    <2>4. /\ c.at = "enforcing" /\ c.operation = run.operation /\ c.back = run.back
          /\ c.temporaryCredentialAttempted = run.temporaryCredentialAttempted
          /\ c.journalCleanupRequired = run.journalCleanupRequired
          /\ c.temporaryUsername = run.temporaryUsername
      BY <2>2 DEF Runs, Goes
    <2>5. c.at \in Logged  BY <2>4 DEF Logged
    <2>6. run.managedToken \in Llats \cup {None}  BY <2>2 DEF Runs
    <2>7. run' = c  BY <1>3
    <2> HIDE DEF c
    <2>8. Sound(c, disk, ha)  BY <1>1, <2>3, <2>4, <2>5, LoggedFacts, LoggedSound
    <2>9. Kept(disk, run.managedToken, ha)
      BY <1>1, <2>6, LoggedFacts DEF Kept, ReadyIsClean
    <2> QED  BY <1>2, <1>3, <2>7, <2>8, <2>9 DEF Inv, Good, Counted
  <1>4. CASE Fails /\ run' = Thrown(run, "other") /\ UNCHANGED tokenFile
    <2>1. Good(Thrown(run, "other"), disk, tokenFile, ha)
      BY <1>1, LoggedFacts, RunFollows, LoggedThrown
    <2> QED  BY <1>2, <1>4, <2>1, BoundsAssumption DEF Inv, Counted, Fails
  <1> QED  BY <1>3, <1>4 DEF StoreManagedToken

LEMMA ClearJournalStep == Inv /\ ClearJournal => Inv'
  <1> SUFFICES ASSUME Inv, ClearJournal PROVE Inv'  OBVIOUS
  <1> DEFINE d == State("provisioning", None)
             c == [run EXCEPT !.at = "finishing", !.state.journal = None,
                              !.journalCleanupRequired = FALSE,
                              !.temporaryCredentialAttempted = FALSE]
  <1>1. run.at = "clearing" /\ run.at \in Logged  BY DEF ClearJournal, Logged
  <1>2. WriteManagedState(d, c, Thrown(run, "other")) /\ UNCHANGED <<tokenFile, ha, changes>>
    BY DEF ClearJournal
  <1>3. run \in Runs /\ run.operation = "setup" /\ run.back # "remove"  BY <1>1, LoggedFacts
  <1>4. \A n \in Names : ha.credential[n] = "none"
    BY <1>1, LoggedFacts DEF Sound, GoneFirst
  <1>5. d \in States /\ d.phase = "provisioning" /\ d.journal = None
    BY DEF State, States, Phases
  <1>6. c \in Runs
    <2>1. "finishing" \in Places  BY DEF Places
    <2>2. [run.state EXCEPT !.journal = None] \in States  BY <1>3 DEF Runs, States
    <2> QED  BY <1>3, <2>1, <2>2 DEF Runs
  <1>7. /\ c.at = "finishing" /\ c.operation = "setup" /\ c.back # "remove"
        /\ ~c.temporaryCredentialAttempted
    BY <1>3 DEF Runs
  <1> HIDE DEF c, d
  <1>8. Kept(d, tokenFile, ha)
    BY <1>1, <1>4, <1>5, LoggedFacts DEF Kept, DiskTells, ReadyIsClean
  <1>9. Sound(c, d, ha)
    <2>1. Lanes(c)  BY <1>7 DEF Lanes, Removing, Reconciling
    <2>2. RunKnows(c, d)  BY <1>5, <1>7 DEF RunKnows, Fresh, Logged, Reconciling
    <2>3. GoneFirst(c, d, ha)  BY <1>5, <1>7 DEF GoneFirst
    <2>4. TokensTell(c, d, ha)  BY <1>5, <1>7 DEF TokensTell
    <2> QED  BY <1>6, <2>1, <2>2, <2>3, <2>4 DEF Sound
  <1>10. Good(Thrown(run, "other"), disk, tokenFile, ha)
    BY <1>1, LoggedFacts, ThrownGood DEF Inv, Errors
  <1> QED  BY <1>2, <1>8, <1>9, <1>10, WriteStep DEF Good

LEMMA FinishStep == Inv /\ Finish => Inv'
  <1> SUFFICES ASSUME Inv, Finish PROVE Inv'  OBVIOUS
  <1>1. run.at = "finishing"  BY DEF Finish
  <1>2. /\ run \in Runs /\ disk.journal = None /\ disk.phase # "ready" /\ disk.phase # "none"
        /\ Kept(disk, tokenFile, ha) /\ Good(run, disk, tokenFile, ha)
    BY <1>1 DEF Inv, Good, Sound, RunKnows, GoneFirst, TokensTell
  <1>3. UNCHANGED <<ha, changes>>  BY DEF Finish
  <1>4. CASE /\ Valid(run.managedToken)
             /\ tokenFile' = run.managedToken
             /\ disk' = State("ready", None)
             /\ run' = Off /\ UNCHANGED failures
    <2>1. disk' \in States /\ disk'.phase = "ready" /\ disk'.journal = None
      BY <1>4 DEF State, States, Phases
    <2>2. \A n \in Names : ha.credential[n] = "none"
      BY <1>2, NoneAssumption DEF Kept, DiskTells
    <2>3. tokenFile' \in Llats \cup {None}  BY <1>2, <1>4 DEF Runs
    <2>4. ha.logins = {} /\ ha.llats = {tokenFile'}  BY <1>4 DEF Valid
    <2>5. Kept(disk', tokenFile', ha)
      BY <1>2, <2>1, <2>2, <2>3, <2>4 DEF Kept, DiskTells, ReadyIsClean
    <2>6. Good(Off, disk', tokenFile', ha)  BY <2>5, OffGood
    <2>7. ha' = ha /\ run' = Off  BY <1>3, <1>4
    <2> QED  BY <1>3, <1>4, <2>6, <2>7 DEF Inv, Counted
  <1>5. Good(Thrown(run, "other"), disk, tokenFile, ha)
    BY <1>1, <1>2, ThrownGood DEF Errors
  <1>6. CASE /\ run' = Thrown(run, "other") /\ UNCHANGED <<disk, tokenFile>>
             /\ Fails \/ UNCHANGED failures
    BY <1>3, <1>5, <1>6, BoundsAssumption DEF Inv, Counted, Fails
  <1> QED  BY <1>4, <1>6 DEF Finish

-----------------------------------------------------------------------------
(* Before the run has a credential of its own.                             *)
LEMMA RunFacts ==
  ASSUME Inv
  PROVE  /\ Good(run, disk, tokenFile, ha) /\ Kept(disk, tokenFile, ha) /\ Sound(run, disk, ha)
         /\ run \in Runs /\ disk \in States /\ tokenFile \in Llats \cup {None}
         /\ Lanes(run) /\ RunKnows(run, disk) /\ GoneFirst(run, disk, ha) /\ TokensTell(run, disk, ha)
  BY DEF Inv, Good, Kept, Sound

LEMMA NoneLeft ==
  ASSUME Inv, disk.journal = None
  PROVE  \A n \in Names : ha.credential[n] = "none"
  BY NoneAssumption DEF Inv, Good, Kept, DiskTells

LEMMA FreshSound ==
  ASSUME NEW c \in Runs, NEW d, NEW h, c.operation = "setup",
         c.at \in {"finding", "checking", "cleaning"}, c.state = d,
         ~c.temporaryCredentialAttempted, c.at # "cleaning" => ~c.managedSession,
         c.at = "cleaning" => d.phase = "provisioning", d.phase # "none",
         ~c.journalCleanupRequired => d.journal = None, c.back # "remove",
         c.managedToken # None => d.phase # "ready"
  PROVE  Sound(c, d, h)
  <1>1. Lanes(c)  BY DEF Lanes, Removing, Reconciling
  <1>2. RunKnows(c, d)  BY DEF RunKnows, Reconciling, Logged
  <1>3. GoneFirst(c, d, h) /\ TokensTell(c, d, h)  BY DEF GoneFirst, TokensTell, Wrecked
  <1> QED  BY <1>1, <1>2, <1>3 DEF Sound

LEMMA BeginSetupStep == Inv /\ BeginSetup => Inv'
  <1> SUFFICES ASSUME Inv, BeginSetup PROVE Inv'  OBVIOUS
  <1> DEFINE d == IF disk.phase = "none" THEN State("creating", None) ELSE disk
             c == [Off EXCEPT !.at = "finding", !.state = d,
                              !.journalCleanupRequired = (d.journal # None)]
  <1>1. disk' = d /\ run' = c /\ UNCHANGED <<tokenFile, ha, failures, changes>>
    BY DEF BeginSetup
  <1>2. /\ d \in States /\ d.phase # "none" /\ d.journal = disk.journal
        /\ d.phase = "ready" => disk.phase = "ready"
        /\ d.journal # None => d.phase = "provisioning"
    BY RunFacts DEF State, States, Phases, Kept, DiskTells
  <1> HIDE DEF d
  <1>3. c \in Runs
    <2>1. "finding" \in Places  BY DEF Places
    <2>2. Off \in Runs  BY RunFacts, OffGood DEF Good, Sound
    <2> QED  BY <1>2, <2>1, <2>2 DEF Runs
  <1>4. /\ c.operation = "setup" /\ c.at = "finding" /\ c.state = d
        /\ ~c.temporaryCredentialAttempted /\ ~c.managedSession /\ c.back = "none"
        /\ c.managedToken = None /\ c.journalCleanupRequired = (d.journal # None)
    BY DEF Off
  <1> HIDE DEF c
  <1>5. Sound(c, d, ha)  BY <1>2, <1>3, <1>4, FreshSound
  <1>6. Kept(d, tokenFile, ha)
    BY <1>2, RunFacts DEF Kept, DiskTells, ReadyIsClean
  <1> QED  BY <1>1, <1>5, <1>6 DEF Inv, Good, Counted

LEMMA FindStep == Inv /\ FindManagedUser => Inv'
  <1> SUFFICES ASSUME Inv, FindManagedUser PROVE Inv'  OBVIOUS
  <1> DEFINE found == [run EXCEPT !.user = TRUE]
  <1>1. /\ run.at = "finding" /\ run.operation = "setup" /\ run.state = disk
        /\ ~run.temporaryCredentialAttempted /\ ~run.managedSession
        /\ disk.phase # "none" /\ run.back # "remove"
        /\ ~run.journalCleanupRequired => disk.journal = None
        /\ run.managedToken # None => disk.phase # "ready"
        /\ disk.journal # None => disk.phase = "provisioning"
    BY RunFacts DEF FindManagedUser, RunKnows, Fresh, Lanes, TokensTell, Kept, DiskTells
  <1>2. UNCHANGED <<disk, ha, failures, changes>>  BY DEF FindManagedUser
  <1>3. /\ found \in Runs
        /\ found.at = "finding" /\ found.operation = "setup" /\ found.state = disk
        /\ ~found.temporaryCredentialAttempted /\ ~found.managedSession /\ found.back # "remove"
        /\ found.journalCleanupRequired = run.journalCleanupRequired
        /\ found.managedToken = run.managedToken
    BY <1>1, RunFacts DEF Runs
  <1>4. CASE ha.user = "absent" /\ run.state.journal # None
    <2>1. run' = Thrown(run, "orphaned") /\ UNCHANGED tokenFile
      BY <1>4 DEF FindManagedUser
    <2>2. Good(Thrown(run, "orphaned"), disk, tokenFile, ha)
      BY <1>1, <1>4, RunFacts, ThrownGood DEF Errors
    <2> QED  BY <1>2, <2>1, <2>2 DEF Inv, Counted
  <1>5. CASE ha.user = "absent" /\ run.state.journal = None
    <2> DEFINE c == [run EXCEPT !.at = "resetting", !.state = State("creating", None)]
    <2>1. run' = c /\ tokenFile' = None
      BY <1>5 DEF FindManagedUser
    <2>2. Kept(disk, None, ha)
      BY <1>5, RunFacts DEF Kept, UserHolds, ReadyIsClean
    <2>3. c \in Runs
      <3>1. "resetting" \in Places  BY DEF Places
      <3>2. State("creating", None) \in States  BY DEF State, States, Phases
      <3> QED  BY <3>1, <3>2, RunFacts DEF Runs
    <2>4. /\ c.at = "resetting" /\ c.operation = "setup" /\ c.state = State("creating", None)
          /\ ~c.temporaryCredentialAttempted /\ c.back = run.back
          /\ c.managedToken = run.managedToken
      BY <1>1, RunFacts DEF Runs
    <2> HIDE DEF c
    <2>5. Lanes(c)  BY <1>1, <2>4 DEF Lanes, Removing, Reconciling
    <2>6. RunKnows(c, disk)
      BY <1>1, <1>5, <2>4 DEF RunKnows, Fresh, Reconciling, Logged
    <2>7. GoneFirst(c, disk, ha)  BY <1>1, <1>5, <2>4 DEF GoneFirst
    <2>8. TokensTell(c, disk, ha)  BY <1>1, <2>4 DEF TokensTell, Wrecked
    <2> QED  BY <1>2, <2>1, <2>2, <2>3, <2>5, <2>6, <2>7, <2>8 DEF Inv, Good, Sound, Counted
  <1>6. CASE ha.user = "changed"
    <2>1. run' = Thrown(found, "changed") /\ UNCHANGED tokenFile
      BY <1>6 DEF FindManagedUser
    <2> HIDE DEF found
    <2>2. Sound(found, disk, ha)  BY <1>1, <1>3, FreshSound
    <2>3. Good(Thrown(found, "changed"), disk, tokenFile, ha)
      BY <1>3, <2>2, RunFacts, ThrownGood DEF Errors, Good
    <2> QED  BY <1>2, <2>1, <2>3 DEF Inv, Counted
  <1>7. CASE ha.user = "exact"
    <2>1. /\ UNCHANGED tokenFile
          /\ run' = CASE run.state.phase = "creating" -> [found EXCEPT !.at = "adopting"]
                      [] run.state.phase = "ready" -> [found EXCEPT !.at = "checking"]
                      [] OTHER -> Cleaning(found)
      BY <1>7 DEF FindManagedUser
    <2> HIDE DEF found
    <2>2. CASE disk.phase = "creating"
      <3> DEFINE c == [found EXCEPT !.at = "adopting"]
      <3>1. run' = c  BY <1>1, <2>1, <2>2
      <3>2. "adopting" \in Places  BY DEF Places
      <3>3. c \in Runs  BY <1>3, <3>2 DEF Runs
      <3>4. /\ c.at = "adopting" /\ c.operation = "setup" /\ ~c.temporaryCredentialAttempted
            /\ c.back = found.back
        BY <1>3 DEF Runs
      <3> HIDE DEF c
      <3>5. disk.journal = None /\ disk.phase # "ready"  BY <1>1, <2>2
      <3>6. Lanes(c)  BY <1>3, <3>4 DEF Lanes, Removing, Reconciling
      <3>7. RunKnows(c, disk)  BY <1>1, <3>4, <3>5 DEF RunKnows, Fresh, Reconciling, Logged
      <3>8. GoneFirst(c, disk, ha)  BY <3>4, <3>5 DEF GoneFirst
      <3>9. TokensTell(c, disk, ha)  BY <3>5 DEF TokensTell
      <3> QED  BY <1>2, <2>1, <3>1, <3>3, <3>6, <3>7, <3>8, <3>9, RunFacts
               DEF Inv, Good, Sound, Counted
    <2>3. CASE disk.phase = "ready"
      <3> DEFINE c == [found EXCEPT !.at = "checking"]
      <3>1. run' = c  BY <1>1, <2>1, <2>3
      <3>2. "checking" \in Places  BY DEF Places
      <3>3. c \in Runs  BY <1>3, <3>2 DEF Runs
      <3>4. /\ c.at = "checking" /\ c.operation = "setup" /\ ~c.temporaryCredentialAttempted
            /\ c.back = found.back /\ c.state = disk /\ ~c.managedSession
            /\ c.journalCleanupRequired = run.journalCleanupRequired
            /\ c.managedToken = run.managedToken
        BY <1>3 DEF Runs
      <3> HIDE DEF c
      <3>5. Sound(c, disk, ha)  BY <1>1, <1>3, <3>3, <3>4, FreshSound
      <3> QED  BY <1>2, <2>1, <3>1, <3>5, RunFacts DEF Inv, Good, Counted
    <2>4. CASE disk.phase \notin {"creating", "ready"}
      <3> DEFINE c == Cleaning(found)
      <3>1. run' = c  BY <1>1, <2>1, <2>4
      <3>2. disk.phase = "provisioning"  BY <1>1, <2>4, RunFacts DEF States, Phases
      <3>3. "cleaning" \in Places  BY DEF Places
      <3>4. c \in Runs  BY <1>3, <3>3 DEF Runs, Cleaning
      <3>5. /\ c.at = "cleaning" /\ c.operation = "setup" /\ ~c.temporaryCredentialAttempted
            /\ c.back = found.back /\ c.state = disk
            /\ c.journalCleanupRequired = run.journalCleanupRequired
            /\ c.managedToken = run.managedToken
        BY <1>3 DEF Runs, Cleaning
      <3> HIDE DEF c
      <3>6. Sound(c, disk, ha)  BY <1>1, <1>3, <3>2, <3>4, <3>5, FreshSound
      <3> QED  BY <1>2, <2>1, <3>1, <3>6, RunFacts DEF Inv, Good, Counted
    <2> QED  BY <2>2, <2>3, <2>4
  <1>8. ha.user \in Users  BY RunFacts DEF Kept, HomeAssistant
  <1> QED  BY <1>4, <1>5, <1>6, <1>7, <1>8 DEF Users

LEMMA WriteCreatingStep == Inv /\ WriteCreating => Inv'
  <1> SUFFICES ASSUME Inv, WriteCreating PROVE Inv'  OBVIOUS
  <1> DEFINE c == Goes("asking")
  <1>1. /\ run.at = "resetting" /\ run.state = State("creating", None)
        /\ disk.journal = None /\ ha.user = "absent" /\ run.operation # "remove" /\ run.back # "remove"
    BY RunFacts DEF WriteCreating, RunKnows, GoneFirst, Lanes, Removing, Reconciling
  <1>2. /\ run.state \in States /\ run.state.phase = "creating" /\ run.state.journal = None
    BY <1>1 DEF State, States, Phases
  <1>3. Kept(run.state, tokenFile, ha)
    BY <1>1, <1>2, NoneLeft, RunFacts DEF Kept, DiskTells, ReadyIsClean
  <1>4. Sound(c, run.state, ha)
    <2>1. "asking" \in Places  BY DEF Places
    <2>2. c \in Runs  BY <2>1, RunFacts DEF Runs, Goes
    <2>3. /\ c.at = "asking" /\ c.operation = run.operation /\ c.back = run.back
          /\ c.temporaryCredentialAttempted = run.temporaryCredentialAttempted
      BY RunFacts DEF Runs, Goes
    <2> HIDE DEF c
    <2>4. ~run.temporaryCredentialAttempted  BY <1>1, RunFacts DEF RunKnows
    <2>5. Lanes(c)  BY <1>1, <2>3 DEF Lanes, Removing, Reconciling
    <2>6. RunKnows(c, run.state)
      BY <1>2, <2>3, <2>4 DEF RunKnows, Fresh, Reconciling, Logged
    <2>7. GoneFirst(c, run.state, ha)  BY <1>2, <2>3 DEF GoneFirst
    <2>8. TokensTell(c, run.state, ha)  BY <1>2 DEF TokensTell
    <2> QED  BY <2>2, <2>5, <2>6, <2>7, <2>8 DEF Sound
  <1>5. Good(Thrown(run, "other"), disk, tokenFile, ha)
    <2>1. ha.llats = {}  BY <1>1, HaFacts
    <2> QED  BY <1>1, <2>1, RunFacts, ThrownGood DEF Errors
  <1>6. /\ WriteManagedState(run.state, c, Thrown(run, "other"))
        /\ UNCHANGED <<tokenFile, ha, changes>>
    BY DEF WriteCreating
  <1> HIDE DEF c
  <1> QED  BY <1>3, <1>4, <1>5, <1>6, WriteStep DEF Good

(* Between the naming of the user and the cleaning of what is left.        *)
LEMMA AdoptingSound ==
  ASSUME NEW c \in Runs, NEW d, NEW h, c.operation # "remove", c.back # "remove",
         c.at = "adopting", ~c.temporaryCredentialAttempted,
         d.journal = None, d.phase # "ready", d.phase # "none"
  PROVE  Sound(c, d, h)
  <1>1. Lanes(c)  BY DEF Lanes, Removing, Reconciling
  <1>2. RunKnows(c, d)  BY DEF RunKnows, Fresh, Reconciling, Logged
  <1>3. GoneFirst(c, d, h) /\ TokensTell(c, d, h)  BY DEF GoneFirst, TokensTell
  <1> QED  BY <1>1, <1>2, <1>3 DEF Sound

LEMMA CreateUserStep == Inv /\ CreateManagedUser => Inv'
  <1> SUFFICES ASSUME Inv, CreateManagedUser PROVE Inv'  OBVIOUS
  <1> DEFINE c == [run EXCEPT !.at = "adopting", !.user = TRUE, !.createdThisRun = TRUE]
             h == [ha EXCEPT !.user = "exact"]
             works == ha.user = "absent"
  <1>1. /\ run.at = "asking" /\ disk.journal = None /\ disk.phase # "ready" /\ disk.phase # "none"
        /\ run.operation # "remove" /\ run.back # "remove" /\ ~run.temporaryCredentialAttempted
    BY RunFacts DEF CreateManagedUser, RunKnows, GoneFirst, TokensTell, Lanes, Removing, Reconciling
  <1>2. /\ h \in HomeAssistant /\ h.user = "exact" /\ h.credential = ha.credential
        /\ h.logins = ha.logins /\ h.llats = ha.llats
    BY RunFacts DEF Kept, HomeAssistant, Users
  <1>3. /\ Request(works, h, {}, c, Thrown(run, "other")) /\ UNCHANGED <<disk, tokenFile, changes>>
    BY DEF CreateManagedUser
  <1>4. c \in Runs
    <2>1. "adopting" \in Places  BY DEF Places
    <2> QED  BY <2>1, RunFacts DEF Runs
  <1>5. /\ c.at = "adopting" /\ c.operation = run.operation /\ c.back = run.back
        /\ c.temporaryCredentialAttempted = run.temporaryCredentialAttempted
    BY RunFacts DEF Runs
  <1> HIDE DEF c, h, works
  <1>6. Kept(disk, tokenFile, h)
    BY <1>1, <1>2, RunFacts DEF Kept, DiskTells, UserHolds, ReadyIsClean
  <1>7. Sound(c, disk, h)  BY <1>1, <1>4, <1>5, AdoptingSound
  <1>8. Good(Thrown(run, "other"), disk, tokenFile, ha)
    BY <1>1, RunFacts, ThrownGood DEF Errors
  <1>9. Good(Thrown(run, "other"), disk, tokenFile, h)
    <2>1. Sound(run, disk, h)  BY <1>1, RunFacts, SoundAnyway
    <2> QED  BY <1>1, <1>6, <2>1, ThrownGood DEF Errors, Good
  <1> QED  BY <1>3, <1>6, <1>7, <1>8, <1>9, RequestStep DEF Good

LEMMA AdoptStep == Inv /\ AdoptUser => Inv'
  <1> SUFFICES ASSUME Inv, AdoptUser PROVE Inv'  OBVIOUS
  <1> DEFINE d == State("provisioning", None)
             adopted == [run EXCEPT !.state = d]
             c == Cleaning(adopted)
  <1>1. /\ run.at = "adopting" /\ disk.journal = None /\ disk.phase # "ready" /\ disk.phase # "none"
        /\ run.operation # "remove" /\ run.back # "remove" /\ ~run.temporaryCredentialAttempted
    BY RunFacts DEF AdoptUser, RunKnows, GoneFirst, TokensTell, Lanes, Removing, Reconciling
  <1>2. d \in States /\ d.phase = "provisioning" /\ d.journal = None
    BY DEF State, States, Phases
  <1>3. adopted.state = d  BY RunFacts DEF Runs
  <1>4. WriteManagedState(adopted.state, c, Thrown(adopted, "other")) /\ UNCHANGED <<tokenFile, ha, changes>>
    BY DEF AdoptUser
  <1> HIDE DEF d
  <1>5. /\ adopted \in Runs /\ adopted.at = "adopting" /\ adopted.operation = run.operation
        /\ adopted.back = run.back /\ ~adopted.temporaryCredentialAttempted
    BY <1>1, <1>2, RunFacts DEF Runs
  <1> HIDE DEF adopted
  <1>6. c \in Runs
    <2>1. "cleaning" \in Places  BY DEF Places
    <2> QED  BY <1>5, <2>1 DEF Runs, Cleaning
  <1>7. /\ c.at = "cleaning" /\ c.operation = run.operation /\ c.back = run.back
        /\ ~c.temporaryCredentialAttempted /\ c.state = d
    BY <1>3, <1>5 DEF Runs, Cleaning
  <1> HIDE DEF c
  <1>8. Sound(c, d, ha)
    <2>1. c.operation = "setup"  BY <1>1, <1>6, <1>7 DEF Runs
    <2> QED  BY <1>1, <1>2, <1>6, <1>7, <2>1, FreshSound
  <1>9. Kept(d, tokenFile, ha)
    BY <1>1, <1>2, NoneLeft, RunFacts DEF Kept, DiskTells, ReadyIsClean
  <1>10. Good(Thrown(adopted, "other"), disk, tokenFile, ha)
    <2>1. Sound(adopted, disk, ha)  BY <1>1, <1>5, AdoptingSound
    <2> QED  BY <1>1, <1>5, <2>1, RunFacts, ThrownGood DEF Errors, Good
  <1> QED  BY <1>3, <1>4, <1>8, <1>9, <1>10, WriteStep DEF Good

(* A ready identity that is looked at.                                     *)
LEMMA ReopeningSound ==
  ASSUME NEW c \in Runs, NEW d, NEW h, c.operation # "remove",
         c.at = "reopening" \/ (c.at = "disabling" /\ c.back = "reopening"),
         c.back # "remove", c.state = d, ~c.temporaryCredentialAttempted, d.phase # "none",
         ~c.journalCleanupRequired => d.journal = None, c.managedToken # None => d.phase # "ready",
         d.phase = "ready" /\ c.at = "reopening" => h.llats = {}
  PROVE  Sound(c, d, h)
  <1>1. Lanes(c)  BY DEF Lanes, Removing, Reconciling
  <1>2. RunKnows(c, d)  BY DEF RunKnows, Fresh, Reconciling, Logged
  <1>3. GoneFirst(c, d, h) /\ TokensTell(c, d, h)  BY DEF GoneFirst, TokensTell, Wrecked
  <1> QED  BY <1>1, <1>2, <1>3 DEF Sound

LEMMA CheckReadyStep == Inv /\ CheckReady => Inv'
  <1> SUFFICES ASSUME Inv, CheckReady PROVE Inv'  OBVIOUS
  <1> DEFINE dropped == IF Linked \/ tokenFile \in ha.llats THEN tokenFile ELSE None
  <1>1. /\ run.at = "checking" /\ run.operation # "remove" /\ run.back # "remove"
        /\ run.state = disk /\ ~run.temporaryCredentialAttempted /\ ~run.managedSession
        /\ disk.phase # "none"
        /\ run.managedToken # None => disk.phase # "ready"
        /\ Catchable(run, disk)
    BY RunFacts, GoodCatchable
    DEF CheckReady, RunKnows, Fresh, Lanes, Removing, Reconciling, TokensTell
  <1>2. UNCHANGED <<disk, ha, changes>>  BY DEF CheckReady
  <1>3. Kept(disk, dropped, ha)
    <2>1. CASE Linked \/ tokenFile \in ha.llats
      BY <2>1, RunFacts
    <2>2. CASE ~(Linked \/ tokenFile \in ha.llats)
      BY <2>2, RunFacts DEF Kept, ReadyIsClean
    <2> QED  BY <2>1, <2>2
  <1>4. CASE tokenFile' = dropped /\ UNCHANGED failures /\ Linked /\ run' = Thrown(run, "changed")
    <2>1. Good(Thrown(run, "changed"), disk, tokenFile, ha)
      BY <1>1, RunFacts, ThrownGood DEF Errors
    <2> QED  BY <1>2, <1>4, <2>1 DEF Inv, Counted
  <1>5. CASE tokenFile' = dropped /\ UNCHANGED failures /\ run' = Off
    <2>1. Good(Off, disk, dropped, ha)  BY <1>3, OffGood
    <2> HIDE DEF dropped
    <2> QED  BY <1>2, <1>5, <2>1 DEF Inv, Counted
  <1>6. CASE /\ tokenFile' = dropped /\ UNCHANGED failures
             /\ run' = [run EXCEPT !.at = "disabling", !.back = "reopening"]
    <2> DEFINE c == [run EXCEPT !.at = "disabling", !.back = "reopening"]
    <2>1. c \in Runs
      <3>1. "disabling" \in Places  BY DEF Places
      <3> QED  BY <3>1, RunFacts DEF Runs
    <2>2. /\ c.at = "disabling" /\ c.back = "reopening" /\ c.operation = run.operation
          /\ c.state = run.state /\ c.managedToken = run.managedToken
          /\ c.temporaryCredentialAttempted = run.temporaryCredentialAttempted
          /\ c.journalCleanupRequired = run.journalCleanupRequired
      BY RunFacts DEF Runs
    <2>3. run' = c  BY <1>6
    <2> HIDE DEF c, dropped
    <2>4. Sound(c, disk, ha)  BY <1>1, <2>1, <2>2, ReopeningSound DEF Catchable
    <2> QED  BY <1>2, <1>3, <1>6, <2>3, <2>4 DEF Inv, Good, Counted
  <1>7. CASE /\ tokenFile' = dropped /\ UNCHANGED failures
             /\ ~Linked /\ tokenFile \notin ha.llats /\ run' = Goes("reopening")
    <2> DEFINE c == Goes("reopening")
    <2>1. c \in Runs
      <3>1. "reopening" \in Places  BY DEF Places
      <3> QED  BY <3>1, RunFacts DEF Runs, Goes
    <2>2. /\ c.at = "reopening" /\ c.back = run.back /\ c.operation = run.operation
          /\ c.state = run.state /\ c.managedToken = run.managedToken
          /\ c.temporaryCredentialAttempted = run.temporaryCredentialAttempted
          /\ c.journalCleanupRequired = run.journalCleanupRequired
      BY RunFacts DEF Runs, Goes
    <2>3. run' = c  BY <1>7
    <2>4. disk.phase = "ready" => ha.llats = {}
      BY <1>7, RunFacts DEF Kept, ReadyIsClean
    <2> HIDE DEF c, dropped
    <2>5. Sound(c, disk, ha)  BY <1>1, <2>1, <2>2, <2>4, ReopeningSound DEF Catchable
    <2> QED  BY <1>2, <1>3, <1>7, <2>3, <2>5 DEF Inv, Good, Counted
  <1>8. CASE Fails /\ tokenFile' \in {tokenFile, dropped} /\ run' = Thrown(run, "preserve")
    <2>1. Sound(Thrown(run, "preserve"), disk, ha)
      BY <1>1, ThrownSound DEF Errors
    <2> HIDE DEF dropped
    <2>2. Kept(disk, tokenFile', ha)  BY <1>3, <1>8, RunFacts
    <2> QED  BY <1>2, <1>8, <2>1, <2>2, BoundsAssumption DEF Inv, Good, Counted, Fails
  <1>9. \/ /\ tokenFile' = dropped /\ UNCHANGED failures
           /\ run' = CASE Linked -> Thrown(run, "changed")
                       [] Valid(tokenFile) -> Off
                       [] tokenFile \in ha.llats ->
                            [run EXCEPT !.at = "disabling", !.back = "reopening"]
                       [] OTHER -> Goes("reopening")
        \/ Fails /\ tokenFile' \in {tokenFile, dropped} /\ run' = Thrown(run, "preserve")
    BY DEF CheckReady
  <1> HIDE DEF dropped
  <1> QED  BY <1>4, <1>5, <1>6, <1>7, <1>8, <1>9

LEMMA ReopenStep == Inv /\ Reopen => Inv'
  <1> SUFFICES ASSUME Inv, Reopen PROVE Inv'  OBVIOUS
  <1> DEFINE c == [run EXCEPT !.at = "cleaning", !.state.phase = "provisioning"]
  <1>1. /\ run.at = "reopening" /\ run.operation # "remove" /\ run.back # "remove"
        /\ run.state = disk /\ ~run.temporaryCredentialAttempted
        /\ disk.phase = "ready" => ha.llats = {}
        /\ Catchable(run, disk)
    BY RunFacts, GoodCatchable
    DEF Reopen, RunKnows, Fresh, Lanes, Removing, Reconciling, TokensTell
  <1>2. WriteManagedState(c.state, c, Thrown(c, "other")) /\ UNCHANGED <<tokenFile, ha, changes>>
    BY DEF Reopen
  <1>3. /\ c.state \in States /\ c.state.phase = "provisioning" /\ c.state.journal = disk.journal
    BY <1>1, RunFacts DEF Runs, States, Phases
  <1>4. c \in Runs
    <2>1. "cleaning" \in Places  BY DEF Places
    <2>2. [run.state EXCEPT !.phase = "provisioning"] \in States
      BY RunFacts DEF Runs, States, Phases
    <2> QED  BY <2>1, <2>2, RunFacts DEF Runs
  <1>5. /\ c.at = "cleaning" /\ c.operation = run.operation /\ c.back = run.back
        /\ c.temporaryCredentialAttempted = run.temporaryCredentialAttempted
        /\ c.temporaryUsername = run.temporaryUsername
        /\ c.journalCleanupRequired = run.journalCleanupRequired
        /\ c.managedToken = run.managedToken
    BY RunFacts DEF Runs
  <1> HIDE DEF c
  <1>6. Sound(c, c.state, ha)
    BY <1>1, <1>3, <1>4, <1>5, FreshSound DEF Catchable
  <1>7. Kept(c.state, tokenFile, ha)
    BY <1>3, RunFacts DEF Kept, DiskTells, ReadyIsClean
  <1>8. Sound(Thrown(c, "other"), disk, ha)
    <2>1. Catchable(c, disk)  BY <1>1, <1>4, <1>5 DEF Catchable
    <2> QED  BY <1>1, <2>1, ThrownSound DEF Errors
  <1> QED  BY <1>2, <1>6, <1>7, <1>8, RunFacts, WriteStep DEF Good

LEMMA DisableStep == Inv /\ DisableStoredManagedToken => Inv'
  <1> SUFFICES ASSUME Inv, DisableStoredManagedToken PROVE Inv'  OBVIOUS
  <1> DEFINE h == WithTokens(ha.logins, ha.llats \ {tokenFile})
  <1>1. /\ run.at = "disabling" /\ UNCHANGED <<disk, changes>> /\ disk.phase # "none"
        /\ run.operation # "remove" => /\ run.back \in {"reopening", "catch"} /\ Catchable(run, disk)
        /\ run.operation \in {"setup", "remove"}
        /\ run.operation = "remove" => run.back = "none"
    BY RunFacts, GoodCatchable DEF DisableStoredManagedToken, RunKnows, Lanes, Runs
  <1>2. /\ Kept(disk, tokenFile, h) /\ h.user = ha.user /\ h.credential = ha.credential
        /\ h.llats = ha.llats \ {tokenFile}
    BY HaFacts, RunFacts, TokensKept
  <1> HIDE DEF h
  <1>3. Sound(run, disk, h)  BY <1>2, RunFacts, SoundFewer
  <1>4. disk.phase = "ready" => h.llats = {}
    BY <1>2, RunFacts DEF Kept, ReadyIsClean
  <1>5. Kept(disk, None, h)  BY <1>2, <1>4 DEF Kept, ReadyIsClean
  <1>6. CASE /\ ha' = h /\ tokenFile' = None /\ UNCHANGED failures
             /\ run' = IF run.operation = "remove" THEN Off
                       ELSE Goes(IF run.back = "catch" THEN "sweeping" ELSE "reopening")
    <2>1. CASE run.operation = "remove"
      BY <1>1, <1>5, <1>6, <2>1, OffGood DEF Inv, Counted
    <2>2. CASE run.operation # "remove" /\ run.back = "catch"
      <3> DEFINE c == Goes("sweeping")
      <3>1. run' = c  BY <1>6, <2>2
      <3>2. "sweeping" \in Places  BY DEF Places
      <3>3. c \in Runs  BY <3>2, RunFacts DEF Runs, Goes
      <3>4. /\ c.at = "sweeping" /\ c.operation = run.operation /\ c.back = run.back
            /\ c.temporaryCredentialAttempted = run.temporaryCredentialAttempted
            /\ c.temporaryUsername = run.temporaryUsername
            /\ c.journalCleanupRequired = run.journalCleanupRequired
            /\ c.managedToken = run.managedToken
        BY RunFacts DEF Runs, Goes
      <3> HIDE DEF c
      <3>5. Catchable(c, disk)  BY <1>1, <2>2, <3>3, <3>4 DEF Catchable
      <3>6. Sound(c, disk, h)  BY <1>4, <2>2, <3>4, <3>5, WreckedSound DEF Wrecked
      <3> QED  BY <1>1, <1>5, <1>6, <3>1, <3>6 DEF Inv, Good, Counted
    <2>3. CASE run.operation # "remove" /\ run.back # "catch"
      <3> DEFINE c == Goes("reopening")
      <3>1. run' = c  BY <1>6, <2>3
      <3>2. "reopening" \in Places  BY DEF Places
      <3>3. c \in Runs  BY <3>2, RunFacts DEF Runs, Goes
      <3>4. /\ c.at = "reopening" /\ c.operation = run.operation /\ c.back = run.back
            /\ c.state = run.state
            /\ c.temporaryCredentialAttempted = run.temporaryCredentialAttempted
            /\ c.journalCleanupRequired = run.journalCleanupRequired
            /\ c.managedToken = run.managedToken
        BY RunFacts DEF Runs, Goes
      <3> HIDE DEF c
      <3>5. run.back = "reopening" /\ run.state = disk /\ ~run.temporaryCredentialAttempted
        BY <1>1, <2>3, RunFacts DEF RunKnows, Fresh
      <3>6. Sound(c, disk, h)
        BY <1>1, <1>4, <2>3, <3>3, <3>4, <3>5, ReopeningSound DEF Catchable
      <3> QED  BY <1>1, <1>5, <1>6, <3>1, <3>6 DEF Inv, Good, Counted
    <2> QED  BY <2>1, <2>2, <2>3
  <1>7. CASE /\ Fails /\ ha' \in {ha, h} /\ UNCHANGED tokenFile
             /\ run' = IF run.back = "catch"
                       THEN [run EXCEPT !.at = "sweeping", !.preservePersistentState = TRUE]
                       ELSE Thrown(run, "preserve")
    <2>1. Good(run', disk, tokenFile, ha) /\ Good(run', disk, tokenFile, h)
      <3>1. CASE run.back = "catch"
        <4> DEFINE c == [run EXCEPT !.at = "sweeping", !.preservePersistentState = TRUE]
        <4>1. run' = c  BY <1>7, <3>1
        <4>2. "sweeping" \in Places  BY DEF Places
        <4>3. c \in Runs  BY <4>2, RunFacts DEF Runs
        <4>4. /\ c.at = "sweeping" /\ c.operation = run.operation /\ c.back = run.back
              /\ c.temporaryCredentialAttempted = run.temporaryCredentialAttempted
              /\ c.temporaryUsername = run.temporaryUsername
              /\ c.journalCleanupRequired = run.journalCleanupRequired
              /\ c.managedToken = run.managedToken /\ c.preservePersistentState
          BY RunFacts DEF Runs
        <4> HIDE DEF c
        <4>5. Catchable(c, disk)  BY <1>1, <3>1, <4>3, <4>4 DEF Catchable
        <4>6. Sound(c, disk, ha) /\ Sound(c, disk, h)
          BY <3>1, <4>4, <4>5, WreckedSound DEF Wrecked
        <4> QED  BY <1>2, <4>1, <4>6, RunFacts DEF Good
      <3>2. CASE run.back # "catch"
        <4>1. run' = Thrown(run, "preserve")  BY <1>7, <3>2
        <4> QED  BY <1>1, <1>2, <1>3, <4>1, RunFacts, ThrownGood DEF Errors, Good
      <3> QED  BY <3>1, <3>2
    <2> QED  BY <1>1, <1>7, <2>1, BoundsAssumption DEF Inv, Counted, Fails
  <1> QED  BY <1>6, <1>7 DEF DisableStoredManagedToken, h

LEMMA JournalingSound ==
  ASSUME NEW c \in Runs, NEW d, NEW h, c.operation # "remove", c.at = "journaling",
         c.back # "remove", c.state = d, ~c.temporaryCredentialAttempted, d.phase = "provisioning",
         ~c.journalCleanupRequired => d.journal = None, \A n \in Names : h.credential[n] = "none"
  PROVE  Sound(c, d, h)
  <1>1. Lanes(c)  BY DEF Lanes, Removing, Reconciling
  <1>2. RunKnows(c, d)  BY DEF RunKnows, Fresh, Reconciling, Logged
  <1>3. GoneFirst(c, d, h) /\ TokensTell(c, d, h)  BY DEF GoneFirst, TokensTell
  <1> QED  BY <1>1, <1>2, <1>3 DEF Sound

(* The credential under the name journaled is the only one there can be.   *)
LEMMA LastDeleted ==
  ASSUME Inv, disk.journal \in Names
  PROVE  LET h == WithCredential(disk.journal, "none") IN
         /\ Kept(disk, tokenFile, h) /\ \A n \in Names : h.credential[n] = "none"
         /\ h.user = ha.user /\ h.llats = ha.llats
  <1> DEFINE h == WithCredential(disk.journal, "none")
  <1>1. "none" \in Credentials /\ ha \in HomeAssistant  BY HaFacts DEF Credentials
  <1>2. Kept(disk, tokenFile, h)  BY <1>1, RunFacts, CredentialKept
  <1>3. /\ \A m \in Names : h.credential[m] = IF m = disk.journal THEN "none" ELSE ha.credential[m]
        /\ h.user = ha.user /\ h.llats = ha.llats
    BY <1>1, CredentialFacts
  <1>4. \A m \in Names : m # disk.journal => ha.credential[m] = "none"
    BY RunFacts DEF Kept, DiskTells
  <1> HIDE DEF h
  <1>5. \A n \in Names : h.credential[n] = "none"  BY <1>3, <1>4
  <1> QED  BY <1>2, <1>3, <1>5 DEF h

LEMMA CleanStep == Inv /\ CleanJournaled => Inv'
  <1> SUFFICES ASSUME Inv, CleanJournaled PROVE Inv'  OBVIOUS
  <1> DEFINE h == WithCredential(disk.journal, "none")
             c == Goes("journaling")
             cleaned == IF ha.user = "exact" THEN c ELSE Thrown(run, "other")
  <1>1. /\ run.at = "cleaning" /\ UNCHANGED <<disk, tokenFile, changes>>
        /\ run.operation # "remove" /\ run.back # "remove"
        /\ run.state = disk /\ ~run.temporaryCredentialAttempted
        /\ disk.phase = "provisioning" /\ Catchable(run, disk)
    BY RunFacts, GoodCatchable
    DEF CleanJournaled, RunKnows, Fresh, Lanes, Removing, Reconciling
  <1>2. \A e \in Errors : Good(Thrown(run, e), disk, tokenFile, ha)
    BY <1>1, RunFacts, ThrownGood
  <1>3. /\ c \in Runs /\ c.at = "journaling" /\ c.operation = run.operation /\ c.back = run.back
        /\ c.state = run.state
        /\ c.temporaryCredentialAttempted = run.temporaryCredentialAttempted
        /\ c.journalCleanupRequired = run.journalCleanupRequired
    <2>1. "journaling" \in Places  BY DEF Places
    <2> QED  BY <2>1, RunFacts DEF Runs, Goes
  <1> HIDE DEF c
  <1>4. CASE disk.journal # None /\ ha.credential[disk.journal] = "linked"
    <2>1. Request(TRUE, h, {}, cleaned, Thrown(run, "other"))
      BY <1>1, <1>4 DEF CleanJournaled, c
    <2>2. disk.journal \in Names  BY <1>4, RunFacts DEF States
    <2>3. /\ Kept(disk, tokenFile, h) /\ \A n \in Names : h.credential[n] = "none"
          /\ h.user = ha.user /\ h.llats = ha.llats
      BY <2>2, LastDeleted
    <2> HIDE DEF h
    <2>4. Sound(c, disk, h)  BY <1>1, <1>3, <2>3, JournalingSound DEF Catchable
    <2>5. Good(Thrown(run, "other"), disk, tokenFile, h)
      BY <1>1, <2>3, ThrownSound DEF Good, Errors
    <2>6. Good(cleaned, disk, tokenFile, h)  BY <2>3, <2>4, <2>5 DEF Good
    <2>7. Good(Thrown(run, "other"), disk, tokenFile, ha)  BY <1>2 DEF Errors
    <2> HIDE DEF cleaned
    <2>8. \A k \in {} \cup {h} : Good(Thrown(run, "other"), disk, tokenFile, k)
      BY <2>5
    <2> DEFINE works == TRUE
    <2>9. Request(works, h, {}, cleaned, Thrown(run, "other"))  BY <2>1
    <2> HIDE DEF works
    <2> QED  BY <1>1, <2>6, <2>7, <2>8, <2>9, RequestStep
  <1>5. CASE ~(disk.journal # None /\ ha.credential[disk.journal] = "linked")
    <2>1. /\ run' = CASE Linked -> Thrown(run, "changed")
                      [] run.state.journal = None -> Goes("journaling")
                      [] OTHER -> [run EXCEPT !.at = "deleting", !.back = "cleaned"]
          /\ UNCHANGED <<ha, failures>>
      BY <1>1, <1>5 DEF CleanJournaled
    <2>2. Good(run', disk, tokenFile, ha)
      <3>1. CASE Linked
        <4>1. disk.journal # None  BY <3>1, NoneLeft DEF Linked
        <4>2. run' = Thrown(run, "changed")  BY <1>1, <2>1, <3>1, <4>1
        <4> QED  BY <1>2, <4>2 DEF Errors
      <3>2. CASE ~Linked /\ run.state.journal = None
        <4>1. run' = c  BY <2>1, <3>2 DEF c
        <4>2. Sound(c, disk, ha)  BY <1>1, <1>3, <3>2, NoneLeft, JournalingSound DEF Catchable
        <4> QED  BY <4>1, <4>2, RunFacts DEF Good
      <3>3. CASE ~Linked /\ run.state.journal # None
        <4> DEFINE r == [run EXCEPT !.at = "deleting", !.back = "cleaned"]
        <4>1. run' = r  BY <2>1, <3>3
        <4>2. "deleting" \in Places  BY DEF Places
        <4>3. /\ r \in Runs /\ r.at = "deleting" /\ r.operation = run.operation /\ r.back = "cleaned"
              /\ r.state = run.state
              /\ r.temporaryCredentialAttempted = run.temporaryCredentialAttempted
              /\ r.journalCleanupRequired = run.journalCleanupRequired
          BY <4>2, RunFacts DEF Runs
        <4> HIDE DEF r
        <4>4. Lanes(r)  BY <1>1, <4>3 DEF Lanes, Removing, Reconciling
        <4>5. RunKnows(r, disk)
          BY <1>1, <3>3, <4>3 DEF RunKnows, Fresh, Reconciling, Logged, Catchable
        <4>6. GoneFirst(r, disk, ha) /\ TokensTell(r, disk, ha)
          BY <1>1, <4>3 DEF GoneFirst, TokensTell
        <4> QED  BY <4>1, <4>3, <4>4, <4>5, <4>6, RunFacts DEF Good, Sound
      <3> QED  BY <3>1, <3>2, <3>3
    <2> QED  BY <1>1, <2>1, <2>2 DEF Inv, Counted
  <1> QED  BY <1>4, <1>5

LEMMA JournalStep == Inv /\ JournalCredential => Inv'
  <1> SUFFICES ASSUME Inv, JournalCredential PROVE Inv'  OBVIOUS
  <1> DEFINE named(n) == [run EXCEPT !.state.journal = n, !.temporaryUsername = n]
             done(n) == [named(n) EXCEPT !.at = "crediting", !.journalCleanupRequired = TRUE,
                                         !.temporaryCredentialAttempted = TRUE]
  <1>1. /\ run.at = "journaling" /\ run.operation = "setup" /\ run.back # "remove"
        /\ run.state = disk /\ ~run.temporaryCredentialAttempted
        /\ disk.phase = "provisioning" /\ Catchable(run, disk)
        /\ \A m \in Names : ha.credential[m] = "none"
    BY RunFacts, GoodCatchable
    DEF JournalCredential, RunKnows, Fresh, Lanes, Removing, Reconciling, GoneFirst, Catchable
  <1>2. PICK n \in Names \ {disk.journal} :
            /\ WriteManagedState(named(n).state, done(n), Thrown(named(n), "other"))
            /\ UNCHANGED <<tokenFile, ha, changes>>
    BY DEF JournalCredential
  <1> DEFINE d == named(n).state
  <1>3. d \in States /\ d.phase = "provisioning" /\ d.journal = n /\ n # None
    BY <1>1, <1>2, RunFacts, NoneAssumption DEF Runs, States
  <1>4. named(n) \in Runs
    <2>1. [run.state EXCEPT !.journal = n] \in States  BY RunFacts DEF Runs, States
    <2> QED  BY <2>1, RunFacts DEF Runs
  <1>5. /\ named(n).operation = run.operation /\ named(n).back = run.back
        /\ named(n).temporaryUsername = n
        /\ named(n).temporaryCredentialAttempted = run.temporaryCredentialAttempted
        /\ named(n).journalCleanupRequired = run.journalCleanupRequired
        /\ named(n).managedToken = run.managedToken
    BY RunFacts DEF Runs
  <1> HIDE DEF named
  <1>6. done(n) \in Runs
    <2>1. "crediting" \in Places  BY DEF Places
    <2> QED  BY <1>4, <2>1 DEF Runs
  <1>7. /\ done(n).at = "crediting" /\ done(n).operation = "setup" /\ done(n).back # "remove"
        /\ done(n).temporaryUsername = n /\ done(n).temporaryCredentialAttempted
        /\ done(n).journalCleanupRequired
    BY <1>1, <1>4, <1>5 DEF Runs
  <1> HIDE DEF done, d
  <1>8. Sound(done(n), d, ha)  BY <1>3, <1>6, <1>7, LoggedSound DEF Logged
  <1>9. Kept(d, tokenFile, ha)
    BY <1>1, <1>3, RunFacts DEF Kept, DiskTells, ReadyIsClean
  <1>10. Good(Thrown(named(n), "other"), disk, tokenFile, ha)
    <2>1. Catchable(named(n), disk)  BY <1>1, <1>4, <1>5 DEF Catchable
    <2> QED  BY <1>1, <2>1, RunFacts, ThrownSound DEF Good, Errors
  <1> QED  BY <1>2, <1>8, <1>9, <1>10, WriteStep DEF Good, d

-----------------------------------------------------------------------------
(* Reconciliation of the name journaled, for a setup or a removal.         *)
LEMMA ReconcilingFacts ==
  ASSUME Inv, run.at \in Reconciling
  PROVE  /\ Name = disk.journal /\ disk.journal \in Names /\ disk.journal # None
         /\ disk.phase = "provisioning" /\ run.back \in {"cleaned", "catch", "remove"}
         /\ run.back = "remove" <=> run.operation = "remove"
         /\ run.operation # "remove" => Catchable(run, disk)
         /\ run.back # "catch" => run.state = disk
         /\ run.back = "cleaned" => ~run.temporaryCredentialAttempted
         /\ run.back = "catch" => run.temporaryCredentialAttempted
         /\ run.back = "remove" => ~run.temporaryCredentialAttempted
  <1>1. /\ run.operation = "remove" => ~run.temporaryCredentialAttempted
        /\ run.back \in {"cleaned", "catch", "remove"}
        /\ run.back = "remove" <=> run.operation = "remove"
    BY RunFacts DEF Lanes
  <1>2. run.operation # "remove" => Catchable(run, disk)
    BY RunFacts, GoodCatchable DEF Reconciling
  <1>3. run.back = "catch" => run.temporaryCredentialAttempted
    BY RunFacts DEF RunKnows
  <1>4. /\ run.back = "cleaned" => run.state = disk /\ ~run.temporaryCredentialAttempted
        /\ run.back = "remove" => run.state = disk
        /\ run.back # "catch" => run.state.journal # None
    BY RunFacts DEF RunKnows, Fresh
  <1>5. run.back = "catch" => run.temporaryUsername = disk.journal /\ disk.journal # None
    BY <1>3, RunFacts DEF RunKnows
  <1>6. Name = disk.journal /\ disk.journal # None
    BY <1>1, <1>4, <1>5 DEF Name
  <1> QED  BY <1>1, <1>2, <1>3, <1>4, <1>6, RunFacts DEF States, Kept, DiskTells

LEMMA ReconciledSound ==
  ASSUME Inv, run.at \in Reconciling, NEW h, \A n \in Names : h.credential[n] = "none"
  PROVE  Sound(Reconciled, disk, h)
  <1> DEFINE p == CASE run.back = "catch" -> "unjournaling"
                    [] run.back = "remove" -> "unlisting"
                    [] OTHER -> "journaling"
             c == Goes(p)
  <1>1. Reconciled = c  BY DEF Reconciled
  <1>2. /\ run.back = "catch" => p = "unjournaling"
        /\ run.back = "remove" => p = "unlisting"
        /\ run.back = "cleaned" => p = "journaling"
    OBVIOUS
  <1>3. p \in Places  BY <1>2, ReconcilingFacts DEF Places
  <1> HIDE DEF p
  <1>4. /\ c \in Runs /\ c.at = p /\ c.operation = run.operation /\ c.back = run.back
        /\ c.state = run.state
        /\ c.temporaryCredentialAttempted = run.temporaryCredentialAttempted
        /\ c.temporaryUsername = run.temporaryUsername
        /\ c.journalCleanupRequired = run.journalCleanupRequired
        /\ c.managedToken = run.managedToken
    BY <1>3, RunFacts DEF Runs, Goes
  <1> HIDE DEF c
  <1>5. CASE run.back = "cleaned"
    BY <1>1, <1>2, <1>4, <1>5, ReconcilingFacts, JournalingSound DEF Catchable
  <1>6. CASE run.back = "catch"
    <2>1. c.at = "unjournaling" /\ run.operation = "setup" /\ Catchable(run, disk)
      BY <1>2, <1>4, <1>6, ReconcilingFacts DEF Catchable
    <2>2. Lanes(c)  BY <1>4, <1>6, <2>1 DEF Lanes, Removing, Reconciling
    <2>3. RunKnows(c, disk)
      BY <1>4, <1>6, <2>1, ReconcilingFacts DEF RunKnows, Fresh, Reconciling, Logged, Catchable
    <2>4. GoneFirst(c, disk, h) /\ TokensTell(c, disk, h)
      BY <2>1, ReconcilingFacts DEF GoneFirst, TokensTell
    <2> QED  BY <1>1, <1>4, <2>2, <2>3, <2>4 DEF Sound
  <1>7. CASE run.back = "remove"
    <2>1. /\ c.at = "unlisting" /\ c.operation = "remove" /\ c.back = "remove"
          /\ ~c.temporaryCredentialAttempted
      BY <1>2, <1>4, <1>7, ReconcilingFacts
    <2>2. Lanes(c)  BY <2>1 DEF Lanes, Removing, Reconciling
    <2>3. RunKnows(c, disk)
      BY <1>4, <2>1, ReconcilingFacts, RunFacts DEF RunKnows, Fresh, Reconciling, Logged
    <2>4. GoneFirst(c, disk, h) /\ TokensTell(c, disk, h)
      BY <2>1, ReconcilingFacts DEF GoneFirst, TokensTell
    <2> QED  BY <1>1, <1>4, <2>2, <2>3, <2>4 DEF Sound
  <1> QED  BY <1>5, <1>6, <1>7, ReconcilingFacts

LEMMA UnreconciledSound ==
  ASSUME Inv, run.at \in Reconciling, NEW h
  PROVE  Sound(Unreconciled, disk, h)
  <1>1. CASE run.back = "catch"
    <2> DEFINE c == Goes("settling")
    <2>1. Unreconciled = c  BY <1>1 DEF Unreconciled
    <2>2. "settling" \in Places  BY DEF Places
    <2>3. /\ c \in Runs /\ c.at = "settling" /\ c.operation = run.operation /\ c.back = run.back
          /\ c.temporaryCredentialAttempted = run.temporaryCredentialAttempted
          /\ c.temporaryUsername = run.temporaryUsername
          /\ c.journalCleanupRequired = run.journalCleanupRequired
          /\ c.managedToken = run.managedToken
      BY <2>2, RunFacts DEF Runs, Goes
    <2> HIDE DEF c
    <2>4. Catchable(c, disk)  BY <1>1, <2>3, ReconcilingFacts DEF Catchable
    <2> QED  BY <1>1, <2>1, <2>3, <2>4, ReconcilingFacts, WreckedSound DEF Wrecked
  <1>2. CASE run.back # "catch" /\ run.operation # "remove"
    <2>1. Unreconciled = Thrown(run, "orphaned")  BY <1>2 DEF Unreconciled
    <2> QED  BY <1>2, <2>1, ReconcilingFacts, ThrownSound DEF Errors
  <1>3. CASE run.operation = "remove"
    <2>1. Unreconciled = Off  BY <1>3, ReconcilingFacts DEF Unreconciled, Thrown
    <2>2. Kept(disk, tokenFile, ha)  BY RunFacts
    <2>3. Sound(Off, disk, h)
      <3>1. Off \in Runs /\ Lanes(Off) /\ RunKnows(Off, disk)
        BY <2>2, OffGood DEF Good, Sound
      <3>2. GoneFirst(Off, disk, h) /\ TokensTell(Off, disk, h)
        BY DEF Off, GoneFirst, TokensTell, Wrecked
      <3> QED  BY <3>1, <3>2 DEF Sound
    <2> QED  BY <2>1, <2>3
  <1> QED  BY <1>1, <1>2, <1>3

LEMMA StillReconciling ==
  ASSUME Inv, run.at \in Reconciling, NEW p \in Reconciling, NEW h
  PROVE  Sound(Goes(p), disk, h)
  <1> DEFINE c == Goes(p)
  <1>1. p \in Places  BY DEF Reconciling, Places
  <1>2. /\ c \in Runs /\ c.at = p /\ c.operation = run.operation /\ c.back = run.back
        /\ c.state = run.state
        /\ c.temporaryCredentialAttempted = run.temporaryCredentialAttempted
        /\ c.temporaryUsername = run.temporaryUsername
        /\ c.journalCleanupRequired = run.journalCleanupRequired
        /\ c.managedToken = run.managedToken
    BY <1>1, RunFacts DEF Runs, Goes
  <1> HIDE DEF c
  <1>3. p \in {"deleting", "recreating", "redeleting"}  BY DEF Reconciling
  <1>4. Lanes(c)  BY <1>2, <1>3, ReconcilingFacts DEF Lanes, Removing, Reconciling
  <1>5. RunKnows(c, disk)
    BY <1>2, <1>3, ReconcilingFacts, RunFacts DEF RunKnows, Fresh, Logged, Reconciling
  <1>6. GoneFirst(c, disk, h) /\ TokensTell(c, disk, h)
    BY <1>2, <1>3, ReconcilingFacts DEF GoneFirst, TokensTell
  <1> QED  BY <1>2, <1>4, <1>5, <1>6 DEF Sound, c

LEMMA ReconcileDeleteStep == Inv /\ ReconcileDelete => Inv'
  <1> SUFFICES ASSUME Inv, ReconcileDelete PROVE Inv'  OBVIOUS
  <1> DEFINE h == WithCredential(disk.journal, "none")
  <1>1. run.at \in Reconciling /\ UNCHANGED <<disk, tokenFile, changes>>
    BY DEF ReconcileDelete, Reconciling
  <1>2. Name = disk.journal /\ disk.journal \in Names  BY <1>1, ReconcilingFacts
  <1>3. /\ Kept(disk, tokenFile, h) /\ \A n \in Names : h.credential[n] = "none"
    BY <1>2, LastDeleted
  <1>4. \/ Request(ha.credential[disk.journal] # "none", h, {}, Reconciled, Goes("recreating"))
        \/ Fails /\ run' = Unreconciled /\ UNCHANGED ha
    BY <1>2 DEF ReconcileDelete
  <1> HIDE DEF h
  <1>5. Good(Reconciled, disk, tokenFile, h)  BY <1>1, <1>3, ReconciledSound DEF Good
  <1>6. Good(Goes("recreating"), disk, tokenFile, h) /\ Good(Goes("recreating"), disk, tokenFile, ha)
    BY <1>1, <1>3, RunFacts, StillReconciling DEF Good, Reconciling
  <1>7. CASE Request(ha.credential[disk.journal] # "none", h, {}, Reconciled, Goes("recreating"))
    BY <1>1, <1>5, <1>6, <1>7, RequestStep
  <1>8. CASE Fails /\ run' = Unreconciled /\ UNCHANGED ha
    <2>1. Good(Unreconciled, disk, tokenFile, ha)
      BY <1>1, RunFacts, UnreconciledSound DEF Good
    <2> QED  BY <1>1, <1>8, <2>1, BoundsAssumption DEF Inv, Counted, Fails
  <1> QED  BY <1>4, <1>7, <1>8

LEMMA ReconcileCreateStep == Inv /\ ReconcileCreate => Inv'
  <1> SUFFICES ASSUME Inv, ReconcileCreate PROVE Inv'  OBVIOUS
  <1> DEFINE works == ha.user # "absent" /\ ha.credential[Name] = "none"
             n == disk.journal
  <1>1. run.at \in Reconciling /\ UNCHANGED <<disk, tokenFile, changes>>
    BY DEF ReconcileCreate, Reconciling
  <1>2. Name = disk.journal /\ disk.journal \in Names  BY <1>1, ReconcilingFacts
  <1>3. Request(works, WithCredential(n, "linked"), {WithCredential(n, "unlinked")},
                Goes("redeleting"), Goes("redeleting"))
    BY <1>2 DEF ReconcileCreate
  <1>4. works => Kept(disk, tokenFile, WithCredential(n, "linked"))
    BY RunFacts, CredentialKept DEF Credentials
  <1>5. Kept(disk, tokenFile, WithCredential(n, "unlinked"))
    BY RunFacts, CredentialKept DEF Credentials
  <1>6. \A h : Sound(Goes("redeleting"), disk, h)
    BY <1>1, StillReconciling DEF Reconciling
  <1> HIDE DEF works, n
  <1> QED  BY <1>1, <1>3, <1>4, <1>5, <1>6, RunFacts, RequestStep DEF Good

LEMMA ReconcileAgainStep == Inv /\ ReconcileDeleteAgain => Inv'
  <1> SUFFICES ASSUME Inv, ReconcileDeleteAgain PROVE Inv'  OBVIOUS
  <1> DEFINE h == WithCredential(disk.journal, "none")
  <1>1. run.at \in Reconciling /\ UNCHANGED <<disk, tokenFile, changes>>
    BY DEF ReconcileDeleteAgain, Reconciling
  <1>2. Name = disk.journal /\ disk.journal \in Names  BY <1>1, ReconcilingFacts
  <1>3. /\ Kept(disk, tokenFile, h) /\ \A n \in Names : h.credential[n] = "none"
    BY <1>2, LastDeleted
  <1>4. Request(ha.credential[disk.journal] # "none", h, {}, Reconciled, Unreconciled)
    BY <1>2 DEF ReconcileDeleteAgain
  <1> HIDE DEF h
  <1>5. Good(Reconciled, disk, tokenFile, h)  BY <1>1, <1>3, ReconciledSound DEF Good
  <1>6. Good(Unreconciled, disk, tokenFile, h) /\ Good(Unreconciled, disk, tokenFile, ha)
    BY <1>1, <1>3, RunFacts, UnreconciledSound DEF Good
  <1> QED  BY <1>1, <1>4, <1>5, <1>6, RequestStep

-----------------------------------------------------------------------------
(* The rollback.                                                           *)
Wreck(c) ==
    /\ c \in Runs /\ c.operation = run.operation /\ c.back = run.back
    /\ c.temporaryCredentialAttempted = run.temporaryCredentialAttempted
    /\ c.temporaryUsername = run.temporaryUsername
    /\ c.journalCleanupRequired = run.journalCleanupRequired
    /\ c.managedToken \in {run.managedToken, None}
    /\ c.preservePersistentState \in {run.preservePersistentState, TRUE}

LEMMA WreckFacts ==
  ASSUME Inv, run.at \in Wrecked
  PROVE  /\ Catchable(run, disk) /\ run.operation = "setup" /\ run.back # "remove" /\ Wreck(run)
         /\ disk.phase = "ready" /\ ~run.preservePersistentState => ha.llats = {}
  <1>1. run.operation # "remove" /\ run.back # "remove"
    BY RunFacts DEF Lanes, Wrecked, Removing, Reconciling
  <1>2. Catchable(run, disk)  BY <1>1, RunFacts, GoodCatchable DEF Wrecked
  <1> QED  BY <1>1, <1>2, RunFacts DEF Wreck, Catchable, TokensTell

LEMMA StillWrecked ==
  ASSUME Inv, run.at \in Wrecked, NEW c, Wreck(c), c.at \in Wrecked, NEW h, h.llats \subseteq ha.llats
  PROVE  Sound(c, disk, h)
  <1>1. Catchable(c, disk)  BY WreckFacts DEF Wreck, Catchable
  <1> QED  BY <1>1, WreckFacts, WreckedSound DEF Wreck

LEMMA WreckGoes ==
  ASSUME Inv, NEW p \in Wrecked
  PROVE  Wreck(Goes(p)) /\ Goes(p).at \in Wrecked
  <1>1. p \in Places  BY DEF Wrecked, Places
  <1> QED  BY <1>1, RunFacts DEF Wreck, Goes, Runs

LEMMA SweepStep == Inv /\ SweepTokens => Inv'
  <1> SUFFICES ASSUME Inv, SweepTokens PROVE Inv'  OBVIOUS
  <1> DEFINE current == {run.managedToken}
             works == current \subseteq ha.llats
             h == WithTokens({}, current)
             c == Enforced("unminting")
             failed == Goes("unminting")
  <1>1. run.at \in Wrecked /\ UNCHANGED <<disk, tokenFile, changes>>
    BY DEF SweepTokens, Wrecked
  <1>2. \/ Request(works, h, Fewer({}, current), c, failed)
        \/ run' = failed /\ UNCHANGED <<ha, failures>>
    BY DEF SweepTokens, EnforceSingleManagedToken
  <1>3. Wreck(failed) /\ failed.at \in Wrecked  BY WreckGoes DEF Wrecked
  <1>4. Wreck(c) /\ c.at \in Wrecked
    <2>1. "unminting" \in Places /\ "unminting" \in Wrecked  BY DEF Places, Wrecked
    <2> QED  BY <2>1, RunFacts DEF Wreck, Enforced, Runs
  <1>5. works => Kept(disk, tokenFile, h) /\ h.llats \subseteq ha.llats
    BY HaFacts, RunFacts, TokensKept
  <1>6. \A k \in Fewer({}, current) : Kept(disk, tokenFile, k) /\ k.llats \subseteq ha.llats
    BY RunFacts, FewerKept
  <1> HIDE DEF current, works, h, c, failed
  <1>7. works => /\ Good(c, disk, tokenFile, h)
                 /\ \A k \in Fewer({}, current) \cup {h} : Good(failed, disk, tokenFile, k)
    BY <1>1, <1>3, <1>4, <1>5, <1>6, StillWrecked DEF Good
  <1>8. Good(failed, disk, tokenFile, ha)
    BY <1>1, <1>3, RunFacts, StillWrecked DEF Good
  <1>9. CASE Request(works, h, Fewer({}, current), c, failed)
    BY <1>1, <1>7, <1>8, <1>9, RequestStep
  <1>10. CASE run' = failed /\ UNCHANGED <<ha, failures>>
    BY <1>1, <1>8, <1>10 DEF Inv, Counted
  <1> QED  BY <1>2, <1>9, <1>10

LEMMA RemoveNewStep == Inv /\ RemoveNewToken => Inv'
  <1> SUFFICES ASSUME Inv, RemoveNewToken PROVE Inv'  OBVIOUS
  <1> DEFINE byName == run.managedTokenCreationAttempted /\ ~run.managedSession
                       /\ run.temporarySession
             works == IF byName THEN run.temporaryRefreshToken \in ha.logins
                      ELSE run.managedToken \in ha.llats
             kept == IF byName THEN {} ELSE ha.llats \ {run.managedToken}
             h == WithTokens(ha.logins, kept)
  <1>1. run.at \in Wrecked /\ UNCHANGED <<disk, changes>>
    BY DEF RemoveNewToken, Wrecked
  <1>2. kept \subseteq ha.llats  OBVIOUS
  <1>3. \/ works /\ ha' = h /\ run' = Unminted /\ UNCHANGED <<tokenFile, failures>>
        \/ Fails /\ ha' \in Fewer(ha.logins, kept) /\ PreserveUncertainManagedToken
        \/ PreserveUncertainManagedToken /\ UNCHANGED <<ha, failures>>
        \/ run' = Goes("revoking") /\ UNCHANGED <<tokenFile, ha, failures>>
    BY DEF RemoveNewToken
  <1> HIDE DEF byName, works, kept
  <1>4. Kept(disk, tokenFile, h) /\ h.llats \subseteq ha.llats
    BY <1>2, HaFacts, RunFacts, TokensKept
  <1>5. \A k \in Fewer(ha.logins, kept) : Kept(disk, tokenFile, k) /\ k.llats \subseteq ha.llats
    BY RunFacts, FewerKept
  <1> HIDE DEF h
  <1>6. Wreck(Unminted) /\ Unminted.at \in Wrecked
    <2>1. "revoking" \in Places /\ "revoking" \in Wrecked  BY DEF Places, Wrecked
    <2> QED  BY <2>1, RunFacts DEF Wreck, Unminted, Runs
  <1>7. \A k : k.llats \subseteq ha.llats =>
            Sound(Unminted, disk, k) /\ Sound(Goes("revoking"), disk, k)
    BY <1>1, <1>6, StillWrecked, WreckGoes DEF Wrecked
  <1>8. ASSUME NEW k, Kept(disk, tokenFile, k), k.llats \subseteq ha.llats,
               PreserveUncertainManagedToken
        PROVE  Good(run', disk, tokenFile', k)
    <2>1. CASE run' = Goes("revoking") /\ UNCHANGED tokenFile
      BY <1>7, <1>8, <2>1 DEF Good
    <2>2. CASE /\ run.managedToken # None /\ tokenFile' = run.managedToken
               /\ run' = [run EXCEPT !.at = "revoking", !.preservePersistentState = TRUE]
      <3> DEFINE c == [run EXCEPT !.at = "revoking", !.preservePersistentState = TRUE]
      <3>1. Wreck(c) /\ c.at \in Wrecked
        <4>1. "revoking" \in Places /\ "revoking" \in Wrecked  BY DEF Places, Wrecked
        <4> QED  BY <4>1, RunFacts DEF Wreck, Runs
      <3>2. run' = c  BY <2>2
      <3> HIDE DEF c
      <3>3. Sound(c, disk, k)  BY <1>1, <1>8, <3>1, StillWrecked
      <3>4. disk.phase # "ready"  BY <2>2, RunFacts DEF TokensTell
      <3>5. tokenFile' \in Llats \cup {None}  BY <2>2, RunFacts DEF Runs
      <3>6. Kept(disk, tokenFile', k)  BY <1>8, <3>4, <3>5 DEF Kept, ReadyIsClean
      <3> QED  BY <3>2, <3>3, <3>6 DEF Good
    <2> QED  BY <1>8, <2>1, <2>2 DEF PreserveUncertainManagedToken
  <1>9. CASE works /\ ha' = h /\ run' = Unminted /\ UNCHANGED <<tokenFile, failures>>
    BY <1>1, <1>4, <1>7, <1>9 DEF Inv, Good, Counted
  <1>10. CASE Fails /\ ha' \in Fewer(ha.logins, kept) /\ PreserveUncertainManagedToken
    <2>1. Good(run', disk, tokenFile', ha')  BY <1>5, <1>8, <1>10
    <2> QED  BY <1>1, <1>10, <2>1, BoundsAssumption DEF Inv, Counted, Fails
  <1>11. CASE PreserveUncertainManagedToken /\ UNCHANGED <<ha, failures>>
    <2>1. Good(run', disk, tokenFile', ha)  BY <1>8, <1>11, RunFacts
    <2> QED  BY <1>1, <1>11, <2>1 DEF Inv, Counted
  <1>12. CASE run' = Goes("revoking") /\ UNCHANGED <<tokenFile, ha, failures>>
    BY <1>1, <1>7, <1>12, RunFacts DEF Inv, Good, Counted
  <1> QED  BY <1>3, <1>9, <1>10, <1>11, <1>12

LEMMA RevokeStep == Inv /\ RevokeTemporaryRefreshToken => Inv'
  <1> SUFFICES ASSUME Inv, RevokeTemporaryRefreshToken PROVE Inv'  OBVIOUS
  <1> DEFINE p == IF run.temporaryCredentialAttempted THEN "deleting" ELSE "settling"
             next == [run EXCEPT !.at = p, !.back = "catch"]
             revoked == [next EXCEPT !.temporaryRefreshToken = None,
                                     !.temporaryTokenCleanupRequired = FALSE]
             h == WithTokens(ha.logins \ {run.temporaryRefreshToken}, ha.llats)
             Onward(c) ==
                 /\ c \in Runs /\ c.at = p /\ c.operation = run.operation /\ c.back = "catch"
                 /\ c.temporaryCredentialAttempted = run.temporaryCredentialAttempted
                 /\ c.temporaryUsername = run.temporaryUsername
                 /\ c.journalCleanupRequired = run.journalCleanupRequired
                 /\ c.managedToken = run.managedToken
                 /\ c.preservePersistentState = run.preservePersistentState
             works == TRUE
  <1>1. run.at \in Wrecked /\ UNCHANGED <<disk, tokenFile, changes>>
    BY DEF RevokeTemporaryRefreshToken, Wrecked
  <1>2. \/ Request(works, h, {}, revoked, next)
        \/ run' = next /\ UNCHANGED <<ha, failures>>
    BY DEF RevokeTemporaryRefreshToken
  <1>3. p \in Places  BY DEF Places
  <1>4. p \in {"deleting", "settling"} /\ (p = "deleting" <=> run.temporaryCredentialAttempted)
    BY RunFacts DEF Runs
  <1> HIDE DEF p
  <1>5. Onward(next)  BY <1>3, RunFacts DEF Runs
  <1>6. Onward(revoked)  BY <1>3, RunFacts DEF Runs
  <1> HIDE DEF next, revoked, works
  <1>7. ASSUME NEW c, Onward(c), NEW k, k.llats \subseteq ha.llats
        PROVE  Sound(c, disk, k)
    <2>1. Catchable(c, disk)  BY <1>1, <1>7, WreckFacts DEF Catchable
    <2>2. CASE p = "settling"
      BY <1>1, <1>7, <2>1, <2>2, WreckFacts, WreckedSound DEF Wrecked
    <2>3. CASE p = "deleting"
      <3>1. /\ c.at = "deleting" /\ c.back = "catch" /\ c.operation = "setup"
            /\ c.temporaryCredentialAttempted /\ c \in Runs
        BY <1>1, <1>4, <1>7, <2>3, WreckFacts
      <3>2. disk.phase = "provisioning"
        BY <2>1, <3>1, RunFacts DEF Catchable, Kept, DiskTells
      <3> HIDE DEF Onward
      <3>3. Lanes(c)  BY <3>1 DEF Lanes, Removing, Reconciling
      <3>4. RunKnows(c, disk)
        BY <2>1, <3>1, <3>2 DEF RunKnows, Fresh, Reconciling, Logged, Catchable
      <3>5. GoneFirst(c, disk, k) /\ TokensTell(c, disk, k)
        BY <3>1, <3>2 DEF GoneFirst, TokensTell
      <3> QED  BY <3>1, <3>3, <3>4, <3>5 DEF Sound
    <2> QED  BY <1>4, <2>2, <2>3
  <1> HIDE DEF Onward
  <1>8. Kept(disk, tokenFile, h) /\ h.llats \subseteq ha.llats
    BY HaFacts, RunFacts, TokensKept
  <1> HIDE DEF h
  <1>9. /\ Good(revoked, disk, tokenFile, h) /\ Good(next, disk, tokenFile, ha)
        /\ \A k \in {} \cup {h} : Good(next, disk, tokenFile, k)
    BY <1>5, <1>6, <1>7, <1>8, RunFacts DEF Good
  <1>10. CASE Request(works, h, {}, revoked, next)
    BY <1>1, <1>9, <1>10, RequestStep
  <1>11. CASE run' = next /\ UNCHANGED <<ha, failures>>
    BY <1>1, <1>9, <1>11 DEF Inv, Counted
  <1> QED  BY <1>2, <1>10, <1>11

LEMMA UnjournalStep == Inv /\ UnjournalAfterRollback => Inv'
  <1> SUFFICES ASSUME Inv, UnjournalAfterRollback PROVE Inv'  OBVIOUS
  <1> DEFINE d == State("provisioning", None)
             settled == [run EXCEPT !.at = "settling", !.temporaryCredentialAttempted = FALSE]
             kept == [settled EXCEPT !.state = State("provisioning", run.temporaryUsername),
                                     !.journalCleanupRequired = TRUE]
             done == [settled EXCEPT !.state = d, !.journalCleanupRequired = FALSE]
  <1>1. /\ run.at = "unjournaling" /\ UNCHANGED <<tokenFile, ha, changes>>
        /\ run.operation = "setup" /\ run.back = "catch" /\ disk.phase = "provisioning"
        /\ Catchable(run, disk) /\ \A n \in Names : ha.credential[n] = "none"
    <2>1. run.at = "unjournaling"  BY DEF UnjournalAfterRollback
    <2>2. /\ run.back = "catch" /\ run.operation # "remove" /\ run.temporaryCredentialAttempted
      BY <2>1, RunFacts DEF Lanes, RunKnows, Removing, Reconciling
    <2>3. Catchable(run, disk)  BY <2>1, <2>2, RunFacts, GoodCatchable
    <2> QED  BY <2>1, <2>2, <2>3, RunFacts
             DEF UnjournalAfterRollback, Catchable, Kept, DiskTells, GoneFirst
  <1>2. d \in States /\ d.phase = "provisioning" /\ d.journal = None
    BY DEF State, States, Phases
  <1>3. "settling" \in Places /\ "settling" \in Wrecked  BY DEF Places, Wrecked
  <1>4. /\ settled \in Runs /\ settled.at = "settling" /\ settled.operation = "setup"
        /\ settled.back = "catch" /\ ~settled.temporaryCredentialAttempted
        /\ settled.managedToken = run.managedToken
    BY <1>1, <1>3, RunFacts DEF Runs
  <1>5. \/ run' = kept /\ UNCHANGED <<disk, failures>>
        \/ WriteManagedState(d, done, Goes("settling"))
        \/ run' = Goes("settling") /\ UNCHANGED <<disk, failures>>
    BY DEF UnjournalAfterRollback
  <1> HIDE DEF d, settled
  <1>6. Good(kept, disk, tokenFile, ha)
    <2>1. State("provisioning", run.temporaryUsername) \in States
      BY RunFacts DEF Runs, State, States, Phases
    <2>2. /\ kept \in Runs /\ kept.at = "settling" /\ kept.operation = "setup"
          /\ kept.back = "catch" /\ ~kept.temporaryCredentialAttempted
          /\ kept.managedToken = run.managedToken /\ kept.journalCleanupRequired
      BY <1>4, <2>1 DEF Runs
    <2> HIDE DEF kept
    <2>3. Catchable(kept, disk)  BY <1>1, <2>2 DEF Catchable
    <2> QED  BY <1>1, <1>3, <2>2, <2>3, RunFacts, WreckedSound DEF Good
  <1>7. Good(done, d, tokenFile, ha)
    <2>1. /\ done \in Runs /\ done.at = "settling" /\ done.operation = "setup"
          /\ done.back = "catch" /\ ~done.temporaryCredentialAttempted
          /\ done.managedToken = run.managedToken
      BY <1>2, <1>4 DEF Runs
    <2> HIDE DEF done
    <2>2. Catchable(done, d)  BY <1>2, <2>1 DEF Catchable
    <2>3. Kept(d, tokenFile, ha)  BY <1>1, <1>2, RunFacts DEF Kept, DiskTells, ReadyIsClean
    <2> QED  BY <1>2, <1>3, <2>1, <2>2, <2>3, WreckedSound DEF Good
  <1>8. Good(Goes("settling"), disk, tokenFile, ha)
    <2> DEFINE c == Goes("settling")
    <2>1. /\ c \in Runs /\ c.at = "settling" /\ c.operation = run.operation /\ c.back = run.back
          /\ c.temporaryCredentialAttempted = run.temporaryCredentialAttempted
          /\ c.temporaryUsername = run.temporaryUsername
          /\ c.journalCleanupRequired = run.journalCleanupRequired
          /\ c.managedToken = run.managedToken
      BY <1>3, RunFacts DEF Runs, Goes
    <2> HIDE DEF c
    <2>2. Catchable(c, disk)  BY <1>1, <2>1 DEF Catchable
    <2>3. Sound(c, disk, ha)  BY <1>1, <1>3, <2>1, <2>2, WreckedSound
    <2> QED  BY <2>3, RunFacts DEF Good, c
  <1> HIDE DEF kept, done
  <1>9. CASE run' = kept /\ UNCHANGED <<disk, failures>>
    BY <1>1, <1>6, <1>9 DEF Inv, Counted
  <1>10. CASE WriteManagedState(d, done, Goes("settling"))
    BY <1>1, <1>7, <1>8, <1>10, WriteStep
  <1>11. CASE run' = Goes("settling") /\ UNCHANGED <<disk, failures>>
    BY <1>1, <1>8, <1>11 DEF Inv, Counted
  <1> QED  BY <1>5, <1>9, <1>10, <1>11

(* The places at the end of a rollback.                                    *)
LEMMA EndingSound ==
  ASSUME NEW c \in Runs, NEW d, NEW h, c.operation # "remove", c.back # "remove",
         c.at \in {"unstating", "untokening", "resettling"}, d.journal = None,
         ~c.temporaryCredentialAttempted, c.managedToken # None => d.phase # "ready",
         c.at # "untokening" => d.phase # "none", c.at # "resettling" => h.user = "absent"
  PROVE  Sound(c, d, h)
  <1>1. Lanes(c)  BY DEF Lanes, Removing, Reconciling
  <1>2. RunKnows(c, d)  BY DEF RunKnows, Fresh, Reconciling, Logged
  <1>3. GoneFirst(c, d, h) /\ TokensTell(c, d, h)  BY DEF GoneFirst, TokensTell, Wrecked
  <1> QED  BY <1>1, <1>2, <1>3 DEF Sound

LEMMA SettleStep == Inv /\ Settle => Inv'
  <1> SUFFICES ASSUME Inv, Settle PROVE Inv'  OBVIOUS
  <1>1. /\ run.at = "settling" /\ run.at \in Wrecked /\ UNCHANGED <<disk, changes>>
        /\ run.operation = "setup" /\ run.back # "remove" /\ Catchable(run, disk)
        /\ disk.phase = "ready" /\ ~run.preservePersistentState => ha.llats = {}
    <2>1. run.at = "settling" /\ run.at \in Wrecked  BY DEF Settle, Wrecked
    <2> QED  BY <2>1, WreckFacts DEF Settle
  <1>2. ~run.preservePersistentState => Kept(disk, None, ha)
    BY <1>1, RunFacts DEF Kept, ReadyIsClean
  <1>3. ~PreserveJournalState => disk.journal = None /\ ~run.temporaryCredentialAttempted
    BY <1>1 DEF PreserveJournalState, Catchable
  <1>4. CASE run' = Off /\ UNCHANGED <<tokenFile, ha, failures>>
    BY <1>1, <1>4, RunFacts, OffGood DEF Inv, Counted
  <1>5. CASE ~run.preservePersistentState /\ tokenFile' = None /\ run' = Off /\ UNCHANGED <<ha, failures>>
    BY <1>1, <1>2, <1>5, OffGood DEF Inv, Counted
  <1>6. CASE /\ ~PreserveJournalState /\ UNCHANGED tokenFile
             /\ Request(ha.user # "absent", WithoutUser, {}, Goes("unstating"), Off)
    <2> DEFINE c == Goes("unstating")
    <2>1. Kept(disk, tokenFile, WithoutUser) /\ WithoutUser.user = "absent"
      BY RunFacts, WithoutKept
    <2>2. "unstating" \in Places  BY DEF Places
    <2>3. /\ c \in Runs /\ c.at = "unstating" /\ c.operation = run.operation /\ c.back = run.back
          /\ c.temporaryCredentialAttempted = run.temporaryCredentialAttempted
          /\ c.managedToken = run.managedToken
      BY <2>2, RunFacts DEF Runs, Goes
    <2> HIDE DEF c
    <2>4. Sound(c, disk, WithoutUser)
      BY <1>1, <1>3, <1>6, <2>1, <2>3, EndingSound DEF Catchable
    <2>5. Good(Off, disk, tokenFile, ha) /\ Good(Off, disk, tokenFile, WithoutUser)
      BY <2>1, RunFacts, OffGood
    <2>6. \A k \in {} \cup {WithoutUser} : Good(Off, disk, tokenFile, k)  BY <2>5
    <2>7. Good(c, disk, tokenFile, WithoutUser)  BY <2>1, <2>4 DEF Good
    <2> DEFINE works == ha.user # "absent"
               h == WithoutUser
    <2>8. Request(works, h, {}, c, Off)  BY <1>6 DEF c
    <2> HIDE DEF works, h
    <2> QED  BY <1>1, <1>6, <2>5, <2>6, <2>7, <2>8, RequestStep DEF h
  <1>7. CASE /\ ~run.preservePersistentState /\ ~PreserveJournalState
             /\ tokenFile' = None /\ run' = Goes("resettling") /\ UNCHANGED <<ha, failures>>
    <2> DEFINE c == Goes("resettling")
    <2>1. "resettling" \in Places  BY DEF Places
    <2>2. /\ c \in Runs /\ c.at = "resettling" /\ c.operation = run.operation /\ c.back = run.back
          /\ c.temporaryCredentialAttempted = run.temporaryCredentialAttempted
          /\ c.managedToken = run.managedToken
      BY <2>1, RunFacts DEF Runs, Goes
    <2>3. run' = c  BY <1>7
    <2> HIDE DEF c
    <2>4. Sound(c, disk, ha)  BY <1>1, <1>3, <1>7, <2>2, EndingSound DEF Catchable
    <2> QED  BY <1>1, <1>2, <1>7, <2>3, <2>4 DEF Inv, Good, Counted
  <1> QED  BY <1>4, <1>5, <1>6, <1>7 DEF Settle

LEMMA SettleFilesStep == Inv /\ SettleFiles => Inv'
  <1> SUFFICES ASSUME Inv, SettleFiles PROVE Inv'  OBVIOUS
  <1>1. /\ run.at \in {"unstating", "untokening", "resettling"}
        /\ UNCHANGED <<ha, failures, changes>>
    BY DEF SettleFiles
  <1>2. /\ run.operation # "remove" /\ run.back # "remove" /\ disk.journal = None
        /\ run.at # "resettling" => ha.user = "absent"
        /\ ~run.temporaryCredentialAttempted
    BY <1>1, RunFacts DEF Lanes, Removing, Reconciling, GoneFirst, RunKnows
  <1>3. \A n \in Names : ha.credential[n] = "none"  BY <1>2, NoneLeft
  <1>4. CASE run.at = "unstating" /\ disk' = State("none", None) /\ run' = Goes("untokening")
             /\ UNCHANGED tokenFile
    <2> DEFINE c == Goes("untokening")
    <2>1. disk' \in States /\ disk'.phase = "none" /\ disk'.journal = None
      BY <1>4 DEF State, States, Phases
    <2>2. "untokening" \in Places  BY DEF Places
    <2>3. /\ c \in Runs /\ c.at = "untokening" /\ c.operation = run.operation /\ c.back = run.back
          /\ c.temporaryCredentialAttempted = run.temporaryCredentialAttempted
      BY <2>2, RunFacts DEF Runs, Goes
    <2>4. run' = c  BY <1>4
    <2> HIDE DEF c
    <2>5. Sound(c, disk', ha)  BY <1>2, <1>4, <2>1, <2>3, EndingSound
    <2>6. Kept(disk', tokenFile, ha)
      BY <1>2, <1>3, <1>4, <2>1, RunFacts DEF Kept, DiskTells, ReadyIsClean
    <2> QED  BY <1>1, <1>4, <2>4, <2>5, <2>6 DEF Inv, Good, Counted
  <1>5. CASE run.at = "untokening" /\ tokenFile' = None /\ run' = Off /\ UNCHANGED disk
    <2>1. ha.llats = {}  BY <1>2, <1>5, HaFacts
    <2>2. Kept(disk, None, ha)  BY <2>1, RunFacts DEF Kept, ReadyIsClean
    <2> QED  BY <1>1, <1>5, <2>2, OffGood DEF Inv, Counted
  <1>6. CASE run.at = "resettling" /\ disk' = State("provisioning", None) /\ run' = Off
             /\ UNCHANGED tokenFile
    <2>1. disk' \in States /\ disk'.phase = "provisioning" /\ disk'.journal = None
      BY <1>6 DEF State, States, Phases
    <2>2. Kept(disk', tokenFile, ha)
      BY <1>3, <2>1, RunFacts DEF Kept, DiskTells, ReadyIsClean
    <2>3. Good(Off, disk', tokenFile, ha)  BY <2>2, OffGood
    <2> QED  BY <1>1, <1>6, <2>3 DEF Inv, Counted
  <1> QED  BY <1>4, <1>5, <1>6 DEF SettleFiles

-----------------------------------------------------------------------------
(* The removal, and what happens to a run.                                 *)
LEMMA RemovingSound ==
  ASSUME NEW c \in Runs, NEW d, NEW h, c.operation = "remove",
         c.at \in {"deletingUser", "forgetting", "removing"}, d.journal = None,
         ~c.temporaryCredentialAttempted, c.managedToken # None => d.phase # "ready",
         d.phase # "none", c.at # "deletingUser" => h.user = "absent"
  PROVE  Sound(c, d, h)
  <1>1. Lanes(c)  BY DEF Lanes, Removing, Reconciling
  <1>2. RunKnows(c, d)  BY DEF RunKnows, Fresh, Reconciling, Logged
  <1>3. GoneFirst(c, d, h) /\ TokensTell(c, d, h)  BY DEF GoneFirst, TokensTell, Wrecked
  <1> QED  BY <1>1, <1>2, <1>3 DEF Sound

LEMMA GoesFacts ==
  ASSUME Inv, NEW p \in Places
  PROVE  /\ Goes(p) \in Runs /\ Goes(p).at = p /\ Goes(p).operation = run.operation
         /\ Goes(p).back = run.back /\ Goes(p).state = run.state
         /\ Goes(p).temporaryCredentialAttempted = run.temporaryCredentialAttempted
         /\ Goes(p).temporaryUsername = run.temporaryUsername
         /\ Goes(p).journalCleanupRequired = run.journalCleanupRequired
         /\ Goes(p).managedToken = run.managedToken
  BY RunFacts DEF Runs, Goes

LEMMA BeginRemoveStep == Inv /\ BeginRemove => Inv'
  <1> SUFFICES ASSUME Inv, BeginRemove PROVE Inv'  OBVIOUS
  <1> DEFINE c == [Off EXCEPT !.at = "finding", !.operation = "remove", !.state = disk]
  <1>1. /\ run' = c /\ disk.phase # "none" /\ UNCHANGED <<disk, tokenFile, ha, failures>> /\ Changes
    BY DEF BeginRemove
  <1>2. c \in Runs
    <2>1. "finding" \in Places  BY DEF Places
    <2>2. Off \in Runs  BY RunFacts, OffGood DEF Good, Sound
    <2> QED  BY <2>1, <2>2, RunFacts DEF Runs
  <1>3. /\ c.operation = "remove" /\ c.at = "finding" /\ c.state = disk
        /\ ~c.temporaryCredentialAttempted /\ ~c.managedSession /\ c.back = "none"
        /\ c.managedToken = None
    BY DEF Off
  <1> HIDE DEF c
  <1>4. Lanes(c)  BY <1>3 DEF Lanes, Removing, Reconciling
  <1>5. RunKnows(c, disk)  BY <1>1, <1>3 DEF RunKnows, Fresh, Reconciling, Logged
  <1>6. GoneFirst(c, disk, ha) /\ TokensTell(c, disk, ha)
    BY <1>3 DEF GoneFirst, TokensTell, Wrecked
  <1> QED  BY <1>1, <1>2, <1>4, <1>5, <1>6, RunFacts, BoundsAssumption
           DEF Inv, Good, Sound, Counted, Changes

LEMMA RemoveFindsStep == Inv /\ RemoveFinds => Inv'
  <1> SUFFICES ASSUME Inv, RemoveFinds PROVE Inv'  OBVIOUS
  <1> DEFINE h == WithCredential(disk.journal, "none")
             r == [run EXCEPT !.at = "deleting", !.back = "remove"]
  <1>1. /\ run.at = "finding" /\ run.operation = "remove" /\ run.back = "none"
        /\ run.state = disk /\ ~run.temporaryCredentialAttempted
        /\ disk.phase # "none"
        /\ run.managedToken # None => disk.phase # "ready"
        /\ UNCHANGED <<disk, tokenFile, changes>>
    BY RunFacts DEF RemoveFinds, RunKnows, Fresh, Lanes, TokensTell
  <1>2. \/ run' = Off /\ UNCHANGED <<ha, failures>>
        \/ /\ ha.user = "absent" /\ disk.journal = None
           /\ run' = Goes("forgetting") /\ UNCHANGED <<ha, failures>>
        \/ run' = Goes("disabling") /\ UNCHANGED <<ha, failures>>
        \/ disk.journal # None /\ Request(TRUE, h, {}, Goes("unlisting"), Off)
        \/ disk.journal # None /\ run' = r /\ UNCHANGED <<ha, failures>>
        \/ disk.journal = None /\ run' = Goes("deletingUser") /\ UNCHANGED <<ha, failures>>
    BY <1>1 DEF RemoveFinds
  <1>3. Good(Off, disk, tokenFile, ha)  BY RunFacts, OffGood
  <1> HIDE DEF r
  <1>4. CASE run' = Off /\ UNCHANGED <<ha, failures>>
    BY <1>1, <1>3, <1>4 DEF Inv, Counted
  <1>5. CASE /\ ha.user = "absent" /\ disk.journal = None
             /\ run' = Goes("forgetting") /\ UNCHANGED <<ha, failures>>
    <2>1. "forgetting" \in Places  BY DEF Places
    <2> DEFINE c == Goes("forgetting")
    <2>2. /\ c \in Runs /\ c.at = "forgetting" /\ c.operation = "remove"
          /\ ~c.temporaryCredentialAttempted /\ c.managedToken = run.managedToken
      BY <1>1, <2>1, GoesFacts
    <2>3. run' = c  BY <1>5
    <2> HIDE DEF c
    <2>4. Sound(c, disk, ha)  BY <1>1, <1>5, <2>2, RemovingSound
    <2> QED  BY <1>1, <1>5, <2>3, <2>4, RunFacts DEF Inv, Good, Counted
  <1>6. CASE run' = Goes("disabling") /\ UNCHANGED <<ha, failures>>
    <2> DEFINE c == Goes("disabling")
    <2>1. "disabling" \in Places  BY DEF Places
    <2>2. /\ c \in Runs /\ c.at = "disabling" /\ c.operation = "remove" /\ c.back = "none"
          /\ ~c.temporaryCredentialAttempted /\ c.managedToken = run.managedToken
      BY <1>1, <2>1, GoesFacts
    <2>3. run' = c  BY <1>6
    <2> HIDE DEF c
    <2>4. Lanes(c)  BY <2>2 DEF Lanes, Removing, Reconciling
    <2>5. disk.phase # "none"  BY <1>1
    <2>6. RunKnows(c, disk)  BY <2>2, <2>5 DEF RunKnows, Fresh, Reconciling, Logged
    <2>7. GoneFirst(c, disk, ha) /\ TokensTell(c, disk, ha)
      BY <1>1, <2>2 DEF GoneFirst, TokensTell, Wrecked
    <2> QED  BY <1>1, <1>6, <2>2, <2>3, <2>4, <2>6, <2>7, RunFacts DEF Inv, Good, Sound, Counted
  <1>7. CASE disk.journal # None /\ Request(TRUE, h, {}, Goes("unlisting"), Off)
    <2> DEFINE c == Goes("unlisting")
    <2>1. disk.journal \in Names /\ disk.phase = "provisioning"
      BY <1>7, RunFacts DEF States, Kept, DiskTells
    <2>2. Kept(disk, tokenFile, h) /\ \A n \in Names : h.credential[n] = "none"
      BY <2>1, LastDeleted
    <2>3. "unlisting" \in Places  BY DEF Places
    <2>4. /\ c \in Runs /\ c.at = "unlisting" /\ c.operation = "remove" /\ c.back = "none"
          /\ ~c.temporaryCredentialAttempted
      BY <1>1, <2>3, GoesFacts
    <2> DEFINE works == TRUE
    <2>5. Request(works, h, {}, c, Off)  BY <1>7
    <2> HIDE DEF c, h, works
    <2>6. Lanes(c)  BY <2>4 DEF Lanes, Removing, Reconciling
    <2>7. RunKnows(c, disk)  BY <2>1, <2>4 DEF RunKnows, Fresh, Reconciling, Logged
    <2>8. GoneFirst(c, disk, h) /\ TokensTell(c, disk, h)
      BY <2>1, <2>2, <2>4 DEF GoneFirst, TokensTell
    <2>9. Good(c, disk, tokenFile, h)  BY <2>2, <2>4, <2>6, <2>7, <2>8 DEF Good, Sound
    <2>10. \A k \in {} \cup {h} : Good(Off, disk, tokenFile, k)  BY <2>2, OffGood
    <2> QED  BY <1>1, <1>3, <2>5, <2>9, <2>10, RequestStep
  <1>8. CASE disk.journal # None /\ run' = r /\ UNCHANGED <<ha, failures>>
    <2>1. "deleting" \in Places  BY DEF Places
    <2>2. /\ r \in Runs /\ r.at = "deleting" /\ r.operation = "remove" /\ r.back = "remove"
          /\ ~r.temporaryCredentialAttempted /\ r.state = disk
      BY <1>1, <2>1, RunFacts DEF Runs, r
    <2>3. disk.phase = "provisioning"  BY <1>8, RunFacts DEF Kept, DiskTells
    <2>4. Lanes(r)  BY <2>2 DEF Lanes, Removing, Reconciling
    <2>5. RunKnows(r, disk)  BY <1>8, <2>2, <2>3 DEF RunKnows, Fresh, Reconciling, Logged
    <2>6. GoneFirst(r, disk, ha) /\ TokensTell(r, disk, ha)
      BY <2>2, <2>3 DEF GoneFirst, TokensTell
    <2> QED  BY <1>1, <1>8, <2>2, <2>4, <2>5, <2>6, RunFacts DEF Inv, Good, Sound, Counted
  <1>9. CASE disk.journal = None /\ run' = Goes("deletingUser") /\ UNCHANGED <<ha, failures>>
    <2>1. "deletingUser" \in Places  BY DEF Places
    <2> DEFINE c == Goes("deletingUser")
    <2>2. /\ c \in Runs /\ c.at = "deletingUser" /\ c.operation = "remove"
          /\ ~c.temporaryCredentialAttempted /\ c.managedToken = run.managedToken
      BY <1>1, <2>1, GoesFacts
    <2>3. run' = c  BY <1>9
    <2> HIDE DEF c
    <2>4. Sound(c, disk, ha)  BY <1>1, <1>9, <2>2, RemovingSound
    <2> QED  BY <1>1, <1>9, <2>3, <2>4, RunFacts DEF Inv, Good, Counted
  <1> QED  BY <1>2, <1>4, <1>5, <1>6, <1>7, <1>8, <1>9

LEMMA RemoveJournalStep == Inv /\ RemoveJournal => Inv'
  <1> SUFFICES ASSUME Inv, RemoveJournal PROVE Inv'  OBVIOUS
  <1> DEFINE d == State("provisioning", None)
  <1>1. /\ run.at = "unlisting" /\ run.operation = "remove" /\ disk.phase # "none"
        /\ \A n \in Names : ha.credential[n] = "none"
    BY RunFacts DEF RemoveJournal, Lanes, Removing, RunKnows, GoneFirst
  <1>2. WriteManagedState(d, Goes("deletingUser"), Off) /\ UNCHANGED <<tokenFile, ha, changes>>
    BY DEF RemoveJournal
  <1>3. d \in States /\ d.phase = "provisioning" /\ d.journal = None
    BY DEF State, States, Phases
  <1> HIDE DEF d
  <1>4. Kept(d, tokenFile, ha)
    BY <1>1, <1>3, RunFacts DEF Kept, DiskTells, ReadyIsClean
  <1>5. Sound(Goes("deletingUser"), d, ha)
    <2>1. "deletingUser" \in Places  BY DEF Places
    <2>2. ~run.temporaryCredentialAttempted
      BY <1>1, RunFacts DEF Lanes
    <2> QED  BY <1>1, <1>3, <2>1, <2>2, GoesFacts, RemovingSound
  <1>6. Good(Off, disk, tokenFile, ha)  BY RunFacts, OffGood
  <1> QED  BY <1>2, <1>4, <1>5, <1>6, WriteStep DEF Good

LEMMA RemoveUserStep == Inv /\ RemoveUser => Inv'
  <1> SUFFICES ASSUME Inv, RemoveUser PROVE Inv'  OBVIOUS
  <1> DEFINE h == WithoutUser
             works == ha.user # "absent"
             c == Goes("forgetting")
  <1>1. /\ run.at = "deletingUser" /\ run.operation = "remove" /\ disk.phase # "none"
        /\ disk.journal = None /\ ~run.temporaryCredentialAttempted
        /\ run.managedToken # None => disk.phase # "ready"
        /\ UNCHANGED <<disk, tokenFile, changes>>
    BY RunFacts DEF RemoveUser, Lanes, Removing, RunKnows, GoneFirst, TokensTell
  <1>2. Request(works, h, {}, c, Off)  BY DEF RemoveUser
  <1>3. Kept(disk, tokenFile, h) /\ h.user = "absent"  BY RunFacts, WithoutKept
  <1> HIDE DEF h, works
  <1>4. Sound(c, disk, h)
    <2>1. "forgetting" \in Places  BY DEF Places
    <2> QED  BY <1>1, <1>3, <2>1, GoesFacts, RemovingSound
  <1> HIDE DEF c
  <1>5. /\ Good(Off, disk, tokenFile, ha) /\ Good(c, disk, tokenFile, h)
        /\ \A k \in {} \cup {h} : Good(Off, disk, tokenFile, k)
    BY <1>3, <1>4, RunFacts, OffGood DEF Good
  <1> QED  BY <1>1, <1>2, <1>5, RequestStep

LEMMA RemoveFilesStep == Inv /\ RemoveFiles => Inv'
  <1> SUFFICES ASSUME Inv, RemoveFiles PROVE Inv'  OBVIOUS
  <1>1. /\ run.at \in {"forgetting", "removing"} /\ UNCHANGED <<ha, failures, changes>>
        /\ run.operation = "remove" /\ disk.phase # "none" /\ disk.journal = None
        /\ ~run.temporaryCredentialAttempted /\ ha.user = "absent"
        /\ run.managedToken # None => disk.phase # "ready"
    BY RunFacts DEF RemoveFiles, Lanes, Removing, RunKnows, GoneFirst, TokensTell
  <1>2. ha.llats = {}  BY <1>1, HaFacts
  <1>3. CASE tokenFile' = None /\ run' = Goes("removing") /\ UNCHANGED disk
    <2>1. "removing" \in Places  BY DEF Places
    <2>2. Sound(Goes("removing"), disk, ha)  BY <1>1, <2>1, GoesFacts, RemovingSound
    <2>3. Kept(disk, None, ha)  BY <1>2, RunFacts DEF Kept, ReadyIsClean
    <2> QED  BY <1>1, <1>3, <2>2, <2>3 DEF Inv, Good, Counted
  <1>4. CASE disk' = State("none", None) /\ run' = Off /\ UNCHANGED tokenFile
    <2>1. disk' \in States /\ disk'.phase = "none" /\ disk'.journal = None
      BY <1>4 DEF State, States, Phases
    <2>2. Kept(disk', tokenFile, ha)
      BY <1>1, <2>1, NoneLeft, RunFacts DEF Kept, DiskTells, ReadyIsClean
    <2>3. Good(Off, disk', tokenFile, ha)  BY <2>2, OffGood
    <2> QED  BY <1>1, <1>4, <2>3 DEF Inv, Counted
  <1> QED  BY <1>3, <1>4 DEF RemoveFiles

LEMMA AdministratorStep == Inv /\ Administrator => Inv'
  <1> SUFFICES ASSUME Inv, Administrator PROVE Inv'  OBVIOUS
  <1>1. UNCHANGED <<disk, tokenFile, run, failures>> /\ Changes  BY DEF Administrator
  <1>2. Kept(disk, tokenFile, ha') /\ Sound(run, disk, ha')
    <2>1. CASE ha.user = "exact" /\ ha' = [ha EXCEPT !.user = "changed"]
      <3>1. /\ ha' \in HomeAssistant /\ ha'.user = "changed" /\ ha'.credential = ha.credential
            /\ ha'.logins = ha.logins /\ ha'.llats = ha.llats
        BY <2>1, RunFacts DEF Kept, HomeAssistant, Users
      <3>2. disk.phase # "none"  BY <2>1, RunFacts DEF Kept, DiskTells
      <3>3. Kept(disk, tokenFile, ha')
        BY <2>1, <3>1, <3>2, RunFacts DEF Kept, DiskTells, UserHolds, ReadyIsClean
      <3>4. Sound(run, disk, ha')  BY <2>1, <3>1, RunFacts, SoundFewer
      <3> QED  BY <3>3, <3>4
    <2>2. CASE ha' = WithoutUser
      BY <2>2, RunFacts, WithoutKept, SoundFewer
    <2>3. CASE ha' = WithTokens(ha.logins, {})
      <3>1. /\ Kept(disk, tokenFile, ha') /\ ha'.user = ha.user
            /\ ha'.credential = ha.credential /\ ha'.llats = {}
        BY <2>3, HaFacts, RunFacts, TokensKept
      <3> QED  BY <3>1, RunFacts, SoundFewer
    <2> QED  BY <2>1, <2>2, <2>3 DEF Administrator
  <1> QED  BY <1>1, <1>2, BoundsAssumption DEF Inv, Good, Counted, Changes

LEMMA DiesStep == Inv /\ Dies => Inv'
  BY RunFacts, OffGood, BoundsAssumption DEF Dies, Inv, Counted, Fails

-----------------------------------------------------------------------------
LEMMA NextInv == Inv /\ [Next]_vars => Inv'
  <1> SUFFICES ASSUME Inv, [Next]_vars PROVE Inv'  OBVIOUS
  <1>1. ASSUME Provision PROVE Inv'
    BY <1>1, FindStep, WriteCreatingStep, CreateUserStep, AdoptStep, CheckReadyStep, ReopenStep,
       DisableStep, CleanStep, JournalStep, CreateCredentialStep, LoginStep, OpenTemporaryStep,
       PrepareStep, DropPendingStep, CreateTokenStep, OpenManagedStep, StoreStep, EnforceStep,
       DeleteCredentialStep, ClearJournalStep, FinishStep
    DEF Provision
  <1>2. ASSUME Rollback PROVE Inv'
    BY <1>2, SweepStep, RemoveNewStep, RevokeStep, ReconcileDeleteStep, ReconcileCreateStep,
       ReconcileAgainStep, UnjournalStep, SettleStep, SettleFilesStep
    DEF Rollback
  <1>3. ASSUME Remove PROVE Inv'
    BY <1>3, RemoveFindsStep, RemoveJournalStep, RemoveUserStep, RemoveFilesStep DEF Remove
  <1>4. CASE UNCHANGED vars
    BY <1>4 DEF vars, Inv, Counted
  <1> QED  BY <1>1, <1>2, <1>3, <1>4, BeginSetupStep, BeginRemoveStep, AdministratorStep, DiesStep
           DEF Next, Steps

LEMMA AlwaysInv == Spec => []Inv
  BY InitInv, NextInv, PTL DEF Spec

(* The files, the user and the variables of the run keep their values.     *)
THEOREM TypeCorrect == Spec => []TypeOK
  <1>1. Inv => TypeOK
    BY RunFacts DEF Inv, Kept, Counted, TypeOK
  <1> QED  BY <1>1, AlwaysInv, PTL

(* Every password credential can be found again by the name on the disk,   *)
(* and the user from any state.                                            *)
THEOREM NothingIsForgotten == Spec => []NothingForgotten
  <1>1. Inv => NothingForgotten
    BY RunFacts DEF Kept, DiskTells, NothingForgotten
  <1> QED  BY <1>1, AlwaysInv, PTL

(* A ready identity left no credential, no login and no other token.       *)
THEOREM ReadyIsAlwaysClean == Spec => []ReadyMeansClean
  <1>1. Inv => ReadyMeansClean
    <2> SUFFICES ASSUME Inv, disk.phase = "ready"
                 PROVE  /\ \A n \in Names : ha.credential[n] = "none"
                        /\ ha.logins = {} /\ ha.llats \subseteq {tokenFile}
      BY DEF ReadyMeansClean
    <2>1. disk.journal = None  BY RunFacts DEF Kept, DiskTells
    <2> QED  BY <2>1, NoneLeft, RunFacts DEF Kept, ReadyIsClean
  <1> QED  BY <1>1, AlwaysInv, PTL
====
