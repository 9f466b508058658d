# TLA+ models of Antigravity for Home Assistant

This directory holds TLA+ models of the Home Assistant App in this repository,
TLC configurations that check them on small instances, and TLAPS proofs of
their most important properties for every value of the constants.

Every definition follows the code (the file and lines are in `PROJECT.json`
under `map`). Messages, values and files are abstracted to what the properties
tell apart; the control (guards, early returns, error paths and their order) is
kept.

Shorthands used below: CORE is
`rootfs/usr/local/share/antigravity-ha/ha-memory-core.mjs`, RUNTIME is
`rootfs/usr/local/libexec/ha-antigravity-remote-runtime`, UPDATE is
`rootfs/usr/local/share/antigravity-ha/managed-plugin-update.mjs`, FEEDBACK is
`rootfs/usr/local/share/antigravity-ha/ha-feedback.mjs` and ADMIN is
`rootfs/usr/local/share/antigravity-ha/browser-user-admin.mjs`, all under
`antigravity_home_assistant/`.

## 1. Inventory

| Component | State it keeps | Operations | Who else touches it |
|---|---|---|---|
| Verified memory store (CORE) | SQLite tables `memory_items`, `memory_evidence`, `conflicts`, `audit_events`, `search_fts` | propose, add evidence, verify (four methods), apply, reject, resolve, roll back, remember | one process per CLI or MCP call, and the refresh daemon, all on one database |
| Catalog refresh (CORE, `ha-memory-ha-client.mjs`) | `sync_runs`, `catalog_objects`, `catalog_relations`, `catalog_revisions`, `metadata` | begin, read Home Assistant, install, supersede, fail, prune | every process that refreshes; Home Assistant changes while it is read |
| Change contracts (CORE) | `change_records`, conflicts about results | begin, verify (with one retry), mark unavailable | refreshes, resolutions and rollbacks |
| Memory front ends (`ha-memory.mjs`, `ha-memory-mcp.mjs`, `ha-memoryd/run`) | request queue, child process, back-off | run one CLI per request, refresh periodically | the store |
| Remote Control (RUNTIME, s6 service, `ha-antigravity-remote-login`) | the OAuth token (a file of the native CLI), the `flock` on `remote-login.lock` | wait for the token and become the daemon; log in with a CLI of one's own, watch the token, clean up | several terminals, s6, signals |
| Start of the App (`antigravity-ha-init`, `v3-factory-reset.mjs`, `supervisor-options-migrate.mjs`) | marker files, options, the data roots of earlier versions | factory reset, options reset, options snapshot | the Supervisor, the user, crashes |
| Managed plugin (`managed-plugin-update.mjs`) | journal, stage, backups, the installed plugin | install, roll back, recover, prune | crashes, the native validator, a user who edits the plugin |
| Browser identity (ADMIN and its commands) | the state file with the journal of a temporary credential, the token file; in Home Assistant a user, its credential, logins and long-lived tokens | set up, roll back, remove; check and publish the token | Home Assistant and its administrators, crashes, lost answers |
| Feedback (FEEDBACK) | for each report: the report, its public body, a preview state, a claim, a receipt | collect, render, preview, submit | several terminals, whoever edits the files, GitHub |
| File MCP server (`ha-files-mcp.py`) | user files | list, read, write with optional expected digest | other writers of the same files |
| Read broker and its clients (`ha-read-broker.mjs`, ...) | a socket; nothing between requests | one projected read per connection | Home Assistant |
| Credential and API helpers, Playwright proxy, terminals, launchers | none, or one file | read, forward, exec | — |
| Development VM tool, release scripts | outside the App | — | — |

What is hard in them:

* *Reads outside the transaction.* Each store operation reads and checks, and
  then opens `BEGIN IMMEDIATE`. Another process can act in between, and SQLite
  gives the id of a deleted last row out again.
* *Rollback.* An audited event is undone by its before-images, while later
  events, conflicts, evidence and a different catalog may rest on what it did.
* *Refreshes that overlap.* They read several endpoints over seconds and commit
  in another order than they began.
* *Locks and signals in shell.* The login lock is a file descriptor; the CLI, a
  watcher subshell and traps run at the same time.
* *Interruptions.* A container is stopped at any point of a one-time deletion,
  of a journaled installation, of a credential's provisioning.
* *Answers that are lost.* GitHub and Home Assistant may have done what a failed
  command asked for; what was done must be found again, and done only once.

The 'hazards' of `PROJECT.json` list these places line by line, with the
property that covers each one.

## 2. Modules

| Module | Models | Abstract specification |
|---|---|---|
| `MemoryStore` | every transaction of the memory store with the reads before it | — |
| `CatalogSync` | refreshes of the catalog by any number of processes | `FreshRegister` |
| `ChangeContract` (EXTENDS `CatalogSync`) | announced changes, their verification by refreshes, the conflicts about them | — |
| `RemoteLogin` | the Remote Control service, logins, watchers, the CLI and the token | — |
| `FirstStart` | both one-time resets at the start of the App | — |
| `PluginUpdate` | the journaled update of the managed plugin at the start of the App | — |
| `FeedbackSubmit` | rendering, preview and confirmed submission of one report by any number of processes, and GitHub | — |
| `BrowserIdentity` | setup with its rollback, and removal, of the browser's user, request by request, and Home Assistant | — |
| `FreshRegister` | what a forced refresh promises its caller | it is one |

`MC*` modules only give constants for TLC. `*Proofs` modules hold the theorems.

### MemoryStore

The variables are the tables (`items`, `evidence`, `conflicts`, and `log` for
`audit_events` with their `audit_changes`), the active `catalog`, the `search`
rows, and `stage`: what each process has read before its transaction. An
operation of CORE whose transaction repeats all its checks is one action
(`AddEvidence`, `Reject`, `Rollback`, `Sync`); the others are a `Begin...` action
for the reads and a commit for the transaction (`proposeMemory`,
`verifyMemoryCandidate`, `applyMemoryCandidate`, `resolveMemoryConflict`).
Verification by `ha_api` awaits a refresh in between (`HaRefresh`, `HaChecks`).
A commit that cannot happen (another process was faster, the unique index
aborts) is followed by `Abandon`, as is a process that is killed.

`Commit` stores the before- and after-image of every row it changed, and
`Rollback` uses them as `rollbackMemoryEvent` does: `EvidenceIsFree` and
`DeletionsAreSafe` are `validateRollbackDependencies`, `StandsAsLeftBy` is the
comparison with the after-images.

A value is a model value. `Linked` values name another subject, `Structural`
ones are relations reserved to Home Assistant; `SlotOf` says which of them
compete for the same slot. Timestamps are left out: outside a rollback no row
returns to earlier contents, so images are equal in the model only if they are
in the database. `rememberExplicitMemory` has no action of its own: it calls
propose, verify and apply one after the other, each in its own transaction, so
what it does to the rows is a sequence of the actions here, with other writers
between them; its early returns and the result it reports are left out. Full-text
search and the opening of the database are not modelled.

### CatalogSync and FreshRegister

The content of a snapshot is the pair of moments at which its registries and its
automation details were read (`world` counts the changes of Home Assistant).
`run` is the status of each row of `sync_runs`, `cited` the rows something else
names, `proc` each process. Actions: `FindFresh`, `Begin`, `ReadRegistries`,
`ReadAutomations`, `Supersede`, `Install`, `Fail`, `Crash`. Ending a refresh
prunes history in the same transaction (`Pruned`). The registries and states are
asked for in parallel; the model reads them in one moment. A superseded refresh
still hands its caller what it read.

CORE decides by row ids, callers care about time. `FreshRegister` states the
promise without ids: a register of pictures, and a caller who is told that its
refresh succeeded, or was superseded by a newer one, finds nothing in the picture
that is older than its call. `ImplementsRegister` is the refinement: `held` is the
catalog, `asOf` the beginning of the refresh that installed it.

### ChangeContract

`change` is `change_records`, `dispute` the conflicts about results, `verifier`
which change a process verifies and with which try. A verification is a forced
refresh of CatalogSync (`BeginVerify`, `Retry`, `OwnRefresh`) followed by one
transaction (`DecideVerified`, `DecideMismatch`, or `MarkChangeUnavailable`).
A contract is the set of pictures that meet it. `CiteVerdict` replaces
`after_sync_id`, the foreign key that keeps pruning away from a verdict's refresh.
`VerifiedIsWitnessed` asks that this refresh was installed, and still is on record as
a success: a verification may neither use what a superseded refresh read nor lose
its witness to later pruning.

### RemoteLogin

`service`, `login[l]`, `cli[l]` and `watcher[l]` are the processes; `lock` is who
holds the `flock`; `token` is what `remote_token_state` finds. A process that sees
an unsafe token looks again (`Sees`, `MustLookAgain`). `LoginInterrupted` is a
signal at any place with its trap, `LoginKilled` the end of a runtime without its
trap, after which its CLI is an orphan. The native CLI and its token are external:
`CliExits`, `TokenAppears`, `TokenLost`. Choosing a name and a port is left out.

### FirstStart

`dir[t]` is the state of each of the eight data roots, `marker` and `temporary` the
completion file and its temporary, `options` what the Supervisor stores, `file`
the `options.json` it wrote at this start, `snapshot` what the App runs with.
`boot` is the place in `antigravity-ha-init`. `Crash` ends everything at once,
with a target half deleted. What an unsynced rename leaves after a power loss is
not modelled.

### PluginUpdate

`target`, `stage` and `dir` are the trees on the disk (installed, about to be
installed, `plugin.displaced` with the manifest), `journal` is
`managed-plugin.json`, `kept` the directories of earlier transactions by their
mtime, `at` the place in UPDATE and `run` whether this start recovers, installs, or
has caught a failure, with the old tree. A tree is its version and whether the user
edited it: that decides every comparison of digests UPDATE makes.

`Save` is `saveJournal` in each phase; `Stage`, `Describe`, `Displace` and
`Replace` are the steps of `installManagedPlugin` between two phases; `Recover`,
`MoveNewAside`, `MoveOldBack`, `Restored`, `MoveStageAside`, `EndRestoring` and
`Finish` are `recoverPendingTransaction` with what it calls; `Look` is the rest of
`main`, `Prune` is `pruneCompletedPluginBackups`. `Fail` is any step that throws,
before its effect or after it (an fsync that fails after its rename), and goes to
the `catch` of `installManagedPlugin` or ends the start; `Crash` ends the start
between any two effects. A directory that ends joins the others anywhere, since the
clock may be wrong at the start of the App.

Abstracted: the native validator, digests and ownership checks are steps that may
fail; the copy `plugin.before` is only a backup for people, because the displaced
tree is always there when it is needed (`BeforeIsThere`), and so the three errors
for an ambiguous or missing tree cannot be met either. A directory without manifest
stays for good in the code; it is not in `kept`. The user's edits leave the marker
valid: otherwise every start fails until it is repaired. What a power loss does to
renames that are not synced yet is not modelled.

### FeedbackSubmit

`report`, `public`, `preview`, `claim` and `receipt` are the files of one report
(`report.json`, `public-report.md`, the state in `/run`, `.submission.lock`,
`submission.json`); `call[p]` is an invocation, with what it has read; `requests`,
`issues` and `indexed` are GitHub's. Every step lies between two accesses to
something shared: `ResolveReport`, `SubmissionClaimPresent` and `AlreadySubmitted`
begin `githubPreview` and `githubSubmit` alike; `PreviewMatches` and
`CreateConfirmationPreview` end the one; `ConsumeConfirmationPreview`,
`AcquireSubmissionClaim`, `MatchesConfirmed`, `ExactExistingReport`, `GhIssueCreate`,
`GhAnswers`, `WritePrivateNewAtomically` and `ReleaseSubmissionClaim` are the other.
`Edit` changes either file at any time, `Dies` ends an invocation where it is with
its claim left behind, `Restart` empties `/run`, and `GitHubActs` creates an issue
long after `gh` has given up, or never, and indexes it later still. `shown` and
`missed` remember what was said to the user and by the search; no guard reads
`missed`, and `shown` only says which tokens a user can type.

A content stands for all reports that render alike; the digest is the pair of what
is hashed. `collect` gives each report its own directory and id, so other reports
do not interfere. Its privacy rules, the size limits and the login of `gh` are left
out.

### BrowserIdentity

`disk` is `managed-user.json` (its phase and the name journaled), `tokenFile` the
stored token, `ha` what Home Assistant has of the user (`exact` as it was made or
`changed`, a credential for each name, logins, long-lived tokens), and `run` the one
run that `operation.lock` lets go, with the local variables of
`setupManagedBrowserAuth`. `Request` is one request: it works, or fails before or
after its effect, or in the middle where it is several; `WriteManagedState` is one
replaced file.

`Provision` is the `try` of `setupManagedBrowserAuth` in its order: `FindManagedUser`
to `AdoptUser` for the user, `CheckReady`, `DisableStoredManagedToken` and `Reopen`
for an identity that was ready, `CleanJournaled` for what an interrupted run left,
`JournalCredential` to `DeleteCredential` for the temporary credential with the
login and the token made under it, `ClearJournal` and `Finish`. `Thrown` is its
`catch`, which decides from the error what may be touched, and `Rollback` is what
follows. `ReconcileDelete`, `ReconcileCreate` and `ReconcileDeleteAgain` are
`reconcileJournaledTemporaryCredential`, for all three of its callers. `Remove` is
`removeManagedBrowserAuth`. `Administrator` changes the user, deletes it or revokes
its tokens at any time; `Dies` ends a run anywhere.

Home Assistant is external and modelled from how ADMIN uses it: a failed request
takes no effect after its failure, an unlinked credential keeps its name taken, and
deleting a user takes its tokens and linked credentials along. A user that an
administrator changes before the state file names it is not found again and
another one is made; it is the administrator's from then on, so the model leaves it
out. `ha-browser-auth-refresh` and `browser-auth-check.mjs` publish the stored token
to the browser's runtime and change neither the files nor Home Assistant.
`removeManagedBrowserAuth` reads the user once more after it has deleted a journaled
credential, and stops if any is left (`confirmManagedUserHasNoCredentials`); the
model goes on, which only adds behaviours. `Finish`
is the validation of the token and the two writes after it: the token file holds
that token already.

## 3. Runs

| Run | Bounds | What it shows |
|---|---|---|
| `Mem_race` | 2 processes, 2 memories out of 3 proposals about one purpose, 2 conflicts, 7 events, no rollback, the subject comes and goes | conflicts, authority and search index stay in step under every interleaving of two processes |
| `Mem_undo` | 1 process and the refreshes, 2 memories that follow two rooms under two keys, 2 conflicts, 7 events of which up to 3 are rolled back, extra evidence | one applied memory per reserved relation, applied only while the catalog backs it; evidence stays while needed, references resolve, later changes are undone first |
| `Sync_race` | 3 processes, 4 refreshes, retention 1, Home Assistant changes once | freshness, citations that outlive pruning, status, and the refinement of `FreshRegister` |
| `Change_race` | 2 processes, 1 change, 3 refreshes, Home Assistant changes twice, 1 rolled-back resolution | a verdict is witnessed and final, and settles its dispute |
| `Remote_login` | 2 terminals, 3 attempts, 1 lost token, 1 kill | one CLI at a time, never beside the daemon while the token stays, and the daemon starts |
| `First_start` | 3 targets, 3 crashes or failed file operations | nothing old is left, nothing new is lost, no legacy option takes effect, chosen options stay once they are in effect, the reset gets through |
| `Plugin_update` | 2 versions, 3 changes of the image, 2 edits or removals by the user, 3 crashes or failures | the old plugin is never lost, transactions end by their phase, services start with a whole plugin and its backup, retention converges |
| `Feedback` | 2 invocations, 2 tokens, 4 contents (one malformed, one sensitive), any number of edits, deaths, restarts and late issues | an uncertain outcome stays locked, every issue is what was shown and confirmed, and there is one unless the search missed one |
| `Browser` | 2 names, 4 logins, 4 tokens, 3 failures (deaths, requests, writes), 2 removals or acts of an administrator | a ready identity is clean, nothing in Home Assistant is forgotten, and setup gets through or asks for a person |
| `Mem_stuck`, `Change_late`, `Remote_shared` | smaller | one disagreement each, section 5 |

Why these bounds are enough to be interesting: two memories and two conflicts let
one memory be contested by another and by the catalog; seven or eight events
reach propose, verify and apply of both and what follows; three rollbacks take a
candidate from applied back to deleted. With retention 1 each refresh that ends
prunes what the one before left (`Change_race` has retention 2, so that the row of a
superseded refresh is there long enough to be used by mistake, and the third refresh
prunes), and with three processes a slow, a failing and a
newer refresh overlap. Two changes of Home Assistant put a refresh before, in and
after the state a contract asks for, and across each border. Two terminals and a
third attempt make one login follow another while a third party holds the lock.
With three targets one can be gone, one half gone and one untouched. In
`Plugin_update` an installation and two changes of the image are the transactions
of which the last makes pruning necessary, a third change makes a downgrade meet a
backup of its own version; three failures are one in a transaction, one in its
recovery and one in the next recovery or in pruning. `Feedback` bounds nothing but
its sets: two invocations are the least that race, and with two tokens one of them
starts over while the other is in doubt. In `Browser` three failures are one in a
run, one in its rollback and one in the run that cleans up after it; every name,
login and token that a failure leaves behind is there beside the next one.

Symmetry is declared over interchangeable processes where all properties are
safety properties. Deadlock is checked in `First_start`, `Plugin_update`, `Feedback`
and `Browser`; the other systems may stop: their counters are bounded and nobody has
to call them.

*Fairness.* Only `RemoteLogin`, `FirstStart`, `PluginUpdate` and `BrowserIdentity`
assume any. In `RemoteLogin` the kernel runs the service, each login runtime and each watcher (`WF` of each one's
steps); people, the network and the native CLI owe nothing. In `FirstStart` a
start that is under way goes on (`WF_vars(Boot)`); nobody need ever start the App,
so `ResetCompletes` has that as a premise. It is the same in `PluginUpdate`
(`WF_vars(Updater)`, which is one sequential program, and the premise of
`Converges`); failures are bounded there, as a step that fails at every start is not
recovered from. `BrowserIdentity` assumes that a run goes on (`WF_vars(Steps)`, one
sequential program whose requests all have a time-out) and that one is begun again
and again (`WF_vars(BeginSetup)`), since every start of the App runs
`ha-browser-auth-ensure`; failures and administrators are bounded.

`OneAppliedPerSlot`, `OpenConflictHoldsCandidate`, `NoDuplicateComplaint`,
`IndexIsCurrent`, `HaConflictOnlyForHa` and the third part of
`AppliedRestsOnEvidence` are claimed only until something is rolled back. A rollback
restores rows under a catalog that may have changed since, opens a conflict again
beside one that says the same, and frees the number of a conflict for which a
resolution may be under way; each of them can be violated then (section 5). What
rollbacks must keep is claimed of them too: `UndoIsCausal`, `ReferencesResolve`, and
that verified memories keep their evidence.

## 4. Proofs

All theorems hold for every value of the constants that meets the assumptions
named in the modules: bounds are natural numbers, `Retention` is positive, the two
special lock holders are no logins, `"none"` is no change, constant tables have
their types, and `Absent`, which stands for a row that is not there, is neither a
row nor an image of one.

`MemoryStoreProofs` has several arguments, each with an invariant of its own. They
rest on `StepShape`: a step leaves the tables alone, or is one audited transaction
whose edits of rows are of a few kinds (`ItemEdit`, `ConflictEdit`), or undoes one
event.

* `TypeCorrect`. The type invariant is inductive by itself; the work is in
  `Commit`, whose images must be typed for a later rollback to restore typed rows
  (`DiffType`, `CommitType`, `RestoredType`, `SwappedType`). `AppliedIsBacked` and
  `UsersWordStands` need no more than it.
* `UndoRespectsHistory`. `rollbackMemoryEvent` compares the rows with the event's
  after-images, which says nothing of later events unless no row ever returns to
  what it was. Outside a rollback none does: every edit raises the `Rank` of its row
  (`EditRaises`). `HistoryAscends` says that the images of the events that are not
  undone ascend up to the present row, and a row that stands as an event left it has
  then not been changed since.
* `ReferencesAlwaysResolve`. A candidate may be named by a conflict or by its
  successor in rows that are in no table now and come back by a rollback. `AllSettled`
  says of every row, in a table or in an image, that what it names is `Settled`: a
  later event touched it, so that the insertion cannot be undone before that one.
* `AppliedRests`. `EvidenceInv` says what each row's evidence is, and of each event
  that can be rolled back that it kept the method of the candidates it changed, or
  verified one and recorded that; undoing the evidence alone is then what
  `validateRollbackDependencies` refuses, and undoing the verification takes the
  method along.
* `SlotHasOneApplied`, `CandidateIsHeld`, `ComplaintsDiffer`, `IndexStaysCurrent`,
  `HaDecidesItsConflicts`, and the rest of `AppliedRests`. Until something is rolled
  back, `Calm` holds: a conflict names memories of its subject and only some reasons
  go with some of them (`ConflictsFit`), a resolution on its way is one its conflict
  allows, though it was checked before (`StagedMayWin`: rows are never deleted, and
  the reason of a conflict never changes), a candidate is in one open conflict
  (`OneOpenPerCandidate`), no open conflict misses something the catalog has
  (`NoneRestored`), and what is in force was verified (`InForceVerified`). Each
  transaction is shown to open only conflicts that fit, to close the conflicts of a
  candidate it releases, and to apply only into a free slot (`CalmEdit`, one lemma
  per operation), and to touch rows of the subjects only whose index it rebuilds
  (`Reindexed`).

The others have one inductive invariant each.

* `CatalogSyncProofs`: `TypeCorrect`, `ReturnsAreFresh`, `CitationsAlwaysResolve`,
  `StatusIsExplained`, `RegisterImplemented`. The inductive invariant `IInv` relates
  ids to time: every refresh under way has its row, so that ids are given out in the
  order of beginning (`RowsOfActive`, `ActiveInOrder`); what is installed is ordered
  with what is under way (`CatalogInOrder`); pictures are no older than their refresh
  (`ReadsInOrder`, `HeldInOrder`). Without `RowsOfActive` pruning or a crash could
  make an id be given out again and a larger id would mean nothing. `StatusTells`
  adds that a store that is stale has the failure that explains it, which pruning
  keeps as long as it is the latest.
* `ChangeContractProofs`: `ContractTypeCorrect`, `VerifiedWasWitnessed`,
  `VerifiedStaysVerified`, `VerifiedDisputesEnd`. `CInv` is the `IInv` of the
  refreshes, proved anew for steps that also cite them, with what ties a verification
  to them: a change is announced after a refresh that has its row
  (`AnnouncedAfterRow`), a process verifies what is announced, with a refresh that
  began after the announcement (`VerifiesAnnounced`, `VerifiesLater`), and what it
  is handed was read since (`HandedOnInOrder`), by a refresh that succeeded
  (`HandedOnSucceeded`); the row of a verdict's refresh is kept (`VerdictRow`). That
  an id is never given out again while it matters is `SuccessStays`.
* `RemoteLoginProofs`: `TypeCorrect`, `OneCliAtATime`, `DaemonIsAlone`. `IInv` says
  who holds the lock at each place (`LockIsHeld`), that a reapable CLI belongs to
  a runtime (`CliHasRuntime`), and that from the moment the service found the lock
  free with a token that stays, no login gets as far as running a CLI
  (`ReadyStays`, `NobodySignsIn`).
* `FirstStartProofs`: `TypeCorrect`, `CompletionIsTrue`, `LegacyOptionsAreGone`,
  `NewDataIsKept`, `DeletionFailsClosed`, `ChoiceIsSafe`. `IInv` adds that while data
  is deleted no target is unsafe and none holds new data (`OldIsSafeToDelete`,
  `NothingNewYet`), that past deletion nothing old is left (`NothingOldIsLeft`), and
  that a choice is in effect only after the reset was recorded, and is then what the
  Supervisor keeps and hands to every later start (`ChoiceIsRecorded`). The init
  script and the migration look for that record at different moments; it is never
  taken back, so both decide alike.
* `PluginUpdateProofs`: `TypeCorrect`, `OldPluginIsThere`, `TransactionsEndRight`,
  `ServicesStartWhole`. `IInv` adds where the old and the new tree are while a
  journal is open, the new one only once the journal names it (`JournalTells`),
  how far the journal is at each place (`PlaceTells`), that an installation's
  journal is its own (`InstallTells`), and that pruning starts with a good plugin
  and the backup of this start among the others, wherever the clock has put it
  (`EndTells`). A crash can then stop anywhere, since `JournalTells` does not
  mention the place. `HalfwayIsSound` is the argument for a step that fails after
  its effect.
* `FeedbackSubmitProofs`: `TypeCorrect`, `UncertaintyIsLocked`, `IssuesAreConfirmed`,
  `OneIssue`. `Inv` adds that the claim is held by one invocation, and that one
  which has not asked for an issue found none asked for, or a receipt
  (`Exclusion`); that a receipt means an issue and one that passed the search saw
  every issue or missed one (`Singularity`); and that each token is in one place:
  in the preview, with the invocation that took it, or spent (`TokensInOnePlace`).
* `BrowserIdentityProofs`: `TypeCorrect`, `NothingIsForgotten`, `ReadyIsAlwaysClean`.
  `Inv` has two halves. `Kept` speaks of the disk and Home Assistant alone
  (`DiskTells`, `UserHolds`, `ReadyIsClean`), so a run that dies anywhere leaves it
  true. `Sound` is what the run knows at each place: what it has read is still so
  (`RunKnows`), what the disk is about to forget is gone (`GoneFirst`), and a stored
  token is unlinked only once it is dead (`TokensTell`). Both are stated of any run,
  disk and Home Assistant, so that `RequestStep` and `WriteStep` cover every failed
  request and write, and `ThrownSound` every error that is caught.

`FirstStart`, `FeedbackSubmit` and `BrowserIdentity` have their type invariants
proved instead of checked by a run.

Only model-checked is liveness: `DaemonStarts`, `ResetCompletes` and `Converges`, in
`PluginUpdate` and in `BrowserIdentity`. TLAPS has no means here for liveness under
fairness or `ENABLED`. Every invariant and action property that a passing run checks
is a theorem as well.

## 5. Disagreements

Three runs end in a violation that shows the code to differ from what the
repository says of it:

* `Mem_stuck`: a memory that is replaced while its subject is missing keeps its
  catalog conflict open after the subject is back, since `resolveCatalogConflicts`
  looks at applied memories only. The tests say "restored structure closes its
  conflict".
* `Change_late`: a match read by an older refresh closes the conflict that a newer
  refresh's mismatch opened, with the resolution `later_api_verification_passed`.
* `Remote_shared`: a login starts its CLI beside a running daemon when the token
  is missing or being replaced; the changelog says both "never share the same
  persistent state".

Also met while modelling, each in the model's steps but with no run of its own:

* A verification or a resolution whose row id was deleted by a rollback and given
  out again between its checks and its transaction goes on with the wrong row: the
  source of a candidate and the reason of a conflict are checked only before. In this
  way a candidate that nobody verified can be applied: its conflict is one that only
  Home Assistant may win, but has the number of an earlier one, undone since, for
  which a resolution in favour of its candidate was under way (CORE:4310).
* A rollback can open a conflict again although another one says the same by then.
* A refresh that finds a reserved relation gone, but changes no object and no
  relation, opens the conflict and leaves the memory in the search index, since the
  index is rebuilt only when something changed (CORE:2130). `IndexIsCurrent` allows
  for this case.
* A late failure of a refresh older than the last success stores "ready" although
  a newer refresh failed in between and made the catalog stale.
* A signal between the fork of a login's CLI and `remote_cli_pid=$!` ends the
  runtime, and its lock, without the CLI.
* The service's own attempt on the lock can make a login say that another login is
  running.
* The options reset is posted again when its answer or its record was lost, over
  options the user saved in between, without a word. What is lost has never been in
  effect (`ChoiceInEffectStays`).
* Rolling back the resolution of a change conflict after the change was verified
  leaves an open conflict that nothing closes.
* A failure of the plugin update after the phase `postcondition_verified` is
  recovered forward, and the new plugin is installed; the result still says that
  "the previous verified copy was restored" and gives the old version (UPDATE:821).
* A failed update without a manifest leaves a directory that is never pruned, and
  while it is this start's it takes the place of one backup.
* A failing validation of the installed plugin at the start ends the start of the
  App, not only the update (`antigravity-ha-init`:207).
* A killed refresh leaves a `running` row for ever; nothing reads it.
* A login whose answer was lost keeps its journal "until a later authenticated token
  listing proves cleanup" (ADMIN:1335), but a later run that fails to create its own
  credential clears the journal in its rollback without any listing. The login then
  lives on, without a credential, until a setup succeeds (`ReadyMeansClean`) or the
  user is removed.
* A submission looks for the receipt before it acquires the claim, and not after
  (FEEDBACK:1744, 1746): only the search stands between it and a second issue when
  another one ended in between (`OneIssueUnlessMissed`).

## 6. Plan

In order of importance:

1. An abstract installer, atomic and with the user's edits kept, that `PluginUpdate`
   implements; an abstract store of memories for `MemoryStore`.
2. `FileWrite`: link and exchange with other writers of the same name.
3. `MemoryFrontEnds`: the MCP server's queue and time-out, the daemon's back-off;
   the result `rememberExplicitMemory` reports when another writer comes between
   its three transactions.

### Not modelled

Nothing is kept between requests, or the work is pure I/O: the read broker and its
clients, credential and API helpers, the Playwright proxy, launchers, the
development tools and the release scripts. Of the components that are modelled:
full-text search, the opening and migration of the database, `collect` of a
feedback report with its privacy rules, and the publication of the browser's token.
