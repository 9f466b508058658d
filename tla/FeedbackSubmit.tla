---------------------------- MODULE FeedbackSubmit ----------------------------
(***************************************************************************)
(* The invocations of ha-feedback for one report: render, preview of a     *)
(* public submission, and the confirmed submission that creates an issue   *)
(* on GitHub.  Invocations are processes of their own that share only      *)
(* files; each step below is what lies between two accesses to something   *)
(* shared.  A process may die at any point, and the answer of GitHub may   *)
(* be lost, late or never sent.                                            *)
(***************************************************************************)
EXTENDS Naturals, FiniteSets

CONSTANTS
    Invocations,   \* processes that may run at the same time
    Contents,      \* contents of report.json, those that render alike as one
    Malformed,     \* of these, what validateGeneratedReport refuses
    Sensitive,     \* and what has security_issue set
    Tokens,        \* confirmation tokens: random, none is ever made twice
    None

ASSUME ContentsAssumption ==
    /\ Malformed \subseteq Contents /\ Sensitive \subseteq Contents
    /\ None \notin Contents /\ None \notin Tokens

VARIABLES
    report,        \* report.json
    public,        \* public-report.md
    preview,       \* the preview state in /run: one file for each report
    claim,         \* .submission.lock is there
    receipt,       \* submission.json: the issue it names
    call,          \* the invocations
    requests,      \* issues GitHub was asked for and may yet create
    issues,        \* issues it has created
    indexed,       \* those its search finds
    (***********************************************************************)
    (* what was said to the user and by the search, kept for the properties*)
    (***********************************************************************)
    shown,         \* tokens printed, each with the payload it stands for
    missed         \* a search said none of an issue that existed

files == <<report, public, claim, receipt>>
github == <<requests, issues, indexed>>
seen == <<shown, missed>>
vars == <<report, public, preview, claim, receipt, call, requests, issues, indexed, shown, missed>>

(* What collect would have generated, security finding or not.             *)
ValidateGeneratedReport(content) == content \notin Malformed
(* The body made of a report, and one that somebody edited by hand.        *)
RenderReport(content) == <<"rendered", content>>
Edited == <<"edited">>
Bodies == {RenderReport(c) : c \in Contents} \cup {Edited}

(* What is hashed: the repository, title and label, and the body.          *)
SubmissionDigest(content, body) == <<content, body>>
Digests == Contents \X Bodies

Places == {"idle", "resolved", "unclaimed", "unsubmitted", "confirmed", "claimed",
           "matched", "searched", "creating", "answered", "receipted",
           "previewing", "rendering"}
Idle == [at |-> "idle", report |-> None, token |-> None, digest |-> None]
Holding == {"claimed", "matched", "searched", "creating", "answered", "receipted"}

(* collect has written the report and its body.                            *)
CollectCommand ==
    /\ report \in Contents /\ ValidateGeneratedReport(report)
    /\ public = RenderReport(report)
    /\ claim = FALSE /\ receipt = None
Init ==
    /\ CollectCommand
    /\ preview = None
    /\ call = [p \in Invocations |-> Idle]
    /\ requests = {} /\ issues = {} /\ indexed = {}
    /\ shown = {} /\ missed = FALSE

At(p, place) == call[p].at = place
Goes(p, place) == call' = [call EXCEPT ![p].at = place]
Ends(p) == call' = [call EXCEPT ![p] = Idle]

-----------------------------------------------------------------------------
(* The first steps of githubSubmit and of githubPreview, which it is       *)
(* without a token: the report is read and validated, then the claim and   *)
(* the receipt are looked for.  A sensitive report goes no further.        *)
ResolveReport(p, token) ==
    /\ At(p, "idle")
    /\ ValidateGeneratedReport(report) /\ report \notin Sensitive
    /\ token = None \/ \E s \in shown : s.token = token
    /\ call' = [call EXCEPT ![p] = [at |-> "resolved", report |-> report,
                                    token |-> token, digest |-> None]]
    /\ UNCHANGED <<files, preview, github, seen>>

SubmissionClaimPresent(p) ==
    /\ At(p, "resolved")
    /\ IF claim THEN Ends(p) ELSE Goes(p, "unclaimed")
    /\ UNCHANGED <<files, preview, github, seen>>

AlreadySubmitted(p) ==
    /\ At(p, "unclaimed")
    /\ IF receipt # None THEN Ends(p) ELSE Goes(p, "unsubmitted")
    /\ UNCHANGED <<files, preview, github, seen>>

-----------------------------------------------------------------------------
(* githubPreview, from the reading of the body on.                         *)
PreviewMatches(p) ==
    /\ At(p, "unsubmitted") /\ call[p].token = None
    /\ IF public = RenderReport(call[p].report)
       THEN call' = [call EXCEPT ![p].at = "previewing",
                                 ![p].digest = SubmissionDigest(call[p].report, public)]
       ELSE Ends(p)
    /\ UNCHANGED <<files, preview, github, seen>>

(* gh was asked who is logged in and for similar issues, each up to 15     *)
(* seconds, and either failed or answered.  The claim is not looked for    *)
(* again, and the state file of an earlier preview is replaced.            *)
CreateConfirmationPreview(p) ==
    /\ At(p, "previewing")
    /\ \/ UNCHANGED <<preview, shown>>
       \/ \E t \in Tokens \ {s.token : s \in shown} :
              /\ preview' = [token |-> t, digest |-> call[p].digest, live |-> TRUE]
              /\ shown' = shown \cup {[token |-> t, digest |-> call[p].digest]}
    /\ Ends(p)
    /\ UNCHANGED <<files, github, missed>>

(* Ten minutes go by.                                                      *)
PreviewExpires ==
    /\ preview # None /\ preview.live
    /\ preview' = [preview EXCEPT !.live = FALSE]
    /\ UNCHANGED <<files, call, github, seen>>

-----------------------------------------------------------------------------
(* githubSubmit with a token.  The state file is renamed to a private name *)
(* before it is looked at: whatever is wrong with it, it is gone.          *)
Confirms(p) == preview # None /\ preview.token = call[p].token /\ preview.live
ConsumeConfirmationPreview(p) ==
    /\ At(p, "unsubmitted") /\ call[p].token # None
    /\ preview' = None
    /\ IF Confirms(p)
       THEN call' = [call EXCEPT ![p].at = "confirmed", ![p].digest = preview.digest]
       ELSE Ends(p)
    /\ UNCHANGED <<files, github, seen>>

(* The claim is created with O_EXCL.                                       *)
AcquireSubmissionClaim(p) ==
    /\ At(p, "confirmed")
    /\ IF claim
       THEN Ends(p) /\ UNCHANGED claim
       ELSE Goes(p, "claimed") /\ claim' = TRUE
    /\ UNCHANGED <<report, public, receipt, preview, github, seen>>

(* A return or a failure before retainClaim is set.                        *)
ReleasesAndEnds(p) == claim' = FALSE /\ Ends(p)

(* The body read now must be that of the report read at the beginning, and *)
(* what was confirmed.                                                     *)
MatchesConfirmed(p) ==
    /\ At(p, "claimed")
    /\ IF /\ public = RenderReport(call[p].report)
          /\ call[p].digest = SubmissionDigest(call[p].report, public)
       THEN Goes(p, "matched") /\ UNCHANGED claim
       ELSE ReleasesAndEnds(p)
    /\ UNCHANGED <<report, public, receipt, preview, github, seen>>

(* The search for the id of the report.  It may be out of reach (or nobody *)
(* logged in), and it does not find an issue not yet indexed.              *)
ExactUnavailableGoesOn(p) ==  \* mutant: no answer is taken for "none"
    /\ At(p, "matched")
    /\ \/ Goes(p, "searched") /\ missed' = missed /\ UNCHANGED claim
       \/ indexed # {} /\ ReleasesAndEnds(p) /\ UNCHANGED missed
    /\ UNCHANGED <<report, public, receipt, preview, github, shown>>
ExactExistingReport(p) ==
    /\ At(p, "matched")
    /\ \/ ReleasesAndEnds(p) /\ UNCHANGED missed
       \/ /\ indexed = {} /\ Goes(p, "searched") /\ UNCHANGED claim
          /\ missed' = (missed \/ issues # {})
    /\ UNCHANGED <<report, public, receipt, preview, github, shown>>

(* retainClaim is set and gh is started, with the body on its stdin.       *)
Request(p, body) == [by |-> p, token |-> call[p].token,
                     digest |-> SubmissionDigest(call[p].report, body)]
CreateFromFile(p) ==          \* mutant: gh reads the body from the file
    /\ At(p, "searched")
    /\ requests' = requests \cup {Request(p, public)}
    /\ Goes(p, "creating")
    /\ UNCHANGED <<files, preview, issues, indexed, seen>>
GhIssueCreate(p) ==
    /\ At(p, "searched")
    /\ requests' = requests \cup {Request(p, RenderReport(call[p].report))}
    /\ Goes(p, "creating")
    /\ UNCHANGED <<files, preview, issues, indexed, seen>>

(* gh ends: with the issue's address, or with a status or an output that   *)
(* says nothing of what became of the request; then the claim stays.       *)
FailureReleases(p) ==         \* mutant: a failed create releases the claim
    /\ At(p, "creating")
    /\ \/ /\ Request(p, RenderReport(call[p].report)) \in issues
          /\ Goes(p, "answered") /\ UNCHANGED claim
       \/ ReleasesAndEnds(p)
    /\ UNCHANGED <<report, public, receipt, preview, github, seen>>
GhAnswers(p) ==
    /\ At(p, "creating")
    /\ \/ /\ Request(p, RenderReport(call[p].report)) \in issues
          /\ Goes(p, "answered")
       \/ Ends(p)
    /\ UNCHANGED <<files, preview, github, seen>>

(* The receipt is linked into place, which fails if there is one; then it  *)
(* is read back, and only then is the claim given up.                      *)
WritePrivateNewAtomically(p) ==
    /\ At(p, "answered")
    /\ IF receipt = None
       THEN Goes(p, "receipted") /\ receipt' = call[p].token
       ELSE Ends(p) /\ UNCHANGED receipt
    /\ UNCHANGED <<report, public, claim, preview, github, seen>>

ReleaseSubmissionClaim(p) ==
    /\ At(p, "receipted")
    /\ ReleasesAndEnds(p)
    /\ UNCHANGED <<report, public, receipt, preview, github, seen>>

-----------------------------------------------------------------------------
(* render: the report is read, then the body replaced.                     *)
RenderResolves(p) ==
    /\ At(p, "idle")
    /\ ValidateGeneratedReport(report)
    /\ call' = [call EXCEPT ![p].at = "rendering", ![p].report = report]
    /\ UNCHANGED <<files, preview, github, seen>>
RenderCommand(p) ==
    /\ At(p, "rendering")
    /\ public' = RenderReport(call[p].report)
    /\ Ends(p)
    /\ UNCHANGED <<report, claim, receipt, preview, github, seen>>

(* The user or an agent edits one of the two files.                        *)
Edit ==
    /\ \/ \E c \in Contents \ {report} : report' = c /\ UNCHANGED public
       \/ public # Edited /\ public' = Edited /\ UNCHANGED report
    /\ UNCHANGED <<claim, receipt, preview, call, github, seen>>

(* A process is killed, or an operation on a file fails, which leaves no   *)
(* more behind: the files stay as they are.                                *)
Dies(p) ==
    /\ ~At(p, "idle")
    /\ Ends(p)
    /\ UNCHANGED <<files, preview, github, seen>>

(* The App restarts: /run is empty again.                                  *)
Restart ==
    /\ call' = [p \in Invocations |-> Idle]
    /\ preview' = None
    /\ UNCHANGED <<files, github, seen>>

(* GitHub creates an issue it was asked for, however late, or never does;  *)
(* its search comes to know of it.                                         *)
GitHubActs ==
    /\ \/ \E r \in requests :
              /\ requests' = requests \ {r}
              /\ issues' \in {issues, issues \cup {r}}
              /\ UNCHANGED indexed
       \/ /\ indexed # issues /\ indexed' = issues
          /\ UNCHANGED <<requests, issues>>
    /\ UNCHANGED <<files, preview, call, seen>>

Submits(p) ==
    \/ ConsumeConfirmationPreview(p)
    \/ AcquireSubmissionClaim(p)
    \/ MatchesConfirmed(p)
    \/ ExactExistingReport(p)
    \/ GhIssueCreate(p)
    \/ GhAnswers(p)
    \/ WritePrivateNewAtomically(p)
    \/ ReleaseSubmissionClaim(p)

Next ==
    \/ \E p \in Invocations :
          \/ \E t \in Tokens \cup {None} : ResolveReport(p, t)
          \/ SubmissionClaimPresent(p) \/ AlreadySubmitted(p)
          \/ PreviewMatches(p) \/ CreateConfirmationPreview(p)
          \/ Submits(p)
          \/ RenderResolves(p) \/ RenderCommand(p)
          \/ Dies(p)
    \/ PreviewExpires \/ Edit \/ Restart \/ GitHubActs

Spec == Init /\ [][Next]_vars

-----------------------------------------------------------------------------
Previews == [token : Tokens, digest : Digests]
Requests == [by : Invocations, token : Tokens, digest : Digests]

(* Every file, call and request has the values it may have, and the search *)
(* finds only issues that exist.                                           *)
TypeOK ==
    /\ report \in Contents /\ public \in Bodies
    /\ preview \in {None} \cup [token : Tokens, digest : Digests, live : BOOLEAN]
    /\ claim \in BOOLEAN /\ receipt \in Tokens \cup {None}
    /\ call \in [Invocations -> [at : Places, report : Contents \cup {None},
                                 token : Tokens \cup {None}, digest : Digests \cup {None}]]
    /\ requests \subseteq Requests /\ issues \subseteq Requests /\ indexed \subseteq issues
    /\ shown \subseteq Previews /\ missed \in BOOLEAN

(* From the moment GitHub is asked for an issue the report has a claim or  *)
(* a receipt: through a lost answer, a death of the process, a restart and *)
(* an issue that appears late, nobody starts over                          *)
(* (retainClaim, ha-feedback.mjs:1786).                                    *)
UncertainIsLocked ==
    requests \cup issues # {} => claim \/ receipt # None

(* What GitHub is asked for is what the user was shown with the token they *)
(* confirmed, whatever happened to the two files since, and no token is    *)
(* good for two requests (consumeConfirmationPreview, and the digest       *)
(* compared at ha-feedback.mjs:1755).                                      *)
EachIssueConfirmed ==
    /\ \A r \in requests \cup issues : [token |-> r.token, digest |-> r.digest] \in shown
    /\ \A q, r \in requests \cup issues : q.token = r.token => q = r

(* A report becomes at most one issue, unless the search missed one that   *)
(* existed: the receipt is looked for before the claim is acquired and not *)
(* after, so a submission that looked too early depends on the search      *)
(* alone (githubSubmit, ha-feedback.mjs:1744 and 1746).                    *)
OneIssueUnlessMissed ==
    Cardinality(requests \cup issues) <= 1 \/ missed

=============================================================================
