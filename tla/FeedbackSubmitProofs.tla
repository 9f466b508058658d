------------------------- MODULE FeedbackSubmitProofs -------------------------
(***************************************************************************)
(* What FeedbackSubmit keeps for any number of invocations, reports and    *)
(* tokens: the claim and the receipt between them lock out a second issue, *)
(* and every issue is what somebody was shown and confirmed.               *)
(***************************************************************************)
EXTENDS FeedbackSubmit, FiniteSetTheorems, TLAPS

Asked == requests \cup issues
Undecided == {"claimed", "matched", "searched"}
Confirmed == {"confirmed"} \cup Holding

(* What an invocation has read or been given by the time it needs it.      *)
Calls == [at : Places, report : Contents \cup {None}, token : Tokens \cup {None},
          digest : Digests \cup {None}]
Whole(c) ==
    /\ c \in Calls
    /\ c.at # "idle" => c.report \in Contents
    /\ c.at \in Confirmed => c.token \in Tokens
    /\ c.at \in {"previewing"} \cup Confirmed => c.digest \in Digests
Typed == TypeOK /\ \A p \in Invocations : Whole(call[p])

(* The claim is one invocation's while it is held; one that has not asked  *)
(* for an issue yet found none asked for, or a receipt.                    *)
Exclusion ==
    /\ \A p \in Invocations : call[p].at \in Holding => claim
    /\ \A p, q \in Invocations :
          (call[p].at \in Holding /\ call[q].at \in Holding) => p = q
    /\ Asked # {} => (claim \/ receipt # None)
    /\ \A p \in Invocations : call[p].at \in Undecided => (Asked = {} \/ receipt # None)
    /\ \A p \in Invocations : call[p].at = "receipted" => receipt # None

(* A receipt, and an answer, mean that there is an issue; one that goes on *)
(* after its search saw every issue there was, or the search missed one.   *)
Singularity ==
    /\ receipt # None => issues # {}
    /\ \A p \in Invocations : call[p].at = "answered" => issues # {}
    /\ \A p \in Invocations : call[p].at = "searched" => (missed \/ Asked = {})
    /\ missed \/ \A q, r \in Asked : q = r

(* A token stands for one payload, and is in one place: in the preview,    *)
(* with the invocation that took it from there, or spent on a request.     *)
ShownWith(token, digest) == [token |-> token, digest |-> digest] \in shown
Unspent == {"confirmed"} \cup Undecided
TokensInOnePlace ==
    /\ preview # None => ShownWith(preview.token, preview.digest)
    /\ \A p \in Invocations : call[p].at \in Confirmed => ShownWith(call[p].token, call[p].digest)
    /\ \A r \in Asked : ShownWith(r.token, r.digest)
    /\ preview # None =>
          /\ \A p \in Invocations : call[p].at \in Confirmed => call[p].token # preview.token
          /\ \A r \in Asked : r.token # preview.token
    /\ \A p, q \in Invocations :
          (call[p].at \in Confirmed /\ call[q].at \in Confirmed /\ call[p].token = call[q].token)
             => p = q
    /\ \A p \in Invocations : call[p].at \in Unspent => \A r \in Asked : r.token # call[p].token
    /\ \A q, r \in Asked : q.token = r.token => q = r
    /\ \A p \in Invocations : call[p].at \in {"matched", "searched"} =>
          call[p].digest = SubmissionDigest(call[p].report, RenderReport(call[p].report))

Inv == Typed /\ Exclusion /\ Singularity /\ TokensInOnePlace

-----------------------------------------------------------------------------
LEMMA DigestType == \A c \in Contents, b \in Bodies : SubmissionDigest(c, b) \in Digests
  BY DEF SubmissionDigest, Digests

LEMMA RenderType == \A c \in Contents : RenderReport(c) \in Bodies
  BY DEF Bodies

LEMMA WholeIdle == Whole(Idle)
  BY DEF Whole, Calls, Idle, Places, Confirmed, Holding

LEMMA WholeMoved ==
  ASSUME NEW c, Whole(c), NEW place \in Places, place # "previewing", c.at # "idle",
         place \in Confirmed => c.at \in Confirmed
  PROVE  Whole([c EXCEPT !.at = place])
  BY DEF Whole, Calls, Confirmed, Holding

LEMMA InitInv == Init => Inv
  <1> SUFFICES ASSUME Init PROVE Inv  OBVIOUS
  <1>1. TypeOK
    BY ContentsAssumption DEF Init, CollectCommand, TypeOK, Idle, Places, Bodies, Requests, Previews
  <1>2. Exclusion /\ Singularity
    BY DEF Init, CollectCommand, Exclusion, Singularity, Idle, Holding, Undecided, Confirmed, Asked
  <1>3. TokensInOnePlace
    BY DEF Init, CollectCommand, TokensInOnePlace, Idle, Holding, Undecided, Confirmed, Unspent, Asked
  <1>4. \A p \in Invocations : Whole(call[p])
    BY WholeIdle DEF Init
  <1> QED  BY <1>1, <1>2, <1>3, <1>4 DEF Inv, Typed

(* A step of an invocation replaces its record by a whole one.             *)
Replaces(p) == \E c : Whole(c) /\ call' = [call EXCEPT ![p] = c]

LEMMA EndsReplaces == ASSUME NEW p \in Invocations, Ends(p) PROVE Replaces(p)
  BY WholeIdle DEF Ends, Replaces

LEMMA GoesReplaces ==
  ASSUME Typed, NEW p \in Invocations, NEW place \in Places, Goes(p, place), place # "previewing",
         call[p].at # "idle", place \in Confirmed => call[p].at \in Confirmed
  PROVE  Replaces(p)
  <1>1. Whole([call[p] EXCEPT !.at = place])
    BY WholeMoved DEF Typed
  <1>2. call' = [call EXCEPT ![p] = [call[p] EXCEPT !.at = place]]
    BY DEF Goes, Typed, TypeOK
  <1> QED  BY <1>1, <1>2 DEF Replaces

LEMMA ReplacedWhole ==
  ASSUME Typed, NEW p \in Invocations, Replaces(p)
  PROVE  call' \in [Invocations -> Calls] /\ \A q \in Invocations : Whole(call'[q])
  BY DEF Typed, TypeOK, Replaces, Whole, Calls

LEMMA StepTyped == Typed /\ [Next]_vars => Typed'
  <1> SUFFICES ASSUME Typed, [Next]_vars PROVE Typed'  OBVIOUS
  <1> USE ContentsAssumption DEF files, github, seen, At
  <1> DEFINE Others == /\ report' \in Contents /\ public' \in Bodies
                       /\ preview' \in {None} \cup [token : Tokens, digest : Digests, live : BOOLEAN]
                       /\ claim' \in BOOLEAN /\ receipt' \in Tokens \cup {None}
                       /\ requests' \subseteq Requests /\ issues' \subseteq Requests
                       /\ indexed' \subseteq issues'
                       /\ shown' \subseteq Previews /\ missed' \in BOOLEAN
  <1>0. ASSUME NEW p \in Invocations, Replaces(p), Others PROVE Typed'
    BY <1>0, ReplacedWhole DEF Typed, TypeOK, Calls
  <1>1. ASSUME NEW p \in Invocations, NEW t \in Tokens \cup {None}, ResolveReport(p, t)
        PROVE Typed'
    <2>1. Whole([at |-> "resolved", report |-> report, token |-> t, digest |-> None])
      BY DEF Typed, TypeOK, Whole, Calls, Places, Confirmed, Holding
    <2>2. Replaces(p)  BY <1>1, <2>1 DEF ResolveReport, Replaces
    <2> QED  BY <1>0, <1>1, <2>2 DEF ResolveReport, Typed, TypeOK
  <1>2. ASSUME NEW p \in Invocations, SubmissionClaimPresent(p)
        PROVE Typed'
    <2>1. Replaces(p)  BY <1>2, EndsReplaces, GoesReplaces DEF SubmissionClaimPresent, Places, Confirmed, Holding
    <2> QED  BY <1>0, <1>2, <2>1 DEF SubmissionClaimPresent, Typed, TypeOK
  <1>3. ASSUME NEW p \in Invocations, AlreadySubmitted(p)
        PROVE Typed'
    <2>1. Replaces(p)  BY <1>3, EndsReplaces, GoesReplaces DEF AlreadySubmitted, Places, Confirmed, Holding
    <2> QED  BY <1>0, <1>3, <2>1 DEF AlreadySubmitted, Typed, TypeOK
  <1>4. ASSUME NEW p \in Invocations, PreviewMatches(p)
        PROVE Typed'
    <2>1. Replaces(p)
      <3>1. CASE public = RenderReport(call[p].report)
        <4> DEFINE c == [call[p] EXCEPT !.at = "previewing",
                                        !.digest = SubmissionDigest(call[p].report, public)]
        <4>1. SubmissionDigest(call[p].report, public) \in Digests
          BY <1>4, DigestType DEF PreviewMatches, Typed, TypeOK, Whole
        <4>2. Whole(c)
          BY <1>4, <4>1 DEF PreviewMatches, Typed, Whole, Calls, Places, Confirmed, Holding
        <4>3. call' = [call EXCEPT ![p] = c]
          BY <1>4, <3>1 DEF PreviewMatches, Typed, TypeOK
        <4> QED  BY <4>2, <4>3 DEF Replaces
      <3>2. CASE public # RenderReport(call[p].report)
        BY <1>4, <3>2, EndsReplaces DEF PreviewMatches
      <3> QED  BY <3>1, <3>2
    <2> QED  BY <1>0, <1>4, <2>1 DEF PreviewMatches, Typed, TypeOK
  <1>5. ASSUME NEW p \in Invocations, CreateConfirmationPreview(p)
        PROVE Typed'
    <2>1. Replaces(p)  BY <1>5, EndsReplaces DEF CreateConfirmationPreview
    <2>2. call[p].digest \in Digests  BY <1>5 DEF CreateConfirmationPreview, Typed, Whole
    <2>3. preview' \in {None} \cup [token : Tokens, digest : Digests, live : BOOLEAN]
      <3>1. CASE preview' = preview
        BY <3>1 DEF Typed, TypeOK
      <3>2. ASSUME NEW t \in Tokens, preview' = [token |-> t, digest |-> call[p].digest, live |-> TRUE]
            PROVE  preview' \in [token : Tokens, digest : Digests, live : BOOLEAN]
        BY <3>2, <2>2
      <3> QED  BY <1>5, <3>1, <3>2 DEF CreateConfirmationPreview
    <2>4. shown' \subseteq Previews
      BY <1>5, <2>2 DEF CreateConfirmationPreview, Typed, TypeOK, Previews
    <2> QED  BY <1>0, <1>5, <2>1, <2>3, <2>4 DEF CreateConfirmationPreview, Typed, TypeOK
  <1>6. ASSUME NEW p \in Invocations, ConsumeConfirmationPreview(p)
        PROVE Typed'
    <2>1. Replaces(p)
      <3>1. CASE Confirms(p)
        <4> DEFINE c == [call[p] EXCEPT !.at = "confirmed", !.digest = preview.digest]
        <4>1. Whole(c)
          BY <1>6, <3>1 DEF ConsumeConfirmationPreview, Confirms, Typed, TypeOK, Whole, Calls, Places
        <4>2. call' = [call EXCEPT ![p] = c]
          BY <1>6, <3>1 DEF ConsumeConfirmationPreview, Typed, TypeOK
        <4> QED  BY <4>1, <4>2 DEF Replaces
      <3>2. CASE ~Confirms(p)
        BY <1>6, <3>2, EndsReplaces DEF ConsumeConfirmationPreview
      <3> QED  BY <3>1, <3>2
    <2> QED  BY <1>0, <1>6, <2>1 DEF ConsumeConfirmationPreview, Typed, TypeOK
  <1>7. ASSUME NEW p \in Invocations, AcquireSubmissionClaim(p)
        PROVE Typed'
    <2>1. Replaces(p)
      BY <1>7, EndsReplaces, GoesReplaces
      DEF AcquireSubmissionClaim, ReleasesAndEnds, Places, Confirmed, Holding
    <2> QED  BY <1>0, <1>7, <2>1 DEF AcquireSubmissionClaim, ReleasesAndEnds, Typed, TypeOK
  <1>8. ASSUME NEW p \in Invocations, MatchesConfirmed(p)
        PROVE Typed'
    <2>1. Replaces(p)
      BY <1>8, EndsReplaces, GoesReplaces
      DEF MatchesConfirmed, ReleasesAndEnds, Places, Confirmed, Holding
    <2> QED  BY <1>0, <1>8, <2>1 DEF MatchesConfirmed, ReleasesAndEnds, Typed, TypeOK
  <1>9. ASSUME NEW p \in Invocations, ExactExistingReport(p)
        PROVE Typed'
    <2>1. Replaces(p)
      BY <1>9, EndsReplaces, GoesReplaces
      DEF ExactExistingReport, ReleasesAndEnds, Places, Confirmed, Holding
    <2> QED  BY <1>0, <1>9, <2>1 DEF ExactExistingReport, ReleasesAndEnds, Typed, TypeOK
  <1>10. ASSUME NEW p \in Invocations, GhIssueCreate(p)
        PROVE Typed'
    <2>1. Replaces(p)
      BY <1>10, GoesReplaces DEF GhIssueCreate, Places, Confirmed, Holding
    <2>2. Request(p, RenderReport(call[p].report)) \in Requests
      BY <1>10, DigestType, RenderType
      DEF GhIssueCreate, Typed, Whole, Request, Requests, Confirmed, Holding
    <2> QED  BY <1>0, <1>10, <2>1, <2>2 DEF GhIssueCreate, Typed, TypeOK
  <1>11. ASSUME NEW p \in Invocations, GhAnswers(p)
        PROVE Typed'
    <2>1. Replaces(p)
      BY <1>11, EndsReplaces, GoesReplaces DEF GhAnswers, Places, Confirmed, Holding
    <2> QED  BY <1>0, <1>11, <2>1 DEF GhAnswers, Typed, TypeOK
  <1>12. ASSUME NEW p \in Invocations, WritePrivateNewAtomically(p)
        PROVE Typed'
    <2>1. Replaces(p)
      BY <1>12, EndsReplaces, GoesReplaces DEF WritePrivateNewAtomically, Places, Confirmed, Holding
    <2>2. call[p].token \in Tokens
      BY <1>12 DEF WritePrivateNewAtomically, Typed, Whole, Confirmed, Holding
    <2> QED  BY <1>0, <1>12, <2>1, <2>2 DEF WritePrivateNewAtomically, Typed, TypeOK
  <1>13. ASSUME NEW p \in Invocations, ReleaseSubmissionClaim(p)
        PROVE Typed'
    <2>1. Replaces(p)  BY <1>13, EndsReplaces DEF ReleaseSubmissionClaim, ReleasesAndEnds
    <2> QED  BY <1>0, <1>13, <2>1 DEF ReleaseSubmissionClaim, ReleasesAndEnds, Typed, TypeOK
  <1>14. ASSUME NEW p \in Invocations, RenderResolves(p)
        PROVE Typed'
    <2> DEFINE c == [call[p] EXCEPT !.at = "rendering", !.report = report]
    <2>1. Whole(c)
      BY DEF Typed, TypeOK, Whole, Calls, Places, Confirmed, Holding
    <2>2. call' = [call EXCEPT ![p] = c]  BY <1>14 DEF RenderResolves, Typed, TypeOK
    <2>3. Replaces(p)  BY <2>1, <2>2 DEF Replaces
    <2> QED  BY <1>0, <1>14, <2>3 DEF RenderResolves, Typed, TypeOK
  <1>15. ASSUME NEW p \in Invocations, RenderCommand(p)
        PROVE Typed'
    <2>1. Replaces(p)  BY <1>15, EndsReplaces DEF RenderCommand
    <2>2. public' \in Bodies  BY <1>15, RenderType DEF RenderCommand, Typed, Whole
    <2> QED  BY <1>0, <1>15, <2>1, <2>2 DEF RenderCommand, Typed, TypeOK
  <1>16. ASSUME NEW p \in Invocations, Dies(p)
        PROVE Typed'
    <2>1. Replaces(p)  BY <1>16, EndsReplaces DEF Dies
    <2> QED  BY <1>0, <1>16, <2>1 DEF Dies, Typed, TypeOK
  <1>17. CASE PreviewExpires \/ Edit
    BY <1>17 DEF PreviewExpires, Edit, Bodies, Typed, TypeOK
  <1>18. CASE Restart
    <2>1. Idle \in Calls  BY WholeIdle DEF Whole
    <2> QED  BY <1>18, <2>1, WholeIdle DEF Restart, Typed, TypeOK, Calls
  <1>19. CASE GitHubActs
    BY <1>19 DEF GitHubActs, Typed, TypeOK
  <1>20. CASE UNCHANGED vars
    BY <1>20 DEF vars, Typed, TypeOK
  <1> QED
    BY <1>1, <1>2, <1>3, <1>4, <1>5, <1>6, <1>7, <1>8, <1>9, <1>10, <1>11, <1>12, <1>13, <1>14, <1>15, <1>16, <1>17, <1>18, <1>19, <1>20
    DEF Next, Submits

(* What a step does to the invocations, for the other parts.               *)
LEMMA PlaceReached ==
  ASSUME Typed, NEW p \in Invocations, NEW place, Goes(p, place)
  PROVE  /\ call'[p].at = place
         /\ call'[p].report = call[p].report
         /\ call'[p].token = call[p].token
         /\ call'[p].digest = call[p].digest
         /\ \A q \in Invocations : q # p => call'[q] = call[q]
  BY DEF Typed, TypeOK, Goes

LEMMA PlaceLeft ==
  ASSUME Typed, NEW p \in Invocations, Ends(p)
  PROVE  call'[p] = Idle /\ \A q \in Invocations : q # p => call'[q] = call[q]
  BY DEF Typed, TypeOK, Ends

(* Steps that keep what Exclusion and Singularity are about: an invocation *)
(* that holds nothing goes where nothing is held.                          *)
Quiet(p) ==
    /\ UNCHANGED <<claim, receipt, requests, issues, missed>>
    /\ call'[p].at \notin Holding
    /\ \A q \in Invocations : q # p => call'[q] = call[q]

LEMMA QuietSteps ==
  ASSUME Typed, NEW p \in Invocations,
         \/ \E t \in Tokens \cup {None} : ResolveReport(p, t)
         \/ SubmissionClaimPresent(p) \/ AlreadySubmitted(p) \/ PreviewMatches(p)
         \/ CreateConfirmationPreview(p) \/ ConsumeConfirmationPreview(p)
         \/ RenderResolves(p) \/ RenderCommand(p) \/ Dies(p)
  PROVE  Quiet(p)
  <1> USE DEF files, github, seen, Quiet, Holding
  <1>1. ASSUME NEW t \in Tokens \cup {None}, ResolveReport(p, t) PROVE Quiet(p)
    BY <1>1 DEF ResolveReport, Typed, TypeOK
  <1>2. CASE SubmissionClaimPresent(p)
    BY <1>2, PlaceReached, PlaceLeft DEF SubmissionClaimPresent, Idle
  <1>3. CASE AlreadySubmitted(p)
    BY <1>3, PlaceReached, PlaceLeft DEF AlreadySubmitted, Idle
  <1>4. CASE PreviewMatches(p)
    BY <1>4, PlaceLeft DEF PreviewMatches, Typed, TypeOK, Idle
  <1>5. CASE CreateConfirmationPreview(p)
    BY <1>5, PlaceLeft DEF CreateConfirmationPreview, Idle
  <1>6. CASE ConsumeConfirmationPreview(p)
    BY <1>6, PlaceLeft DEF ConsumeConfirmationPreview, Typed, TypeOK, Idle
  <1>7. CASE RenderResolves(p)
    BY <1>7 DEF RenderResolves, Typed, TypeOK
  <1>8. CASE RenderCommand(p)
    BY <1>8, PlaceLeft DEF RenderCommand, Idle
  <1>9. CASE Dies(p)
    BY <1>9, PlaceLeft DEF Dies, Idle
  <1> QED  BY <1>1, <1>2, <1>3, <1>4, <1>5, <1>6, <1>7, <1>8, <1>9

LEMMA StepExclusion == Typed /\ Exclusion /\ [Next]_vars => Exclusion'
  <1> SUFFICES ASSUME Typed, Exclusion, [Next]_vars PROVE Exclusion'  OBVIOUS
  <1> USE DEF Exclusion, Asked, Holding, Undecided, files, github, seen, At
  <1>1. ASSUME NEW p \in Invocations, Quiet(p) PROVE Exclusion'
    BY <1>1 DEF Quiet
  <1>2. ASSUME NEW p \in Invocations, AcquireSubmissionClaim(p) PROVE Exclusion'
    BY <1>2, PlaceReached, PlaceLeft DEF AcquireSubmissionClaim, Idle
  <1>3. ASSUME NEW p \in Invocations, MatchesConfirmed(p) PROVE Exclusion'
    BY <1>3, PlaceReached, PlaceLeft DEF MatchesConfirmed, ReleasesAndEnds, Idle
  <1>4. ASSUME NEW p \in Invocations, ExactExistingReport(p) PROVE Exclusion'
    BY <1>4, PlaceReached, PlaceLeft DEF ExactExistingReport, ReleasesAndEnds, Idle
  <1>5. ASSUME NEW p \in Invocations, GhIssueCreate(p) PROVE Exclusion'
    BY <1>5, PlaceReached DEF GhIssueCreate
  <1>6. ASSUME NEW p \in Invocations, GhAnswers(p) PROVE Exclusion'
    BY <1>6, PlaceReached, PlaceLeft DEF GhAnswers, Idle
  <1>7. ASSUME NEW p \in Invocations, WritePrivateNewAtomically(p) PROVE Exclusion'
    <2>1. call[p].token # None
      BY <1>7, ContentsAssumption DEF WritePrivateNewAtomically, Typed, Whole, Confirmed
    <2> QED  BY <1>7, <2>1, PlaceReached, PlaceLeft DEF WritePrivateNewAtomically, Idle
  <1>8. ASSUME NEW p \in Invocations, ReleaseSubmissionClaim(p) PROVE Exclusion'
    BY <1>8, PlaceLeft DEF ReleaseSubmissionClaim, ReleasesAndEnds, Idle
  <1>9. CASE PreviewExpires \/ Edit \/ UNCHANGED vars
    BY <1>9 DEF PreviewExpires, Edit, vars
  <1>10. CASE Restart
    BY <1>10 DEF Restart, Idle
  <1>11. CASE GitHubActs
    BY <1>11 DEF GitHubActs
  <1> QED
    BY QuietSteps, <1>1, <1>2, <1>3, <1>4, <1>5, <1>6, <1>7, <1>8, <1>9, <1>10, <1>11
    DEF Next, Submits

LEMMA StepSingularity ==
  Typed /\ Exclusion /\ Singularity /\ [Next]_vars => Singularity'
  <1> SUFFICES ASSUME Typed, Exclusion, Singularity, [Next]_vars PROVE Singularity'  OBVIOUS
  <1> USE DEF Singularity, Asked, Holding, Undecided, files, github, seen, At
  <1>1. ASSUME NEW p \in Invocations, Quiet(p) PROVE Singularity'
    BY <1>1 DEF Quiet
  <1>2. ASSUME NEW p \in Invocations, AcquireSubmissionClaim(p) PROVE Singularity'
    BY <1>2, PlaceReached, PlaceLeft DEF AcquireSubmissionClaim, Idle
  <1>3. ASSUME NEW p \in Invocations, MatchesConfirmed(p) PROVE Singularity'
    BY <1>3, PlaceReached, PlaceLeft DEF MatchesConfirmed, ReleasesAndEnds, Idle
  <1>4. ASSUME NEW p \in Invocations, ExactExistingReport(p) PROVE Singularity'
    <2>1. Asked = {} \/ receipt # None
      BY <1>4 DEF ExactExistingReport, Exclusion
    <2>2. UNCHANGED <<receipt, requests, issues>>  BY <1>4 DEF ExactExistingReport
    <2>3. CASE ReleasesAndEnds(p) /\ UNCHANGED missed
      BY <2>2, <2>3, PlaceLeft DEF ReleasesAndEnds, Idle
    <2>4. CASE Goes(p, "searched") /\ missed' = (missed \/ issues # {})
      <3>1. missed \/ issues # {} => missed'  BY <2>4
      <3>2. missed' \/ Asked = {}  BY <2>1, <3>1
      <3> QED  BY <2>2, <2>4, <3>1, <3>2, PlaceReached
    <2> QED  BY <1>4, <2>3, <2>4 DEF ExactExistingReport
  <1>5. ASSUME NEW p \in Invocations, GhIssueCreate(p) PROVE Singularity'
    <2>1. \A q \in Invocations : q # p => call[q].at # "searched"
      BY <1>5 DEF GhIssueCreate, Exclusion
    <2>2. missed \/ Asked = {}  BY <1>5 DEF GhIssueCreate
    <2>3. missed' \/ \A q, r \in Asked' : q = r  BY <1>5, <2>2 DEF GhIssueCreate
    <2>4. \A q \in Invocations : call'[q].at # "searched"
      BY <1>5, <2>1, PlaceReached DEF GhIssueCreate
    <2>5. \A q \in Invocations : call'[q].at = "answered" => issues' # {}
      BY <1>5, PlaceReached DEF GhIssueCreate
    <2>6. receipt' # None => issues' # {}  BY <1>5 DEF GhIssueCreate
    <2> QED  BY <2>3, <2>4, <2>5, <2>6
  <1>6. ASSUME NEW p \in Invocations, GhAnswers(p) PROVE Singularity'
    BY <1>6, PlaceReached, PlaceLeft DEF GhAnswers, Idle
  <1>7. ASSUME NEW p \in Invocations, WritePrivateNewAtomically(p) PROVE Singularity'
    BY <1>7, PlaceReached, PlaceLeft DEF WritePrivateNewAtomically, Idle
  <1>8. ASSUME NEW p \in Invocations, ReleaseSubmissionClaim(p) PROVE Singularity'
    BY <1>8, PlaceLeft DEF ReleaseSubmissionClaim, ReleasesAndEnds, Idle
  <1>9. CASE PreviewExpires \/ Edit \/ UNCHANGED vars
    BY <1>9 DEF PreviewExpires, Edit, vars
  <1>10. CASE Restart
    BY <1>10 DEF Restart, Idle
  <1>11. CASE GitHubActs
    BY <1>11 DEF GitHubActs
  <1> QED
    BY QuietSteps, <1>1, <1>2, <1>3, <1>4, <1>5, <1>6, <1>7, <1>8, <1>9, <1>10, <1>11
    DEF Next, Submits

(* A step in which no invocation comes by a token or asks for an issue.    *)
Keeps(p) ==
    /\ UNCHANGED <<shown, requests, issues>>
    /\ preview' = preview \/ preview' = None
    /\ \A q \in Invocations : q # p => call'[q] = call[q]
    /\ \/ call'[p].at \notin Confirmed
       \/ /\ call'[p].report = call[p].report /\ call'[p].token = call[p].token
          /\ call'[p].digest = call[p].digest
          /\ call[p].at \in Confirmed
          /\ call'[p].at \in Unspent => call[p].at \in Unspent
          /\ call'[p].at = "searched" => call[p].at = "matched"
          /\ call'[p].at = "matched" =>
                call[p].digest = SubmissionDigest(call[p].report, RenderReport(call[p].report))

LEMMA KeepingSteps ==
  ASSUME Typed, NEW p \in Invocations,
         \/ \E t \in Tokens \cup {None} : ResolveReport(p, t)
         \/ SubmissionClaimPresent(p) \/ AlreadySubmitted(p) \/ PreviewMatches(p)
         \/ AcquireSubmissionClaim(p) \/ MatchesConfirmed(p) \/ ExactExistingReport(p)
         \/ GhAnswers(p) \/ WritePrivateNewAtomically(p) \/ ReleaseSubmissionClaim(p)
         \/ RenderResolves(p) \/ RenderCommand(p) \/ Dies(p)
  PROVE  Keeps(p)
  <1> USE DEF files, github, seen, At, Keeps, Confirmed, Holding, Unspent, Undecided, Idle
  <1>1. ASSUME NEW t \in Tokens \cup {None}, ResolveReport(p, t) PROVE Keeps(p)
    BY <1>1 DEF ResolveReport, Typed, TypeOK
  <1>2. CASE SubmissionClaimPresent(p)
    BY <1>2, PlaceReached, PlaceLeft DEF SubmissionClaimPresent
  <1>3. CASE AlreadySubmitted(p)
    BY <1>3, PlaceReached, PlaceLeft DEF AlreadySubmitted
  <1>4. CASE PreviewMatches(p)
    BY <1>4, PlaceLeft DEF PreviewMatches, Typed, TypeOK
  <1>5. CASE AcquireSubmissionClaim(p)
    BY <1>5, PlaceReached, PlaceLeft DEF AcquireSubmissionClaim
  <1>6. CASE MatchesConfirmed(p)
    BY <1>6, PlaceReached, PlaceLeft DEF MatchesConfirmed, ReleasesAndEnds
  <1>7. CASE ExactExistingReport(p)
    BY <1>7, PlaceReached, PlaceLeft DEF ExactExistingReport, ReleasesAndEnds
  <1>8. CASE GhAnswers(p)
    BY <1>8, PlaceReached, PlaceLeft DEF GhAnswers
  <1>9. CASE WritePrivateNewAtomically(p)
    BY <1>9, PlaceReached, PlaceLeft DEF WritePrivateNewAtomically
  <1>10. CASE ReleaseSubmissionClaim(p)
    BY <1>10, PlaceLeft DEF ReleaseSubmissionClaim, ReleasesAndEnds
  <1>11. CASE RenderResolves(p)
    BY <1>11 DEF RenderResolves, Typed, TypeOK
  <1>12. CASE RenderCommand(p)
    BY <1>12, PlaceLeft DEF RenderCommand
  <1>13. CASE Dies(p)
    BY <1>13, PlaceLeft DEF Dies
  <1> QED
    BY <1>1, <1>2, <1>3, <1>4, <1>5, <1>6, <1>7, <1>8, <1>9, <1>10, <1>11, <1>12, <1>13

LEMMA StepTokens == Typed /\ TokensInOnePlace /\ [Next]_vars => TokensInOnePlace'
  <1> SUFFICES ASSUME Typed, TokensInOnePlace, [Next]_vars PROVE TokensInOnePlace'
    OBVIOUS
  <1> USE DEF TokensInOnePlace, ShownWith, Asked, Confirmed, Unspent, Holding, Undecided,
              files, github, seen, At
  <1>1. ASSUME NEW p \in Invocations, Keeps(p) PROVE TokensInOnePlace'
    BY <1>1 DEF Keeps
  <1>2. ASSUME NEW p \in Invocations, CreateConfirmationPreview(p) PROVE TokensInOnePlace'
    <2>1. CASE UNCHANGED <<preview, shown>>
      BY <1>2, <2>1, PlaceLeft DEF CreateConfirmationPreview, Idle
    <2>2. ASSUME NEW t \in Tokens \ {s.token : s \in shown},
                 preview' = [token |-> t, digest |-> call[p].digest, live |-> TRUE],
                 shown' = shown \cup {[token |-> t, digest |-> call[p].digest]}
          PROVE  TokensInOnePlace'
      <3>1. \A x, d : ShownWith(x, d) => x # t
        <4> SUFFICES ASSUME NEW x, NEW d, ShownWith(x, d), x = t PROVE FALSE  OBVIOUS
        <4>1. [token |-> x, digest |-> d].token \in {s.token : s \in shown}  OBVIOUS
        <4> QED  BY <4>1
      <3>2. \A x, d : ShownWith(x, d) => ShownWith(x, d)'
        BY <2>2
      <3>3. call'[p] = Idle /\ \A q \in Invocations : q # p => call'[q] = call[q]
        BY <1>2, PlaceLeft DEF CreateConfirmationPreview
      <3>4. UNCHANGED <<requests, issues>>  BY <1>2 DEF CreateConfirmationPreview
      <3> HIDE DEF ShownWith
      <3>5. (preview # None => ShownWith(preview.token, preview.digest))'
        BY <2>2 DEF ShownWith
      <3> QED  BY <2>2, <3>1, <3>2, <3>3, <3>4, <3>5 DEF Idle
    <2> QED  BY <1>2, <2>1, <2>2 DEF CreateConfirmationPreview
  <1>3. ASSUME NEW p \in Invocations, ConsumeConfirmationPreview(p) PROVE TokensInOnePlace'
    <2>1. CASE Confirms(p)
      <3>1. call'[p] = [call[p] EXCEPT !.at = "confirmed", !.digest = preview.digest]
        BY <1>3, <2>1 DEF ConsumeConfirmationPreview, Typed, TypeOK
      <3>2. call'[p].at = "confirmed" /\ call'[p].token = preview.token
            /\ call'[p].digest = preview.digest /\ preview # None
        BY <3>1, <2>1 DEF Confirms, Typed, TypeOK
      <3>3. \A q \in Invocations : q # p => call'[q] = call[q]
        BY <1>3, <2>1 DEF ConsumeConfirmationPreview, Typed, TypeOK
      <3> QED  BY <1>3, <3>2, <3>3 DEF ConsumeConfirmationPreview
    <2>2. CASE ~Confirms(p)
      BY <1>3, <2>2, PlaceLeft DEF ConsumeConfirmationPreview, Idle
    <2> QED  BY <2>1, <2>2
  <1>4. ASSUME NEW p \in Invocations, GhIssueCreate(p) PROVE TokensInOnePlace'
    <2> DEFINE r == Request(p, RenderReport(call[p].report))
    <2>1. r.token = call[p].token /\ r.digest = call[p].digest
      BY <1>4 DEF GhIssueCreate, Request
    <2>2. Asked' = Asked \cup {r} /\ UNCHANGED <<preview, shown>>
      BY <1>4 DEF GhIssueCreate
    <2>3. /\ call'[p].at = "creating" /\ call'[p].token = call[p].token
          /\ call'[p].digest = call[p].digest /\ call[p].at = "searched"
          /\ \A q \in Invocations : q # p => call'[q] = call[q]
      BY <1>4, PlaceReached DEF GhIssueCreate
    <2> HIDE DEF r, Asked
    <2> QED  BY <2>1, <2>2, <2>3
  <1>5. CASE PreviewExpires
    BY <1>5 DEF PreviewExpires, Typed, TypeOK
  <1>6. CASE Edit \/ UNCHANGED vars
    BY <1>6 DEF Edit, vars
  <1>7. CASE Restart
    BY <1>7 DEF Restart, Idle
  <1>8. CASE GitHubActs
    BY <1>8 DEF GitHubActs
  <1> QED
    BY KeepingSteps, <1>1, <1>2, <1>3, <1>4, <1>5, <1>6, <1>7, <1>8 DEF Next, Submits

LEMMA Invariance == Spec => []Inv
  <1>1. Inv /\ [Next]_vars => Inv'
    BY StepTyped, StepExclusion, StepSingularity, StepTokens DEF Inv
  <1> QED  BY InitInv, <1>1, PTL DEF Spec

-----------------------------------------------------------------------------
(* Every file, invocation and request keeps its values, for any number of  *)
(* invocations, reports and tokens.                                        *)
THEOREM TypeCorrect == Spec => []TypeOK
  <1>1. Inv => TypeOK  BY DEF Inv, Typed
  <1> QED  BY Invariance, <1>1, PTL

(* Once GitHub has been asked for an issue, the claim or the receipt is    *)
(* there, through any deaths, restarts and lost answers.                   *)
THEOREM UncertaintyIsLocked == Spec => []UncertainIsLocked
  <1>1. Inv => UncertainIsLocked  BY DEF Inv, Exclusion, Asked, UncertainIsLocked
  <1> QED  BY Invariance, <1>1, PTL

(* GitHub is only asked for what was shown with the token that confirmed   *)
(* it, and once for each token.                                            *)
THEOREM IssuesAreConfirmed == Spec => []EachIssueConfirmed
  <1>1. Inv => EachIssueConfirmed
    BY DEF Inv, TokensInOnePlace, ShownWith, Asked, EachIssueConfirmed
  <1> QED  BY Invariance, <1>1, PTL

(* A second issue needs a search that missed the first.                    *)
THEOREM OneIssue == Spec => []OneIssueUnlessMissed
  <1>1. ASSUME Inv, ~missed PROVE Cardinality(Asked) <= 1
    <2>1. CASE Asked = {}
      <3>1. Cardinality({}) = 0  BY FS_EmptySet
      <3> QED  BY <2>1, <3>1
    <2>2. ASSUME NEW r \in Asked PROVE Cardinality(Asked) <= 1
      <3>1. Asked = {r}  BY <1>1 DEF Inv, Singularity
      <3>2. Cardinality({r}) = 1  BY FS_Singleton
      <3> QED  BY <3>1, <3>2
    <2> QED  BY <2>1, <2>2
  <1>2. Inv => OneIssueUnlessMissed  BY <1>1 DEF OneIssueUnlessMissed, Asked
  <1> QED  BY Invariance, <1>2, PTL
=============================================================================
