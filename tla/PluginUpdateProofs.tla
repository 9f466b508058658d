--------------------------- MODULE PluginUpdateProofs ---------------------------
(***************************************************************************)
(* The transaction of the managed plugin, for any images and any bounds on *)
(* what happens to it.                                                     *)
(***************************************************************************)
EXTENDS PluginUpdate, SequenceTheorems, TLAPS

Kept == [whole : BOOLEAN, aside : BOOLEAN, mark : {"none", "current", "spared"}]

(* What an open journal says about the plugin and the displaced one: the   *)
(* old tree is in place or displaced, and where the new tree is, or none,  *)
(* it is displaced.                                                        *)
JournalTells ==
    journal # None =>
        /\ journal.candidate # None => journal.candidate # journal.before
        /\ \/ target = journal.before /\ dir.displaced = None
           \/ target = None /\ dir.displaced = journal.before
           \/ /\ target = journal.candidate /\ journal.candidate # None
              /\ dir.displaced = journal.before
        /\ journal.phase \in DonePhases =>
             target = journal.candidate /\ journal.candidate # None /\ stage = "none"

(* Where the updater is tells whether a journal is open, and how far.      *)
PlaceTells ==
    /\ at \in {"looking", "preflighted", "pruning", "services"} => journal = None
    /\ at \in {"restoring", "clearing"} => journal # None /\ journal.phase \notin DonePhases
    /\ at = "clearing" => target = journal.before
    /\ at = "finishing" => journal # None /\ journal.phase \in DonePhases
    /\ at = "looking" => run.mode = "start"
    /\ at \in {"recovering", "restoring", "clearing"} => run.mode # "install"

(* An installation that has begun: its journal is its own, and the trees   *)
(* are where its steps have put them.                                      *)
BeforeActivation ==
    {"backed_up", "staging", "staged", "describing", "validated", "activating", "displacing"}
AfterActivation == {"activated", "postcondition_verified", "committed"}
Installing == at \in BeforeActivation \union {"replacing"} \union AfterActivation
InstallTells ==
    /\ at = "preflighted" => run.mode = "install" /\ run.before = target
    /\ at = "preflighted" \/ Installing =>
         run.mode = "install" /\ run.before # Candidate(image)
    /\ Installing => journal # None
    /\ Installing /\ at # "committed" => journal.phase \notin DonePhases
    /\ at = "committed" => journal.phase \in DonePhases
    /\ Installing /\ at \notin {"backed_up", "staging", "staged"} =>
         journal.candidate = Candidate(image)
    /\ run.mode # "start" /\ journal # None => journal.before = run.before
    /\ at \in BeforeActivation => target = run.before /\ dir.displaced = None
    /\ at = "replacing" => target = None /\ dir.displaced = run.before
    /\ at \in AfterActivation =>
         target = Candidate(image) /\ dir.displaced = run.before /\ stage = "none"

(* What the services will find, once only the pruning is left.             *)
HasCurrent == \E j \in DOMAIN kept : kept[j].mark = "current" /\ kept[j].whole
EndTells ==
    /\ at # "off" /\ run.mode # "start" /\ journal # None /\ journal.candidate # None =>
         journal.candidate = Candidate(image)
    /\ at = "recovering" /\ run.mode = "caught" /\ journal = None => target = Candidate(image)
    /\ at \in AfterActivation \union {"validated", "activating", "displacing", "replacing"} =>
         dir.manifest
    /\ at = "finishing" /\ run.mode = "install" => dir.manifest
    /\ at = "pruning" =>
         /\ target # None /\ (target.version = image \/ (run.mode = "caught" /\ target = run.before))
         /\ run.mode = "install" /\ run.before # None => HasCurrent

IInv == TypeOK /\ JournalTells /\ PlaceTells /\ InstallTells /\ EndTells

-----------------------------------------------------------------------------
(* A directory that is put anywhere between the others is one of them.     *)
LEMMA Inserted ==
  ASSUME NEW S, NEW s \in Seq(S), NEW e \in S, NEW i \in 1..Len(s) + 1
  PROVE  /\ InsertAt(s, i, e) \in Seq(S)
         /\ \E j \in DOMAIN InsertAt(s, i, e) : InsertAt(s, i, e)[j] = e
<1> DEFINE left == SubSeq(s, 1, i - 1)
           right == SubSeq(s, i, Len(s))
<1>1. Len(s) \in Nat /\ i \in Nat
  BY LenProperties
<1>2. left \in Seq(S)
  BY <1>1, ElementOfSeq, SubSeqProperties
<1>3. right \in Seq(S)
  BY <1>1, ElementOfSeq, SubSeqProperties
<1>4. InsertAt(s, i, e) = left \o <<e>> \o right
  BY DEF InsertAt
<1> HIDE DEF left, right
<1>5. Len(left) \in Nat /\ Len(right) \in Nat
  BY <1>2, <1>3, LenProperties
<1>6. <<e>> \in Seq(S) /\ Len(<<e>>) = 1 /\ <<e>>[1] = e
  OBVIOUS
<1>7. left \o <<e>> \in Seq(S) /\ Len(left \o <<e>>) = Len(left) + 1
  BY <1>2, <1>6, ConcatProperties
<1>8. (left \o <<e>>)[Len(left) + 1] = e
  <2>1. Len(left) + 1 \in 1..Len(left) + Len(<<e>>)
    BY <1>5, <1>6
  <2>2. (left \o <<e>>)[Len(left) + 1] =
          IF Len(left) + 1 <= Len(left) THEN left[Len(left) + 1]
          ELSE <<e>>[(Len(left) + 1) - Len(left)]
    BY <1>2, <1>6, <2>1, ConcatProperties
  <2>3. (Len(left) + 1) - Len(left) = 1 /\ ~(Len(left) + 1 <= Len(left))
    BY <1>5
  <2> QED
    BY <1>6, <2>2, <2>3
<1>9. /\ left \o <<e>> \o right \in Seq(S)
      /\ Len(left \o <<e>> \o right) = (Len(left) + 1) + Len(right)
  BY <1>3, <1>5, <1>7, ConcatProperties
<1>10. (left \o <<e>> \o right)[Len(left) + 1] = e
  <2>1. Len(left) + 1 \in 1..Len(left \o <<e>>) + Len(right)
    BY <1>5, <1>7
  <2>2. (left \o <<e>> \o right)[Len(left) + 1] =
          IF Len(left) + 1 <= Len(left \o <<e>>) THEN (left \o <<e>>)[Len(left) + 1]
          ELSE right[(Len(left) + 1) - Len(left \o <<e>>)]
    BY <1>3, <1>7, <2>1, ConcatProperties
  <2>3. Len(left) + 1 <= Len(left \o <<e>>)
    BY <1>5, <1>7
  <2> QED
    BY <1>8, <2>2, <2>3
<1>11. DOMAIN (left \o <<e>> \o right) = 1..((Len(left) + 1) + Len(right))
  BY <1>9, LenProperties
<1>12. Len(left) + 1 \in DOMAIN (left \o <<e>> \o right)
  BY <1>5, <1>11
<1> QED
  BY <1>4, <1>9, <1>10, <1>12, Zenon

(* When one is removed, the others are still there.                        *)
LEMMA Removed ==
  ASSUME NEW S, NEW s \in Seq(S), NEW i \in DOMAIN s
  PROVE  /\ RemoveAt(s, i) \in Seq(S)
         /\ \A j \in DOMAIN s \ {i} : \E k \in DOMAIN RemoveAt(s, i) : RemoveAt(s, i)[k] = s[j]
<1> DEFINE before == SubSeq(s, 1, i - 1)
           after == SubSeq(s, i + 1, Len(s))
<1>1. Len(s) \in Nat /\ DOMAIN s = 1..Len(s) /\ i \in 1..Len(s)
  BY LenProperties
<1>2. /\ before \in Seq(S) /\ Len(before) = i - 1
      /\ \A k \in 1..i - 1 : before[k] = s[k]
  BY <1>1, ElementOfSeq, SubSeqProperties
<1>3. /\ after \in Seq(S) /\ Len(after) = Len(s) - i
      /\ \A k \in 1..Len(s) - i : after[k] = s[i + k]
  BY <1>1, ElementOfSeq, SubSeqProperties
<1> HIDE DEF before, after
<1>4. /\ before \o after \in Seq(S)
      /\ Len(before \o after) = Len(s) - 1
      /\ \A k \in 1..Len(s) - 1 :
           (before \o after)[k] = IF k <= i - 1 THEN before[k] ELSE after[k - (i - 1)]
  <2>1. Len(before) + Len(after) = Len(s) - 1
    BY <1>1, <1>2, <1>3
  <2>2. /\ before \o after \in Seq(S)
        /\ Len(before \o after) = Len(before) + Len(after)
        /\ \A k \in 1..Len(before) + Len(after) :
             (before \o after)[k] = IF k <= Len(before) THEN before[k] ELSE after[k - Len(before)]
    BY <1>2, <1>3, ConcatProperties, Zenon
  <2> QED
    BY <1>2, <2>1, <2>2
<1>5. ASSUME NEW j \in DOMAIN s \ {i}
      PROVE  \E k \in DOMAIN (before \o after) : (before \o after)[k] = s[j]
  <2>1. DOMAIN (before \o after) = 1..Len(s) - 1
    BY <1>4, LenProperties
  <2>2. CASE j < i
    <3>1. j \in 1..Len(s) - 1 /\ j \in 1..i - 1 /\ j <= i - 1
      BY <1>1, <1>5, <2>2
    <3>2. (before \o after)[j] = before[j] /\ before[j] = s[j]
      BY <1>2, <1>4, <3>1
    <3> QED
      BY <2>1, <3>1, <3>2
  <2>3. CASE j > i
    <3>1. j - 1 \in 1..Len(s) - 1 /\ j - i \in 1..Len(s) - i
      BY <1>1, <2>3
    <3>2. (before \o after)[j - 1] = after[j - i]
      BY <1>1, <1>4, <2>3, <3>1
    <3>3. after[j - i] = s[j]
      BY <1>1, <1>3, <2>3, <3>1
    <3> QED
      BY <2>1, <3>1, <3>2, <3>3
  <2> QED
    BY <1>1, <1>5, <2>2, <2>3
<1> QED
  BY <1>4, <1>5 DEF RemoveAt, before, after

(* So the backup of this start outlives what is pruned, whole or not.      *)
LEMMA PruningSpares ==
  ASSUME kept \in Seq(Kept), NEW i \in DOMAIN kept, kept[i].mark # "current",
         kept' = RemoveAt(kept, i)
  PROVE  kept' \in Seq(Kept) /\ (HasCurrent => HasCurrent')
<1>1. kept' \in Seq(Kept)
  BY Removed
<1>2. ASSUME NEW j \in DOMAIN kept, kept[j].mark = "current", kept[j].whole
      PROVE  HasCurrent'
  <2>1. j \in DOMAIN kept \ {i}
    BY <1>2
  <2>2. PICK k \in DOMAIN RemoveAt(kept, i) : RemoveAt(kept, i)[k] = kept[j]
    BY <2>1, Removed
  <2> QED
    BY <1>2, <2>2 DEF HasCurrent
<1> QED
  BY <1>1, <1>2 DEF HasCurrent

(* A removal that fails or is interrupted touches one directory as well,   *)
(* and never that of this start.                                           *)
LEMMA SpoilingSpares ==
  ASSUME kept \in Seq(Kept), NEW i \in DOMAIN kept, kept[i].mark # "current",
         NEW aside \in BOOLEAN, NEW mark \in {"none", "spared"}, Spoilt(i, aside, mark)
  PROVE  kept' \in Seq(Kept) /\ (HasCurrent => HasCurrent')
<1>1. CASE kept' = [kept EXCEPT ![i].aside = aside, ![i].mark = mark]
  <2>1. Len(kept) \in Nat /\ DOMAIN kept = 1..Len(kept) /\ kept \in [1..Len(kept) -> Kept]
    BY LenProperties
  <2> DEFINE spoilt == [kept[i] EXCEPT !.aside = aside, !.mark = mark]
  <2>2. kept' = [kept EXCEPT ![i] = spoilt]
    BY <1>1
  <2>3. spoilt \in Kept
    BY <2>1 DEF Kept
  <2> HIDE DEF spoilt
  <2>4. kept' \in Seq(Kept) /\ DOMAIN kept' = DOMAIN kept
        /\ \A j \in DOMAIN kept \ {i} : kept'[j] = kept[j]
    BY <2>1, <2>2, <2>3, ExceptSeq
  <2> QED
    BY <2>4 DEF HasCurrent
<1>2. CASE kept' = Append(RemoveAt(kept, i), [whole |-> FALSE, aside |-> aside, mark |-> mark])
  <2> DEFINE rest == RemoveAt(kept, i)
             spoilt == [whole |-> FALSE, aside |-> aside, mark |-> mark]
  <2>1. rest \in Seq(Kept)
    BY Removed
  <2>2. spoilt \in Kept
    BY DEF Kept
  <2>3. kept' = Append(rest, spoilt)
    BY <1>2
  <2>4. \A j \in DOMAIN kept \ {i} : \E k \in DOMAIN rest : rest[k] = kept[j]
    BY Removed
  <2> HIDE DEF rest, spoilt
  <2>5. /\ kept' \in Seq(Kept)
        /\ Len(kept') = Len(rest) + 1
        /\ \A k \in 1..Len(rest) : kept'[k] = rest[k]
    BY <2>1, <2>2, <2>3, AppendProperties
  <2>6. Len(rest) \in Nat /\ DOMAIN rest = 1..Len(rest) /\ DOMAIN kept' = 1..Len(kept')
    BY <2>1, <2>5, LenProperties
  <2>7. \A k \in DOMAIN rest : k \in DOMAIN kept' /\ kept'[k] = rest[k]
    BY <2>5, <2>6
  <2> QED
    BY <2>4, <2>5, <2>7 DEF HasCurrent
<1>3. CASE kept' = RemoveAt(kept, i)
  BY <1>3, PruningSpares
<1> QED
  BY <1>1, <1>2, <1>3 DEF Spoilt

(* The directory of a transaction that ends joins them.                    *)
LEMMA LeavingAdds ==
  ASSUME TypeOK, Leaves
  PROVE  /\ journal' = None /\ dir' = NewDirectory
         /\ kept' \in Seq(Kept)
         /\ dir.manifest /\ run.mode # "start" /\ run.before # None => HasCurrent'
<1>1. kept \in Seq(Kept) /\ dir.manifest \in BOOLEAN
  BY DEF TypeOK, Kept
<1>2. CASE ~dir.manifest
  BY <1>1, <1>2 DEF Leaves
<1>3. CASE dir.manifest
  <2>1. PICK i \in 1..Len(kept) + 1 : kept' = InsertAt(kept, i, Ended)
    BY <1>3 DEF Leaves
  <2>2. Ended \in Kept
    BY DEF Ended, Kept
  <2>3. kept' \in Seq(Kept) /\ \E j \in DOMAIN kept' : kept'[j] = Ended
    BY <1>1, <2>1, <2>2, Inserted
  <2>4. run.mode # "start" /\ run.before # None => Ended.mark = "current" /\ Ended.whole
    BY DEF Ended
  <2> QED
    BY <2>3, <2>4 DEF Leaves, HasCurrent
<1> QED
  BY <1>1, <1>2, <1>3

-----------------------------------------------------------------------------
(* The tree that an installation makes is a tree of the image's version.   *)
LEMMA CandidateIs ==
  ASSUME TypeOK
  PROVE  Candidate(image) \in Trees /\ Candidate(image).version = image /\ Candidate(image) # None
<1>1. Candidate(image) \in Trees /\ Candidate(image).version = image
  BY DEF TypeOK, Candidate, Trees
<1> QED
  BY <1>1, NoneAssumption

UsedIs == used \in [images : 0..MaxImages, edits : 0..MaxEdits, failures : 0..MaxFailures]

(* The bounded events are counted within their bounds.                     *)
LEMMA CountingIs ==
  ASSUME UsedIs
  PROVE  /\ Fails => UsedIs'
         /\ used.edits < MaxEdits /\ used' = [used EXCEPT !.edits = @ + 1] => UsedIs'
         /\ used.images < MaxImages /\ used' = [used EXCEPT !.images = @ + 1] => UsedIs'
  BY BoundsAssumption DEF UsedIs, Fails

(* What is saved in the journal: the new tree from the phase staged on.    *)
LEMMA JournalIs ==
  ASSUME TypeOK, at \in Phases
  PROVE  /\ Journal \in Journals /\ Journal # None
         /\ Journal.phase = at /\ Journal.before = run.before
         /\ at \in {"preflighted", "backed_up"} => Journal.candidate = None
         /\ at \notin {"preflighted", "backed_up"} => Journal.candidate = Candidate(image)
<1>1. Journal \in Journals
  BY CandidateIs DEF Journal, Journals, TypeOK
<1> QED
  BY <1>1, NoneAssumption DEF Journal

(* Each phase is followed by the step that the next phase reports.         *)
LEMMA AfterSavingIs ==
  ASSUME at \in Phases
  PROVE  /\ at = "preflighted" => AfterSaving = "backed_up"
         /\ at = "backed_up" => AfterSaving = "staging"
         /\ at = "staged" => AfterSaving = "describing"
         /\ at = "validated" => AfterSaving = "activating"
         /\ at = "activating" => AfterSaving \in {"displacing", "replacing"}
                                  /\ (AfterSaving = "replacing" => run.before = None)
         /\ at = "activated" => AfterSaving = "postcondition_verified"
         /\ at = "postcondition_verified" => AfterSaving = "committed"
         /\ at = "committed" => AfterSaving = "finishing"
  BY DEF AfterSaving

-----------------------------------------------------------------------------
(* Nothing is installed, and nothing under way, before the first start.    *)
LEMMA InitIInv == Init => IInv
<1> SUFFICES ASSUME Init PROVE IInv
  OBVIOUS
<1> USE BoundsAssumption DEF Init
<1>1. TypeOK
  BY DEF TypeOK, NewDirectory, Places
<1> QED
  BY <1>1 DEF IInv, JournalTells, PlaceTells, InstallTells, EndTells, Installing,
              BeforeActivation, AfterActivation

Recovery == Recover \/ MoveNewAside \/ MoveOldBack \/ Restored \/ MoveStageAside

(* Going back, and deciding to: the trees only move between the places in  *)
(* which JournalTells looks for them, until the old one is in its own.     *)
LEMMA RecoveryKeepsIInv == IInv /\ Recovery => IInv'
<1> SUFFICES ASSUME IInv, Recovery PROVE IInv'
  OBVIOUS
<1> USE NoneAssumption, BoundsAssumption DEF IInv, Goes
<1>1. CASE Recover
  <2>1. TypeOK'
    BY <1>1 DEF Recover, TypeOK, Places, Recovered, AfterRecovery
  <2>2. JournalTells'
    BY <1>1 DEF Recover, JournalTells, Recovered, AfterRecovery
  <2>3. PlaceTells'
    BY <1>1 DEF Recover, PlaceTells, Recovered, AfterRecovery
  <2>4. InstallTells'
    <3>1. CASE journal # None
      BY <1>1, <3>1
         DEF Recover, TypeOK, InstallTells, Installing, BeforeActivation, AfterActivation
    <3>2. CASE journal = None
      BY <1>1, <3>2, CandidateIs
         DEF Recover, Recovered, AfterRecovery, TypeOK, InstallTells, Installing,
             BeforeActivation, AfterActivation
    <3> QED
      BY <3>1, <3>2
  <2>5. EndTells'
    <3>1. CASE journal # None
      BY <1>1, <3>1 DEF Recover, EndTells, PlaceTells, AfterActivation
    <3>2. CASE journal = None
      BY <1>1, <3>2, CandidateIs
         DEF Recover, Recovered, AfterRecovery, TypeOK, EndTells, PlaceTells,
             AfterActivation
    <3> QED
      BY <3>1, <3>2
  <2> QED
    BY <2>1, <2>2, <2>3, <2>4, <2>5
<1>2. CASE MoveNewAside
  <2>1. TypeOK'
    BY <1>2 DEF MoveNewAside, TypeOK, PlaceTells
  <2>2. JournalTells'
    BY <1>2 DEF MoveNewAside, JournalTells, PlaceTells
  <2>3. PlaceTells'
    BY <1>2 DEF MoveNewAside, PlaceTells
  <2>4. InstallTells'
    BY <1>2 DEF MoveNewAside, PlaceTells, InstallTells, Installing
  <2>5. EndTells'
    BY <1>2 DEF MoveNewAside, EndTells
  <2> QED
    BY <2>1, <2>2, <2>3, <2>4, <2>5
<1>3. CASE MoveOldBack
  <2>1. TypeOK'
    BY <1>3 DEF MoveOldBack, TypeOK, PlaceTells
  <2>2. JournalTells'
    BY <1>3 DEF MoveOldBack, JournalTells
  <2>3. PlaceTells'
    BY <1>3 DEF MoveOldBack, PlaceTells
  <2>4. InstallTells'
    BY <1>3 DEF MoveOldBack, PlaceTells, InstallTells, Installing
  <2>5. EndTells'
    BY <1>3 DEF MoveOldBack, EndTells
  <2> QED
    BY <2>1, <2>2, <2>3, <2>4, <2>5
<1>4. CASE Restored
  <2>1. TypeOK'
    BY <1>4 DEF Restored, TypeOK, Places
  <2>2. JournalTells'
    BY <1>4 DEF Restored, JournalTells
  <2>3. PlaceTells'
    BY <1>4 DEF Restored, PlaceTells, IsRestored
  <2>4. InstallTells'
    BY <1>4 DEF Restored, InstallTells, Installing, BeforeActivation, AfterActivation
  <2>5. EndTells'
    BY <1>4 DEF Restored, EndTells, AfterActivation
  <2> QED
    BY <2>1, <2>2, <2>3, <2>4, <2>5
<1>5. CASE MoveStageAside
  <2>1. TypeOK'
    BY <1>5 DEF MoveStageAside, TypeOK
  <2>2. JournalTells'
    BY <1>5 DEF MoveStageAside, JournalTells
  <2>3. PlaceTells'
    BY <1>5 DEF MoveStageAside, PlaceTells
  <2>4. InstallTells'
    BY <1>5 DEF MoveStageAside, InstallTells, Installing
  <2>5. EndTells'
    BY <1>5 DEF MoveStageAside, EndTells
  <2> QED
    BY <2>1, <2>2, <2>3, <2>4, <2>5
<1> QED
  BY <1>1, <1>2, <1>3, <1>4, <1>5 DEF Recovery

Installation == Look \/ Stage \/ Describe \/ Displace \/ Replace \/ Save

(* Going forward: the journal names the new tree before it is in place,    *)
(* and calls it good only then.                                            *)
LEMMA InstallKeepsIInv == IInv /\ Installation => IInv'
<1> SUFFICES ASSUME IInv, Installation PROVE IInv'
  OBVIOUS
<1> USE NoneAssumption, BoundsAssumption DEF IInv, Goes
<1>1. CASE Look
  <2>1. TypeOK'
    BY <1>1 DEF Look, TypeOK, Places, Phases
  <2>2. JournalTells'
    BY <1>1 DEF Look, JournalTells
  <2>3. PlaceTells'
    BY <1>1 DEF Look, PlaceTells
  <2>4. InstallTells'
    BY <1>1, CandidateIs
       DEF Look, PlaceTells, InstallTells, Installing, BeforeActivation, AfterActivation,
           IsInstalled
  <2>5. EndTells'
    BY <1>1 DEF Look, PlaceTells, EndTells, AfterActivation, IsInstalled
  <2> QED
    BY <2>1, <2>2, <2>3, <2>4, <2>5
<1>2. CASE Stage
  <2>1. TypeOK'
    BY <1>2 DEF Stage, TypeOK, Places, InstallTells, Installing, BeforeActivation, Phases
  <2>2. JournalTells'
    BY <1>2 DEF Stage, JournalTells, InstallTells, Installing, BeforeActivation
  <2>3. PlaceTells'
    BY <1>2 DEF Stage, PlaceTells
  <2>4. InstallTells'
    BY <1>2 DEF Stage, InstallTells, Installing, BeforeActivation, AfterActivation
  <2>5. EndTells'
    BY <1>2 DEF Stage, EndTells, AfterActivation
  <2> QED
    BY <2>1, <2>2, <2>3, <2>4, <2>5
<1>3. CASE Describe
  <2>1. TypeOK'
    BY <1>3 DEF Describe, TypeOK, Places, InstallTells, Installing, BeforeActivation, Phases
  <2>2. JournalTells'
    BY <1>3 DEF Describe, JournalTells
  <2>3. PlaceTells'
    BY <1>3 DEF Describe, PlaceTells
  <2>4. InstallTells'
    BY <1>3 DEF Describe, InstallTells, Installing, BeforeActivation, AfterActivation
  <2>5. EndTells'
    BY <1>3 DEF Describe, EndTells
  <2> QED
    BY <2>1, <2>2, <2>3, <2>4, <2>5
<1>4. CASE Displace
  <2>1. TypeOK'
    BY <1>4 DEF Displace, TypeOK, Places, InstallTells, Installing, BeforeActivation
  <2>2. JournalTells'
    BY <1>4 DEF Displace, JournalTells, InstallTells, Installing, BeforeActivation
  <2>3. PlaceTells'
    BY <1>4 DEF Displace, PlaceTells
  <2>4. InstallTells'
    BY <1>4 DEF Displace, InstallTells, Installing, BeforeActivation, AfterActivation
  <2>5. EndTells'
    BY <1>4 DEF Displace, EndTells
  <2> QED
    BY <2>1, <2>2, <2>3, <2>4, <2>5
<1>5. CASE Replace
  <2>1. TypeOK'
    BY <1>5, CandidateIs DEF Replace, TypeOK, Places, Phases
  <2>2. JournalTells'
    BY <1>5 DEF Replace, JournalTells, InstallTells, Installing
  <2>3. PlaceTells'
    BY <1>5 DEF Replace, PlaceTells
  <2>4. InstallTells'
    BY <1>5 DEF Replace, InstallTells, Installing, BeforeActivation
  <2>5. EndTells'
    BY <1>5 DEF Replace, EndTells
  <2> QED
    BY <2>1, <2>2, <2>3, <2>4, <2>5
<1>6. CASE Save
  <2> USE DEF Save
  <2>6. /\ journal' \in Journals /\ journal' # None
        /\ journal'.phase = at /\ journal'.before = run.before
        /\ at \in {"preflighted", "backed_up"} => journal'.candidate = None
        /\ at \notin {"preflighted", "backed_up"} => journal'.candidate = Candidate(image)
    BY <1>6, JournalIs
  <2>7. /\ at = "preflighted" => at' = "backed_up"
        /\ at = "backed_up" => at' = "staging"
        /\ at = "staged" => at' = "describing"
        /\ at = "validated" => at' = "activating"
        /\ at = "activating" => at' \in {"displacing", "replacing"}
                               /\ (at' = "replacing" => run.before = None)
        /\ at = "activated" => at' = "postcondition_verified"
        /\ at = "postcondition_verified" => at' = "committed"
        /\ at = "committed" => at' = "finishing"
    BY <1>6, AfterSavingIs
  <2>1. TypeOK'
    BY <1>6, <2>6, <2>7 DEF TypeOK, Phases, Places
  <2>8. at = "preflighted" => target = run.before /\ dir.displaced = None
    BY DEF TypeOK, PlaceTells, InstallTells, NewDirectory
  <2>2. JournalTells'
    BY <1>6, <2>6, <2>7, <2>8, CandidateIs DEF TypeOK, JournalTells, InstallTells,
       DonePhases, Installing, BeforeActivation, AfterActivation, Phases
  <2>3. PlaceTells'
    BY <1>6, <2>6, <2>7 DEF PlaceTells, DonePhases, Phases
  <2>4. InstallTells'
    BY <1>6, <2>6, <2>7, <2>8 DEF InstallTells, DonePhases, Installing, BeforeActivation,
       AfterActivation, Phases
  <2>9. at' \in AfterActivation \union {"activating", "displacing", "replacing", "finishing"} =>
           dir.manifest
    BY <1>6, <2>7 DEF EndTells, Phases, AfterActivation
  <2>5. EndTells'
    BY <1>6, <2>6, <2>7, <2>9 DEF EndTells, Phases, AfterActivation
  <2> QED
    BY <2>1, <2>2, <2>3, <2>4, <2>5
<1> QED
  BY <1>1, <1>2, <1>3, <1>4, <1>5, <1>6 DEF Installation

Surroundings == Start \/ Stop \/ Edit \/ NewImage \/ Crash \/ Serve

(* What starts, ends and surrounds an update: edits find no journal, and a *)
(* new image finds no installation under way.                              *)
LEMMA WorldKeepsIInv == IInv /\ Surroundings => IInv'
<1> SUFFICES ASSUME IInv, Surroundings PROVE IInv'
  OBVIOUS
<1> USE NoneAssumption, BoundsAssumption DEF IInv, Goes
<1>1. CASE Start
  <2>1. TypeOK'
    <3>1. kept' \in Seq(Kept)
      <4>1. Len(kept) \in Nat /\ DOMAIN kept = 1..Len(kept) /\ kept \in [1..Len(kept) -> Kept]
        BY LenProperties DEF TypeOK, Kept
      <4>2. \A i \in 1..Len(kept) : [kept[i] EXCEPT !.mark = "none"] \in Kept
        BY <4>1 DEF Kept
      <4>3. kept' = [i \in 1..Len(kept) |-> [kept[i] EXCEPT !.mark = "none"]]
        BY <1>1, <4>1 DEF Start
      <4> QED
        BY <4>1, <4>2, <4>3
    <3> QED
      BY <1>1, <3>1 DEF Start, TypeOK, Kept, Places
  <2>2. JournalTells'
    BY <1>1 DEF Start, JournalTells
  <2>3. PlaceTells'
    BY <1>1 DEF Start, PlaceTells
  <2>4. InstallTells'
    BY <1>1 DEF Start, InstallTells, Installing, BeforeActivation, AfterActivation
  <2>5. EndTells'
    BY <1>1 DEF Start, EndTells, AfterActivation
  <2> QED
    BY <2>1, <2>2, <2>3, <2>4, <2>5
<1>2. CASE Stop
  <2>1. TypeOK'
    BY <1>2 DEF Stop, TypeOK, Places
  <2>2. JournalTells'
    BY <1>2 DEF Stop, JournalTells
  <2>3. PlaceTells'
    BY <1>2 DEF Stop, PlaceTells
  <2>4. InstallTells'
    BY <1>2 DEF Stop, InstallTells, Installing, BeforeActivation, AfterActivation
  <2>5. EndTells'
    BY <1>2 DEF Stop, EndTells, AfterActivation
  <2> QED
    BY <2>1, <2>2, <2>3, <2>4, <2>5
<1>3. CASE Edit
  <2>1. TypeOK'
    <3>1. target' \in Trees \union {None}
      BY <1>3 DEF Edit, TypeOK, Trees
    <3>2. UsedIs'
      BY <1>3, CountingIs DEF Edit, TypeOK, UsedIs
    <3> QED
      BY <1>3, <3>1, <3>2 DEF Edit, TypeOK, UsedIs
  <2>2. JournalTells'
    BY <1>3 DEF Edit, JournalTells, PlaceTells
  <2>3. PlaceTells'
    BY <1>3 DEF Edit, PlaceTells
  <2>4. InstallTells'
    BY <1>3 DEF Edit, PlaceTells, InstallTells, Installing
  <2>5. EndTells'
    BY <1>3 DEF Edit, EndTells
  <2> QED
    BY <2>1, <2>2, <2>3, <2>4, <2>5
<1>4. CASE NewImage
  <2>1. TypeOK'
    BY <1>4 DEF NewImage, TypeOK
  <2>2. JournalTells'
    BY <1>4 DEF NewImage, JournalTells
  <2>3. PlaceTells'
    BY <1>4 DEF NewImage, PlaceTells
  <2>4. InstallTells'
    BY <1>4 DEF NewImage, InstallTells, Installing, BeforeActivation, AfterActivation
  <2>5. EndTells'
    BY <1>4 DEF NewImage, EndTells
  <2> QED
    BY <2>1, <2>2, <2>3, <2>4, <2>5
<1>5. CASE Crash
  <2>1. TypeOK'
    <3>1. UsedIs'
      BY <1>5, CountingIs DEF Crash, TypeOK, UsedIs
    <3>2. stage' \in {"none", "partial", "whole"} /\ (journal = None => stage' = stage)
      BY <1>5 DEF Crash, TypeOK, InstallTells, Installing, BeforeActivation
    <3> QED
      BY <1>5, <3>1, <3>2 DEF Crash, TypeOK, UsedIs, Places
  <2>2. JournalTells'
    BY <1>5 DEF Crash, JournalTells, InstallTells, Installing, BeforeActivation
  <2>3. PlaceTells'
    BY <1>5 DEF Crash, PlaceTells
  <2>4. InstallTells'
    BY <1>5 DEF Crash, InstallTells, Installing, BeforeActivation, AfterActivation
  <2>5. EndTells'
    BY <1>5 DEF Crash, EndTells, AfterActivation
  <2> QED
    BY <2>1, <2>2, <2>3, <2>4, <2>5
<1>6. CASE Serve
  <2>1. TypeOK'
    BY <1>6 DEF Serve, TypeOK, Places
  <2>2. JournalTells'
    BY <1>6 DEF Serve, JournalTells
  <2>3. PlaceTells'
    BY <1>6 DEF Serve, PlaceTells
  <2>4. InstallTells'
    BY <1>6 DEF Serve, InstallTells, Installing, BeforeActivation, AfterActivation
  <2>5. EndTells'
    BY <1>6 DEF Serve, EndTells, AfterActivation
  <2> QED
    BY <2>1, <2>2, <2>3, <2>4, <2>5
<1> QED
  BY <1>1, <1>2, <1>3, <1>4, <1>5, <1>6 DEF Surroundings

(* The end of a transaction leaves the plugin, and a backup of this start. *)
LEMMA EndingKeepsIInv == IInv /\ (EndRestoring \/ Finish) => IInv'
<1> SUFFICES ASSUME IInv, EndRestoring \/ Finish PROVE IInv'
  OBVIOUS
<1> USE DEF IInv
<1>1. Leaves /\ UNCHANGED <<image, target, stage, run, used>> /\ journal # None
  BY DEF EndRestoring, Finish, PlaceTells
<1>2. /\ journal' = None /\ dir' = NewDirectory /\ kept' \in Seq(Kept)
      /\ dir.manifest /\ run.mode # "start" /\ run.before # None => HasCurrent'
  BY <1>1, LeavingAdds
<1>3. stage' = "none"
  BY <1>1 DEF EndRestoring, StageIsGone, Finish, PlaceTells, JournalTells, TypeOK
<1>4. at' \in {"looking", "pruning", "off"}
  BY DEF EndRestoring, Finish, Recovered, AfterRecovery
<1>5. at' = "looking" => run.mode = "start"
  BY DEF EndRestoring, Finish, Recovered, AfterRecovery
<1>6. TypeOK'
  BY <1>1, <1>2, <1>3, <1>4 DEF TypeOK, Kept, NewDirectory, Places
<1>7. JournalTells' /\ PlaceTells' /\ InstallTells'
  BY <1>1, <1>2, <1>4, <1>5
     DEF JournalTells, PlaceTells, InstallTells, Installing, BeforeActivation, AfterActivation
<1>8. EndTells'
  <2>1. CASE EndRestoring
    <3>1. run.mode \in {"start", "caught"} /\ target = journal.before
      BY <2>1 DEF EndRestoring, PlaceTells, TypeOK
    <3>2. at' = "pruning" => run.mode = "caught" /\ run.before # None /\ target = run.before
      BY <1>1, <2>1, <3>1 DEF EndRestoring, Recovered, AfterRecovery, InstallTells
    <3> QED
      BY <1>1, <1>2, <1>4, <3>1, <3>2 DEF EndTells, AfterActivation
  <2>2. CASE Finish
    <3>1. target = journal.candidate /\ target # None
      BY <2>2 DEF Finish, PlaceTells, JournalTells
    <3>2. at' = "pruning" => run.mode # "start" /\ target = Candidate(image)
      BY <1>1, <2>2, <3>1 DEF Finish, Recovered, AfterRecovery, EndTells
    <3>3. run.mode = "install" => dir.manifest
      BY <2>2 DEF Finish, EndTells
    <3> QED
      BY <1>1, <1>2, <1>4, <3>1, <3>2, <3>3, CandidateIs DEF EndTells, AfterActivation
  <2> QED
    BY <2>1, <2>2
<1> QED
  BY <1>6, <1>7, <1>8

(* What is pruned is not what the services rely on.                        *)
LEMMA RemovableIs ==
  ASSUME NEW i \in Removable
  PROVE  i \in DOMAIN kept /\ kept[i].mark # "current"
  BY DEF Removable, LeftAside, Doomed, IsCandidate

(* Pruning needs nothing else: no journal is open.                         *)
LEMMA PruningKeepsIInv == IInv /\ (Prune \/ PruneFails \/ PruneCrashes) => IInv'
<1> SUFFICES ASSUME IInv, Prune \/ PruneFails \/ PruneCrashes PROVE IInv'
  OBVIOUS
<1> USE DEF IInv, Goes
<1>1. /\ UNCHANGED <<image, target, journal, stage, dir, run>>
      /\ at = "pruning" /\ at' \in {"pruning", "off"}
  BY DEF Prune, PruneFails, PruneCrashes
<1>2. kept \in Seq(Kept)
  BY DEF TypeOK, Kept
<1>3. kept' \in Seq(Kept) /\ (HasCurrent => HasCurrent')
  <2>1. CASE Prune
    <3>1. PICK i \in Removable : kept' = RemoveAt(kept, i)
      BY <2>1 DEF Prune
    <3> QED
      BY <1>2, <3>1, RemovableIs, PruningSpares
  <2>2. CASE PruneFails
    <3>1. PICK i \in Removable, aside \in BOOLEAN : Spoilt(i, aside, "spared")
      BY <2>2 DEF PruneFails
    <3> QED
      BY <1>2, <3>1, RemovableIs, SpoilingSpares
  <2>3. CASE PruneCrashes
    <3>1. PICK i \in Removable : Spoilt(i, TRUE, "none")
      BY <2>3 DEF PruneCrashes
    <3> QED
      BY <1>2, <3>1, RemovableIs, SpoilingSpares
  <2> QED
    BY <2>1, <2>2, <2>3
<1>4. UsedIs'
  BY CountingIs DEF Prune, PruneFails, PruneCrashes, TypeOK, UsedIs
<1>5. TypeOK'
  BY <1>1, <1>3, <1>4 DEF TypeOK, Kept, UsedIs, Places
<1>6. JournalTells' /\ PlaceTells' /\ InstallTells'
  BY <1>1 DEF JournalTells, PlaceTells, InstallTells, Installing, BeforeActivation,
              AfterActivation
<1>7. EndTells'
  BY <1>1, <1>3 DEF EndTells, AfterActivation
<1> QED
  BY <1>5, <1>6, <1>7

(* A step that fails leaves what the recovery needs, whatever it had done. *)
Trusts ==
    /\ run.mode # "start" /\ journal' # None => journal'.before = run.before
    /\ IsCaught /\ journal' # None /\ journal'.candidate # None =>
         journal'.candidate = Candidate(image)
    /\ IsCaught /\ journal' = None => target' = Candidate(image)
Sound ==
    /\ target' \in Trees \union {None} /\ journal' \in Journals \union {None}
    /\ stage' \in {"none", "partial", "whole"}
    /\ dir' \in [displaced : Trees \union {None}, manifest : BOOLEAN]
    /\ kept' \in Seq(Kept)
    /\ journal' = None => stage' = "none" /\ dir' = NewDirectory

(* It does, one case for each effect a step can have had.                  *)
LEMMA HalfwayIsSound ==
  ASSUME IInv, at \notin {"off", "services"}, Halfway, image' = image
  PROVE  Sound /\ JournalTells' /\ Trusts
<1> USE DEF IInv
<1>1. kept \in Seq(Kept)
  BY DEF TypeOK, Kept
<1>2. run.mode = "install" => at \notin {"looking", "recovering", "restoring", "clearing"}
  BY DEF PlaceTells
<1>3. at \in Places /\ Candidate(image) \in Trees /\ Candidate(image) # None
  BY CandidateIs DEF TypeOK
<1>4. CASE UNCHANGED <<target, journal, stage, dir, kept>>
  <2>1. IsCaught => journal # None
    BY <1>2, <1>3 DEF IsCaught, PlaceTells, InstallTells, Installing, BeforeActivation,
                      AfterActivation, Places, Phases
  <2>2. Sound
    BY <1>1, <1>4 DEF Sound, TypeOK
  <2>3. JournalTells'
    BY <1>4 DEF JournalTells
  <2>4. Trusts
    BY <1>4, <2>1 DEF Trusts, IsCaught, InstallTells, EndTells
  <2> QED
    BY <2>2, <2>3, <2>4
<1>5. CASE at = "staging" /\ stage' = "partial" /\ UNCHANGED <<target, journal, dir, kept>>
  <2>1. journal # None /\ journal.phase \notin DonePhases
    BY <1>5 DEF InstallTells, Installing, BeforeActivation
  <2>2. Sound
    BY <1>1, <1>5, <2>1 DEF Sound, TypeOK
  <2>3. JournalTells'
    BY <1>5, <2>1 DEF JournalTells
  <2>4. Trusts
    BY <1>5, <2>1 DEF Trusts, IsCaught, InstallTells, EndTells
  <2> QED
    BY <2>2, <2>3, <2>4
<1>6. CASE at \in Phases /\ journal' = Journal /\ UNCHANGED <<target, stage, dir, kept>>
  <2>1. /\ journal' \in Journals /\ journal' # None
        /\ journal'.phase = at /\ journal'.before = run.before
        /\ at \in {"preflighted", "backed_up"} => journal'.candidate = None
        /\ at \notin {"preflighted", "backed_up"} => journal'.candidate = Candidate(image)
    BY <1>6, JournalIs
  <2>2. at = "preflighted" => target = run.before /\ dir.displaced = None
    BY DEF TypeOK, PlaceTells, InstallTells, NewDirectory
  <2>3. Sound
    BY <1>1, <1>6, <2>1 DEF Sound, TypeOK
  <2>4. JournalTells'
    BY <1>3, <1>6, <2>1, <2>2 DEF JournalTells, InstallTells, DonePhases, Installing,
       BeforeActivation, AfterActivation, Phases
  <2>5. Trusts
    BY <2>1 DEF Trusts
  <2> QED
    BY <2>3, <2>4, <2>5
<1>7. CASE /\ at = "describing" /\ dir' = [dir EXCEPT !.manifest = TRUE]
           /\ UNCHANGED <<target, journal, stage, kept>>
  <2>1. journal # None
    BY <1>7 DEF InstallTells, Installing, BeforeActivation
  <2>2. dir' \in [displaced : Trees \union {None}, manifest : BOOLEAN]
        /\ dir'.displaced = dir.displaced
    BY <1>7 DEF TypeOK
  <2>3. Sound
    BY <1>1, <1>7, <2>1, <2>2 DEF Sound, TypeOK
  <2>4. JournalTells'
    BY <1>7, <2>2 DEF JournalTells
  <2>5. Trusts
    BY <1>7, <2>1 DEF Trusts, IsCaught, InstallTells, EndTells
  <2> QED
    BY <2>3, <2>4, <2>5
<1>8. CASE /\ at = "displacing" /\ dir' = [dir EXCEPT !.displaced = target] /\ target' = None
           /\ UNCHANGED <<journal, stage, kept>>
  <2>1. /\ journal # None /\ journal.phase \notin DonePhases
        /\ target = run.before /\ run.before = journal.before
    BY <1>8 DEF InstallTells, Installing, BeforeActivation
  <2>2. dir' \in [displaced : Trees \union {None}, manifest : BOOLEAN]
        /\ dir'.displaced = target
    BY <1>8 DEF TypeOK
  <2>3. Sound
    BY <1>1, <1>8, <2>1, <2>2 DEF Sound, TypeOK
  <2>4. JournalTells'
    BY <1>8, <2>1, <2>2 DEF JournalTells
  <2>5. Trusts
    BY <1>8, <2>1 DEF Trusts, IsCaught, InstallTells, EndTells
  <2> QED
    BY <2>3, <2>4, <2>5
<1>9. CASE /\ at = "replacing" /\ target' = Candidate(image) /\ stage' = "none"
           /\ UNCHANGED <<journal, dir, kept>>
  <2>1. /\ journal # None /\ journal.phase \notin DonePhases
        /\ dir.displaced = run.before /\ run.before = journal.before
        /\ journal.candidate = Candidate(image)
    BY <1>9 DEF InstallTells, Installing
  <2>2. Sound
    BY <1>1, <1>3, <1>9, <2>1 DEF Sound, TypeOK
  <2>3. JournalTells'
    BY <1>3, <1>9, <2>1 DEF JournalTells
  <2>4. Trusts
    BY <1>9, <2>1 DEF Trusts
  <2> QED
    BY <2>2, <2>3, <2>4
<1>10. CASE /\ at = "finishing" \/ (at = "clearing" /\ stage = "none")
            /\ Leaves /\ UNCHANGED <<target, stage>>
  <2>1. journal' = None /\ dir' = NewDirectory /\ kept' \in Seq(Kept)
    BY <1>10, LeavingAdds
  <2>2. stage = "none"
    BY <1>10 DEF PlaceTells, JournalTells
  <2>3. Sound
    BY <1>10, <2>1, <2>2 DEF Sound, TypeOK, NewDirectory
  <2>4. JournalTells'
    BY <2>1 DEF JournalTells
  <2>5. Trusts
    BY <1>2, <1>10, <2>1 DEF Trusts, IsCaught, PlaceTells, JournalTells, EndTells
  <2> QED
    BY <2>3, <2>4, <2>5
<1> QED
  BY <1>4, <1>5, <1>6, <1>7, <1>8, <1>9, <1>10 DEF Halfway, StageIsGone

(* So that the recovery finds its invariant, at once or at the next start. *)
LEMMA FailingKeepsIInv == IInv /\ Fail => IInv'
<1> SUFFICES ASSUME IInv, Fail PROVE IInv'
  OBVIOUS
<1>1. Sound /\ JournalTells' /\ Trusts
  BY HalfwayIsSound DEF Fail
<1>2. \/ IsCaught /\ at' = "recovering" /\ run' = [run EXCEPT !.mode = "caught"]
      \/ ~IsCaught /\ at' = "off" /\ run' = run
  BY DEF Fail
<1>3. /\ run' \in [mode : {"start", "install", "caught"}, before : Trees \union {None}]
      /\ run'.before = run.before /\ image' = image
      /\ at' = "recovering" => run'.mode = "caught" /\ run.mode = "install" /\ IsCaught
      /\ run'.mode # "start" => run.mode # "start"
  BY <1>2 DEF Fail, IInv, TypeOK, IsCaught
<1>4. UsedIs'
  BY CountingIs DEF Fail, IInv, TypeOK, UsedIs
<1>5. TypeOK'
  BY <1>1, <1>2, <1>3, <1>4 DEF IInv, TypeOK, Sound, Kept, UsedIs, Places
<1>6. PlaceTells'
  BY <1>2, <1>3 DEF PlaceTells
<1>7. InstallTells'
  BY <1>1, <1>2, <1>3
     DEF InstallTells, Installing, BeforeActivation, AfterActivation, Trusts
<1>8. EndTells'
  BY <1>1, <1>2, <1>3 DEF EndTells, AfterActivation, Trusts, Candidate
<1> QED
  BY <1>1, <1>5, <1>6, <1>7, <1>8 DEF IInv

-----------------------------------------------------------------------------
(* Every step keeps the invariant.                                         *)
LEMMA NextKeepsIInv == IInv /\ [Next]_vars => IInv'
<1>1. IInv /\ UNCHANGED vars => IInv'
  BY DEF IInv, TypeOK, JournalTells, PlaceTells, InstallTells, EndTells, HasCurrent,
         Installing, Candidate, vars
<1> QED
  BY <1>1, RecoveryKeepsIInv, InstallKeepsIInv, EndingKeepsIInv, PruningKeepsIInv,
     FailingKeepsIInv, WorldKeepsIInv
     DEF Next, Updater, Recovery, Installation, Surroundings

(* It holds in every behaviour.                                            *)
LEMMA Invariance == Spec => []IInv
  BY InitIInv, NextKeepsIInv, PTL DEF Spec

(* Every variable has the values of its file.                              *)
THEOREM TypeCorrect == Spec => []TypeOK
<1>1. IInv => TypeOK
  BY DEF IInv
<1> QED
  BY <1>1, Invariance, PTL

(* While a transaction is open, the plugin the user had is in place or     *)
(* displaced, and nothing but its two trees is ever in place.              *)
THEOREM OldPluginIsThere == Spec => []BeforeIsThere
<1>1. IInv => BeforeIsThere
  BY DEF IInv, JournalTells, BeforeIsThere
<1> QED
  BY <1>1, Invariance, PTL

(* A transaction ends with the old tree, unless the new one was found good *)
(* in its place.                                                           *)
THEOREM TransactionsEndRight == Spec => EndsByItsPhase
<1>1. IInv /\ [Next]_vars =>
        [journal # None /\ journal' = None =>
           target' = IF journal.phase \in {"postcondition_verified", "committed"}
                     THEN journal.candidate ELSE journal.before]_vars
  <2> SUFFICES ASSUME IInv, Next, journal # None, journal' = None
               PROVE  target' = IF journal.phase \in {"postcondition_verified", "committed"}
                                THEN journal.candidate ELSE journal.before
    OBVIOUS
  <2> USE DEF IInv
  <2>1. CASE at = "clearing"
    <3>1. target' = target
      BY <2>1
         DEF Next, Updater, Goes, Recover, MoveNewAside, MoveOldBack, Restored,
             MoveStageAside,
         EndRestoring, Finish, Look, Save, Stage, Describe, Displace, Replace, Prune, Serve,
         PruneFails, PruneCrashes, Fail, Halfway, Crash, Start, Stop, Edit, NewImage, Phases
    <3> QED
      BY <2>1, <3>1 DEF PlaceTells, DonePhases
  <2>2. CASE at = "finishing"
    <3>1. target' = target
      BY <2>2
         DEF Next, Updater, Goes, Recover, MoveNewAside, MoveOldBack, Restored,
             MoveStageAside,
         EndRestoring, Finish, Look, Save, Stage, Describe, Displace, Replace, Prune, Serve,
         PruneFails, PruneCrashes, Fail, Halfway, Crash, Start, Stop, Edit, NewImage, Phases
    <3> QED
      BY <2>2, <3>1 DEF PlaceTells, JournalTells, DonePhases
  <2>3. CASE at \notin {"clearing", "finishing"}
    <3>1. CASE at \in Phases
      <4>1. journal' \in {journal, Journal}
        BY <2>3, <3>1 DEF Next, Updater, Goes, Recover, MoveNewAside, MoveOldBack, Restored,
           MoveStageAside, EndRestoring, Finish, Look, Save, Stage, Describe, Displace, Replace,
           Prune, Serve, PruneFails, PruneCrashes, Fail, Halfway, Crash, Start, Stop, Edit, NewImage
      <4> QED
        BY <3>1, <4>1, JournalIs
    <3>2. CASE at \notin Phases
      BY <2>3, <3>2 DEF Next, Updater, Goes, Recover, MoveNewAside, MoveOldBack, Restored,
         MoveStageAside, EndRestoring, Finish, Look, Save, Stage, Describe, Displace, Replace,
         Prune, Serve, PruneFails, PruneCrashes, Fail, Halfway, Crash, Start, Stop, Edit, NewImage
    <3> QED
      BY <3>1, <3>2
  <2> QED
    BY <2>1, <2>2, <2>3
<1> QED
  BY <1>1, Invariance, PTL DEF Spec, EndsByItsPhase

(* The services start with a whole plugin, no transaction open, and with   *)
(* the backup that is reported, in whatever order the clock has put them.  *)
THEOREM ServicesStartWhole == Spec => ServesWhole
<1>1. IInv /\ [Next]_vars =>
        [at # "services" /\ at' = "services" =>
           /\ target # None /\ journal = None /\ stage = "none"
           /\ target.version = image \/ (run.mode = "caught" /\ target = run.before)
           /\ run.mode = "install" /\ run.before # None =>
                \E i \in DOMAIN kept : kept[i].mark = "current" /\ kept[i].whole]_vars
  <2> SUFFICES ASSUME IInv, Next, at # "services", at' = "services"
               PROVE  /\ target # None /\ journal = None /\ stage = "none"
                      /\ target.version = image \/ (run.mode = "caught" /\ target = run.before)
                      /\ run.mode = "install" /\ run.before # None => HasCurrent
    BY DEF HasCurrent
  <2>1. at = "pruning"
    BY DEF Next, Updater, Goes, Recover, MoveNewAside, MoveOldBack, Restored, MoveStageAside,
       EndRestoring, Finish, Recovered, AfterRecovery, Look, Save, AfterSaving, Phases, Stage,
       Describe, Displace, Replace, Prune, Serve, PruneFails, PruneCrashes, Fail, Crash, Start,
       Stop, Edit, NewImage
  <2> QED
    BY <2>1 DEF IInv, PlaceTells, EndTells, TypeOK
<1> QED
  BY <1>1, Invariance, PTL DEF Spec, ServesWhole

=============================================================================
