------------------------ MODULE ReportWorkflowProofs ------------------------
(***************************************************************************)
(* Proofs about ReportWorkflow, for any dimensions, drafts, reviewers and  *)
(* number of PATCHes and submissions.  Two facts carry whatever overlaps:  *)
(* no decision is of a round to come (Rounds), and no request of the       *)
(* client's stage is in flight without the approval of the PMO (Stages).   *)
(* The others are about a handler that runs alone: when it commits, the    *)
(* report still is what it has read (Alone).                               *)
(***************************************************************************)
EXTENDS ReportWorkflow, TLAPS

\* Decisions, taken or in flight, are of a submission that has been made.
Rounds ==
  /\ submission.pc # "idle" => round < MaxRounds
  /\ status \in {"none", "DRAFT"} <=> round = 0
  /\ \A a \in approvals : a.round <= round
  /\ \A h \in Reviewing : review[h].approval.round <= round

\* The client's stage is entered after the approval of the PMO.
PmoApproved == \E a \in approvals : a.stage = "PMO" /\ a.decision = "approved"
ClientApproved == \E a \in approvals : a.stage = "CLIENT" /\ a.decision = "approved"
Stages ==
  /\ status \in {"PMO_APPROVED", "CLIENT_RELEASED"} => PmoApproved
  /\ status = "CLIENT_RELEASED" => ClientApproved
  /\ \A h \in Reviewing : review[h].approval.stage = "CLIENT" => PmoApproved

\* What the approval of h may be, when h alone is in flight.
Legitimate(h) ==
  /\ review[h].seen = status
  /\ review[h].approval.round = round
  /\ \/ status = "SUBMITTED" /\ review[h].approval.stage = "PMO"
     \/ status = "PMO_APPROVED" /\ review[h].approval.stage = "CLIENT"
     \/ /\ status = "CLIENT_RELEASED"
        /\ review[h].approval.stage = "CLIENT"
        /\ review[h].approval.decision = "approved"

\* Without an overlap, a handler has the report to itself.
Single ==
  /\ \A s, t \in Patching : s = t
  /\ \A h, k \in Reviewing : h = k
  /\ Patching # {} => Reviewing = {} /\ submission.pc # "checked"
  /\ Reviewing # {} => submission.pc # "checked"
Alone ==
  ~overlapped =>
    /\ Single
    /\ \A s \in Patching :
         /\ status \in Editable
         /\ save[s].seen = row
         /\ save[s].pc = "written" => save[s].old = lists
    /\ submission.pc = "checked" =>
         status \in Editable /\ submission.seen = row /\ Complete(row)
    /\ \A h \in Reviewing : Legitimate(h)

Structure == TypeOK /\ Rounds /\ Stages /\ Alone

IInv == Structure /\ ListsAreOneSave /\ SubmittedIsSound /\ DecisionsExplainStatus

USE NoneAssumption, DraftsAssumption, BoundsAssumption

LEMMA InitIInv == Init => IInv
<1> SUFFICES ASSUME Init PROVE IInv
  OBVIOUS
<1>1. EmptyRow \in Row /\ ContentOf(EmptyRow) \in Content
  BY DEF EmptyRow, Row, ContentOf, Content
<1>2. TypeOK
  <2>1. NoSave \in Save
    BY <1>1 DEF NoSave, Save
  <2>2. save \in [Saves -> Save]
    BY <2>1 DEF Init
  <2>3. page \in Page
    BY <1>1 DEF Init, NoPage, Page
  <2>4. submission \in Submission
    BY <1>1 DEF Init, NoSubmission, Submission
  <2>5. review \in [Reviewers -> Review \cup {[pc |-> "idle"]}]
    BY DEF Init
  <2>6. row \in Row
    BY <1>1 DEF Init
  <2>7. /\ status \in ReportStatus \cup {"none"}
        /\ lists \in SUBSET (0 .. MaxSaves) /\ approvals \in SUBSET Approval
        /\ round \in 0 .. MaxRounds /\ saves \in 0 .. MaxSaves
    BY DEF Init
  <2>8. tracked \in BOOLEAN /\ overlapped \in BOOLEAN
    BY DEF Init
  <2> QED
    BY <2>2, <2>3, <2>4, <2>5, <2>6, <2>7, <2>8 DEF TypeOK
<1>3. Patching = {} /\ Reviewing = {} /\ submission.pc = "idle"
  BY DEF Init, Patching, Reviewing, NoSave, NoSubmission
<1>4. Rounds /\ Stages /\ Alone
  BY <1>3 DEF Init, Rounds, Stages, Alone, Single
<1>5. ListsAreOneSave /\ SubmittedIsSound
  BY DEF Init, ListsAreOneSave, SubmittedIsSound
<1>6. DecisionsExplainStatus
  BY DEF Init, DecisionsExplainStatus
<1> QED
  BY <1>2, <1>4, <1>5, <1>6 DEF IInv, Structure

-----------------------------------------------------------------------------
(* Types.                                                                  *)

LEMMA AggregateType ==
  ASSUME NEW rag \in [Dimensions -> Levels \cup {None}]
  PROVE  Aggregate(rag) \in Levels \cup {None}
<1>1. CASE \E d \in Dimensions : rag[d] = None
  <2>1. ~(\A d \in Dimensions : rag[d] = "GREEN")
    BY <1>1 DEF Levels
  <2> QED
    BY <1>1, <2>1 DEF Aggregate
<1>2. CASE \A d \in Dimensions : rag[d] # None
  BY <1>2 DEF Aggregate, Levels
<1> QED
  BY <1>1, <1>2

LEMMA PatchedType ==
  ASSUME TypeOK, NEW s \in Saves
  PROVE  Patched(s) \in Row
<1>1. save[s] \in Save
  BY DEF TypeOK
<1>2. /\ save[s].content.rag \in [Dimensions -> Levels \cup {None}]
      /\ save[s].content.just \in [Dimensions -> Texts \cup {None}]
      /\ save[s].seen.agg \in Levels \cup {None}
  BY <1>1 DEF Save, Content, Row
<1>3. Aggregate(save[s].content.rag) \in Levels \cup {None}
  BY <1>2, AggregateType
<1> QED
  BY <1>2, <1>3 DEF Patched, Row

LEMMA UpdatedType ==
  ASSUME NEW now \in Row, NEW seen \in Row, NEW new \in Row
  PROVE  Updated(now, seen, new) \in Row
BY DEF Updated, Row

\* A PATCH that is sent or answered, and the end of a submission.
LEMMA EndedType ==
  /\ \A c \in Content : [NoSave EXCEPT !.pc = "sent", !.content = c] \in Save
  /\ Ended("done") \in Save
  /\ Ended("failed") \in Save
  /\ NoSubmission \in Submission
  /\ ContentOf(EmptyRow) \in Content
<1>1. EmptyRow \in Row /\ ContentOf(EmptyRow) \in Content
  BY DEF EmptyRow, Row, ContentOf, Content
<1>2. NoSave \in Save
  BY <1>1 DEF NoSave, Save
<1>3. NoSubmission \in Submission
  BY <1>1 DEF NoSubmission, Submission
<1> QED
  BY <1>1, <1>2, <1>3 DEF Ended, Save

LEMMA TypeStep ==
  ASSUME TypeOK, Rounds, [Next]_vars
  PROVE  TypeOK'
<1> USE DEF TypeOK
<1>1. CASE CreateReport
  BY <1>1 DEF CreateReport, ReportStatus, Editable
<1>2. CASE CreatePrepopulated
  BY <1>2 DEF CreatePrepopulated, ReportStatus, Editable
<1>3. CASE Wizard
  <2>1. ASSUME NEW c \in Content, Send(c)
        PROVE  /\ save' \in [Saves -> Save] /\ saves' \in 0 .. MaxSaves
               /\ saves + 1 \in Saves
    <3>1. saves + 1 \in Saves
      BY <2>1 DEF Send, Saves
    <3>2. [NoSave EXCEPT !.pc = "sent", !.content = c] \in Save
      BY EndedType
    <3> QED
      BY <2>1, <3>1, <3>2 DEF Send, Saves
  <2>2. CASE OpenPage
    <3>1. ContentOf(row) \in Content
      BY DEF ContentOf, Row, Content
    <3> QED
      BY <2>2, <3>1 DEF OpenPage, Page
  <2>3. CASE EditDraft
    BY <2>3 DEF EditDraft, Page
  <2>4. CASE ClosePage
    BY <2>4, EndedType DEF ClosePage, NoPage, Page
  <2>5. CASE Autosave
    <3>1. page.draft \in Content /\ page' \in Page
      BY <2>5 DEF Autosave, Page
    <3> QED
      BY <2>1, <2>5, <3>1 DEF Autosave
  <2>6. CASE ClickSubmit
    <3>1. page.draft \in Content
      BY DEF Page
    <3>2. save' \in [Saves -> Save] /\ saves' \in 0 .. MaxSaves /\ saves + 1 \in 0 .. MaxSaves
      BY <2>1, <2>6, <3>1 DEF ClickSubmit, Saves
    <3>3. submission' \in Submission
      BY <2>6, <3>1, <3>2, EndedType DEF ClickSubmit, Submission
    <3> QED
      BY <2>6, <3>2, <3>3 DEF ClickSubmit
  <2>7. CASE SaveAnswered
    <3>1. [submission EXCEPT !.pc = "saved", !.save = 0] \in Submission
      <4>1. 0 \in 0 .. MaxSaves
        OBVIOUS
      <4> QED
        BY <4>1 DEF Submission
    <3>2. submission' \in Submission
      BY <2>7, <3>1, EndedType DEF SaveAnswered
    <3> QED
      BY <2>7, <3>2 DEF SaveAnswered
  <2> QED
    BY <1>3, <2>2, <2>3, <2>4, <2>5, <2>6, <2>7 DEF Wizard
<1>4. ASSUME NEW s \in Saves, Patch(s)
      PROVE  TypeOK'
  <2>1. save[s] \in Save
    OBVIOUS
  <2>2. CASE PatchLoad(s)
    <3>1. [save[s] EXCEPT !.pc = "loaded", !.seen = row] \in Save
      BY <2>1 DEF Save
    <3>2. save' = [save EXCEPT ![s] = [save[s] EXCEPT !.pc = "loaded", !.seen = row]]
      BY <2>2 DEF PatchLoad
    <3>3. save' \in [Saves -> Save]
      BY <3>1, <3>2
    <3>4. overlapped' \in BOOLEAN
      BY <2>2 DEF PatchLoad, Enter, InFlight
    <3> QED
      BY <2>2, <3>3, <3>4 DEF PatchLoad
  <2>3. CASE PatchWrite(s)
    <3>1. [save[s] EXCEPT !.pc = "written", !.old = lists] \in Save
      BY <2>1 DEF Save
    <3>2. save' = [save EXCEPT ![s] = [save[s] EXCEPT !.pc = "written", !.old = lists]]
      BY <2>3 DEF PatchWrite
    <3> QED
      BY <2>3, <3>1, <3>2 DEF PatchWrite
  <2>4. CASE PatchCommit(s)
    <3>1. row' \in Row
      <4>1. save[s].seen \in Row
        BY <2>1 DEF Save
      <4> QED
        BY <2>4, <4>1, PatchedType, UpdatedType DEF PatchCommit
    <3>2. save' \in [Saves -> Save]
      BY <2>4, EndedType DEF PatchCommit, Content
    <3>3. lists' \in SUBSET (0 .. MaxSaves)
      <4>1. s \in 0 .. MaxSaves
        BY DEF Saves
      <4> QED
        BY <2>4, <4>1 DEF PatchCommit
    <3> QED
      BY <2>4, <3>1, <3>2, <3>3 DEF PatchCommit
  <2>5. CASE PatchFail(s)
    BY <2>5, EndedType DEF PatchFail
  <2> QED
    BY <1>4, <2>2, <2>3, <2>4, <2>5 DEF Patch
<1>5. CASE Submit
  <2>1. CASE SubmitLoad
    <3>1. overlapped' \in BOOLEAN
      BY <2>1 DEF SubmitLoad, Enter, InFlight
    <3>2. submission' \in Submission
      BY <2>1 DEF SubmitLoad, Submission
    <3> QED
      BY <2>1, <3>1, <3>2 DEF SubmitLoad
  <2>2. CASE SubmitCommit
    <3>1. submission.seen \in Row /\ submission.content \in Content
      BY DEF Submission
    <3>2. Aggregate(submission.seen.rag) \in Levels \cup {None}
      BY <3>1, AggregateType DEF Row
    <3>3. [submission.seen EXCEPT !.agg = Aggregate(submission.seen.rag)] \in Row
      BY <3>1, <3>2 DEF Row
    <3>4. row' \in Row
      BY <2>2, <3>1, <3>3, UpdatedType DEF SubmitCommit
    <3>5. submission' \in Submission /\ page' \in Page
      BY <2>2, <3>1, EndedType DEF SubmitCommit, Submission, NoPage, Page
    <3>6. round' \in 0 .. MaxRounds
      BY <2>2 DEF SubmitCommit, Rounds
    <3> QED
      BY <2>2, <3>4, <3>5, <3>6 DEF SubmitCommit, ReportStatus
  <2>3. CASE SubmitFail
    <3>1. submission' \in Submission
      BY <2>3, EndedType DEF SubmitFail, Submission
    <3> QED
      BY <2>3, <3>1 DEF SubmitFail
  <2> QED
    BY <1>5, <2>1, <2>2, <2>3 DEF Submit
<1>6. ASSUME NEW h \in Reviewers, Reviewed(h)
      PROVE  TypeOK'
  <2>1. ASSUME NEW stage \in {"PMO", "CLIENT"}, NEW decision \in Decisions,
               status \notin {"none", "DRAFT"}, Consider(h, stage, decision)
        PROVE  TypeOK'
    <3>1. status \in ReportStatus /\ round \in 1 .. MaxRounds
      BY <2>1 DEF Rounds
    <3>2. [round |-> round, stage |-> stage, decision |-> decision] \in Approval
      BY <3>1 DEF Approval, Decisions
    <3>3. review' \in [Reviewers -> Review \cup {[pc |-> "idle"]}]
      BY <2>1, <3>1, <3>2 DEF Consider, Review
    <3> QED
      BY <2>1, <3>3 DEF Consider, Enter, InFlight
  <2>2. ASSUME NEW decision \in Decisions, DecideLoad(h, decision)
        PROVE  TypeOK'
    BY <2>1, <2>2 DEF DecideLoad
  <2>3. CASE ConfirmLoad(h)
    BY <2>1, <2>3 DEF ConfirmLoad, Decisions
  <2>4. CASE ReviewCommit(h)
    <3>1. review[h].approval \in Approval
      BY <2>4 DEF ReviewCommit, Review
    <3>2. status' \in ReportStatus \cup {"none"}
      BY <2>4 DEF ReviewCommit, NextStatus, ReportStatus, Editable
    <3> QED
      BY <2>4, <3>1, <3>2 DEF ReviewCommit
  <2>5. CASE ReviewFail(h)
    BY <2>5 DEF ReviewFail
  <2> QED
    BY <1>6, <2>2, <2>3, <2>4, <2>5 DEF Reviewed
<1>7. CASE UNCHANGED vars
  BY <1>7 DEF vars
<1> QED
  BY <1>1, <1>2, <1>3, <1>4, <1>5, <1>6, <1>7 DEF Next

-----------------------------------------------------------------------------
(* Rounds and stages.                                                      *)

\* The wizard and a PATCH decide nothing.
LEMMA WritersDecideNothing ==
  ASSUME Wizard \/ \E s \in Saves : Patch(s)
  PROVE  UNCHANGED <<tracked, status, approvals, round, review>>
BY DEF Wizard, OpenPage, EditDraft, ClosePage, Autosave, ClickSubmit, SaveAnswered,
       Patch, PatchLoad, PatchWrite, PatchCommit, PatchFail

\* A submission that is sent was made while another round was possible.
LEMMA SubmissionRound ==
  ASSUME Wizard \/ (\E s \in Saves : Patch(s)) \/ SubmitLoad \/ SubmitFail
  PROVE  submission'.pc # "idle" => submission.pc # "idle" \/ round < MaxRounds
<1>1. CASE Wizard
  BY <1>1 DEF Wizard, OpenPage, EditDraft, ClosePage, Autosave, ClickSubmit, SaveAnswered
<1>2. CASE \E s \in Saves : Patch(s)
  BY <1>2 DEF Patch, PatchLoad, PatchWrite, PatchCommit, PatchFail
<1>3. CASE SubmitLoad \/ SubmitFail
  BY <1>3 DEF SubmitLoad, SubmitFail, NoSubmission
<1> QED
  BY <1>1, <1>2, <1>3

\* A decision that is read is of this round, the client's comes after the PMO's,
\* and nothing else changes.
LEMMA Considered ==
  ASSUME TypeOK, NEW h \in Reviewers,
         ConfirmLoad(h) \/ \E decision \in Decisions : DecideLoad(h, decision)
  PROVE  /\ UNCHANGED <<tracked, status, row, lists, approvals, round, save, submission>>
         /\ Enter
         /\ \A k \in Reviewing' : k = h \/ (k \in Reviewing /\ review'[k] = review[k])
         /\ review'[h].seen = status
         /\ review'[h].approval.round = round
         /\ \/ status = "SUBMITTED" /\ review'[h].approval.stage = "PMO"
            \/ status = "PMO_APPROVED" /\ review'[h].approval.stage = "CLIENT"
            \/ /\ status = "CLIENT_RELEASED"
               /\ review'[h].approval.stage = "CLIENT"
               /\ review'[h].approval.decision = "approved"
<1>1. ASSUME NEW decision \in Decisions, DecideLoad(h, decision)
      PROVE  \/ status = "SUBMITTED" /\ Consider(h, "PMO", decision)
             \/ status = "PMO_APPROVED" /\ Consider(h, "CLIENT", decision)
  BY <1>1 DEF DecideLoad
<1>2. PICK stage \in {"PMO", "CLIENT"}, decision \in Decisions :
        /\ Consider(h, stage, decision)
        /\ \/ status = "SUBMITTED" /\ stage = "PMO"
           \/ status = "PMO_APPROVED" /\ stage = "CLIENT"
           \/ status = "CLIENT_RELEASED" /\ stage = "CLIENT" /\ decision = "approved"
  BY <1>1 DEF ConfirmLoad, Decisions
<1>3. review' = [review EXCEPT ![h] =
        [pc |-> "checked", seen |-> status,
         approval |-> [round |-> round, stage |-> stage, decision |-> decision]]]
  BY <1>2 DEF Consider
<1>4. review'[h] = [pc |-> "checked", seen |-> status,
        approval |-> [round |-> round, stage |-> stage, decision |-> decision]]
  BY <1>3 DEF TypeOK
<1>5. \A k \in Reviewing' : k = h \/ (k \in Reviewing /\ review'[k] = review[k])
  <2>1. \A k \in Reviewers : k # h => review'[k] = review[k]
    BY <1>3 DEF TypeOK
  <2>2. \A k \in Reviewing' : k \in Reviewers /\ review'[k].pc = "checked"
    BY DEF Reviewing
  <2>3. \A k \in Reviewers : review[k].pc = "checked" => k \in Reviewing
    BY DEF Reviewing
  <2> QED
    BY <2>1, <2>2, <2>3
<1>6. UNCHANGED <<tracked, status, row, lists, approvals, round, save, submission>> /\ Enter
  BY <1>2 DEF Consider
<1> QED
  BY <1>2, <1>4, <1>5, <1>6

\* A decision that commits or fails leaves the others as they are.
LEMMA ReviewedEffect ==
  ASSUME TypeOK, NEW h \in Reviewers, ReviewCommit(h) \/ ReviewFail(h)
  PROVE  /\ h \in Reviewing
         /\ Reviewing' = Reviewing \ {h}
         /\ \A k \in Reviewing' : review'[k] = review[k]
BY DEF TypeOK, ReviewCommit, ReviewFail, Reviewing

LEMMA RoundsStep ==
  ASSUME TypeOK, Rounds, [Next]_vars
  PROVE  Rounds'
<1> USE DEF Rounds
<1>1. CASE CreateReport \/ CreatePrepopulated
  BY <1>1 DEF CreateReport, CreatePrepopulated, Reviewing
<1>2. CASE Wizard \/ \E s \in Saves : Patch(s)
  <2>1. UNCHANGED <<status, approvals, round, review>>
    BY <1>2, WritersDecideNothing
  <2>2. Reviewing' = Reviewing
    BY <2>1 DEF Reviewing
  <2>3. submission'.pc # "idle" => round < MaxRounds
    BY <1>2, SubmissionRound
  <2> QED
    BY <2>1, <2>2, <2>3
<1>3. CASE Submit
  <2>1. CASE SubmitLoad \/ SubmitFail
    <3>1. UNCHANGED <<status, approvals, round, review>>
      BY <2>1 DEF SubmitLoad, SubmitFail
    <3>2. submission'.pc # "idle" => round < MaxRounds
      BY <2>1, SubmissionRound
    <3> QED
      BY <3>1, <3>2 DEF Reviewing
  <2>2. CASE SubmitCommit
    <3>1. /\ round' = round + 1 /\ status' = "SUBMITTED"
          /\ UNCHANGED <<approvals, review>>
          /\ submission'.pc = "idle"
      BY <2>2 DEF SubmitCommit, NoSubmission
    <3>2. round \in Nat /\ \A a \in approvals : a.round \in Nat
      BY DEF TypeOK, Approval
    <3>3. \A h \in Reviewing : review[h].approval.round \in Nat
      BY DEF TypeOK, Reviewing, Review, Approval
    <3>4. Reviewing' = Reviewing
      BY <3>1 DEF Reviewing
    <3> QED
      BY <3>1, <3>2, <3>3, <3>4
  <2> QED
    BY <1>3, <2>1, <2>2 DEF Submit
<1>4. ASSUME NEW h \in Reviewers, Reviewed(h)
      PROVE  Rounds'
  <2>1. CASE ConfirmLoad(h) \/ \E decision \in Decisions : DecideLoad(h, decision)
    <3>1. UNCHANGED <<status, approvals, round, submission>>
      BY <2>1, Considered
    <3>2. \A k \in Reviewing' : k = h \/ (k \in Reviewing /\ review'[k] = review[k])
      BY <2>1, Considered
    <3>3. review'[h].approval.round = round /\ round \in Nat
      BY <2>1, Considered DEF TypeOK
    <3> QED
      BY <3>1, <3>2, <3>3
  <2>2. CASE ReviewCommit(h)
    <3>1. h \in Reviewing /\ \A k \in Reviewing' : k \in Reviewing /\ review'[k] = review[k]
      BY <2>2, ReviewedEffect
    <3>2. review[h].approval \in Approval
      BY <3>1 DEF TypeOK, Reviewing, Review
    <3>3. round # 0
      BY <3>1, <3>2 DEF Approval
    <3>4. status' \notin {"none", "DRAFT"}
      BY <2>2, <3>3 DEF ReviewCommit, NextStatus
    <3>5. approvals' = approvals \cup {review[h].approval} /\ UNCHANGED <<round, submission>>
      BY <2>2 DEF ReviewCommit
    <3> QED
      BY <3>1, <3>3, <3>4, <3>5
  <2>3. CASE ReviewFail(h)
    <3>1. \A k \in Reviewing' : k \in Reviewing /\ review'[k] = review[k]
      BY <2>3, ReviewedEffect
    <3> QED
      BY <2>3, <3>1 DEF ReviewFail
  <2> QED
    BY <1>4, <2>1, <2>2, <2>3 DEF Reviewed
<1>5. CASE UNCHANGED vars
  BY <1>5 DEF vars, Reviewing
<1> QED
  BY <1>1, <1>2, <1>3, <1>4, <1>5 DEF Next

LEMMA StagesStep ==
  ASSUME TypeOK, Stages, [Next]_vars
  PROVE  Stages'
<1> USE DEF Stages, PmoApproved, ClientApproved
<1>1. CASE CreateReport \/ CreatePrepopulated
  BY <1>1 DEF CreateReport, CreatePrepopulated, Reviewing
<1>2. CASE Wizard \/ \E s \in Saves : Patch(s)
  <2>1. UNCHANGED <<status, approvals, review>>
    BY <1>2, WritersDecideNothing
  <2> QED
    BY <2>1 DEF Reviewing
<1>3. CASE Submit
  <2>1. UNCHANGED <<approvals, review>> /\ (status' = "SUBMITTED" \/ UNCHANGED status)
    BY <1>3 DEF Submit, SubmitLoad, SubmitCommit, SubmitFail
  <2> QED
    BY <2>1 DEF Reviewing
<1>4. ASSUME NEW h \in Reviewers, Reviewed(h)
      PROVE  Stages'
  <2>1. CASE ConfirmLoad(h) \/ \E decision \in Decisions : DecideLoad(h, decision)
    <3>1. UNCHANGED <<status, approvals>>
      BY <2>1, Considered
    <3>2. \A k \in Reviewing' : k = h \/ (k \in Reviewing /\ review'[k] = review[k])
      BY <2>1, Considered
    <3>3. review'[h].approval.stage = "CLIENT" => status \in {"PMO_APPROVED", "CLIENT_RELEASED"}
      BY <2>1, Considered
    <3> QED
      BY <3>1, <3>2, <3>3
  <2>2. CASE ReviewCommit(h)
    <3>1. h \in Reviewing /\ \A k \in Reviewing' : k \in Reviewing /\ review'[k] = review[k]
      BY <2>2, ReviewedEffect
    <3>2. approvals' = approvals \cup {review[h].approval}
      BY <2>2 DEF ReviewCommit
    <3>3. PmoApproved => PmoApproved'
      BY <3>2
    <3>4. ClientApproved => ClientApproved'
      BY <3>2
    <3>5. review[h].approval \in Approval
      BY <3>1 DEF TypeOK, Reviewing, Review
    <3>6. status' = status \/ status' = NextStatus(review[h].approval)
      BY <2>2 DEF ReviewCommit
    <3>7. NextStatus(review[h].approval) = "PMO_APPROVED" => PmoApproved'
      BY <3>2 DEF NextStatus
    <3>8. NextStatus(review[h].approval) = "CLIENT_RELEASED" => PmoApproved' /\ ClientApproved'
      BY <3>1, <3>2, <3>3, <3>5 DEF NextStatus, Approval
    <3> QED
      BY <3>1, <3>3, <3>4, <3>6, <3>7, <3>8
  <2>3. CASE ReviewFail(h)
    <3>1. \A k \in Reviewing' : k \in Reviewing /\ review'[k] = review[k]
      BY <2>3, ReviewedEffect
    <3> QED
      BY <2>3, <3>1 DEF ReviewFail
  <2> QED
    BY <1>4, <2>1, <2>2, <2>3 DEF Reviewed
<1>5. CASE UNCHANGED vars
  BY <1>5 DEF vars, Reviewing
<1> QED
  BY <1>1, <1>2, <1>3, <1>4, <1>5 DEF Next

-----------------------------------------------------------------------------
(* A handler that runs alone.                                              *)

\* An action that changes neither the report nor a handler.
LEMMA AloneFrame ==
  ASSUME Alone, UNCHANGED <<status, row, lists, round, review, overlapped>>,
         \A s \in Patching' : s \in Patching /\ save'[s] = save[s],
         submission'.pc = "checked" => submission' = submission
  PROVE  Alone'
<1> SUFFICES ASSUME ~overlapped'
             PROVE  Alone'
  BY DEF Alone
<1>1. Reviewing' = Reviewing /\ Patching' \subseteq Patching
  BY DEF Reviewing
<1>2. Single'
  BY <1>1 DEF Alone, Single
<1>3. \A h \in Reviewing' : Legitimate(h)'
  BY <1>1 DEF Alone, Legitimate
<1> QED
  BY <1>1, <1>2, <1>3 DEF Alone, Complete

\* What a PATCH does to the requests.
LEMMA PatchEffect ==
  ASSUME TypeOK, NEW s \in Saves, PatchCommit(s) \/ PatchFail(s)
  PROVE  \A t \in Patching' : t \in Patching /\ t # s /\ save'[t] = save[t]
<1>1. save'[s].pc \in {"done", "failed"}
  BY DEF TypeOK, PatchCommit, PatchFail, Ended, NoSave
<1>2. \A t \in Saves : t # s => save'[t] = save[t]
  BY DEF TypeOK, PatchCommit, PatchFail
<1> QED
  BY <1>1, <1>2 DEF Patching

LEMMA WizardEffect ==
  ASSUME TypeOK, Wizard
  PROVE  /\ UNCHANGED <<tracked, status, row, lists, approvals, round, review, overlapped>>
         /\ \A s \in Patching' : s \in Patching /\ save'[s] = save[s]
         /\ submission'.pc # "checked"  \/ submission' = submission
<1>1. UNCHANGED <<tracked, status, row, lists, approvals, round, review, overlapped>>
  BY DEF Wizard, OpenPage, EditDraft, ClosePage, Autosave, ClickSubmit, SaveAnswered
<1>2. CASE OpenPage \/ EditDraft \/ ClosePage
  BY <1>1, <1>2 DEF OpenPage, EditDraft, ClosePage, Patching
<1>3. ASSUME NEW c, Send(c)
      PROVE  \A s \in Patching' : s \in Patching /\ save'[s] = save[s]
  <2>1. saves + 1 \in Saves
    BY <1>3 DEF Send, TypeOK, Saves
  <2>2. save'[saves + 1].pc = "sent"
    BY <1>3, <2>1 DEF Send, TypeOK, NoSave
  <2>3. \A s \in Saves : s # saves + 1 => save'[s] = save[s]
    BY <1>3 DEF Send, TypeOK
  <2> QED
    BY <2>2, <2>3 DEF Patching
<1>4. CASE Autosave
  BY <1>1, <1>3, <1>4 DEF Autosave
<1>5. CASE ClickSubmit
  <2>1. submission'.pc = "saving"
    BY <1>5 DEF ClickSubmit, NoSubmission
  <2>2. Send(page.draft)
    BY <1>5 DEF ClickSubmit
  <2> QED
    BY <1>1, <1>3, <2>1, <2>2
<1>6. CASE SaveAnswered
  <2>1. submission'.pc \in {"saved", "idle"} /\ UNCHANGED save
    BY <1>6 DEF SaveAnswered, NoSubmission, TypeOK, Submission
  <2> QED
    BY <1>1, <2>1 DEF Patching
<1> QED
  BY <1>2, <1>4, <1>5, <1>6 DEF Wizard

LEMMA AloneStep ==
  ASSUME TypeOK, Rounds, Alone, [Next]_vars
  PROVE  Alone'
<1> SUFFICES ASSUME ~overlapped'
             PROVE  Alone'
  BY DEF Alone
<1>1. CASE CreateReport \/ CreatePrepopulated
  <2>1. ~overlapped /\ status = "none" /\ round = 0
    BY <1>1 DEF CreateReport, CreatePrepopulated, Rounds
  <2>2. Patching = {} /\ Reviewing = {} /\ submission.pc # "checked"
    BY <2>1 DEF Alone, Legitimate, Editable
  <2>3. UNCHANGED <<save, review, submission>>
    BY <1>1 DEF CreateReport, CreatePrepopulated
  <2> QED
    BY <2>2, <2>3 DEF Alone, Single, Patching, Reviewing
<1>2. CASE Wizard
  BY <1>2, WizardEffect, AloneFrame
<1>3. ASSUME NEW s \in Saves, Patch(s)
      PROVE  Alone'
  <2>1. CASE PatchLoad(s)
    <3>1. ~overlapped /\ Patching = {} /\ Reviewing = {} /\ submission.pc # "checked"
      BY <2>1 DEF PatchLoad, Enter, InFlight
    <3>2. status \in Editable /\ UNCHANGED <<status, row, review, submission>>
      BY <2>1 DEF PatchLoad
    <3>3. save'[s].pc = "loaded" /\ save'[s].seen = row
      BY <2>1 DEF PatchLoad, TypeOK, Save
    <3>4. \A t \in Saves : t # s => save'[t] = save[t]
      BY <2>1 DEF PatchLoad, TypeOK
    <3>5. \A t \in Patching' : t = s
      BY <3>1, <3>4 DEF Patching
    <3>6. Reviewing' = {} /\ submission'.pc # "checked"
      BY <3>1, <3>2 DEF Reviewing
    <3> QED
      BY <3>2, <3>3, <3>5, <3>6 DEF Alone, Single
  <2>2. CASE PatchWrite(s)
    <3>1. s \in Patching /\ ~overlapped
      BY <2>2 DEF PatchWrite, Patching
    <3>2. UNCHANGED <<status, row, lists, review, submission>>
      BY <2>2 DEF PatchWrite
    <3>3. save'[s].pc = "written" /\ save'[s].seen = save[s].seen /\ save'[s].old = lists
      BY <2>2 DEF PatchWrite, TypeOK, Save
    <3>4. \A t \in Saves : t # s => save'[t] = save[t]
      BY <2>2 DEF PatchWrite, TypeOK
    <3>5. \A t \in Patching' : t = s
      BY <3>1, <3>4 DEF Patching, Alone, Single
    <3>6. Reviewing' = {} /\ submission'.pc # "checked"
      BY <3>1, <3>2 DEF Reviewing, Alone, Single
    <3>7. status \in Editable /\ save[s].seen = row
      BY <3>1 DEF Alone
    <3> QED
      BY <3>2, <3>3, <3>5, <3>6, <3>7 DEF Alone, Single
  <2>3. CASE PatchCommit(s) \/ PatchFail(s)
    <3>1. s \in Patching \/ PatchFail(s)
      BY <2>3 DEF PatchCommit, Patching
    <3>2. \A t \in Patching' : t \in Patching /\ t # s /\ save'[t] = save[t]
      BY <2>3, PatchEffect
    <3>3. UNCHANGED <<status, round, review, submission, overlapped>>
      BY <2>3 DEF PatchCommit, PatchFail
    <3>4. CASE PatchFail(s)
      <4>1. UNCHANGED <<row, lists>>
        BY <3>4 DEF PatchFail
      <4> QED
        BY <3>2, <3>3, <4>1, AloneFrame
    <3>5. CASE s \in Patching
      <4>1. Patching' = {} /\ Reviewing' = {} /\ submission'.pc # "checked"
        BY <3>2, <3>3, <3>5 DEF Alone, Single, Reviewing
      <4> QED
        BY <4>1 DEF Alone, Single
    <3> QED
      BY <3>1, <3>4, <3>5
  <2> QED
    BY <1>3, <2>1, <2>2, <2>3 DEF Patch
<1>4. CASE Submit
  <2>1. CASE SubmitLoad
    <3>1. ~overlapped /\ Patching = {} /\ Reviewing = {}
      BY <2>1 DEF SubmitLoad, Enter, InFlight
    <3>2. UNCHANGED <<status, row, save, review>>
      BY <2>1 DEF SubmitLoad
    <3>3. status \in Editable /\ Complete(row) /\ submission'.seen = row
      BY <2>1 DEF SubmitLoad, TypeOK, Submission
    <3>4. Patching' = {} /\ Reviewing' = {}
      BY <3>1, <3>2 DEF Patching, Reviewing
    <3>5. Complete(row)'
      BY <3>2, <3>3 DEF Complete
    <3> QED
      BY <3>2, <3>3, <3>4, <3>5 DEF Alone, Single
  <2>2. CASE SubmitCommit
    <3>1. ~overlapped /\ submission.pc = "checked" /\ submission'.pc # "checked"
      BY <2>2 DEF SubmitCommit, NoSubmission
    <3>2. UNCHANGED <<save, review>>
      BY <2>2 DEF SubmitCommit
    <3>3. Patching' = {} /\ Reviewing' = {}
      BY <3>1, <3>2 DEF Alone, Single, Patching, Reviewing
    <3> QED
      BY <3>1, <3>3 DEF Alone, Single
  <2>3. CASE SubmitFail
    <3>1. UNCHANGED <<status, row, lists, round, review, save, overlapped>>
      BY <2>3 DEF SubmitFail
    <3>2. submission'.pc # "checked"
      BY <2>3 DEF SubmitFail, NoSubmission
    <3>3. \A s \in Patching' : s \in Patching /\ save'[s] = save[s]
      BY <3>1 DEF Patching
    <3> QED
      BY <3>1, <3>2, <3>3, AloneFrame
  <2> QED
    BY <1>4, <2>1, <2>2, <2>3 DEF Submit
<1>5. ASSUME NEW h \in Reviewers, Reviewed(h)
      PROVE  Alone'
  <2>1. CASE ConfirmLoad(h) \/ \E decision \in Decisions : DecideLoad(h, decision)
    <3>1. UNCHANGED <<status, round, save, submission>> /\ Enter
      BY <2>1, Considered
    <3>2. Patching = {} /\ Reviewing = {} /\ submission.pc # "checked"
      BY <3>1 DEF Enter, InFlight
    <3>3. \A k \in Reviewing' : k = h
      BY <2>1, <3>2, Considered
    <3>4. Legitimate(h)'
      BY <2>1, <3>1, Considered DEF Legitimate
    <3>5. Patching' = {} /\ submission'.pc # "checked"
      BY <3>1, <3>2 DEF Patching
    <3> QED
      BY <3>3, <3>4, <3>5 DEF Alone, Single
  <2>2. CASE ReviewCommit(h) \/ ReviewFail(h)
    <3>1. h \in Reviewing /\ ~overlapped
      BY <2>2, ReviewedEffect DEF ReviewCommit, ReviewFail
    <3>2. Reviewing' = {}
      BY <2>2, <3>1, ReviewedEffect DEF Alone, Single
    <3>3. UNCHANGED <<save, submission>>
      BY <2>2 DEF ReviewCommit, ReviewFail
    <3>4. Patching' = {} /\ submission'.pc # "checked"
      BY <3>1, <3>3 DEF Alone, Single, Patching
    <3> QED
      BY <3>2, <3>4 DEF Alone, Single
  <2> QED
    BY <1>5, <2>1, <2>2 DEF Reviewed
<1>6. CASE UNCHANGED vars
  BY <1>6, AloneFrame DEF vars, Patching
<1> QED
  BY <1>1, <1>2, <1>3, <1>4, <1>5, <1>6 DEF Next

-----------------------------------------------------------------------------
(* What holds of the report.                                               *)

\* Only the commit of a PATCH or of a submission writes the report.
LEMMA WhoWrites ==
  ASSUME TypeOK, [Next]_vars
  PROVE  \/ UNCHANGED <<row, lists>>
         \/ status = "none" /\ lists' \in {{}, {0}} /\ UNCHANGED row
         \/ SubmitCommit
         \/ \E s \in Saves : PatchCommit(s)
<1>1. CASE CreateReport \/ CreatePrepopulated
  BY <1>1 DEF CreateReport, CreatePrepopulated
<1>2. CASE Wizard
  BY <1>2, WizardEffect
<1>3. ASSUME NEW s \in Saves, Patch(s)
      PROVE  UNCHANGED <<row, lists>> \/ PatchCommit(s)
  BY <1>3 DEF Patch, PatchLoad, PatchWrite, PatchFail
<1>4. CASE Submit
  BY <1>4 DEF Submit, SubmitLoad, SubmitFail
<1>5. ASSUME NEW h \in Reviewers, Reviewed(h)
      PROVE  UNCHANGED <<row, lists>>
  BY <1>5, Considered DEF Reviewed, ReviewCommit, ReviewFail
<1>6. CASE UNCHANGED vars
  BY <1>6 DEF vars
<1> QED
  BY <1>1, <1>2, <1>3, <1>4, <1>5, <1>6 DEF Next

\* A handler that enters forgets no overlap.
LEMMA EnterRemembers ==
  ASSUME TypeOK, Enter
  PROVE  ~overlapped' => ~overlapped
BY DEF TypeOK, Enter, InFlight

\* The project is tracked or not for good, and an overlap is not forgotten.
LEMMA NeverForgotten ==
  ASSUME TypeOK, [Next]_vars
  PROVE  tracked' = tracked /\ (~overlapped' => ~overlapped)
<1>1. CASE CreateReport \/ CreatePrepopulated
  BY <1>1 DEF CreateReport, CreatePrepopulated
<1>2. CASE Wizard
  BY <1>2, WizardEffect
<1>3. ASSUME NEW s \in Saves, Patch(s)
      PROVE  tracked' = tracked /\ (~overlapped' => ~overlapped)
  BY <1>3, EnterRemembers DEF Patch, PatchLoad, PatchWrite, PatchCommit, PatchFail
<1>4. CASE Submit
  BY <1>4, EnterRemembers DEF Submit, SubmitLoad, SubmitCommit, SubmitFail
<1>5. ASSUME NEW h \in Reviewers, Reviewed(h)
      PROVE  tracked' = tracked /\ (~overlapped' => ~overlapped)
  BY <1>5, Considered, EnterRemembers DEF Reviewed, ReviewCommit, ReviewFail
<1>6. CASE UNCHANGED vars
  BY <1>6 DEF vars
<1> QED
  BY <1>1, <1>2, <1>3, <1>4, <1>5, <1>6 DEF Next

\* A PATCH that commits leaves its own rows only: another one that has committed
\* since its DELETE stops it, or has overlapped with it.
LEMMA ListsStep ==
  ASSUME TypeOK, Alone, ListsAreOneSave, [Next]_vars
  PROVE  ListsAreOneSave'
<1> SUFFICES ASSUME tracked' \/ ~overlapped', NEW s \in lists', NEW t \in lists'
             PROVE  s = t
  BY DEF ListsAreOneSave
<1>1. tracked' = tracked /\ (~overlapped' => ~overlapped)
  BY NeverForgotten
<1>2. CASE UNCHANGED lists \/ lists' \in {{}, {0}}
  BY <1>1, <1>2 DEF ListsAreOneSave
<1>3. CASE SubmitCommit
  BY <1>1, <1>3 DEF SubmitCommit, ListsAreOneSave
<1>4. ASSUME NEW p \in Saves, PatchCommit(p)
      PROVE  s = t
  <2>1. p \in Patching /\ save[p].pc = "written"
    BY <1>4 DEF PatchCommit, Patching
  <2>2. lists \subseteq save[p].old
    BY <1>1, <1>4, <2>1 DEF PatchCommit, UniqueProgress, Alone
  <2>3. lists' = {p}
    BY <1>4, <2>2 DEF PatchCommit
  <2> QED
    BY <2>3
<1> QED
  BY <1>2, <1>3, <1>4, WhoWrites

\* While no handlers overlap, the report is written while the GP may edit it.
LEMMA FrozenStep ==
  ASSUME TypeOK, Alone, [Next]_vars, ~overlapped', status \notin Editable \cup {"none"}
  PROVE  UNCHANGED <<row, lists>>
<1>1. ~overlapped
  BY NeverForgotten
<1>2. ~SubmitCommit
  BY <1>1 DEF SubmitCommit, Alone
<1>3. \A s \in Saves : ~PatchCommit(s)
  BY <1>1 DEF PatchCommit, Patching, Alone
<1> QED
  BY <1>2, <1>3, WhoWrites

\* A report comes under review by a submission only, and stays the same there.
LEMMA SoundStep ==
  ASSUME TypeOK, Alone, SubmittedIsSound, [Next]_vars
  PROVE  SubmittedIsSound'
<1> SUFFICES ASSUME ~overlapped', status' \notin Editable \cup {"none"}
             PROVE  Complete(row)' /\ row'.agg = Aggregate(row'.rag)
  BY DEF SubmittedIsSound
<1>1. ~overlapped
  BY NeverForgotten
<1>2. CASE status \notin Editable \cup {"none"}
  <2>1. UNCHANGED row
    BY <1>2, FrozenStep
  <2> QED
    BY <1>1, <1>2, <2>1 DEF SubmittedIsSound, Complete
<1>3. CASE SubmitCommit
  <2>1. submission.seen = row /\ Complete(row) /\ row \in Row
    BY <1>1, <1>3 DEF SubmitCommit, Alone, TypeOK
  <2>2. row' = Updated(row, row, [row EXCEPT !.agg = Aggregate(row.rag)])
    BY <1>3, <2>1 DEF SubmitCommit
  <2>3. row' = [row EXCEPT !.agg = Aggregate(row.rag)]
    BY <2>1, <2>2 DEF Updated, Row
  <2>4. row'.rag = row.rag /\ row'.just = row.just /\ row'.agg = Aggregate(row.rag)
    BY <2>1, <2>3 DEF Row
  <2> QED
    BY <2>1, <2>4 DEF Complete
<1>4. CASE ~SubmitCommit /\ status \in Editable \cup {"none"}
  <2>1. status' = status \/ status' \in Editable
    <3>1. CASE CreateReport \/ CreatePrepopulated
      BY <3>1 DEF CreateReport, CreatePrepopulated, Editable
    <3>2. CASE Wizard \/ \E s \in Saves : Patch(s)
      BY <3>2, WritersDecideNothing
    <3>3. CASE Submit
      BY <1>4, <3>3 DEF Submit, SubmitLoad, SubmitFail
    <3>4. ASSUME NEW h \in Reviewers, Reviewed(h)
          PROVE  status' = status
      <4>1. ~ReviewCommit(h)
        BY <1>1, <1>4 DEF ReviewCommit, Reviewing, Alone, Legitimate, Editable
      <4> QED
        BY <3>4, <4>1, Considered DEF Reviewed, ReviewFail
    <3>5. CASE UNCHANGED vars
      BY <3>5 DEF vars
    <3> QED
      BY <3>1, <3>2, <3>3, <3>4, <3>5 DEF Next
  <2> QED
    BY <1>4, <2>1
<1> QED
  BY <1>2, <1>3, <1>4

\* A decision that runs alone moves the status and the history together.
LEMMA ExplainedStep ==
  ASSUME TypeOK, Rounds, Alone, DecisionsExplainStatus, [Next]_vars
  PROVE  DecisionsExplainStatus'
<1> SUFFICES ASSUME ~overlapped'
             PROVE  DecisionsExplainStatus'
  BY DEF DecisionsExplainStatus
<1> USE DEF ThisRound, Approved, Returned
<1>1. ~overlapped
  BY NeverForgotten
<1>2. CASE UNCHANGED <<status, approvals, round>>
  BY <1>1, <1>2 DEF DecisionsExplainStatus
<1>3. CASE CreateReport \/ CreatePrepopulated
  BY <1>1, <1>3 DEF CreateReport, CreatePrepopulated, DecisionsExplainStatus
<1>4. CASE SubmitCommit
  <2>1. status' = "SUBMITTED" /\ approvals' = approvals /\ round' = round + 1
    BY <1>4 DEF SubmitCommit
  <2>2. round \in Nat /\ \A a \in approvals : a.round \in Nat /\ a.round <= round
    BY DEF TypeOK, Approval, Rounds
  <2>3. ThisRound' = {}
    BY <2>1, <2>2
  <2> QED
    BY <2>1, <2>3 DEF DecisionsExplainStatus
<1>5. ASSUME NEW h \in Reviewers, ReviewCommit(h)
      PROVE  DecisionsExplainStatus'
  <2> DEFINE a == review[h].approval
  <2>1. h \in Reviewing /\ Legitimate(h)
    BY <1>1, <1>5 DEF ReviewCommit, Reviewing, Alone
  <2>2. a \in Approval /\ a.round = round
    BY <2>1 DEF TypeOK, Reviewing, Review, Legitimate
  <2>3. approvals' = approvals \cup {a} /\ round' = round
    BY <1>5 DEF ReviewCommit
  <2>4. status' = NextStatus(a)
    BY <1>5, <2>1 DEF ReviewCommit, Legitimate
  <2>5. ThisRound' = ThisRound \cup {a}
    BY <2>2, <2>3
  <2>6. CASE status = "SUBMITTED"
    <3>1. a.stage = "PMO" /\ ThisRound' = {a}
      BY <1>1, <2>1, <2>5, <2>6 DEF Legitimate, DecisionsExplainStatus
    <3> QED
      BY <2>2, <2>4, <3>1 DEF DecisionsExplainStatus, NextStatus, Approval
  <2>7. CASE status = "PMO_APPROVED"
    <3>1. a.stage = "CLIENT" /\ Approved("PMO") # {} /\ ThisRound = Approved("PMO")
      BY <1>1, <2>1, <2>7 DEF Legitimate, DecisionsExplainStatus
    <3>2. Approved("PMO")' # {}
      BY <2>5, <3>1
    <3>3. \A b \in ThisRound' : b = a \/ (b.stage = "PMO" /\ b.decision = "approved")
      <4>1. \A b \in ThisRound : b.stage = "PMO" /\ b.decision = "approved"
        BY <3>1
      <4> QED
        BY <2>5, <4>1
    <3>4. a \in ThisRound'
      BY <2>5
    <3>5. CASE a.decision = "approved"
      BY <2>4, <3>1, <3>2, <3>3, <3>4, <3>5 DEF DecisionsExplainStatus, NextStatus
    <3>6. CASE a.decision = "requested_changes"
      BY <2>4, <3>1, <3>3, <3>4, <3>6 DEF DecisionsExplainStatus, NextStatus
    <3> QED
      BY <2>2, <3>5, <3>6 DEF Approval
  <2>8. CASE status = "CLIENT_RELEASED"
    <3>1. a.stage = "CLIENT" /\ a.decision = "approved"
      BY <2>1, <2>8 DEF Legitimate
    <3>2. Approved("PMO") # {} /\ Returned = {}
      BY <1>1, <2>8 DEF DecisionsExplainStatus
    <3>3. Approved("PMO")' # {} /\ Approved("CLIENT")' # {} /\ Returned' = {}
      BY <2>5, <3>1, <3>2
    <3> QED
      BY <2>4, <3>1, <3>3 DEF DecisionsExplainStatus, NextStatus
  <2> QED
    BY <2>1, <2>6, <2>7, <2>8 DEF Legitimate
<1> QED
  <2>1. CASE Wizard \/ \E s \in Saves : Patch(s)
    BY <1>2, <2>1, WritersDecideNothing
  <2>2. CASE Submit
    BY <1>2, <1>4, <2>2 DEF Submit, SubmitLoad, SubmitFail
  <2>3. ASSUME NEW h \in Reviewers, Reviewed(h)
        PROVE  DecisionsExplainStatus'
    BY <1>2, <1>5, <2>3, Considered DEF Reviewed, ReviewFail
  <2>4. CASE UNCHANGED vars
    BY <1>2, <2>4 DEF vars
  <2> QED
    BY <1>3, <2>1, <2>2, <2>3, <2>4 DEF Next

-----------------------------------------------------------------------------
LEMMA IInvStep == IInv /\ [Next]_vars => IInv'
BY TypeStep, RoundsStep, StagesStep, AloneStep, ListsStep, SoundStep, ExplainedStep
   DEF IInv, Structure

LEMMA Inductive == Spec => []IInv
<1>1. Init => IInv
  BY InitIInv
<1>2. IInv /\ [Next]_vars => IInv'
  BY IInvStep
<1> QED
  BY <1>1, <1>2, PTL DEF Spec

\* Every variable keeps its type: in particular the status is one of the enum's
\* and a decision is of a round that has been submitted.
THEOREM TypesHold == Spec => []TypeOK
<1>1. IInv => TypeOK
  BY DEF IInv, Structure
<1> QED
  BY <1>1, Inductive, PTL

\* decide_report and confirm_read skip no stage, however requests interleave: a
\* report the client sees has the PMO's approval, a released one both.
THEOREM StagesInOrder == Spec => []StageOrder
<1>1. IInv => StageOrder
  BY DEF IInv, Structure, Stages, StageOrder, PmoApproved, ClientApproved
<1> QED
  BY <1>1, Inductive, PTL

\* The child lists are never a mixture of two PATCHes where they carry
\* progresses, nor where requests do not overlap.
THEOREM ListsAreWhole == Spec => []ListsAreOneSave
<1>1. IInv => ListsAreOneSave
  BY DEF IInv
<1> QED
  BY <1>1, Inductive, PTL

\* Without overlapping requests, a report under review is complete and its
\* aggregate is that of its dimensions, whatever PATCH came last.
THEOREM ReviewedIsSound == Spec => []SubmittedIsSound
<1>1. IInv => SubmittedIsSound
  BY DEF IInv
<1> QED
  BY <1>1, Inductive, PTL

\* Without overlapping requests, the status is what the decisions of this round
\* make of it.
THEOREM StatusIsExplained == Spec => []DecisionsExplainStatus
<1>1. IInv => DecisionsExplainStatus
  BY DEF IInv
<1> QED
  BY <1>1, Inductive, PTL

\* What the PMO and the client decide on does not change under them while handlers
\* do not overlap: a late autosave is refused (reports.py:297-301).
FrozenUnderReview ==
  [][~overlapped' /\ status \notin Editable \cup {"none"} =>
       row' = row /\ lists' = lists]_vars

\* Without overlapping requests, what the PMO and the client decide on does not
\* change under them.
THEOREM ReviewIsFrozen == Spec => FrozenUnderReview
<1>1. IInv /\ [Next]_vars =>
        [~overlapped' /\ status \notin Editable \cup {"none"} =>
           row' = row /\ lists' = lists]_vars
  BY FrozenStep DEF IInv, Structure
<1> QED
  BY <1>1, Inductive, PTL DEF Spec, FrozenUnderReview

-----------------------------------------------------------------------------
(* The refinement of ReportReview.                                         *)

\* Decisions are not withdrawn and rounds are not taken back, whatever overlaps.
LEMMA HistoryKept ==
  ASSUME TypeOK, [Next]_vars
  PROVE  approvals \subseteq approvals' /\ round' >= round
<1>1. CASE CreateReport \/ CreatePrepopulated
  BY <1>1 DEF CreateReport, CreatePrepopulated, TypeOK
<1>2. CASE Wizard \/ \E s \in Saves : Patch(s)
  BY <1>2, WritersDecideNothing DEF TypeOK
<1>3. CASE Submit
  BY <1>3 DEF Submit, SubmitLoad, SubmitCommit, SubmitFail, TypeOK
<1>4. ASSUME NEW h \in Reviewers, Reviewed(h)
      PROVE  approvals \subseteq approvals' /\ round' = round
  BY <1>4, Considered DEF Reviewed, ReviewCommit, ReviewFail
<1>5. CASE UNCHANGED vars
  BY <1>5 DEF vars, TypeOK
<1> QED
  BY <1>1, <1>2, <1>3, <1>4, <1>5 DEF Next, TypeOK

LEMMA PromiseContents == TypeOK => <<row, lists>> \in Contents
BY DEF TypeOK, Contents

\* A submission that is alone commits what it has read, with its aggregate.
LEMMA SubmitImplements ==
  ASSUME TypeOK, Alone, ~overlapped, SubmitCommit
  PROVE  Promise!Submit
<1>1. /\ submission.pc = "checked" /\ status \in Editable
      /\ submission.seen = row /\ Complete(row) /\ row \in Row
  BY DEF SubmitCommit, Alone, TypeOK
<1>2. row' = Updated(row, row, [row EXCEPT !.agg = Aggregate(row.rag)])
  BY <1>1 DEF SubmitCommit
<1>3. row' = [row EXCEPT !.agg = Aggregate(row.rag)]
  BY <1>1, <1>2 DEF Updated, Row
<1> DEFINE X == {x \in Contents : Complete(x[1])}
           c == <<row, lists>>
<1>4. c \in X
  BY <1>1, PromiseContents
<1>5. <<row', lists'>> = Aggregated(c)
  BY <1>3 DEF Aggregated, SubmitCommit
<1>6. DOMAIN [x \in X |-> Aggregated(x)] = X /\ [x \in X |-> Aggregated(x)][c] = Aggregated(c)
  BY <1>4
<1>7. /\ status' = "SUBMITTED" /\ round' = round + 1 /\ approvals' = approvals
  BY DEF SubmitCommit
<1> QED
  BY <1>1, <1>4, <1>5, <1>6, <1>7 DEF Promise!Submit, Promise!Editable, Editable

\* A decision that is alone is the one its stage allows.
LEMMA DecisionImplements ==
  ASSUME TypeOK, Alone, ~overlapped, NEW h \in Reviewers, ReviewCommit(h)
  PROVE  Promise!Decide
<1> DEFINE a == review[h].approval
<1>1. h \in Reviewing /\ review[h] \in Review /\ Legitimate(h)
  BY DEF ReviewCommit, Reviewing, TypeOK, Alone
<1>2. /\ a \in Approval /\ a.round = round
      /\ a = [round |-> round, stage |-> a.stage, decision |-> a.decision]
  BY <1>1 DEF Review, Approval, Legitimate
<1>3. approvals' = approvals \cup {a} /\ UNCHANGED <<row, lists, round>>
  BY DEF ReviewCommit
<1>4. status' = NextStatus(a)
  BY <1>1 DEF ReviewCommit, Legitimate
<1>5. /\ \/ status = "SUBMITTED" /\ a.stage = "PMO"
         \/ status = "PMO_APPROVED" /\ a.stage = "CLIENT"
         \/ status = "CLIENT_RELEASED" /\ a.stage = "CLIENT" /\ a.decision = "approved"
      /\ a.decision \in {"approved", "requested_changes"}
  BY <1>1, <1>2 DEF Legitimate, Approval
<1> HIDE DEF a
<1> QED
  BY <1>2, <1>3, <1>4, <1>5
     DEF Promise!Decide, Promise!Approve, Promise!Return, Promise!Record, NextStatus

LEMMA ImplementsStep ==
  ASSUME TypeOK, TypeOK', Alone, [Next]_vars
  PROVE  [Promise!Next]_(Promise!vars)
<1>1. CASE overlapped'
  <2>1. overlapped' = TRUE
    BY <1>1 DEF TypeOK
  <2> QED
    BY <2>1, HistoryKept DEF Promise!Next, Promise!Overlapped
<1>2. CASE ~overlapped'
  <2>1. ~overlapped /\ overlapped' = overlapped
    BY <1>2, NeverForgotten DEF TypeOK
  <2>2. <<row', lists'>> \in Contents
    BY PromiseContents, TypeOK' DEF TypeOK, Contents
  <2>3. SUFFICES \/ Promise!Create \/ Promise!Write \/ Promise!Submit \/ Promise!Decide
                 \/ UNCHANGED <<status, row, lists, approvals, round>>
    BY <2>1 DEF Promise!Next, Promise!Alone, Promise!vars
  <2>4. CASE CreateReport \/ CreatePrepopulated
    BY <2>2, <2>4 DEF CreateReport, CreatePrepopulated, Promise!Create
  <2>5. CASE Wizard
    BY <2>5, WizardEffect
  <2>6. ASSUME NEW s \in Saves, Patch(s)
        PROVE  Promise!Write \/ UNCHANGED <<status, row, lists, approvals, round>>
    <3>1. CASE PatchCommit(s)
      <4>1. status \in Editable
        BY <2>1, <3>1 DEF PatchCommit, Patching, Alone
      <4> QED
        BY <2>2, <3>1, <4>1 DEF PatchCommit, Promise!Write, Promise!Editable, Editable
    <3>2. CASE PatchLoad(s) \/ PatchWrite(s) \/ PatchFail(s)
      BY <3>2 DEF PatchLoad, PatchWrite, PatchFail
    <3> QED
      BY <2>6, <3>1, <3>2 DEF Patch
  <2>7. CASE Submit
    BY <2>1, <2>7, SubmitImplements DEF Submit, SubmitLoad, SubmitFail
  <2>8. ASSUME NEW h \in Reviewers, Reviewed(h)
        PROVE  Promise!Decide \/ UNCHANGED <<status, row, lists, approvals, round>>
    BY <2>1, <2>8, Considered, DecisionImplements DEF Reviewed, ReviewFail
  <2>9. CASE UNCHANGED vars
    BY <2>9 DEF vars
  <2> QED
    BY <2>4, <2>5, <2>6, <2>7, <2>8, <2>9 DEF Next
<1> QED
  BY <1>1, <1>2

\* The handlers, each a read and a later write by primary key, implement the atomic
\* steps of ReportReview as long as no two of them overlap.
THEOREM WorkflowImplementsReview == Spec => ImplementsReview
<1>1. Init => Promise!Init
  BY InitIInv, PromiseContents DEF Init, Promise!Init, IInv, Structure
<1>2. IInv /\ IInv' /\ [Next]_vars => [Promise!Next]_(Promise!vars)
  BY ImplementsStep DEF IInv, Structure
<1> QED
  BY <1>1, <1>2, Inductive, PTL DEF Spec, ImplementsReview, Promise!Spec
=============================================================================
