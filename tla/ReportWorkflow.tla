--------------------------- MODULE ReportWorkflow ---------------------------
(***************************************************************************)
(* One report: the wizard in which the GP writes it, with its autosave and *)
(* its submission, and the handlers that save, submit, decide and confirm  *)
(* it (reports.py, approvals.py, client_portal.py, use-autosave.ts and the *)
(* edit page).                                                             *)
(*                                                                         *)
(* Requests are handled concurrently and may overtake each other.  A       *)
(* handler reads the report, and later its commit writes the columns whose *)
(* value it has changed, by primary key and whatever the row has become    *)
(* (READ COMMITTED, no version column).  The first UPDATE of a PATCH comes *)
(* before its DELETEs, and holds the lock of the row until the commit.     *)
(*                                                                         *)
(* The columns kept are the RAG dimensions, their justifications and the   *)
(* aggregate.  The rows of the child lists are told apart by the PATCH     *)
(* that inserted them, 0 for those prepopulate_report inherited.  What a   *)
(* handler does after its commit on a best-effort basis (health score,     *)
(* analysis, notifications) and the promotion of deliverables to CONCLUDED *)
(* write nothing that is read here, and are left out.                      *)
(***************************************************************************)
EXTENDS Naturals

CONSTANTS
  Dimensions,   \* prazo, escopo, qualidade
  Texts,        \* justifications that are not blank
  None,         \* NULL: no level, a blank justification
  Drafts,       \* what the GP may write in the wizard
  Reviewers,    \* requests of the PMO and the client served at the same time
  MaxSaves,     \* bound: PATCH requests
  MaxRounds     \* bound: submissions

Levels == {"GREEN", "AMBER", "RED"}
Content == [rag : [Dimensions -> Levels \cup {None}],
            just : [Dimensions -> Texts \cup {None}]]
Row == [rag : [Dimensions -> Levels \cup {None}],
        just : [Dimensions -> Texts \cup {None}],
        agg : Levels \cup {None}]

ASSUME NoneAssumption == None \notin Levels /\ None \notin Texts
ASSUME DimensionsAssumption == Dimensions # {}
ASSUME DraftsAssumption == Drafts \subseteq Content
ASSUME BoundsAssumption == MaxSaves \in Nat /\ MaxRounds \in Nat

VARIABLES
  tracked,     \* the project has an active baseline with deliverables (fixed)
  status,      \* Report.status, "none" before it is created
  row,         \* the other columns of the report
  lists,       \* the PATCHes whose rows are in the child lists
  approvals,   \* the ReportApproval rows
  round,       \* history: submissions committed
  page,        \* the wizard
  saves,       \* PATCH requests sent so far
  save,        \* save[s]: the PATCH request s and its handler
  submission,  \* handleSubmitFinal and the handler of its POST
  review,      \* review[h]: a handler of decide_report or confirm_read
  overlapped   \* history: two handlers have been in flight at once

vars == <<tracked, status, row, lists, approvals, round, page, saves, save,
          submission, review, overlapped>>

Editable == {"DRAFT", "NEEDS_REVISION"}
ReportStatus == Editable \cup {"SUBMITTED", "PMO_APPROVED", "CLIENT_RELEASED"}
Approval == [round : 1 .. MaxRounds, stage : {"PMO", "CLIENT"},
             decision : {"approved", "requested_changes"}]

EmptyRow == [rag |-> [d \in Dimensions |-> None],
             just |-> [d \in Dimensions |-> None], agg |-> None]
ContentOf(r) == [rag |-> r.rag, just |-> r.just]

Saves == 1 .. MaxSaves
Page == [open : BOOLEAN, draft : Content, dirty : BOOLEAN]
Save == [pc : {"none", "sent", "loaded", "written", "done", "failed"},
         content : Content, seen : Row, old : SUBSET (0 .. MaxSaves)]
Submission == [pc : {"idle", "saving", "saved", "checked"}, save : 0 .. MaxSaves,
               content : Content, seen : Row]
Review == [pc : {"idle", "checked"}, seen : ReportStatus, approval : Approval]

TypeOK ==
  /\ tracked \in BOOLEAN
  /\ status \in ReportStatus \cup {"none"}
  /\ row \in Row
  /\ lists \in SUBSET (0 .. MaxSaves)
  /\ approvals \in SUBSET Approval
  /\ round \in 0 .. MaxRounds
  /\ page \in Page
  /\ saves \in 0 .. MaxSaves
  /\ save \in [Saves -> Save]
  /\ submission \in Submission
  /\ review \in [Reviewers -> Review \cup {[pc |-> "idle"]}]
  /\ overlapped \in BOOLEAN

NoSave == [pc |-> "none", content |-> ContentOf(EmptyRow), seen |-> EmptyRow,
           old |-> {}]
Ended(pc) == [NoSave EXCEPT !.pc = pc]   \* a PATCH that has been answered
NoPage == [open |-> FALSE, draft |-> ContentOf(EmptyRow), dirty |-> FALSE]
NoSubmission == [pc |-> "idle", save |-> 0, content |-> ContentOf(EmptyRow),
                 seen |-> EmptyRow]

Init ==
  /\ tracked \in BOOLEAN
  /\ status = "none"
  /\ row = EmptyRow
  /\ lists = {}
  /\ approvals = {}
  /\ round = 0
  /\ page = NoPage
  /\ saves = 0
  /\ save = [s \in Saves |-> NoSave]
  /\ submission = NoSubmission
  /\ review = [h \in Reviewers |-> [pc |-> "idle"]]
  /\ overlapped = FALSE

-----------------------------------------------------------------------------
(* What the columns mean.                                                  *)

\* _aggregate_rag: the worst of the dimensions, NULL while one is missing.
Aggregate(rag) ==
  CASE \E d \in Dimensions : rag[d] = None -> None
    [] \A d \in Dimensions : rag[d] = "GREEN" -> "GREEN"
    [] (\A d \in Dimensions : rag[d] # None) /\ (\E d \in Dimensions : rag[d] = "RED") -> "RED"
    [] OTHER -> "AMBER"

\* What submit_report and validateRag ask for: every dimension has a level, and
\* a justification unless it is green.
Complete(c) ==
  \A d \in Dimensions : c.rag[d] # None /\ (c.rag[d] # "GREEN" => c.just[d] # None)

\* The row as patch_report has it in its session before the flush.
Patched(s) ==
  [rag |-> save[s].content.rag, just |-> save[s].content.just,
   agg |-> IF Aggregate(save[s].content.rag) # None
             THEN Aggregate(save[s].content.rag) ELSE save[s].seen.agg]

\* An UPDATE sets the columns whose value differs from the one that was loaded.
Updated(now, seen, new) ==
  [rag |-> [d \in Dimensions |-> IF new.rag[d] # seen.rag[d] THEN new.rag[d] ELSE now.rag[d]],
   just |-> [d \in Dimensions |-> IF new.just[d] # seen.just[d] THEN new.just[d] ELSE now.just[d]],
   agg |-> IF new.agg # seen.agg THEN new.agg ELSE now.agg]

-----------------------------------------------------------------------------
(* Handlers in flight.                                                     *)

\* Those that have read the report and not committed.
Patching == {s \in Saves : save[s].pc \in {"loaded", "written"}}
Reviewing == {h \in Reviewers : review[h].pc = "checked"}
InFlight == Patching # {} \/ Reviewing # {} \/ submission.pc = "checked"

Enter == overlapped' = (overlapped \/ InFlight)

\* The PATCHes that have updated the row and hold its lock.
RowLocked == \E s \in Saves : save[s].pc = "written" /\ Patched(s) # save[s].seen

-----------------------------------------------------------------------------
(* Creation.                                                               *)

CreateReport ==
  /\ status = "none"
  /\ status' = "DRAFT"
  /\ UNCHANGED <<tracked, row, lists, approvals, round, page, saves, save,
                 submission, review, overlapped>>

\* prepopulate_report needs an active baseline; risks and pending items, if any,
\* are inherited from the last report, progresses from the deliverables.
CreatePrepopulated ==
  /\ status = "none"
  /\ tracked
  /\ status' = "DRAFT"
  /\ lists' \in {{}, {0}}
  /\ UNCHANGED <<tracked, row, approvals, round, page, saves, save, submission,
                 review, overlapped>>

-----------------------------------------------------------------------------
(* The wizard.                                                             *)

\* The page seeds the progresses from the active baseline when there are none,
\* which the autosave takes for an edit.
OpenPage ==
  /\ ~page.open
  /\ status \in Editable
  /\ submission.pc = "idle"
  /\ \E seeded \in BOOLEAN :
       /\ seeded => tracked /\ lists \subseteq {0}
       /\ tracked /\ lists = {} => seeded
       /\ page' = [open |-> TRUE, draft |-> ContentOf(row), dirty |-> seeded]
  /\ UNCHANGED <<tracked, status, row, lists, approvals, round, saves, save,
                 submission, review, overlapped>>

\* An edit starts the timer of the autosave again.
EditDraft ==
  /\ page.open
  /\ \E c \in Drafts \ {page.draft} :
       page' = [page EXCEPT !.draft = c, !.dirty = TRUE]
  /\ UNCHANGED <<tracked, status, row, lists, approvals, round, saves, save,
                 submission, review, overlapped>>

\* The page is left: its cleanup clears the timer.
ClosePage ==
  /\ page.open
  /\ submission.pc = "idle"
  /\ page' = NoPage
  /\ UNCHANGED <<tracked, status, row, lists, approvals, round, saves, save,
                 submission, review, overlapped>>

Send(c) ==
  /\ saves < MaxSaves
  /\ saves' = saves + 1
  /\ save' = [save EXCEPT ![saves + 1] = [NoSave EXCEPT !.pc = "sent", !.content = c]]

\* The timer fires: the PATCHes sent before it may still be on their way.
Autosave ==
  /\ page.open
  /\ page.dirty
  /\ Send(page.draft)
  /\ page' = [page EXCEPT !.dirty = FALSE]
  /\ UNCHANGED <<tracked, status, row, lists, approvals, round, submission,
                 review, overlapped>>

\* handleSubmitFinal saves the draft, "garante ultimo estado", and waits for it.
\* It leaves the timer as it is.
ClickSubmit ==
  /\ page.open
  /\ submission.pc = "idle"
  /\ round < MaxRounds
  /\ Complete(page.draft)
  /\ Send(page.draft)
  /\ submission' = [NoSubmission EXCEPT !.pc = "saving", !.save = saves + 1,
                                        !.content = page.draft]
  /\ UNCHANGED <<tracked, status, row, lists, approvals, round, page, review,
                 overlapped>>

\* The save has been answered: the submission is sent, or given up.
SaveAnswered ==
  /\ submission.pc = "saving"
  /\ save[submission.save].pc \in {"done", "failed"}
  /\ submission' = IF save[submission.save].pc = "done"
                      THEN [submission EXCEPT !.pc = "saved", !.save = 0]
                      ELSE NoSubmission
  /\ UNCHANGED <<tracked, status, row, lists, approvals, round, page, saves,
                 save, review, overlapped>>

-----------------------------------------------------------------------------
(* patch_report.                                                           *)

\* Mutant of PatchLoad: the status is not checked.
PatchLoadAny(s) ==
  /\ save[s].pc = "sent"
  /\ status # "none"
  /\ save' = [save EXCEPT ![s].pc = "loaded", ![s].seen = row]
  /\ Enter
  /\ UNCHANGED <<tracked, status, row, lists, approvals, round, page, saves,
                 submission, review>>

PatchLoad(s) ==
  /\ save[s].pc = "sent"
  /\ status \in Editable
  /\ save' = [save EXCEPT ![s].pc = "loaded", ![s].seen = row]
  /\ Enter
  /\ UNCHANGED <<tracked, status, row, lists, approvals, round, page, saves,
                 submission, review>>

\* The UPDATE of the columns, if any has changed, waits for the row; then the
\* DELETEs find the rows of the child lists that are committed by now.
PatchWrite(s) ==
  /\ save[s].pc = "loaded"
  /\ Patched(s) # save[s].seen => ~RowLocked
  /\ save' = [save EXCEPT ![s].pc = "written", ![s].old = lists]
  /\ UNCHANGED <<tracked, status, row, lists, approvals, round, page, saves,
                 submission, review, overlapped>>

\* uq_progress_report_deliverable: the progresses inserted must not meet those
\* another PATCH has committed since the DELETE.
UniqueProgress(s) == tracked => lists \subseteq save[s].old

\* Mutant of PatchCommit: no constraint on the progresses.
PatchCommitFreely(s) ==
  /\ save[s].pc = "written"
  /\ row' = Updated(row, save[s].seen, Patched(s))
  /\ lists' = (lists \ save[s].old) \cup {s}
  /\ save' = [save EXCEPT ![s] = Ended("done")]
  /\ UNCHANGED <<tracked, status, approvals, round, page, saves, submission,
                 review, overlapped>>

PatchCommit(s) ==
  /\ save[s].pc = "written"
  /\ UniqueProgress(s)
  /\ row' = Updated(row, save[s].seen, Patched(s))
  /\ lists' = (lists \ save[s].old) \cup {s}
  /\ save' = [save EXCEPT ![s] = Ended("done")]
  /\ UNCHANGED <<tracked, status, approvals, round, page, saves, submission,
                 review, overlapped>>

\* A status that takes no autosave, a constraint, a lost request, an error.
PatchFail(s) ==
  /\ save[s].pc \in {"sent", "loaded", "written"}
  /\ save' = [save EXCEPT ![s] = Ended("failed")]
  /\ UNCHANGED <<tracked, status, row, lists, approvals, round, page, saves,
                 submission, review, overlapped>>

-----------------------------------------------------------------------------
(* submit_report.                                                          *)

\* Mutant of SubmitLoad: the page has validated the RAG, the handler has not.
SubmitLoadUnchecked ==
  /\ submission.pc = "saved"
  /\ status \in Editable
  /\ submission' = [submission EXCEPT !.pc = "checked", !.seen = row]
  /\ Enter
  /\ UNCHANGED <<tracked, status, row, lists, approvals, round, page, saves,
                 save, review>>

SubmitLoad ==
  /\ submission.pc = "saved"
  /\ status \in Editable
  /\ Complete(row)
  /\ submission' = [submission EXCEPT !.pc = "checked", !.seen = row]
  /\ Enter
  /\ UNCHANGED <<tracked, status, row, lists, approvals, round, page, saves,
                 save, review>>

\* The aggregate and the status are written, and the page is left.
SubmitCommit ==
  /\ submission.pc = "checked"
  /\ ~RowLocked
  /\ status' = "SUBMITTED"
  /\ row' = Updated(row, submission.seen,
                    [submission.seen EXCEPT !.agg = Aggregate(submission.seen.rag)])
  /\ round' = round + 1
  /\ submission' = [NoSubmission EXCEPT !.content = submission.content]
  /\ page' = NoPage
  /\ UNCHANGED <<tracked, lists, approvals, saves, save, review, overlapped>>

\* Refused or failed: the page shows the error and the GP may submit again.
SubmitFail ==
  /\ submission.pc \in {"saved", "checked"}
  /\ submission' = [NoSubmission EXCEPT !.content = submission.content]
  /\ UNCHANGED <<tracked, status, row, lists, approvals, round, page, saves,
                 save, review, overlapped>>

-----------------------------------------------------------------------------
(* decide_report and confirm_read.                                         *)

Consider(h, stage, decision) ==
  /\ review[h].pc = "idle"
  /\ review' = [review EXCEPT ![h] =
       [pc |-> "checked", seen |-> status,
        approval |-> [round |-> round, stage |-> stage, decision |-> decision]]]
  /\ Enter
  /\ UNCHANGED <<tracked, status, row, lists, approvals, round, page, saves,
                 save, submission>>

Decisions == {"approved", "requested_changes"}

\* Mutant of DecideLoad: the client may return a report it has released.
DecideLoadReleased(h, decision) ==
  \/ /\ status = "SUBMITTED"
     /\ Consider(h, "PMO", decision)
  \/ /\ status \in {"PMO_APPROVED", "CLIENT_RELEASED"}
     /\ Consider(h, "CLIENT", decision)

\* The stage follows from the status and the role.
DecideLoad(h, decision) ==
  \/ /\ status = "SUBMITTED"
     /\ Consider(h, "PMO", decision)
  \/ /\ status = "PMO_APPROVED"
     /\ Consider(h, "CLIENT", decision)

\* Mutant of ConfirmLoad: any report that has been submitted.
ConfirmLoadEarly(h) ==
  /\ status \in {"SUBMITTED", "PMO_APPROVED", "CLIENT_RELEASED"}
  /\ Consider(h, "CLIENT", "approved")

\* The client confirms that it has read a report the PMO has approved.
ConfirmLoad(h) ==
  /\ status \in {"PMO_APPROVED", "CLIENT_RELEASED"}
  /\ Consider(h, "CLIENT", "approved")

\* Mutant of NextStatus: the decision that approvals.py no longer has.
NextStatusRejected(approval) ==
  CASE approval.decision = "requested_changes" -> "REJECTED"
    [] approval.decision = "approved" /\ approval.stage = "PMO" -> "PMO_APPROVED"
    [] OTHER -> "CLIENT_RELEASED"

\* _next_status, and confirm_read on a report that has been released.
NextStatus(approval) ==
  CASE approval.decision = "requested_changes" -> "NEEDS_REVISION"
    [] approval.decision = "approved" /\ approval.stage = "PMO" -> "PMO_APPROVED"
    [] OTHER -> "CLIENT_RELEASED"

\* One commit for the status and the approval.
ReviewCommit(h) ==
  /\ review[h].pc = "checked"
  /\ IF NextStatus(review[h].approval) # review[h].seen
       THEN ~RowLocked /\ status' = NextStatus(review[h].approval)
       ELSE UNCHANGED status
  /\ approvals' = approvals \cup {review[h].approval}
  /\ review' = [review EXCEPT ![h] = [pc |-> "idle"]]
  /\ UNCHANGED <<tracked, row, lists, round, page, saves, save, submission,
                 overlapped>>

ReviewFail(h) ==
  /\ review[h].pc = "checked"
  /\ review' = [review EXCEPT ![h] = [pc |-> "idle"]]
  /\ UNCHANGED <<tracked, status, row, lists, approvals, round, page, saves,
                 save, submission, overlapped>>

-----------------------------------------------------------------------------
Wizard ==
  \/ OpenPage \/ EditDraft \/ ClosePage \/ Autosave \/ ClickSubmit \/ SaveAnswered

Patch(s) == PatchLoad(s) \/ PatchWrite(s) \/ PatchCommit(s) \/ PatchFail(s)

Submit == SubmitLoad \/ SubmitCommit \/ SubmitFail

Reviewed(h) ==
  \/ \E decision \in Decisions : DecideLoad(h, decision)
  \/ ConfirmLoad(h) \/ ReviewCommit(h) \/ ReviewFail(h)

Next ==
  \/ CreateReport \/ CreatePrepopulated
  \/ Wizard
  \/ \E s \in Saves : Patch(s)
  \/ Submit
  \/ \E h \in Reviewers : Reviewed(h)

Spec == Init /\ [][Next]_vars

-----------------------------------------------------------------------------
\* What has been decided since the last submission.
ThisRound == {a \in approvals : a.round = round}
Approved(stage) == {a \in ThisRound : a.stage = stage /\ a.decision = "approved"}
Returned == {a \in ThisRound : a.decision = "requested_changes"}

\* No stage is skipped: a report the client sees has an approval of the PMO, and
\* a released one the client's as well (approvals.py:3-6), whatever overlaps.
StageOrder ==
  /\ status \in {"PMO_APPROVED", "CLIENT_RELEASED"} =>
       \E a \in approvals : a.stage = "PMO" /\ a.decision = "approved"
  /\ status = "CLIENT_RELEASED" =>
       \E a \in approvals : a.stage = "CLIENT" /\ a.decision = "approved"

\* The history explains the status: while handlers do not overlap, the status
\* is what the decisions since the last submission make of it.
DecisionsExplainStatus ==
  ~overlapped =>
    /\ status \in {"none", "DRAFT"} => approvals = {} /\ round = 0
    /\ status = "SUBMITTED" => ThisRound = {}
    /\ status = "PMO_APPROVED" => Approved("PMO") # {} /\ ThisRound = Approved("PMO")
    /\ status = "CLIENT_RELEASED" =>
         Approved("PMO") # {} /\ Approved("CLIENT") # {} /\ Returned = {}
    /\ status = "NEEDS_REVISION" =>
         Returned # {} /\ Approved("CLIENT") = {}

\* A report under review has all its dimensions, the justifications they need
\* and the aggregate of its dimensions (reports.py:472-505), although a PATCH
\* that was sent before may land between the last save and the submission.
SubmittedIsSound ==
  ~overlapped /\ status \notin Editable \cup {"none"} =>
    Complete(row) /\ row.agg = Aggregate(row.rag)

\* The child lists are those of one PATCH, replaced as a whole: always when
\* handlers do not overlap, and when they do as long as each PATCH carries
\* progresses, whose unique constraint stops the second one.
ListsAreOneSave == tracked \/ ~overlapped => \A s, t \in lists : s = t

\* "garante ultimo estado" (edit page:231): what is submitted is what the GP
\* had in the wizard when submitting.
SubmittedIsLatest ==
  ~overlapped /\ status = "SUBMITTED" => ContentOf(row) = submission.content

\* Handlers that read the report and write it later implement the review of
\* ReportReview, in which submissions, decisions and what the GP writes are atomic
\* and nothing is written under review (reports.py:297-301, approvals.py:3-6), as
\* long as no two of them overlap.
Contents == Row \X SUBSET (0 .. MaxSaves)
Aggregated(c) == <<[c[1] EXCEPT !.agg = Aggregate(c[1].rag)], c[2]>>
Promise == INSTANCE ReportReview WITH
  content <- <<row, lists>>,
  Submitted <- [c \in {x \in Contents : Complete(x[1])} |-> Aggregated(c)],
  voided <- overlapped
ImplementsReview == Promise!Spec
=============================================================================
