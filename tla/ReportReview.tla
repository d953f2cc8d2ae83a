---------------------------- MODULE ReportReview ---------------------------
(***************************************************************************)
(* What the portal promises about the review of one report: the GP writes  *)
(* it while it is a draft or has been returned, submits it when it is      *)
(* complete, and from then on the PMO and the client decide on what was    *)
(* submitted, one stage after the other.  Each is one atomic step.         *)
(*                                                                         *)
(* The code has neither locks nor versions, so the promise is void once    *)
(* two handlers of the report have overlapped; what has been decided is    *)
(* kept even then.  ReportWorkflow is shown to implement it.               *)
(***************************************************************************)
EXTENDS Naturals

CONSTANTS Contents,   \* what a report may hold
          Submitted   \* Submitted[c]: what is kept of c when submit_report accepts it

VARIABLES status,     \* the column Report.status, "none" before the report is created
          content,    \* the other columns and the child lists
          approvals,  \* the decisions
          round,      \* submissions so far
          voided      \* two handlers have overlapped

vars == <<status, content, approvals, round, voided>>

Editable == {"DRAFT", "NEEDS_REVISION"}

Init ==
  /\ status = "none"
  /\ content \in Contents
  /\ approvals = {}
  /\ round = 0
  /\ voided = FALSE

Create ==
  /\ status = "none"
  /\ status' = "DRAFT"
  /\ content' \in Contents
  /\ UNCHANGED <<approvals, round>>

Write ==
  /\ status \in Editable
  /\ content' \in Contents
  /\ UNCHANGED <<status, approvals, round>>

Submit ==
  /\ status \in Editable
  /\ content \in DOMAIN Submitted
  /\ content' = Submitted[content]
  /\ status' = "SUBMITTED"
  /\ round' = round + 1
  /\ UNCHANGED approvals

Record(stage, decision) ==
  approvals' = approvals \cup {[round |-> round, stage |-> stage, decision |-> decision]}

Approve(stage, before, after) ==
  /\ status = before
  /\ Record(stage, "approved")
  /\ status' = after
  /\ UNCHANGED <<content, round>>

Return(stage, before) ==
  /\ status = before
  /\ Record(stage, "requested_changes")
  /\ status' = "NEEDS_REVISION"
  /\ UNCHANGED <<content, round>>

\* The client may confirm a released report again.
Decide ==
  \/ Approve("PMO", "SUBMITTED", "PMO_APPROVED")
  \/ Return("PMO", "SUBMITTED")
  \/ Approve("CLIENT", "PMO_APPROVED", "CLIENT_RELEASED")
  \/ Return("CLIENT", "PMO_APPROVED")
  \/ Approve("CLIENT", "CLIENT_RELEASED", "CLIENT_RELEASED")

Alone == voided' = voided /\ (Create \/ Write \/ Submit \/ Decide)

Overlapped ==
  /\ voided' = TRUE
  /\ approvals \subseteq approvals'
  /\ round' >= round

Next == Alone \/ Overlapped

Spec == Init /\ [][Next]_vars
=============================================================================
