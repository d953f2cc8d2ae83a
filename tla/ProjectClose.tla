--------------------------- MODULE ProjectClose ----------------------------
(***************************************************************************)
(* close_project (projects.py) composed with the work it asks to be over:  *)
(* the scope transitions of the project, which are module ScopeTransition  *)
(* with its own steps, and its reports with their risks.  The handler asks *)
(* five questions, each a SELECT of its own under READ COMMITTED, and      *)
(* closes the project in a later commit.  No other handler looks at the    *)
(* status of the project: uploads, reports and decisions go on beside the  *)
(* closing and after it.                                                   *)
(*                                                                         *)
(* The decision on a report is one step here; what its handlers do when    *)
(* they overlap is module ReportWorkflow, and the one effect of it that    *)
(* matters to the closing is ReturnReleased.  A risk stands for its row:   *)
(* an autosave checks the status of its report, deletes the rows it finds  *)
(* and inserts a new one, and commits whatever the status is by then.      *)
(***************************************************************************)
EXTENDS ScopeTransition

CONSTANTS
  Closers,      \* requests to close the project, by one impatient GP
  Reports,      \* the reports the project may have
  MaxRisk       \* bound: PATCHes of the risks of one report

ASSUME RiskAssumption == MaxRisk \in Nat

VARIABLES
  project,      \* columns status and ended_at (by which request)
  retros,       \* the rows of project_retrospectives
  report,       \* report[r]: status column
  risk,         \* risk[r]: the risk rows of r, by the PATCH that has inserted them
  patch,        \* patch[r][k]: how far the k-th PATCH of r is, and what it deletes
  close,        \* close[c]: the next question of handler c, and its payload
  late          \* history: what was under way when c asked, or has become pending since

reportVars == <<report, risk, patch>>
closeVars == <<vars, project, retros, reportVars, close, late>>

Rows == 1 .. MaxRisk
\* A PATCH that fails leaves nothing behind: here it is one that goes no further.
Patch == [pc : {"idle", "checked", "written", "done"}, old : SUBSET Rows]

\* materialized_risks: at most one, the risk with a number of a report.
Listed == [report : Reports, risk : Rows]
Payload == {l \in SUBSET Listed : Cardinality(l) <= 1}

Questions == {"scope", "reports", "baselines", "risks", "commit"}
Statuses == {"DRAFT", "SUBMITTED", "PMO_APPROVED", "NEEDS_REVISION", "CLIENT_RELEASED"}
Nobody == "nobody"

ASSUME NobodyAssumption == Nobody \notin Closers

CloseTypeOK ==
  /\ TypeOK
  /\ project \in [status : {"ACTIVE", "CLOSED"}, endedBy : Closers \cup {Nobody}]
  /\ retros \in SUBSET [by : Closers, risks : Payload]
  /\ report \in [Reports -> Statuses \cup {"none"}]
  /\ risk \in [Reports -> SUBSET Rows]
  /\ patch \in [Reports -> [Rows -> Patch]]
  /\ close \in [Closers -> [pc : Questions \cup {"idle"}, risks : Payload]]
  /\ late \in [Closers -> [reports : SUBSET Reports, drafts : SUBSET (1 .. MaxVersion),
                         patches : SUBSET (Reports \X Rows)]]

NoClose == [pc |-> "idle", risks |-> {}]
NotLate == [reports |-> {}, drafts |-> {}, patches |-> {}]
NoPatch == [pc |-> "idle", old |-> {}]

CloseInit ==
  /\ Init
  /\ project = [status |-> "ACTIVE", endedBy |-> Nobody]
  /\ retros = {}
  /\ report = [r \in Reports |-> "none"]
  /\ risk = [r \in Reports |-> {}]
  /\ patch = [r \in Reports |-> [k \in Rows |-> NoPatch]]
  /\ close = [c \in Closers |-> NoClose]
  /\ late = [c \in Closers |-> NotLate]

-----------------------------------------------------------------------------
(* What blocks a closing.                                                  *)

\* Mutant of Blocking: as section 10.4 of the specification lists it.
SpecBlocking == {r \in Reports : report[r] \in {"DRAFT", "SUBMITTED", "PMO_APPROVED"}}

\* _REPORT_BLOCKING_STATUSES.
Blocking ==
  {r \in Reports : report[r] \in {"DRAFT", "SUBMITTED", "PMO_APPROVED", "NEEDS_REVISION"}}

\* Mutant of PendingDrafts: a draft without a PROPOSED change is not waited for.
DraftsWithChanges ==
  {v \in 2 .. MaxVersion : baseline[v] = "DRAFT" /\ Proposed(v) # {}}

\* Drafts of version 2 on, "caso de baseline criado mas worker ainda nao
\* computou diff".
PendingDrafts == {v \in 2 .. MaxVersion : baseline[v] = "DRAFT"}

PendingChanges == {k \in Keys : change[k] = "PROPOSED"}

Unfinished == {r \in Reports : report[r] \notin {"none", "CLIENT_RELEASED"}}
Undecided == {v \in 2 .. MaxVersion : baseline[v] = "DRAFT"}

\* The handlers that miss what becomes pending from now on: they have asked
\* about it, or closed the project.
Deaf(pcs) == {c \in Closers : close[c].pc \in pcs \/ project.endedBy = c}

Remember ==
  LET reports == Unfinished' \ Unfinished
      drafts == Undecided' \ Undecided
      pastReports == Deaf({"baselines", "risks", "commit"})
      pastBaselines == Deaf({"risks", "commit"})
  IN
  late' = [c \in Closers |->
    [reports |-> IF c \in pastReports THEN late[c].reports \cup reports ELSE {},
     drafts |-> IF c \in pastBaselines THEN late[c].drafts \cup drafts ELSE {},
     patches |-> late[c].patches]]

-----------------------------------------------------------------------------
(* The work of the project goes on, whatever its status.                   *)

\* A step of an upload, an extraction, a diff, an edit or a decision.
ScopeStep ==
  /\ Next
  /\ UNCHANGED <<project, retros, reportVars, close>>
  /\ Remember

ReportStep(r, from, to) ==
  /\ report[r] \in from
  /\ report' = [report EXCEPT ![r] = to]
  /\ UNCHANGED <<vars, project, retros, risk, patch, close>>
  /\ Remember

CreateReport(r) == ReportStep(r, {"none"}, "DRAFT")
Submit(r) == ReportStep(r, {"DRAFT", "NEEDS_REVISION"}, "SUBMITTED")
PmoApprove(r) == ReportStep(r, {"SUBMITTED"}, "PMO_APPROVED")
\* Mutant of Release: the status that nothing in the code sets.
ReleaseAndArchive(r) == ReportStep(r, {"PMO_APPROVED"}, "ARCHIVED")

Release(r) == ReportStep(r, {"PMO_APPROVED"}, "CLIENT_RELEASED")
SendBack(r) == ReportStep(r, {"SUBMITTED", "PMO_APPROVED"}, "NEEDS_REVISION")

\* A decision that was checked before the release commits after it.
ReturnReleased(r) == ReportStep(r, {"CLIENT_RELEASED"}, "NEEDS_REVISION")

PatchStep(r, k, from, to) ==
  /\ patch[r][k].pc \in from
  /\ patch' = [patch EXCEPT ![r][k] = to]
  /\ UNCHANGED <<vars, project, retros, report, close, late>>

\* Mutant of CheckPatch: the status is not checked.
CheckPatchNever(r, k) ==
  /\ report[r] # "none"
  /\ \A j \in 1 .. k - 1 : patch[r][j].pc # "idle"
  /\ PatchStep(r, k, {"idle"}, [pc |-> "checked", old |-> {}])
  /\ UNCHANGED risk

\* patch_report finds the report editable.
CheckPatch(r, k) ==
  /\ report[r] \in {"DRAFT", "NEEDS_REVISION"}
  /\ \A j \in 1 .. k - 1 : patch[r][j].pc # "idle"
  /\ PatchStep(r, k, {"idle"}, [pc |-> "checked", old |-> {}])
  /\ UNCHANGED risk

\* The DELETE finds the rows that are committed by now.
WritePatch(r, k) ==
  /\ PatchStep(r, k, {"checked"}, [pc |-> "written", old |-> risk[r]])
  /\ UNCHANGED risk

\* The commit, whatever the status is: other rows, other ids.
CommitPatch(r, k) ==
  /\ PatchStep(r, k, {"written"}, [pc |-> "done", old |-> {}])
  /\ risk' = [risk EXCEPT ![r] = (@ \ patch[r][k].old) \cup {k}]

UnderWay == {x \in Reports \X Rows : patch[x[1]][x[2]].pc \in {"checked", "written"}}

-----------------------------------------------------------------------------
(* close_project.                                                          *)

Asked(c, question, next) ==
  /\ close[c].pc = question
  /\ close' = [close EXCEPT ![c].pc = next]
  /\ UNCHANGED <<vars, project, retros, reportVars>>

\* The project is open; the payload names risks the page has shown.
BeginClose(c) ==
  /\ close[c].pc = "idle"
  /\ project.status = "ACTIVE"
  /\ \E l \in Payload :
       /\ \A x \in l : patch[x.report][x.risk].pc = "done"
       /\ close' = [close EXCEPT ![c] = [pc |-> "scope", risks |-> l]]
  /\ UNCHANGED <<vars, project, retros, reportVars, late>>

AskScope(c) ==
  /\ PendingChanges = {}
  /\ Asked(c, "scope", "reports")
  /\ UNCHANGED late

AskReports(c) ==
  /\ Blocking = {}
  /\ Asked(c, "reports", "baselines")
  /\ UNCHANGED late

AskBaselines(c) ==
  /\ PendingDrafts = {}
  /\ Asked(c, "baselines", "risks")
  /\ UNCHANGED late

\* Every listed risk exists, in a report of the project.
AskRisks(c) ==
  /\ \A x \in close[c].risks : x.risk \in risk[x.report]
  /\ Asked(c, "risks", "commit")
  /\ late' = [late EXCEPT ![c].patches = UnderWay]

\* Mutant of CommitClose: a retrospective for each closing.
CommitAnyClose(c) ==
  /\ close[c].pc = "commit"
  /\ project' = [status |-> "CLOSED", endedBy |-> c]
  /\ retros' = retros \cup {[by |-> c, risks |-> close[c].risks]}
  /\ close' = [close EXCEPT ![c] = NoClose]
  /\ UNCHANGED <<vars, reportVars, late>>

\* One transaction; project_id is unique in project_retrospectives.  What was
\* asked is not asked again, the status of the project neither.
CommitClose(c) ==
  /\ close[c].pc = "commit"
  /\ retros = {}
  /\ project' = [status |-> "CLOSED", endedBy |-> c]
  /\ retros' = {[by |-> c, risks |-> close[c].risks]}
  /\ close' = [close EXCEPT ![c] = NoClose]
  /\ UNCHANGED <<vars, reportVars, late>>

\* An answer 409 or 422, the unique constraint, an error.
EndClose(c) ==
  /\ close[c].pc # "idle"
  /\ close' = [close EXCEPT ![c] = NoClose]
  /\ late' = [late EXCEPT ![c] = NotLate]
  /\ UNCHANGED <<vars, project, retros, reportVars>>

Closing(c) ==
  \/ BeginClose(c) \/ AskScope(c) \/ AskReports(c) \/ AskBaselines(c)
  \/ AskRisks(c) \/ CommitClose(c) \/ EndClose(c)

Patching(r, k) == CheckPatch(r, k) \/ WritePatch(r, k) \/ CommitPatch(r, k)

Reporting(r) ==
  \/ CreateReport(r) \/ Submit(r) \/ PmoApprove(r) \/ Release(r)
  \/ SendBack(r) \/ ReturnReleased(r)
  \/ \E k \in Rows : Patching(r, k)

CloseNext ==
  \/ ScopeStep
  \/ \E r \in Reports : Reporting(r)
  \/ \E c \in Closers : Closing(c)

CloseSpec == CloseInit /\ [][CloseNext]_closeVars

-----------------------------------------------------------------------------
\* "Acao irreversivel via API" (projects.py:315-317), although two requests may
\* both find the project open: a closed project stays closed, with the date and
\* the retrospective of the request that closed it.
ClosingIsFinal ==
  [][project.status = "CLOSED" => UNCHANGED <<project, retros>>]_closeVars

\* A closed project has pending work only if it has become pending after the
\* closing asked about it (projects.py:365-422): a report that blocks, a draft,
\* and a PROPOSED change, which the order of the questions lets through only
\* with a draft extracted after the third one.
PendingIsLate ==
  project.status = "CLOSED" =>
    /\ Unfinished \subseteq late[project.endedBy].reports
    /\ Undecided \subseteq late[project.endedBy].drafts
    /\ \A k \in PendingChanges : k.to \in late[project.endedBy].drafts

\* A risk the retrospective lists (projects.py:424-445) is still there, unless its
\* report has become editable after the closing asked about reports, or a PATCH that
\* had found it editable before (reports.py:297) was under way when the closing asked
\* about the risks and has committed since (reports.py:450), after the release of its
\* report; the column is JSON and no foreign key keeps the row.
ListedRiskStays ==
  \A t \in retros : \A x \in t.risks :
    \/ x.risk \in risk[x.report]
    \/ x.report \in late[t.by].reports
    \/ \E k \in Rows : <<x.report, k>> \in late[t.by].patches /\ patch[x.report][k].pc = "done"
=============================================================================
