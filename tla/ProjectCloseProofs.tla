------------------------ MODULE ProjectCloseProofs ------------------------
(***************************************************************************)
(* Proofs about ProjectClose, for any number of closings, reports and      *)
(* versions.  Every step is a step of ScopeTransition or leaves its state  *)
(* alone (ImplementsScope), so what ScopeTransitionProofs proves holds     *)
(* here and is not proved again; the closing adds that what blocks it has  *)
(* either been absent when it asked or come since (NothingMissed).  The    *)
(* chain of reports of the same project (ReportInheritance) comes next,    *)
(* and last the three parts of the project as they are checked together.   *)
(***************************************************************************)
EXTENDS MCProject, ScopeTransitionProofs, HealthScoreProofs

\* The state of a closed project is told by one retrospective, the one of the
\* request that closed it, which has nothing more to do.
ClosedWithRetro ==
  /\ project.status = "CLOSED" <=> retros # {}
  /\ project.status = "ACTIVE" <=> project.endedBy = Nobody
  /\ \A t \in retros : t.by = project.endedBy
  /\ \A c \in Closers : project.endedBy = c => close[c].pc = "idle"

\* A closing that has asked knows, as history, of all that is pending now.
NothingMissed ==
  /\ \A c \in Deaf({"baselines", "risks", "commit"}) : Unfinished \subseteq late[c].reports
  /\ \A c \in Deaf({"risks", "commit"}) : Undecided \subseteq late[c].drafts

\* So does it of the PATCHes that may still replace a risk it has found: they were
\* under way when it asked about the risks, or have found their report editable since.
PatchesKnown ==
  \A c \in Deaf({"commit"}) : \A r \in Reports, k \in Rows :
    patch[r][k].pc \in {"checked", "written"} =>
      r \in late[c].reports \/ <<r, k>> \in late[c].patches

\* What ListedRiskStays says of one risk.
Kept(c, x) ==
  \/ x.risk \in risk[x.report]
  \/ x.report \in late[c].reports
  \/ \E k \in Rows : <<x.report, k>> \in late[c].patches /\ patch[x.report][k].pc = "done"

RisksChecked ==
  \A c \in Closers : close[c].pc = "commit" => \A x \in close[c].risks : Kept(c, x)

RisksKept == \A t \in retros : \A x \in t.risks : Kept(t.by, x)

CloseTypes ==
  /\ project \in [status : {"ACTIVE", "CLOSED"}, endedBy : Closers \cup {Nobody}]
  /\ retros \in SUBSET [by : Closers, risks : Payload]
  /\ report \in [Reports -> Statuses \cup {"none"}]
  /\ risk \in [Reports -> SUBSET Rows]
  /\ patch \in [Reports -> [Rows -> Patch]]
  /\ close \in [Closers -> [pc : Questions \cup {"idle"}, risks : Payload]]
  /\ late \in [Closers -> [reports : SUBSET Reports, drafts : SUBSET (1 .. MaxVersion),
                         patches : SUBSET (Reports \X Rows)]]

CloseIInv ==
  CloseTypes /\ ClosedWithRetro /\ NothingMissed /\ PatchesKnown /\ RisksChecked /\ RisksKept

USE RiskAssumption, NobodyAssumption

-----------------------------------------------------------------------------
(* The steps of the transition.                                            *)

LEMMA OwnStep ==
  ASSUME [CloseNext]_closeVars
  PROVE  [Next]_vars
<1>1. ASSUME NEW r \in Reports, Reporting(r)
      PROVE  UNCHANGED vars
  BY <1>1 DEF Reporting, CreateReport, Submit, PmoApprove, Release, SendBack, ReturnReleased,
     ReportStep, Patching, CheckPatch, WritePatch, CommitPatch, PatchStep
<1>2. ASSUME NEW c \in Closers, Closing(c)
      PROVE  UNCHANGED vars
  BY <1>2 DEF Closing, BeginClose, AskScope, AskReports, AskBaselines, AskRisks, Asked,
     CommitClose, EndClose
<1> QED
  BY <1>1, <1>2 DEF CloseNext, ScopeStep, closeVars

\* Whatever the closing and the reports do, the versions of the scope behave as
\* ScopeTransition says.
THEOREM ImplementsScope == CloseSpec => Spec
<1>1. CloseInit => Init
  BY DEF CloseInit
<1> QED
  BY <1>1, OwnStep, PTL DEF CloseSpec, Spec

\* So closing a project and reporting on it leave the decisions on its scope atomic:
\* what ScopeControl promises holds for a whole project.
THEOREM ProjectImplementsControl == CloseSpec => ImplementsControl
BY ImplementsScope, TransitionImplementsControl

-----------------------------------------------------------------------------
LEMMA CloseInitIInv == CloseInit => CloseIInv
<1> SUFFICES ASSUME CloseInit PROVE CloseIInv
  OBVIOUS
<1>1. {} \in Payload /\ NoClose \in [pc : Questions \cup {"idle"}, risks : Payload]
  <2>1. {} \in Payload
    <3>1. Cardinality({}) = 0
      BY FS_EmptySet
    <3> QED
      BY <3>1 DEF Payload
  <2> QED
    BY <2>1 DEF NoClose
<1>2. /\ NotLate \in [reports : SUBSET Reports, drafts : SUBSET (1 .. MaxVersion),
                       patches : SUBSET (Reports \X Rows)]
      /\ NoPatch \in Patch
  BY DEF NotLate, NoPatch, Patch
<1>3. CloseTypes
  BY <1>1, <1>2 DEF CloseInit, CloseTypes
<1>4. /\ Deaf({"baselines", "risks", "commit"}) = {} /\ Deaf({"risks", "commit"}) = {}
      /\ Deaf({"commit"}) = {}
  BY DEF CloseInit, Deaf, NoClose
<1> QED
  BY <1>3, <1>4 DEF CloseInit, CloseIInv, ClosedWithRetro, NothingMissed, PatchesKnown,
     RisksChecked, RisksKept, NoClose

\* A step of the scope or of a report: the closings stay where they are, and each
\* that has asked takes note of what is new.
LEMMA RememberStep ==
  ASSUME CloseIInv, Remember, UNCHANGED <<project, retros, risk, patch, close>>,
         report' \in [Reports -> Statuses \cup {"none"}]
  PROVE  CloseIInv'
<1> USE DEF CloseIInv
<1>1. \A pcs : Deaf(pcs)' = Deaf(pcs)
  BY DEF Deaf
<1>2. Unfinished' \subseteq Reports /\ Undecided' \subseteq 1 .. MaxVersion
  BY DEF Unfinished, Undecided
<1>3. CloseTypes'
  BY <1>2 DEF CloseTypes, Remember
<1>4. ASSUME NEW c \in Deaf({"baselines", "risks", "commit"})
      PROVE  late'[c].reports = late[c].reports \cup (Unfinished' \ Unfinished)
  BY <1>4 DEF Remember, Deaf
<1>5. ASSUME NEW c \in Deaf({"risks", "commit"})
      PROVE  late'[c].drafts = late[c].drafts \cup (Undecided' \ Undecided)
  BY <1>5 DEF Remember, Deaf
<1>6. NothingMissed'
  <2>1. ASSUME NEW c \in Deaf({"baselines", "risks", "commit"})
        PROVE  Unfinished' \subseteq late'[c].reports
    BY <1>4 DEF NothingMissed
  <2>2. ASSUME NEW c \in Deaf({"risks", "commit"})
        PROVE  Undecided' \subseteq late'[c].drafts
    BY <1>5 DEF NothingMissed
  <2> QED
    BY <1>1, <2>1, <2>2 DEF NothingMissed
<1>7. /\ Deaf({"commit"}) \subseteq Deaf({"baselines", "risks", "commit"})
      /\ \A c \in Deaf({"commit"}) :
           late[c].reports \subseteq late'[c].reports /\ late'[c].patches = late[c].patches
  BY <1>4 DEF Remember, Deaf
<1>8. PatchesKnown'
  BY <1>1, <1>7 DEF PatchesKnown
<1>9. ASSUME NEW c \in Deaf({"commit"}), NEW x, Kept(c, x)
      PROVE  Kept(c, x)'
  BY <1>7, <1>9 DEF Kept
<1>10. RisksChecked'
  <2>1. \A c \in Closers : close[c].pc = "commit" => c \in Deaf({"commit"})
    BY DEF Deaf
  <2> QED
    BY <1>9, <2>1 DEF RisksChecked
<1>11. RisksKept'
  <2>1. \A t \in retros : t.by \in Deaf({"commit"})
    BY DEF ClosedWithRetro, CloseTypes, Deaf
  <2> QED
    BY <1>9, <2>1 DEF RisksKept
<1>12. ClosedWithRetro'
  BY DEF ClosedWithRetro
<1> QED
  BY <1>3, <1>6, <1>8, <1>10, <1>11, <1>12

\* A step of an autosave: it starts on a report that is not finished, and what it
\* replaces when it commits is excused in every closing that has asked.
LEMMA PatchingStep ==
  ASSUME CloseIInv, NEW r \in Reports, NEW k \in Rows, NEW to \in Patch,
         patch' = [patch EXCEPT ![r][k] = to], patch[r][k].pc # "done",
         UNCHANGED <<vars, project, retros, report, close, late>>,
         to.pc \in {"checked", "written"} =>
           patch[r][k].pc \in {"checked", "written"} \/ r \in Unfinished,
         risk' \in [Reports -> SUBSET Rows],
         \A q \in Reports : risk'[q] = risk[q] \/
           (q = r /\ patch[r][k].pc = "written" /\ to.pc = "done")
  PROVE  CloseIInv'
<1> USE DEF CloseIInv
<1>1. /\ patch' \in [Reports -> [Rows -> Patch]] /\ patch'[r][k] = to
      /\ \A q \in Reports, j \in Rows : q # r \/ j # k => patch'[q][j] = patch[q][j]
  BY DEF CloseTypes
<1>2. CloseTypes' /\ ClosedWithRetro'
  BY <1>1 DEF CloseTypes, ClosedWithRetro
<1>3. \A pcs : Deaf(pcs)' = Deaf(pcs)
  BY DEF Deaf
<1>4. Unfinished' = Unfinished /\ Undecided' = Undecided
  BY DEF Unfinished, Undecided, vars
<1>5. NothingMissed'
  BY <1>3, <1>4 DEF NothingMissed
<1>6. PatchesKnown'
  <2>1. ASSUME NEW c \in Deaf({"commit"}), NEW q \in Reports, NEW j \in Rows,
               patch'[q][j].pc \in {"checked", "written"}
        PROVE  q \in late[c].reports \/ <<q, j>> \in late[c].patches
    <3>1. CASE q # r \/ j # k
      BY <1>1, <2>1, <3>1 DEF PatchesKnown
    <3>2. CASE q = r /\ j = k /\ r \in Unfinished
      BY <3>2 DEF NothingMissed, Deaf
    <3>3. CASE q = r /\ j = k /\ patch[r][k].pc \in {"checked", "written"}
      BY <2>1, <3>3 DEF PatchesKnown
    <3> QED
      BY <1>1, <2>1, <3>1, <3>2, <3>3
  <2> QED
    BY <1>3, <2>1 DEF PatchesKnown
<1>7. ASSUME NEW c \in Deaf({"commit"}), NEW x \in Listed, Kept(c, x)
      PROVE  Kept(c, x)'
  <2>1. x.report \in Reports
    BY DEF Listed
  <2>2. CASE x.report \in late[c].reports
    BY <2>2 DEF Kept
  <2>3. ASSUME NEW j \in Rows, <<x.report, j>> \in late[c].patches,
               patch[x.report][j].pc = "done"
        PROVE  Kept(c, x)'
    <3>1. patch'[x.report][j].pc = "done"
      BY <1>1, <2>1, <2>3
    <3> QED
      BY <2>3, <3>1 DEF Kept
  <2>4. CASE x.risk \in risk[x.report] /\ risk'[x.report] = risk[x.report]
    BY <2>4 DEF Kept
  <2>5. CASE x.report = r /\ patch[r][k].pc = "written" /\ to.pc = "done"
    <3>1. r \in late[c].reports \/ <<r, k>> \in late[c].patches
      BY <2>5 DEF PatchesKnown
    <3> QED
      BY <1>1, <2>5, <3>1 DEF Kept
  <2> QED
    BY <1>7, <2>1, <2>2, <2>3, <2>4, <2>5 DEF Kept
<1>8. RisksChecked'
  <2>1. \A c \in Closers : close[c].pc = "commit" => c \in Deaf({"commit"})
    BY DEF Deaf
  <2>2. \A c \in Closers : close[c].risks \subseteq Listed
    BY DEF CloseTypes, Payload
  <2> QED
    BY <1>7, <2>1, <2>2 DEF RisksChecked
<1>9. RisksKept'
  <2>1. \A t \in retros : t.by \in Deaf({"commit"}) /\ t.risks \subseteq Listed
    BY DEF ClosedWithRetro, CloseTypes, Deaf, Payload
  <2> QED
    BY <1>7, <2>1 DEF RisksKept
<1> QED
  BY <1>2, <1>5, <1>6, <1>8, <1>9

LEMMA ReportingStep ==
  ASSUME CloseIInv, NEW r \in Reports, Reporting(r)
  PROVE  CloseIInv'
<1>1. ASSUME NEW to \in Statuses, NEW from, ReportStep(r, from, to)
      PROVE  CloseIInv'
  <2>1. report' \in [Reports -> Statuses \cup {"none"}]
    BY <1>1 DEF ReportStep, CloseIInv, CloseTypes
  <2> QED
    BY <1>1, <2>1, RememberStep DEF ReportStep
<1>2. ASSUME NEW k \in Rows, Patching(r, k)
      PROVE  CloseIInv'
  <2> DEFINE old == patch[r][k].pc
  <2>1. /\ risk \in [Reports -> SUBSET Rows] /\ patch[r][k] \in Patch
        /\ UNCHANGED <<vars, project, retros, report, close, late>>
    BY <1>2 DEF CloseIInv, CloseTypes, Patching, CheckPatch, WritePatch, CommitPatch,
       PatchStep
  <2>2. ASSUME NEW to \in Patch, patch' = [patch EXCEPT ![r][k] = to], old # "done", risk' = risk,
               to.pc \in {"checked", "written"} => old \in {"checked", "written"} \/ r \in Unfinished
        PROVE  CloseIInv'
    BY <2>1, <2>2, PatchingStep
  <2>3. CASE CheckPatch(r, k)
    <3>1. r \in Unfinished /\ [pc |-> "checked", old |-> {}] \in Patch
      BY <2>3 DEF CheckPatch, Unfinished, Patch
    <3> QED
      BY <2>2, <2>3, <3>1 DEF CheckPatch, PatchStep
  <2>4. CASE WritePatch(r, k)
    <3>1. [pc |-> "written", old |-> risk[r]] \in Patch
      BY <2>1 DEF Patch
    <3> QED
      BY <2>2, <2>4, <3>1 DEF WritePatch, PatchStep
  <2>5. CASE CommitPatch(r, k)
    <3> DEFINE to == [pc |-> "done", old |-> {}]
    <3>1. to \in Patch /\ to.pc = "done"
      BY DEF Patch
    <3>2. patch' = [patch EXCEPT ![r][k] = to] /\ old = "written"
      BY <2>5 DEF CommitPatch, PatchStep
    <3>3. risk' \in [Reports -> SUBSET Rows] /\ \A q \in Reports : q # r => risk'[q] = risk[q]
      BY <2>1, <2>5 DEF CommitPatch
    <3> HIDE DEF to
    <3> QED
      BY <2>1, <3>1, <3>2, <3>3, PatchingStep
  <2> QED
    BY <1>2, <2>3, <2>4, <2>5 DEF Patching
<1> QED
  BY <1>1, <1>2 DEF Reporting, CreateReport, Submit, PmoApprove, Release, SendBack,
     ReturnReleased, Statuses

LEMMA ScopeStepStep ==
  ASSUME CloseIInv, ScopeStep
  PROVE  CloseIInv'
BY RememberStep DEF ScopeStep, reportVars, CloseIInv, CloseTypes

-----------------------------------------------------------------------------
(* The steps of close_project.                                             *)

\* An answer that lets the closing go on, with what it says of the state.
LEMMA AskedStep ==
  ASSUME CloseIInv, NEW c \in Closers,
         NEW question \in Questions, NEW next \in Questions, Asked(c, question, next),
         next \in {"baselines", "risks", "commit"} =>
           question \in {"baselines", "risks"} \/ Unfinished = {},
         next \in {"risks", "commit"} => question = "risks" \/ Undecided = {},
         next = "commit" => \A x \in close[c].risks : x.risk \in risk[x.report],
         IF next = "commit" THEN late' = [late EXCEPT ![c].patches = UnderWay]
                            ELSE late' = late
  PROVE  CloseIInv'
<1> USE DEF CloseIInv
<1>1. /\ close[c].pc = question
      /\ close' = [close EXCEPT ![c].pc = next]
      /\ UNCHANGED <<vars, project, retros, report, risk, patch>>
  BY DEF Asked, reportVars
<1>2. /\ close'[c].pc = next /\ close'[c].risks = close[c].risks
      /\ \A d \in Closers \ {c} : close'[d] = close[d]
      /\ Unfinished' = Unfinished /\ Undecided' = Undecided
  BY <1>1 DEF CloseTypes, Unfinished, Undecided, vars
<1>3. project.endedBy # c
  BY <1>1 DEF ClosedWithRetro, Questions
<1>4. /\ late' \in [Closers -> [reports : SUBSET Reports, drafts : SUBSET (1 .. MaxVersion),
                              patches : SUBSET (Reports \X Rows)]]
      /\ \A d \in Closers : late'[d].reports = late[d].reports /\ late'[d].drafts = late[d].drafts
      /\ \A d \in Closers \ {c} : late'[d] = late[d]
      /\ next = "commit" => late'[c].patches = UnderWay
  <2>1. CASE next = "commit"
    <3>1. late' = [late EXCEPT ![c].patches = UnderWay]
      BY <2>1
    <3>2. UnderWay \in SUBSET (Reports \X Rows)
      BY DEF UnderWay
    <3> HIDE DEF UnderWay
    <3> QED
      BY <2>1, <3>1, <3>2 DEF CloseTypes
  <2>2. CASE next # "commit"
    BY <2>2 DEF CloseTypes
  <2> QED
    BY <2>1, <2>2
<1>5. CloseTypes'
  <2>1. close' \in [Closers -> [pc : Questions \cup {"idle"}, risks : Payload]]
    BY <1>1 DEF CloseTypes
  <2>2. /\ project' \in [status : {"ACTIVE", "CLOSED"}, endedBy : Closers \cup {Nobody}]
        /\ retros' \in SUBSET [by : Closers, risks : Payload]
        /\ report' \in [Reports -> Statuses \cup {"none"}]
        /\ risk' \in [Reports -> SUBSET Rows]
        /\ patch' \in [Reports -> [Rows -> Patch]]
    BY <1>1 DEF CloseTypes
  <2> QED
    BY <1>4, <2>1, <2>2 DEF CloseTypes
<1>6. ClosedWithRetro'
  BY <1>1, <1>2, <1>3 DEF ClosedWithRetro
<1>7. NothingMissed'
  <2>1. ASSUME NEW d \in Deaf({"baselines", "risks", "commit"})'
        PROVE  Unfinished \subseteq late[d].reports
    BY <1>1, <1>2, <1>3, <2>1 DEF NothingMissed, Deaf
  <2>2. ASSUME NEW d \in Deaf({"risks", "commit"})'
        PROVE  Undecided \subseteq late[d].drafts
    BY <1>1, <1>2, <1>3, <2>2 DEF NothingMissed, Deaf
  <2>3. \A d : d \in Deaf({"baselines", "risks", "commit"})' \/ d \in Deaf({"risks", "commit"})' =>
          d \in Closers
    BY DEF Deaf
  <2> QED
    BY <1>2, <1>4, <2>1, <2>2, <2>3 DEF NothingMissed
<1>8. PatchesKnown'
  <2>1. ASSUME NEW d \in Deaf({"commit"})', d # c
        PROVE  d \in Deaf({"commit"}) /\ late'[d] = late[d]
    BY <1>1, <1>2, <1>4, <2>1 DEF Deaf
  <2>2. ASSUME c \in Deaf({"commit"})', NEW q \in Reports, NEW j \in Rows,
               patch[q][j].pc \in {"checked", "written"}
        PROVE  <<q, j>> \in late'[c].patches
    <3>1. next = "commit"
      BY <1>1, <1>2, <1>3, <2>2 DEF Deaf
    <3>2. <<q, j>> \in UnderWay
      BY <2>2 DEF UnderWay
    <3> QED
      BY <1>4, <3>1, <3>2
  <2> QED
    BY <1>1, <2>1, <2>2 DEF PatchesKnown
<1>9. RisksChecked'
  <2>1. ASSUME NEW d \in Closers \ {c}, close[d].pc = "commit", NEW x \in close[d].risks
        PROVE  Kept(d, x)'
    BY <1>1, <1>4, <2>1 DEF RisksChecked, Kept
  <2>2. ASSUME next = "commit", NEW x \in close[c].risks
        PROVE  Kept(c, x)'
    BY <1>1, <2>2 DEF Kept
  <2> QED
    BY <1>2, <2>1, <2>2 DEF RisksChecked
<1>10. RisksKept'
  <2>1. \A t \in retros : t.by \in Closers \ {c}
    BY <1>3 DEF ClosedWithRetro, CloseTypes
  <2> QED
    BY <1>1, <1>4, <2>1 DEF RisksKept, Kept
<1> QED
  BY <1>5, <1>6, <1>7, <1>8, <1>9, <1>10

\* A closing that begins or ends is not one that has asked.
LEMMA IdleStep ==
  ASSUME CloseIInv, NEW c \in Closers, project.endedBy # c,
         NEW new \in [pc : {"idle", "scope"}, risks : Payload],
         close' = [close EXCEPT ![c] = new],
         UNCHANGED <<vars, project, retros, report, risk, patch>>,
         late' = late \/ late' = [late EXCEPT ![c] = NotLate]
  PROVE  CloseIInv'
<1> USE DEF CloseIInv
<1>1. /\ close'[c].pc \in {"idle", "scope"}
      /\ \A d \in Closers \ {c} : close'[d] = close[d] /\ late'[d] = late[d]
      /\ Unfinished' = Unfinished /\ Undecided' = Undecided
  BY DEF CloseTypes, Unfinished, Undecided, vars
<1>2. CloseTypes'
  <2>1. NotLate \in [reports : SUBSET Reports, drafts : SUBSET (1 .. MaxVersion),
                      patches : SUBSET (Reports \X Rows)]
    BY DEF NotLate
  <2>2. close' \in [Closers -> [pc : Questions \cup {"idle"}, risks : Payload]]
    BY DEF CloseTypes, Questions
  <2>3. late' \in [Closers -> [reports : SUBSET Reports, drafts : SUBSET (1 .. MaxVersion),
                            patches : SUBSET (Reports \X Rows)]]
    <3>1. CASE late' = late
      BY <3>1 DEF CloseTypes
    <3>2. CASE late' = [late EXCEPT ![c] = NotLate]
      BY <3>2, <2>1 DEF CloseTypes
    <3> QED
      BY <3>1, <3>2
  <2> QED
    BY <2>2, <2>3 DEF CloseTypes
<1>3. ClosedWithRetro'
  BY <1>1 DEF ClosedWithRetro
<1>4. NothingMissed'
  <2>1. \A d \in Deaf({"baselines", "risks", "commit"})' :
          d # c /\ d \in Deaf({"baselines", "risks", "commit"})
    BY <1>1 DEF Deaf
  <2>2. \A d \in Deaf({"risks", "commit"})' : d # c /\ d \in Deaf({"risks", "commit"})
    BY <1>1 DEF Deaf
  <2>3. \A d \in Deaf({"risks", "commit"}) : d \in Closers
    BY DEF Deaf
  <2>4. \A d \in Deaf({"baselines", "risks", "commit"}) : d \in Closers
    BY DEF Deaf
  <2> QED
    BY <1>1, <2>1, <2>2, <2>3, <2>4 DEF NothingMissed
<1>5. PatchesKnown'
  <2>1. ASSUME NEW d \in Deaf({"commit"})'
        PROVE  d \in Deaf({"commit"}) /\ late'[d] = late[d]
    BY <1>1, <2>1 DEF Deaf
  <2> QED
    BY <2>1 DEF PatchesKnown
<1>6. RisksChecked'
  BY <1>1 DEF RisksChecked, Kept
<1>7. RisksKept'
  <2>1. \A t \in retros : t.by \in Closers \ {c}
    BY DEF CloseTypes, ClosedWithRetro
  <2>2. ASSUME NEW t \in retros, NEW x \in t.risks
        PROVE  Kept(t.by, x)'
    <3>1. late'[t.by] = late[t.by] /\ Kept(t.by, x)
      BY <1>1, <2>1 DEF RisksKept
    <3> QED
      BY <3>1 DEF Kept
  <2> QED
    BY <2>2 DEF RisksKept
<1> QED
  BY <1>2, <1>3, <1>4, <1>5, <1>6, <1>7

LEMMA CommitCloseStep ==
  ASSUME CloseIInv, NEW c \in Closers, CommitClose(c)
  PROVE  CloseIInv'
<1> USE DEF CloseIInv
<1>1. /\ close[c].pc = "commit" /\ retros = {}
      /\ project' = [status |-> "CLOSED", endedBy |-> c]
      /\ retros' = {[by |-> c, risks |-> close[c].risks]}
      /\ close' = [close EXCEPT ![c] = NoClose]
      /\ UNCHANGED <<vars, report, risk, patch, late>>
  BY DEF CommitClose, reportVars
<1>2. /\ close'[c].pc = "idle"
      /\ \A d \in Closers \ {c} : close'[d] = close[d]
      /\ Unfinished' = Unfinished /\ Undecided' = Undecided
  BY <1>1 DEF CloseTypes, Unfinished, Undecided, vars, NoClose
<1>3. CloseTypes'
  <2>1. {} \in Payload
    <3>1. Cardinality({}) = 0
      BY FS_EmptySet
    <3> QED
      BY <3>1 DEF Payload
  <2>2. retros' \in SUBSET [by : Closers, risks : Payload]
    BY <1>1 DEF CloseTypes
  <2>3. close' \in [Closers -> [pc : Questions \cup {"idle"}, risks : Payload]]
    BY <1>1, <2>1 DEF CloseTypes, NoClose
  <2> QED
    BY <1>1, <2>2, <2>3 DEF CloseTypes
<1>4. project.endedBy = Nobody
  BY <1>1 DEF ClosedWithRetro, CloseTypes
<1>5. ClosedWithRetro'
  <2>1. /\ project'.status = "CLOSED" /\ project'.endedBy = c /\ c # Nobody
        /\ retros' # {} /\ \A t \in retros' : t.by = c
    BY <1>1
  <2> QED
    BY <1>2, <2>1 DEF ClosedWithRetro
<1>6. NothingMissed'
  <2>1. \A d \in Deaf({"baselines", "risks", "commit"})' :
          d \in Deaf({"baselines", "risks", "commit"})
    BY <1>1, <1>2 DEF Deaf
  <2>2. \A d \in Deaf({"risks", "commit"})' : d \in Deaf({"risks", "commit"})
    BY <1>1, <1>2 DEF Deaf
  <2> QED
    BY <1>1, <1>2, <2>1, <2>2 DEF NothingMissed
<1>7. PatchesKnown'
  <2>1. \A d \in Deaf({"commit"})' : d \in Deaf({"commit"})
    BY <1>1, <1>2 DEF Deaf
  <2> QED
    BY <1>1, <2>1 DEF PatchesKnown
<1>8. RisksChecked'
  BY <1>1, <1>2 DEF RisksChecked, Kept
<1>9. RisksKept'
  BY <1>1 DEF RisksChecked, RisksKept, Kept
<1> QED
  BY <1>3, <1>5, <1>6, <1>7, <1>8, <1>9

LEMMA ClosingStep ==
  ASSUME IInv, CloseIInv, NEW c \in Closers, Closing(c)
  PROVE  CloseIInv'
<1>1. CASE BeginClose(c)
  <2>1. PICK l \in Payload : close' = [close EXCEPT ![c] = [pc |-> "scope", risks |-> l]]
    BY <1>1 DEF BeginClose
  <2>2. project.endedBy # c
    BY <1>1 DEF BeginClose, CloseIInv, ClosedWithRetro
  <2> QED
    BY <1>1, <2>1, <2>2, IdleStep DEF BeginClose, reportVars
<1>2. CASE AskScope(c)
  BY <1>2, AskedStep DEF AskScope, Questions
<1>3. CASE AskReports(c)
  <2>1. Unfinished = {}
    BY <1>3 DEF AskReports, Blocking, Unfinished, CloseIInv, CloseTypes, Statuses
  <2> QED
    BY <1>3, <2>1, AskedStep DEF AskReports, Questions
<1>4. CASE AskBaselines(c)
  <2>1. Undecided = {}
    BY <1>4 DEF AskBaselines, PendingDrafts, Undecided
  <2> QED
    BY <1>4, <2>1, AskedStep DEF AskBaselines, Questions
<1>5. CASE AskRisks(c)
  BY <1>5, AskedStep DEF AskRisks, Questions
<1>6. CASE CommitClose(c)
  BY <1>6, CommitCloseStep
<1>7. CASE EndClose(c)
  <2>1. NoClose \in [pc : {"idle", "scope"}, risks : Payload]
    <3>1. Cardinality({}) = 0
      BY FS_EmptySet
    <3> QED
      BY <3>1 DEF NoClose, Payload
  <2>2. project.endedBy # c
    BY <1>7 DEF EndClose, CloseIInv, ClosedWithRetro
  <2> QED
    BY <1>7, <2>1, <2>2, IdleStep DEF EndClose, reportVars
<1> QED
  BY <1>1, <1>2, <1>3, <1>4, <1>5, <1>6, <1>7 DEF Closing

LEMMA CloseIInvStep ==
  ASSUME IInv, CloseIInv, [CloseNext]_closeVars
  PROVE  CloseIInv'
<1>1. CASE UNCHANGED closeVars
  <2> USE <1>1 DEF closeVars, reportVars, vars
  <2>1. /\ Unfinished' = Unfinished /\ Undecided' = Undecided
        /\ \A pcs : Deaf(pcs)' = Deaf(pcs)
    BY DEF Unfinished, Undecided, Deaf
  <2>2. CloseTypes' /\ ClosedWithRetro' /\ NothingMissed' /\ PatchesKnown'
    BY <2>1 DEF CloseIInv, CloseTypes, ClosedWithRetro, NothingMissed, PatchesKnown
  <2>3. RisksChecked' /\ RisksKept'
    BY DEF CloseIInv, RisksChecked, RisksKept, Kept
  <2> QED
    BY <2>2, <2>3 DEF CloseIInv
<1> QED
  BY <1>1, ScopeStepStep, ReportingStep, ClosingStep DEF CloseNext

LEMMA CloseSpecIInv == CloseSpec => []IInv /\ []CloseIInv
BY ImplementsScope, Inductive, CloseInitIInv, CloseIInvStep, PTL DEF CloseSpec

-----------------------------------------------------------------------------
\* The columns, the payloads and the handlers keep their types.
THEOREM CloseTypesHold == CloseSpec => []CloseTypeOK
<1>1. IInv /\ CloseIInv => CloseTypeOK
  BY DEF IInv, Structure, CloseIInv, CloseTypes, CloseTypeOK
<1> QED
  BY <1>1, CloseSpecIInv, PTL

\* A closed project and its retrospective do not change, for any number of requests
\* that have found it open (projects.py:317-319, 451-466).
THEOREM ClosedIsFinal == CloseSpec => ClosingIsFinal
<1> DEFINE Final == project.status = "CLOSED" => UNCHANGED <<project, retros>>
<1>1. CloseIInv /\ [CloseNext]_closeVars => [Final]_closeVars
  <2> SUFFICES ASSUME CloseIInv, CloseNext, project.status = "CLOSED"
               PROVE  UNCHANGED <<project, retros>>
    OBVIOUS
  <2>1. retros # {}
    BY DEF CloseIInv, ClosedWithRetro
  <2>2. ASSUME NEW c \in Closers, Closing(c)
        PROVE  UNCHANGED <<project, retros>>
    BY <2>1, <2>2 DEF Closing, BeginClose, AskScope, AskReports, AskBaselines, AskRisks, Asked,
       CommitClose, EndClose
  <2>3. ASSUME NEW r \in Reports, Reporting(r)
        PROVE  UNCHANGED <<project, retros>>
    BY <2>3 DEF Reporting, CreateReport, Submit, PmoApprove, Release, SendBack, ReturnReleased,
       ReportStep, Patching, CheckPatch, WritePatch, CommitPatch, PatchStep
  <2> QED
    BY <2>2, <2>3 DEF CloseNext, ScopeStep
<1>2. ClosingIsFinal <=> [][Final]_closeVars
  BY DEF ClosingIsFinal
<1> QED
  BY <1>1, <1>2, CloseSpecIInv, PTL DEF CloseSpec

\* What is pending in a closed project has come after the closing asked about it:
\* the reports and drafts by NothingMissed, the PROPOSED changes because they
\* belong to a draft, which is a theorem about ScopeTransition.
THEOREM PendingHasComeLate == CloseSpec => []PendingIsLate
<1>1. IInv /\ CloseIInv => PendingIsLate
  <2> SUFFICES ASSUME IInv, CloseIInv, project.status = "CLOSED"
               PROVE  /\ Unfinished \subseteq late[project.endedBy].reports
                      /\ Undecided \subseteq late[project.endedBy].drafts
                      /\ \A k \in PendingChanges : k.to \in late[project.endedBy].drafts
    BY DEF PendingIsLate
  <2>1. project.endedBy \in Closers
    BY DEF CloseIInv, CloseTypes, ClosedWithRetro
  <2>2. /\ project.endedBy \in Deaf({"baselines", "risks", "commit"})
        /\ project.endedBy \in Deaf({"risks", "commit"})
    BY <2>1 DEF Deaf
  <2>3. /\ Unfinished \subseteq late[project.endedBy].reports
        /\ Undecided \subseteq late[project.endedBy].drafts
    BY <2>2 DEF CloseIInv, NothingMissed
  <2>4. ASSUME NEW k \in PendingChanges
        PROVE  k.to \in Undecided
    <3>1. k \in Keys /\ k.to \in Versions /\ change[k] = "PROPOSED"
      BY DEF PendingChanges, Keys
    <3>2. baseline[k.to] = "DRAFT" /\ k.to > 1
      BY <3>1 DEF IInv, BatchAgrees, Structure, DiffSound
    <3> QED
      BY <3>1, <3>2 DEF Undecided, Versions
  <2> QED
    BY <2>3, <2>4
<1> QED
  BY <1>1, CloseSpecIInv, PTL

\* A risk the retrospective lists is there (projects.py:424-445) unless its report has
\* become editable since the closing asked, or a PATCH that was under way when it asked
\* about the risks has committed: no third way to lose it, for any number of autosaves.
THEOREM ListedRisksStay == CloseSpec => []ListedRiskStays
<1>1. CloseIInv => ListedRiskStays
  BY DEF CloseIInv, RisksKept, Kept, ListedRiskStays
<1> QED
  BY <1>1, CloseSpecIInv, PTL
-----------------------------------------------------------------------------
(* The chain of reports (module ReportInheritance).  Its variables are its *)
(* own; the periods of committed reports never change, and reports are     *)
(* only appended, so what a pre-population has seen stays true.            *)

PrefillSound(p) ==
  /\ prefill[p].pc # "idle" =>
       /\ prefill[p].seen <= Len(rows)
       /\ \A i \in Stored : rows[i].period = prefill[p].period => i > prefill[p].seen
  /\ prefill[p].pc = "sourced" =>
       /\ prefill[p].source <= Len(rows)
       /\ \A i \in prefill[p].released :
            /\ i \in Stored /\ prefill[p].source # 0
            /\ rows[i].period <= rows[prefill[p].source].period

ChainIInv == ChainTypeOK /\ \A p \in Prefills : PrefillSound(p)

\* The reports there were keep their periods.
Lengthened ==
  /\ rows' \in Seq(Report)
  /\ Len(rows) <= Len(rows') /\ Len(rows') <= MaxRows
  /\ \A i \in 1 .. Len(rows) : rows'[i].period = rows[i].period

LEMMA RowChanged ==
  ASSUME ChainTypeOK, NEW i \in Stored, NEW new \in Report,
         new.period = rows[i].period, rows' = [rows EXCEPT ![i] = new]
  PROVE  Lengthened /\ Len(rows') = Len(rows)
<1>1. rows \in Seq(Report) /\ i \in 1 .. Len(rows) /\ Len(rows) <= MaxRows
  BY DEF ChainTypeOK, Stored
<1> DEFINE changed == [rows EXCEPT ![i] = new]
<1>2. /\ changed \in Seq(Report) /\ Len(changed) = Len(rows)
      /\ \A k \in 1 .. Len(rows) : changed[k] = IF k = i THEN new ELSE rows[k]
  BY <1>1, ExceptSeq
<1> HIDE DEF changed
<1>3. rows' = changed
  BY DEF changed
<1>4. Len(rows) \in Nat
  BY <1>1
<1> QED
  BY <1>1, <1>2, <1>3, <1>4 DEF Lengthened

LEMMA RowAdded ==
  ASSUME ChainTypeOK, NEW new \in Report, Len(rows) < MaxRows, rows' = Append(rows, new)
  PROVE  Lengthened /\ Len(rows') = Len(rows) + 1 /\ rows'[Len(rows')] = new
<1>1. rows \in Seq(Report) /\ Len(rows) \in Nat
  BY DEF ChainTypeOK
<1>2. /\ rows' \in Seq(Report) /\ Len(rows') = Len(rows) + 1
      /\ \A k \in 1 .. Len(rows) : rows'[k] = rows[k]
      /\ rows'[Len(rows) + 1] = new
  BY <1>1, AppendProperties
<1> QED
  BY <1>1, <1>2, ChainAssumption DEF Lengthened

\* A handler that does not move, or forgets released reports, stays sound.
LEMMA PrefillKept ==
  ASSUME ChainIInv, Lengthened, NEW p \in Prefills, NEW gone,
         \/ prefill'[p] = prefill[p]
         \/ prefill'[p] = [prefill[p] EXCEPT !.released = @ \ gone]
         \/ prefill'[p] = NoPrefill
  PROVE  PrefillSound(p)' /\ prefill'[p] \in Prefill
<1>1. prefill[p] \in Prefill /\ rows \in Seq(Report) /\ Len(rows) \in Nat /\ Len(rows') \in Nat
  BY DEF ChainIInv, ChainTypeOK, Lengthened
<1>2. CASE prefill'[p] = NoPrefill
  BY <1>2, ChainAssumption DEF PrefillSound, NoPrefill, Prefill, Periods
<1>3. CASE prefill'[p] # NoPrefill
  <2>1. /\ prefill'[p].pc = prefill[p].pc /\ prefill'[p].seen = prefill[p].seen
        /\ prefill'[p].period = prefill[p].period /\ prefill'[p].source = prefill[p].source
        /\ prefill'[p].released \subseteq prefill[p].released
        /\ prefill'[p] \in Prefill
    BY <1>1, <1>3 DEF Prefill
  <2>2. PrefillSound(p)
    BY DEF ChainIInv
  <2>3. Stored = 1 .. Len(rows) /\ Stored' = 1 .. Len(rows')
    BY <1>1 DEF Stored, Lengthened
  <2>4. prefill[p].seen \in Nat /\ prefill[p].source \in Nat
    BY <1>1 DEF Prefill
  <2>5. ASSUME prefill[p].pc # "idle", NEW i \in Stored',
               rows'[i].period = prefill[p].period
        PROVE  i > prefill[p].seen
    BY <1>1, <2>2, <2>3, <2>4, <2>5 DEF PrefillSound, Lengthened
  <2>6. ASSUME prefill[p].pc = "sourced", NEW i \in prefill[p].released
        PROVE  /\ i \in Stored' /\ prefill[p].source # 0
               /\ rows'[i].period <= rows'[prefill[p].source].period
    BY <1>1, <2>2, <2>3, <2>4, <2>6 DEF PrefillSound, Lengthened
  <2> QED
    BY <1>1, <2>1, <2>2, <2>4, <2>5, <2>6 DEF PrefillSound, Lengthened
<1> QED
  BY <1>2, <1>3

LEMMA NoPrefillFields ==
  /\ NoPrefill \in Prefill /\ NoPrefill.pc = "idle" /\ NoPrefill.source = 0
  /\ NoPrefill.released = {}
<1>1. MaxRows \in Nat /\ 1 \in Periods
  BY ChainAssumption DEF Periods
<1> QED
  BY <1>1 DEF NoPrefill, Prefill

LEMMA ChainInitIInv == ChainInit => ChainIInv
<1> SUFFICES ASSUME ChainInit PROVE ChainIInv
  OBVIOUS
<1>1. rows \in Seq(Report) /\ Len(rows) = 0
  BY DEF ChainInit
<1>2. ChainTypeOK
  <2>1. tracked \in BOOLEAN /\ prefill \in [Prefills -> Prefill]
    BY NoPrefillFields DEF ChainInit
  <2>2. Len(rows) <= MaxRows
    BY <1>1, ChainAssumption
  <2> QED
    BY <1>1, <2>1, <2>2 DEF ChainTypeOK
<1>3. ASSUME NEW p \in Prefills
      PROVE  PrefillSound(p)
  <2>1. prefill[p].pc = "idle"
    BY NoPrefillFields DEF ChainInit
  <2> QED
    BY <2>1 DEF PrefillSound
<1> QED
  BY <1>2, <1>3 DEF ChainIInv

LEMMA RowStepIInv ==
  ASSUME ChainIInv, NEW i \in Stored, RowStep(i)
  PROVE  ChainIInv'
<1>1. rows[i] \in Report /\ tracked' = tracked /\ tracked \in BOOLEAN
  BY DEF ChainIInv, ChainTypeOK, Stored, RowStep, EditItems, SubmitRow, ReleaseRow, SendBackRow,
     ReopenRow, Advance
<1>2. Lengthened
  <2>1. ASSUME NEW lists \in SUBSET Topics, EditItems(i, lists)
        PROVE  Lengthened
    <3>1. [rows[i] EXCEPT !.open = lists] \in Report
      BY <1>1 DEF Report
    <3>2. rows' = [rows EXCEPT ![i] = [rows[i] EXCEPT !.open = lists]]
      BY <2>1 DEF EditItems
    <3>3. [rows[i] EXCEPT !.open = lists].period = rows[i].period
      BY <1>1 DEF Report
    <3> QED
      BY <3>1, <3>2, <3>3, RowChanged DEF ChainIInv
  <2>2. ASSUME NEW to \in {"NEEDS_REVISION", "REVIEWED", "CLIENT_RELEASED"},
               rows' = [rows EXCEPT ![i].status = to]
        PROVE  Lengthened
    <3>1. [rows[i] EXCEPT !.status = to] \in Report
      BY <1>1 DEF Report
    <3>2. rows' = [rows EXCEPT ![i] = [rows[i] EXCEPT !.status = to]]
      BY <2>2
    <3>3. [rows[i] EXCEPT !.status = to].period = rows[i].period
      BY <1>1 DEF Report
    <3> QED
      BY <3>1, <3>2, <3>3, RowChanged DEF ChainIInv
  <2> QED
    BY <2>1, <2>2 DEF RowStep, SubmitRow, ReleaseRow, SendBackRow, ReopenRow, Advance
<1>3. /\ prefill' \in [Prefills -> Prefill]
      /\ \A p \in Prefills : PrefillSound(p)'
  <2>1. CASE prefill' = prefill
    BY <1>2, <2>1, PrefillKept DEF ChainIInv, ChainTypeOK
  <2>2. CASE prefill' = [p \in Prefills |-> [prefill[p] EXCEPT !.released = @ \ {i}]]
    <3>1. ASSUME NEW p \in Prefills
          PROVE  PrefillSound(p)' /\ prefill'[p] \in Prefill
      <4>1. prefill'[p] = [prefill[p] EXCEPT !.released = @ \ {i}]
        BY <2>2
      <4> QED
        BY <1>2, <4>1, PrefillKept
    <3>2. prefill' = [p \in Prefills |-> prefill'[p]]
      BY <2>2
    <3> QED
      BY <3>1, <3>2
  <2> QED
    BY <2>1, <2>2 DEF RowStep, EditItems, SubmitRow, ReleaseRow, SendBackRow, ReopenRow, Advance
<1> QED
  BY <1>1, <1>2, <1>3 DEF ChainIInv, ChainTypeOK, Lengthened

LEMMA PrefillStepIInv ==
  ASSUME ChainIInv, NEW p \in Prefills, PrefillStep(p)
  PROVE  ChainIInv'
<1>1. /\ prefill[p] \in Prefill /\ prefill \in [Prefills -> Prefill] /\ PrefillSound(p)
      /\ rows \in Seq(Report) /\ Len(rows) \in Nat /\ Len(rows) <= MaxRows
      /\ Stored = 1 .. Len(rows) /\ MaxRows \in Nat
      /\ tracked' = tracked /\ tracked \in BOOLEAN
  <2>1. tracked' = tracked
    BY DEF PrefillStep, LookUpPeriod, FindPrevious, CommitPrefill, EndPrefill
  <2> QED
    BY <2>1, ChainAssumption DEF ChainIInv, ChainTypeOK, Stored
<1>2. /\ \A i \in Stored : rows[i] \in Report /\ rows[i].period \in Nat
      /\ NoPrefill \in Prefill
  <2>1. \A i \in Stored : rows[i] \in Report
    BY <1>1
  <2>2. Periods \subseteq Nat
    BY ChainAssumption DEF Periods
  <2> QED
    BY <2>1, <2>2, NoPrefillFields DEF Report
<1>3. ASSUME rows' = rows
      PROVE  Lengthened
  BY <1>1, <1>3 DEF Lengthened
<1>4. ASSUME NEW new \in Prefill, prefill' = [prefill EXCEPT ![p] = new], Lengthened,
             PrefillSound(p)'
      PROVE  ChainIInv'
  <2>1. ASSUME NEW q \in Prefills
        PROVE  PrefillSound(q)'
    <3>1. CASE q = p
      BY <1>4, <3>1
    <3>2. CASE q # p
      <4>1. prefill'[q] = prefill[q]
        BY <1>1, <1>4, <3>2
      <4> QED
        BY <1>4, <4>1, PrefillKept
    <3> QED
      BY <3>1, <3>2
  <2>2. prefill' \in [Prefills -> Prefill]
    BY <1>1, <1>4
  <2> QED
    BY <1>1, <1>4, <2>1, <2>2 DEF ChainIInv, ChainTypeOK, Lengthened
<1>5. ASSUME NEW n \in Periods, LookUpPeriod(p, n)
      PROVE  ChainIInv'
  <2> DEFINE new == [NoPrefill EXCEPT !.pc = "free", !.period = n, !.seen = Len(rows)]
  <2>1. /\ new \in Prefill /\ new.pc = "free" /\ new.period = n /\ new.seen = Len(rows)
    <3>1. Len(rows) \in 0 .. MaxRows
      BY <1>1
    <3> QED
      BY <1>2, <3>1 DEF Prefill
  <2> HIDE DEF new
  <2>2. prefill' = [prefill EXCEPT ![p] = new] /\ rows' = rows /\ SamePeriod(n) = {}
    BY <1>5 DEF LookUpPeriod, new
  <2>3. prefill'[p] = new /\ Stored' = Stored
    BY <1>1, <2>2 DEF Stored
  <2>4. \A i \in Stored : rows[i].period # n
    BY <2>2 DEF SamePeriod
  <2>5. PrefillSound(p)'
    BY <1>1, <2>1, <2>2, <2>3, <2>4 DEF PrefillSound
  <2> QED
    BY <1>3, <1>4, <2>1, <2>2, <2>5
<1>6. ASSUME FindPrevious(p)
      PROVE  ChainIInv'
  <2>1. PICK i \in IF Heritable = {} THEN {0} ELSE Newest :
          prefill' = [prefill EXCEPT ![p].pc = "sourced", ![p].source = i,
                                     ![p].released = Released]
    BY <1>6 DEF FindPrevious
  <2>2. rows' = rows /\ prefill[p].pc = "free"
    BY <1>6 DEF FindPrevious
  <2>3. /\ i \in 0 .. Len(rows)
        /\ \A k \in Heritable : i # 0 /\ rows[k].period <= rows[i].period
    BY <1>1, <2>1 DEF Newest, Heritable
  <2>4. Released \subseteq Heritable /\ Heritable \subseteq Stored
    BY DEF Released, Heritable
  <2> DEFINE new == [prefill[p] EXCEPT !.pc = "sourced", !.source = i, !.released = Released]
  <2>5. Released \in SUBSET (1 .. MaxRows) /\ i \in 0 .. MaxRows
    BY <1>1, <2>3, <2>4
  <2>6. /\ new \in Prefill /\ new.pc = "sourced" /\ new.source = i /\ new.released = Released
        /\ new.period = prefill[p].period /\ new.seen = prefill[p].seen
    BY <1>1, <2>5 DEF Prefill
  <2>7. prefill' = [prefill EXCEPT ![p] = new]
    BY <1>1, <2>1
  <2> HIDE DEF new
  <2>8. prefill'[p] = new /\ Stored' = Stored
    BY <1>1, <2>2, <2>7 DEF Stored
  <2>9. PrefillSound(p)'
    <3>1. /\ prefill[p].seen <= Len(rows)
          /\ \A k \in Stored : rows[k].period = prefill[p].period => k > prefill[p].seen
      BY <1>1, <2>2 DEF PrefillSound
    <3>2. /\ i <= Len(rows)
          /\ \A k \in Released : k \in Stored /\ i # 0 /\ rows[k].period <= rows[i].period
      BY <1>1, <2>3, <2>4
    <3> QED
      BY <2>2, <2>6, <2>8, <3>1, <3>2 DEF PrefillSound
  <2> QED
    BY <1>3, <1>4, <2>2, <2>6, <2>7, <2>9
<1>7. ASSUME CommitPrefill(p)
      PROVE  ChainIInv'
  <2> DEFINE new == [period |-> prefill[p].period, status |-> "DRAFT",
           open |-> IF prefill[p].source = 0 THEN {} ELSE rows[prefill[p].source].open]
  <2>1. new \in Report
    BY <1>1, <1>2, <1>7 DEF CommitPrefill, Report, Prefill, PrefillSound, Stored
  <2> HIDE DEF new
  <2>2. rows' = Append(rows, new) /\ Len(rows) < MaxRows
    BY <1>7 DEF CommitPrefill, new
  <2>3. Lengthened
    BY <2>1, <2>2, RowAdded DEF ChainIInv
  <2>4. prefill' = [prefill EXCEPT ![p] = NoPrefill] /\ prefill'[p] = NoPrefill
    BY <1>1, <1>7 DEF CommitPrefill
  <2>5. PrefillSound(p)'
    BY <2>3, <2>4, PrefillKept
  <2> QED
    BY <1>2, <1>4, <2>3, <2>4, <2>5
<1>8. ASSUME EndPrefill(p)
      PROVE  ChainIInv'
  <2>1. /\ prefill' = [prefill EXCEPT ![p] = NoPrefill] /\ prefill'[p] = NoPrefill
        /\ rows' = rows
    BY <1>1, <1>8 DEF EndPrefill
  <2>2. PrefillSound(p)'
    BY <1>3, <2>1, PrefillKept
  <2> QED
    BY <1>2, <1>3, <1>4, <2>1, <2>2
<1> QED
  BY <1>5, <1>6, <1>7, <1>8 DEF PrefillStep

LEMMA ChainNextIInv ==
  ASSUME ChainIInv, [ChainNext]_chainVars
  PROVE  ChainIInv'
<1>1. /\ prefill \in [Prefills -> Prefill] /\ rows \in Seq(Report) /\ Len(rows) \in Nat
      /\ Len(rows) <= MaxRows /\ tracked \in BOOLEAN
  BY DEF ChainIInv, ChainTypeOK
<1>2. ASSUME prefill' = prefill, Lengthened, tracked' \in BOOLEAN
      PROVE  ChainIInv'
  <2>1. \A p \in Prefills : PrefillSound(p)'
    BY <1>2, PrefillKept
  <2> QED
    BY <1>1, <1>2, <2>1 DEF ChainIInv, ChainTypeOK, Lengthened
<1>3. CASE ActivateBaseline \/ UNCHANGED chainVars
  <2>1. rows' = rows /\ prefill' = prefill /\ tracked' \in BOOLEAN
    BY <1>1, <1>3 DEF ActivateBaseline, chainVars
  <2> QED
    BY <1>1, <1>2, <2>1 DEF Lengthened
<1>4. ASSUME NEW n \in Periods, CreatePlain(n)
      PROVE  ChainIInv'
  <2> DEFINE new == [period |-> n, status |-> "DRAFT", open |-> {}]
  <2>1. new \in Report
    BY DEF Report
  <2>2. rows' = Append(rows, new) /\ Len(rows) < MaxRows /\ prefill' = prefill /\ tracked' = tracked
    BY <1>4 DEF CreatePlain
  <2> QED
    BY <1>1, <1>2, <2>1, <2>2, RowAdded DEF ChainIInv
<1> QED
  BY <1>3, <1>4, RowStepIInv, PrefillStepIInv DEF ChainNext

LEMMA ChainSpecIInv == ChainSpec => []ChainIInv
BY ChainInitIInv, ChainNextIInv, PTL DEF ChainSpec

\* The variables of ReportInheritance keep their types.
THEOREM ChainTypesHold == ChainSpec => []ChainTypeOK
<1>1. ChainIInv => ChainTypeOK
  BY DEF ChainIInv
<1> QED
  BY <1>1, ChainSpecIInv, PTL

\* Only a commit creates a pre-populated report.
LEMMA Created ==
  ASSUME ChainIInv, [ChainNext]_chainVars, NEW p \in Prefills, Creates(p)
  PROVE  CommitPrefill(p)
<1>1. /\ prefill[p] \in Prefill /\ prefill \in [Prefills -> Prefill]
      /\ prefill[p].pc = "sourced" /\ prefill'[p].pc = "idle"
      /\ rows' # rows /\ prefill'[p].pc # prefill[p].pc
  BY DEF ChainIInv, ChainTypeOK, Creates
<1>2. ~(ActivateBaseline \/ UNCHANGED chainVars)
  BY <1>1 DEF ActivateBaseline, chainVars
<1>3. ASSUME NEW n \in Periods
      PROVE  ~CreatePlain(n)
  BY <1>1 DEF CreatePlain
<1>4. ASSUME NEW i \in Stored, RowStep(i)
      PROVE  FALSE
  <2>1. prefill'[p].pc = prefill[p].pc
    BY <1>1, <1>4 DEF RowStep, EditItems, SubmitRow, ReleaseRow, SendBackRow, ReopenRow, Advance,
       Prefill
  <2> QED
    BY <1>1, <2>1
<1>5. ASSUME NEW q \in Prefills, PrefillStep(q)
      PROVE  CommitPrefill(p)
  <2>1. q = p
    BY <1>1, <1>5 DEF PrefillStep, LookUpPeriod, FindPrevious, CommitPrefill, EndPrefill
  <2> QED
    BY <1>1, <1>5, <2>1 DEF PrefillStep, LookUpPeriod, FindPrevious, EndPrefill
<1> QED
  BY <1>2, <1>3, <1>4, <1>5 DEF ChainNext

\* What a commit adds, and where it stands.
LEMMA CopyCommitted ==
  ASSUME ChainIInv, NEW p \in Prefills, CommitPrefill(p)
  PROVE  /\ rows'[Len(rows')].period = prefill[p].period
         /\ prefill[p].source # 0 => rows'[Len(rows')].open = rows[prefill[p].source].open
         /\ PrefillSound(p) /\ prefill[p].pc = "sourced"
<1> DEFINE new == [period |-> prefill[p].period, status |-> "DRAFT",
         open |-> IF prefill[p].source = 0 THEN {} ELSE rows[prefill[p].source].open]
<1>1. /\ prefill[p] \in Prefill /\ PrefillSound(p) /\ prefill[p].pc = "sourced"
      /\ rows \in Seq(Report)
  BY DEF ChainIInv, ChainTypeOK, CommitPrefill
<1>2. new \in Report
  <2>1. prefill[p].source \in Nat /\ prefill[p].source <= Len(rows) /\ Len(rows) \in Nat
        /\ prefill[p].period \in Periods
    BY <1>1 DEF Prefill, PrefillSound
  <2>2. ASSUME prefill[p].source # 0
        PROVE  rows[prefill[p].source] \in Report
    BY <1>1, <2>1, <2>2
  <2>3. new.open \in SUBSET Topics
    BY <2>2 DEF Report
  <2> QED
    BY <2>1, <2>3 DEF Report
<1>3. rows' = Append(rows, new) /\ Len(rows) < MaxRows
  BY DEF CommitPrefill
<1>4. rows'[Len(rows')] = new
  BY <1>2, <1>3, RowAdded DEF ChainIInv
<1> QED
  BY <1>1, <1>4

\* A pre-populated report meets another of its period only if that one was
\* committed after the look-up (prepopulate.py:179-186), for any number of requests,
\* periods and reports.
THEOREM SecondInPeriodMustOverlap == ChainSpec => SecondInPeriodOverlaps
<1> DEFINE Overlaps == \A p \in Prefills : Creates(p) =>
       \A i \in Stored :
         rows[i].period = rows'[Len(rows')].period => i > prefill[p].seen
<1>1. ChainIInv /\ [ChainNext]_chainVars => [Overlaps]_chainVars
  <2> SUFFICES ASSUME ChainIInv, ChainNext, NEW p \in Prefills, Creates(p), NEW i \in Stored,
                      rows[i].period = rows'[Len(rows')].period
               PROVE  i > prefill[p].seen
    OBVIOUS
  <2>1. CommitPrefill(p)
    BY Created
  <2> QED
    BY <2>1, CopyCommitted DEF PrefillSound
<1>2. SecondInPeriodOverlaps <=> [][Overlaps]_chainVars
  BY DEF SecondInPeriodOverlaps
<1> QED
  BY <1>1, <1>2, ChainSpecIInv, PTL DEF ChainSpec

\* No open item of a released report is lost (prepopulate.py:111-125, 205-258): the
\* source is as late as any report that was released, and is copied as it is.
THEOREM OpenItemsAreInherited == ChainSpec => ReleasedIsInherited
<1> DEFINE Inherits == \A p \in Prefills : Creates(p) =>
       LET s == prefill[p].source IN
       \A i \in prefill[p].released :
         /\ s # 0 /\ rows[i].period <= rows[s].period
         /\ i = s => rows'[Len(rows')].open = rows[s].open
<1>1. ChainIInv /\ [ChainNext]_chainVars => [Inherits]_chainVars
  <2> SUFFICES ASSUME ChainIInv, ChainNext, NEW p \in Prefills, Creates(p),
                      NEW i \in prefill[p].released
               PROVE  LET s == prefill[p].source IN
                      /\ s # 0 /\ rows[i].period <= rows[s].period
                      /\ i = s => rows'[Len(rows')].open = rows[s].open
    OBVIOUS
  <2>1. CommitPrefill(p)
    BY Created
  <2> QED
    BY <2>1, CopyCommitted DEF PrefillSound
<1>2. ReleasedIsInherited <=> [][Inherits]_chainVars
  BY DEF ReleasedIsInherited
<1> QED
  BY <1>1, <1>2, ChainSpecIInv, PTL DEF ChainSpec
-----------------------------------------------------------------------------
(* The three parts of the project together.                                *)

\* Whichever of the closing, the chain and the score goes on, all keep their types.
THEOREM ProjectTypesHold == MCSpec => []ProjectTypeOK
<1>1. MCInit => CloseInit /\ ChainInit /\ ScoreInit
  BY DEF MCInit
<1>2. [MCNext]_<<part, closeVars, chainVars, scoreVars>> =>
        [CloseNext]_closeVars /\ [ChainNext]_chainVars /\ [ScoreNext]_scoreVars
  BY DEF MCNext
<1>3. MCSpec => CloseSpec /\ ChainSpec /\ ScoreSpec
  BY <1>1, <1>2, PTL DEF MCSpec, CloseSpec, ChainSpec, ScoreSpec
<1>4. CloseTypeOK /\ ChainTypeOK /\ ScoreTypeOK => ProjectTypeOK
  BY DEF ProjectTypeOK
<1> QED
  BY <1>3, <1>4, CloseTypesHold, ChainTypesHold, ScoreTypesHold, PTL
=============================================================================
