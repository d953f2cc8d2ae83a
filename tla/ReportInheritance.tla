------------------------- MODULE ReportInheritance -------------------------
(***************************************************************************)
(* The reports of one project as a chain (prepopulate.py, reports.py): a   *)
(* new report takes over the risks and pending items that are open in the  *)
(* newest report it may inherit from, provided that its period has none    *)
(* yet.  prepopulate_report asks, reads and commits in separate            *)
(* statements under READ COMMITTED; create_report asks nothing, and no     *)
(* constraint of the table reports speaks of periods.                      *)
(*                                                                         *)
(* Periods are numbered in time.  A risk or pending item is known by its   *)
(* text, which the copy keeps.  How one report is saved and decided is     *)
(* module ReportWorkflow; here its steps are single ones, and a report the *)
(* PMO or the client has to decide is REVIEWED.  The progresses, made from *)
(* the deliverables that are due, depend on no other report.               *)
(***************************************************************************)
EXTENDS Naturals, Sequences

CONSTANTS
  Prefills,     \* requests to create a pre-populated report
  Topics,       \* what risks and pending items are about
  MaxPeriod,    \* bound: periods
  MaxRows       \* bound: reports

ASSUME ChainAssumption == MaxPeriod \in Nat \ {0} /\ MaxRows \in Nat

VARIABLES
  tracked,   \* the project has an active baseline
  rows,      \* the committed reports, in the order of their commits
  prefill    \* prefill[p]: the handler of p

chainVars == <<tracked, rows, prefill>>

Periods == 1 .. MaxPeriod
Stored == DOMAIN rows

Report == [period : Periods,
           status : {"DRAFT", "NEEDS_REVISION", "REVIEWED", "CLIENT_RELEASED"},
           open : SUBSET Topics]

\* seen and released are history: the reports there were when the period was
\* looked up, and those that were released when the source was chosen and have
\* not been sent back since.
Prefill == [pc : {"idle", "free", "sourced"}, period : Periods,
            seen : 0 .. MaxRows, source : 0 .. MaxRows,
            released : SUBSET (1 .. MaxRows)]

NoPrefill == [pc |-> "idle", period |-> 1, seen |-> 0, source |-> 0,
              released |-> {}]

ChainTypeOK ==
  /\ tracked \in BOOLEAN
  /\ rows \in Seq(Report) /\ Len(rows) <= MaxRows
  /\ prefill \in [Prefills -> Prefill]

ChainInit ==
  /\ tracked = FALSE
  /\ rows = << >>
  /\ prefill = [p \in Prefills |-> NoPrefill]

-----------------------------------------------------------------------------
(* The reports of the project, one by one.                                 *)

\* activate_baseline: from now on there is an active baseline.
ActivateBaseline ==
  /\ ~tracked
  /\ tracked' = TRUE
  /\ UNCHANGED <<rows, prefill>>

\* create_report: an empty draft for any period.
CreatePlain(n) ==
  /\ Len(rows) < MaxRows
  /\ rows' = Append(rows, [period |-> n, status |-> "DRAFT", open |-> {}])
  /\ UNCHANGED <<tracked, prefill>>

\* patch_report replaces the lists of an editable report.
EditItems(i, items) ==
  /\ rows[i].status \in {"DRAFT", "NEEDS_REVISION"}
  /\ items # rows[i].open
  /\ rows' = [rows EXCEPT ![i].open = items]
  /\ UNCHANGED <<tracked, prefill>>

Advance(i, from, to) ==
  /\ rows[i].status \in from
  /\ rows' = [rows EXCEPT ![i].status = to]
  /\ UNCHANGED <<tracked, prefill>>

SubmitRow(i) == Advance(i, {"DRAFT", "NEEDS_REVISION"}, "REVIEWED")
ReleaseRow(i) == Advance(i, {"REVIEWED"}, "CLIENT_RELEASED")
SendBackRow(i) == Advance(i, {"REVIEWED"}, "NEEDS_REVISION")

\* A decision that was checked before the release commits after it.
ReopenRow(i) ==
  /\ rows[i].status = "CLIENT_RELEASED"
  /\ rows' = [rows EXCEPT ![i].status = "NEEDS_REVISION"]
  /\ prefill' = [p \in Prefills |-> [prefill[p] EXCEPT !.released = @ \ {i}]]
  /\ UNCHANGED tracked

-----------------------------------------------------------------------------
(* prepopulate_report.                                                     *)

SamePeriod(n) == {i \in Stored : rows[i].period = n}
Released == {i \in Stored : rows[i].status = "CLIENT_RELEASED"}

\* Mutant of LookUpPeriod: only the reports that have been submitted count.
LookUpSubmitted(p, n) ==
  /\ prefill[p].pc = "idle"
  /\ \A i \in SamePeriod(n) : rows[i].status = "DRAFT"
  /\ prefill' = [prefill EXCEPT ![p] =
       [NoPrefill EXCEPT !.pc = "free", !.period = n, !.seen = Len(rows)]]
  /\ UNCHANGED <<tracked, rows>>

\* Whatever its status, a report in the period is a 409 (two of them, which
\* scalar_one_or_none does not expect, a 500).
LookUpPeriod(p, n) ==
  /\ prefill[p].pc = "idle"
  /\ SamePeriod(n) = {}
  /\ prefill' = [prefill EXCEPT ![p] =
       [NoPrefill EXCEPT !.pc = "free", !.period = n, !.seen = Len(rows)]]
  /\ UNCHANGED <<tracked, rows>>

\* _HERITABLE_REPORT_STATUSES: neither drafts nor reports that were sent back.
Heritable ==
  {i \in Stored : rows[i].status \in {"REVIEWED", "CLIENT_RELEASED"}}

\* Mutant of Newest: the report that was created last.
LastCreated == {i \in Heritable : \A k \in Heritable : k <= i}

\* ORDER BY period_end DESC LIMIT 1, over all periods, the later ones included.
Newest == {i \in Heritable : \A k \in Heritable : rows[k].period <= rows[i].period}

\* There is an active baseline; the draft is flushed, and the source is chosen.
FindPrevious(p) ==
  /\ prefill[p].pc = "free"
  /\ tracked
  /\ Len(rows) < MaxRows
  /\ \E i \in IF Heritable = {} THEN {0} ELSE Newest :
       prefill' = [prefill EXCEPT ![p].pc = "sourced", ![p].source = i,
                                  ![p].released = Released]
  /\ UNCHANGED <<tracked, rows>>

\* The draft with copies of the items that are open in the source by now, in one
\* transaction: what is read is committed as it was read.
CommitPrefill(p) ==
  /\ prefill[p].pc = "sourced"
  /\ Len(rows) < MaxRows
  /\ rows' = Append(rows, [period |-> prefill[p].period, status |-> "DRAFT",
       open |-> IF prefill[p].source = 0 THEN {} ELSE rows[prefill[p].source].open])
  /\ prefill' = [prefill EXCEPT ![p] = NoPrefill]
  /\ UNCHANGED tracked

\* No active baseline, or two, an error, a dead process: nothing is kept.
EndPrefill(p) ==
  /\ prefill[p].pc # "idle"
  /\ prefill' = [prefill EXCEPT ![p] = NoPrefill]
  /\ UNCHANGED <<tracked, rows>>

RowStep(i) ==
  \/ \E items \in SUBSET Topics : EditItems(i, items)
  \/ SubmitRow(i) \/ ReleaseRow(i) \/ SendBackRow(i) \/ ReopenRow(i)

PrefillStep(p) ==
  \/ \E n \in Periods : LookUpPeriod(p, n)
  \/ FindPrevious(p) \/ CommitPrefill(p) \/ EndPrefill(p)

ChainNext ==
  \/ ActivateBaseline
  \/ \E n \in Periods : CreatePlain(n)
  \/ \E i \in Stored : RowStep(i)
  \/ \E p \in Prefills : PrefillStep(p)

ChainSpec == ChainInit /\ [][ChainNext]_chainVars

-----------------------------------------------------------------------------
\* This step commits the report of p.
Creates(p) ==
  prefill[p].pc = "sourced" /\ prefill'[p].pc = "idle" /\ Len(rows') > Len(rows)

\* "chamar 2x com mesmo (project_id, period_start, period_end) levanta
\* PrepopulateConflict" (prepopulate.py:23-24, the look-up at 179-186): a
\* pre-populated report meets another one of its period only if that one was
\* committed after the look-up.
SecondInPeriodOverlaps ==
  [][\A p \in Prefills : Creates(p) =>
       \A i \in Stored :
         rows[i].period = rows'[Len(rows')].period => i > prefill[p].seen]_chainVars

\* No open item of what the client has seen is lost on the way: a pre-populated
\* report has a source as late as any report that was released when it chose
\* (prepopulate.py:111-125), and carries all that is open there, even though it is
\* chosen in one step and read in another, if that source was released and has not
\* been sent back meanwhile.
ReleasedIsInherited ==
  [][\A p \in Prefills : Creates(p) =>
       LET s == prefill[p].source IN
       \A i \in prefill[p].released :
         /\ s # 0 /\ rows[i].period <= rows[s].period
         /\ i = s => rows'[Len(rows')].open = rows[s].open]_chainVars
=============================================================================
