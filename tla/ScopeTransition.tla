-------------------------- MODULE ScopeTransition --------------------------
(***************************************************************************)
(* The baselines of one project: how a proposal version becomes a draft    *)
(* baseline, how the diff with the active one becomes ScopeChanges, and    *)
(* how the GP activates version 1 and the PMO decides the versions after   *)
(* it (baselines.py, client_portal.py:diff_baselines, worker_stub.py).     *)
(*                                                                         *)
(* Every upload makes one proposal version, and its extraction one         *)
(* baseline, so a version stands for its baseline.  A handler is split     *)
(* into what it checks, the start and the end of the UPDATE that demotes   *)
(* the other baselines, and its commit.  PostgreSQL runs READ COMMITTED: a *)
(* statement sees the rows committed before it starts, the ORM writes by   *)
(* primary key whatever the row has become since, a row written in an open *)
(* transaction is locked for the others, and a statement that has waited   *)
(* for a row looks again at that row only.                                 *)
(***************************************************************************)
EXTENDS Naturals, FiniteSets

CONSTANTS
  MaxVersion,   \* bound: uploads
  Codes,        \* the codes of deliverables (d-001, ...)
  Contents,     \* what the tracked fields of a deliverable may hold
  Absent,       \* no deliverable with this code
  Extracted,    \* the deliverables an extraction finds (_stub_deliverables)
  Deciders,     \* activate and transition requests served at the same time
  MaxEdits      \* bound: edits of deliverables served at the same time

Items == [Codes -> Contents \cup {Absent}]

ASSUME VersionAssumption == MaxVersion \in Nat \ {0}
ASSUME AbsentAssumption == Absent \notin Contents
ASSUME ExtractedAssumption == Extracted \in Items
ASSUME EditsAssumption == MaxEdits \in Nat

VARIABLES
  uploads,     \* versions uploaded so far
  baseline,    \* baseline[v]: status column of the baseline of version v
  items,       \* items[v]: its deliverables
  diff,        \* diff[v]: what is left of the stub's task after the extraction
  change,      \* change[k]: status column of the ScopeChange with key k
  request,     \* request[d]: the handler of decider d
  edits,       \* deliverable edits that have passed their check
  overlapped   \* history: two deciders have been in flight at once

vars == <<uploads, baseline, items, diff, change, request, edits, overlapped>>

Versions == 1 .. MaxVersion

\* The ScopeChange rows diff_baselines can create.
Keys == [to : Versions, from : Versions,
         type : {"ADDED", "REMOVED", "MODIFIED"}, code : Codes]

\* The columns hold the NAMES of the enum members: there is no values_callable.
BaselineStatus == {"DRAFT", "ACTIVE", "SUPERSEDED", "REJECTED"}
ScopeChangeStatus == {"PROPOSED", "IMPLEMENTED", "REJECTED"}

DiffTask == [pc : {"none", "extracted", "read", "ended"}, rows : SUBSET Keys]
\* A handler: the draft and the changes it decides, and the other baselines
\* its UPDATE has found active ("updating") and then written ("demoted").
Request == [pc : {"idle", "checked", "updating", "demoted"},
            kind : {"none", "activate", "approve", "reject"},
            version : Versions, rows : SUBSET Keys, others : SUBSET Versions]
Edit == [version : Versions, code : Codes, content : Contents \cup {Absent}]

IdleRequest == [pc |-> "idle", kind |-> "none", version |-> 1, rows |-> {},
                others |-> {}]

TypeOK ==
  /\ uploads \in 0 .. MaxVersion
  /\ baseline \in [Versions -> BaselineStatus \cup {"none"}]
  /\ items \in [Versions -> Items]
  /\ diff \in [Versions -> DiffTask]
  /\ change \in [Keys -> ScopeChangeStatus \cup {"none"}]
  /\ request \in [Deciders -> Request]
  /\ edits \in SUBSET Edit
  /\ overlapped \in BOOLEAN

Init ==
  /\ uploads = 0
  /\ baseline = [v \in Versions |-> "none"]
  /\ items = [v \in Versions |-> [c \in Codes |-> Absent]]
  /\ diff = [v \in Versions |-> [pc |-> "none", rows |-> {}]]
  /\ change = [k \in Keys |-> "none"]
  /\ request = [d \in Deciders |-> IdleRequest]
  /\ edits = {}
  /\ overlapped = FALSE

Active == {v \in Versions : baseline[v] = "ACTIVE"}

\* uq_baseline_active_per_project is a unique index on project_id for the rows
\* WHERE status = 'active'.  That is the value of the member, not its name.
Indexed(column) == {v \in Versions : column[v] = "active"}
UniqueIndexAllows(column) ==
  \A u, v \in Indexed(column) : u = v

-----------------------------------------------------------------------------
(* Uploads, extractions and the diff.                                      *)

Upload ==
  /\ uploads < MaxVersion
  /\ uploads' = uploads + 1
  /\ UNCHANGED <<baseline, items, diff, change, request, edits, overlapped>>

\* The first commit of the stub's task: the draft and its deliverables.
Extract(v) ==
  /\ v <= uploads
  /\ baseline[v] = "none"
  /\ baseline' = [baseline EXCEPT ![v] = "DRAFT"]
  /\ items' = [items EXCEPT ![v] = Extracted]
  /\ diff' = [diff EXCEPT ![v].pc = "extracted"]
  /\ UNCHANGED <<uploads, change, request, edits, overlapped>>

\* compute_baseline_diff: deliverables are matched by their code.
Delta(from, to) ==
  {k \in Keys :
     /\ k.from = from
     /\ k.to = to
     /\ k.type = CASE items[from][k.code] = Absent -> "ADDED"
                   [] items[to][k.code] = Absent -> "REMOVED"
                   [] OTHER -> "MODIFIED"
     /\ items[from][k.code] # items[to][k.code]}

\* Mutant of DiffRead: the draft is compared with the version before it.
DiffWithPrevious(v) ==
  /\ diff[v].pc = "extracted"
  /\ v > 1
  /\ baseline[v - 1] # "none"
  /\ diff' = [diff EXCEPT ![v] = [pc |-> "read", rows |-> Delta(v - 1, v)]]
  /\ UNCHANGED <<uploads, baseline, items, change, request, edits, overlapped>>

\* From version 2 on, the task compares the draft with the active baseline.
DiffRead(v) ==
  /\ diff[v].pc = "extracted"
  /\ v > 1
  /\ \E b \in Versions :
       /\ Active = {b}
       /\ diff' = [diff EXCEPT ![v] = [pc |-> "read", rows |-> Delta(b, v)]]
  /\ UNCHANGED <<uploads, baseline, items, change, request, edits, overlapped>>

\* There is nothing to compare with, scalar_one_or_none finds two active
\* baselines and raises, or the API process dies with the task.
DiffEnd(v) ==
  /\ diff[v].pc \in {"extracted", "read"}
  /\ diff' = [diff EXCEPT ![v] = [pc |-> "ended", rows |-> {}]]
  /\ UNCHANGED <<uploads, baseline, items, change, request, edits, overlapped>>

\* The second commit: one PROPOSED ScopeChange for each difference.
DiffCommit(v) ==
  /\ diff[v].pc = "read"
  /\ change' = [k \in Keys |-> IF k \in diff[v].rows THEN "PROPOSED"
                                                     ELSE change[k]]
  /\ diff' = [diff EXCEPT ![v] = [pc |-> "ended", rows |-> {}]]
  /\ UNCHANGED <<uploads, baseline, items, request, edits, overlapped>>

-----------------------------------------------------------------------------
(* The GP edits the deliverables of a draft.                               *)

\* create, update and delete_deliverable check the status of the baseline.
\* One edit of a deliverable at a time.
EditCheck(v, c) ==
  /\ baseline[v] = "DRAFT"
  /\ Cardinality(edits) < MaxEdits
  /\ \A e \in edits : e.version = v => e.code # c
  /\ \E x \in (Contents \cup {Absent}) \ {items[v][c]} :
       edits' = edits \cup {[version |-> v, code |-> c, content |-> x]}
  /\ UNCHANGED <<uploads, baseline, items, diff, change, request, overlapped>>

EditCommit(e) ==
  /\ edits' = edits \ {e}
  /\ items' = [items EXCEPT ![e.version][e.code] = e.content]
  /\ UNCHANGED <<uploads, baseline, diff, change, request, overlapped>>

-----------------------------------------------------------------------------
(* activate_baseline and decide_baseline_transition.                       *)

Busy(d) == request[d].pc # "idle"

Begin(d, kind, v, rows) ==
  /\ ~Busy(d)
  /\ request' = [request EXCEPT ![d] =
       [pc |-> "checked", kind |-> kind, version |-> v, rows |-> rows,
        others |-> {}]]
  /\ overlapped' = (overlapped \/ \E e \in Deciders : Busy(e))
  /\ UNCHANGED <<uploads, baseline, items, diff, change, edits>>

\* Mutant of Activate: without the gate of F5.2.
ActivateAnyVersion(d, v) ==
  /\ baseline[v] = "DRAFT"
  /\ Begin(d, "activate", v, {})

\* The GP activates a draft of version 1; the versions after it get a 403.
Activate(d, v) ==
  /\ baseline[v] = "DRAFT"
  /\ v = 1
  /\ Begin(d, "activate", v, {})

Proposed(v) == {k \in Keys : k.to = v /\ change[k] = "PROPOSED"}

\* The PMO decides a draft that has PROPOSED changes (409 and 422 otherwise).
Transition(d, v, decision) ==
  /\ baseline[v] = "DRAFT"
  /\ Proposed(v) # {}
  /\ Begin(d, decision, v, Proposed(v))

\* What the open transactions of the other deciders have written.
LockedBaselines(d) ==
  UNION {request[e].others : e \in {f \in Deciders \ {d} : request[f].pc = "demoted"}}
LockedChanges(d) ==
  UNION {request[e].rows : e \in {f \in Deciders \ {d} :
                                    request[f].pc \in {"updating", "demoted"}}}

\* The changes are flushed, once no other transaction has written them, and the
\* UPDATE of the other active baselines starts: it sees those that are active now.
Update(d) ==
  /\ request[d].pc = "checked"
  /\ request[d].kind \in {"activate", "approve"}
  /\ request[d].rows \cap LockedChanges(d) = {}
  /\ request' = [request EXCEPT ![d].pc = "updating",
                               ![d].others = Active \ {request[d].version}]
  /\ UNCHANGED <<uploads, baseline, items, diff, change, edits, overlapped>>

\* Mutant of Demote: the predicate of the UPDATE matches no row.
DemoteNothing(d) ==
  /\ request[d].pc = "updating"
  /\ request' = [request EXCEPT ![d].pc = "demoted", ![d].others = {}]
  /\ UNCHANGED <<uploads, baseline, items, diff, change, edits, overlapped>>

\* The UPDATE waits for the rows another transaction has written, and skips
\* those that are no longer active; a row that has become active meanwhile is
\* not in its snapshot.
Demote(d) ==
  /\ request[d].pc = "updating"
  /\ request[d].others \cap LockedBaselines(d) = {}
  /\ request' = [request EXCEPT ![d].pc = "demoted", ![d].others = @ \cap Active]
  /\ UNCHANGED <<uploads, baseline, items, diff, change, edits, overlapped>>

\* The status of a baseline once decider d has committed.
Decided(d, new) ==
  [v \in Versions |-> CASE v = request[d].version -> new
                        [] v \in request[d].others -> "SUPERSEDED"
                        [] OTHER -> baseline[v]]

\* Mutant of CommitApproval: the changes are left to another transaction.
CommitBaselineOnly(d) ==
  /\ request[d].pc = "demoted"
  /\ request[d].version \notin LockedBaselines(d)
  /\ baseline' = Decided(d, "ACTIVE")
  /\ request' = [request EXCEPT ![d] = IdleRequest]
  /\ UNCHANGED <<uploads, items, diff, change, edits, overlapped>>

\* Mutant of CommitApproval: approved now, to be implemented later.
ApproveOnly(d) ==
  /\ request[d].pc = "demoted"
  /\ request[d].version \notin LockedBaselines(d)
  /\ baseline' = Decided(d, "ACTIVE")
  /\ change' = [k \in Keys |-> IF k \in request[d].rows THEN "APPROVED"
                                                        ELSE change[k]]
  /\ request' = [request EXCEPT ![d] = IdleRequest]
  /\ UNCHANGED <<uploads, items, diff, edits, overlapped>>

\* activate and approve: nothing of what was checked is checked again.
CommitApproval(d) ==
  /\ request[d].pc = "demoted"
  /\ request[d].version \notin LockedBaselines(d)
  /\ UniqueIndexAllows(Decided(d, "ACTIVE"))
  /\ baseline' = Decided(d, "ACTIVE")
  /\ change' = [k \in Keys |-> IF k \in request[d].rows THEN "IMPLEMENTED"
                                                        ELSE change[k]]
  /\ request' = [request EXCEPT ![d] = IdleRequest]
  /\ UNCHANGED <<uploads, items, diff, edits, overlapped>>

\* Mutant of CommitRejection: the demotion is not limited to approvals.
RejectAndDemote(d) ==
  /\ request[d].pc = "checked"
  /\ request[d].kind = "reject"
  /\ baseline' = [v \in Versions |->
       CASE v = request[d].version -> "REJECTED"
         [] v \in Active -> "SUPERSEDED"
         [] OTHER -> baseline[v]]
  /\ change' = [k \in Keys |-> IF k \in request[d].rows THEN "REJECTED"
                                                        ELSE change[k]]
  /\ request' = [request EXCEPT ![d] = IdleRequest]
  /\ UNCHANGED <<uploads, items, diff, edits, overlapped>>

\* reject: the other baselines are left alone.
CommitRejection(d) ==
  /\ request[d].pc = "checked"
  /\ request[d].kind = "reject"
  /\ request[d].version \notin LockedBaselines(d)
  /\ request[d].rows \cap LockedChanges(d) = {}
  /\ baseline' = Decided(d, "REJECTED")
  /\ change' = [k \in Keys |-> IF k \in request[d].rows THEN "REJECTED"
                                                        ELSE change[k]]
  /\ request' = [request EXCEPT ![d] = IdleRequest]
  /\ UNCHANGED <<uploads, items, diff, edits, overlapped>>

\* The database refuses the commit, detects a deadlock, or the process dies.
Fail(d) ==
  /\ Busy(d)
  /\ request' = [request EXCEPT ![d] = IdleRequest]
  /\ UNCHANGED <<uploads, baseline, items, diff, change, edits, overlapped>>

-----------------------------------------------------------------------------
Extraction(v) == Extract(v) \/ DiffRead(v) \/ DiffEnd(v) \/ DiffCommit(v)

Decision(d) ==
  \/ \E v \in Versions : Activate(d, v)
  \/ \E v \in Versions, decision \in {"approve", "reject"} : Transition(d, v, decision)
  \/ Update(d) \/ Demote(d) \/ CommitApproval(d) \/ CommitRejection(d) \/ Fail(d)

Next ==
  \/ Upload
  \/ \E v \in Versions : Extraction(v)
  \/ \E v \in Versions, c \in Codes : EditCheck(v, c)
  \/ \E e \in edits : EditCommit(e)
  \/ \E d \in Deciders : Decision(d)

Spec == Init /\ [][Next]_vars

-----------------------------------------------------------------------------
\* No change of scope takes effect without the PMO: a version after the first
\* is or has been active only with IMPLEMENTED changes, which only an approval
\* writes (baselines.py:188-199), whatever requests run at once.
PmoGate ==
  \A v \in Versions : v > 1 /\ baseline[v] \in {"ACTIVE", "SUPERSEDED"} =>
    \E k \in Keys : k.to = v /\ change[k] = "IMPLEMENTED"

\* Granularity is the batch: the changes that lead to a baseline all share the
\* fate of that baseline (baselines.py:234-250), even when an approval and a
\* rejection of it overlap and the last commit wins.
BatchAgrees ==
  \A k \in Keys :
    /\ change[k] = "PROPOSED" => baseline[k.to] = "DRAFT"
    /\ change[k] = "IMPLEMENTED" => baseline[k.to] \in {"ACTIVE", "SUPERSEDED"}
    /\ change[k] = "REJECTED" => baseline[k.to] = "REJECTED"

\* "no máximo 1 ACTIVE por projeto" (baselines.py:297-298; domain.py, Baseline;
\* migration 0003:59).
OneActive == \A u, v \in Active : u = v

\* With one decision at a time it holds, whatever extractions and edits do.
OneActiveAlone == ~overlapped => OneActive

\* The changes of a draft were computed from a scope that was in force, with one
\* decision at a time (worker_stub.py:169-183).
LineageHolds ==
  ~overlapped => \A k \in Keys :
    change[k] # "none" => baseline[k.from] \in {"ACTIVE", "SUPERSEDED"}

\* "Resolva a transição antes de encerrar" (projects.py:420-421): a draft from
\* version 2 on that is not waiting for its diff can be decided.
DraftIsDecidable ==
  \A v \in Versions :
    v > 1 /\ baseline[v] = "DRAFT" /\ diff[v].pc = "ended" => Proposed(v) # {}

\* Deciders that check a draft and commit later implement ScopeControl, in which a
\* decision is atomic, replaces the version in force in the same step and takes all
\* the changes of its version (baselines.py:234-250), as long as no two overlap and
\* whatever extractions, diffs and edits do meanwhile.
Fate(v) == CASE baseline[v] = "none" -> "none"
             [] baseline[v] = "DRAFT" -> "draft"
             [] baseline[v] \in {"ACTIVE", "SUPERSEDED"} -> "approved"
             [] baseline[v] = "REJECTED" -> "rejected"
Control == INSTANCE ScopeControl WITH
  fate <- [v \in Versions |-> Fate(v)], inForce <- Active, voided <- overlapped
ImplementsControl == Control!Spec
=============================================================================
