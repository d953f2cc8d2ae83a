# GP Portal: a TLA+ development

GP Portal is a project-management portal: a project manager (GP) uploads a
commercial proposal, an AI agent extracts a baseline of deliverables from it,
the GP edits and activates that baseline, reports progress against it, the PMO
and the client approve the reports, and later versions of the proposal become
changes of scope that the PMO decides.  The code is a FastAPI back end over
PostgreSQL and Redis, a worker process that runs the agents, and a React
front end.

This directory holds the TLA+ modules of the parts whose correctness depends on
interleavings, failures and the order of commits, the TLC configurations that
check them on small instances, and the TLAPS proofs of their main properties.
`PROJECT.json` maps every definition to the lines it models.

    tlc -workers 2 -config jobs_worker.cfg MCAgentJobs
    tlapm ScopeTransitionProofs.tla

| file | what it is |
|------|------------|
| `AgentJobs.tla` | publisher, Redis queue, workers, callback handler, stub |
| `AgentRunLifecycle.tla` | what the pipeline promises about one run (abstract) |
| `MCAgentJobs.tla`, `jobs_*.cfg` | instances of `AgentJobs` for TLC |
| `AgentJobsProofs.tla` | theorems about `AgentJobs` |
| `ScopeTransition.tla` | drafts, edits, diff, activation, decision of the PMO |
| `ScopeControl.tla` | what the portal promises about the scope of a project (abstract) |
| `MCScopeTransition.tla`, `scope_*.cfg` | instances of `ScopeTransition` for TLC |
| `ScopeTransitionProofs.tla` | theorems about `ScopeTransition` |
| `ReportWorkflow.tla` | wizard, autosave, submission, two-stage approval of a report |
| `ReportReview.tla` | what the portal promises about the review of a report (abstract) |
| `MCReportWorkflow.tla`, `report_*.cfg` | instances of `ReportWorkflow` for TLC |
| `ReportWorkflowProofs.tla` | theorems about `ReportWorkflow` |
| `AgentRunner.tla` | routes, failover, artifact validator, sessions of the broker |
| `MCAgentRunner.tla`, `agent_failover.cfg` | instance of `AgentRunner` for TLC |
| `AgentRunnerProofs.tla` | theorems about `AgentRunner` |
| `ProjectClose.tla` | close_project, composed with `ScopeTransition` and the reports |
| `ProjectCloseProofs.tla` | theorems about `ProjectClose`, `ReportInheritance` and `MCProject` |
| `ReportInheritance.tla` | the chain of reports, pre-population |
| `HealthScore.tla`, `HealthScoreProofs.tla` | the score over the life of a project, theorems |
| `MCProject.tla`, `project_life.cfg` | instances of these three for TLC |
| `ProposalUpload.tla` | version numbers and the object store |
| `ProposalLog.tla` | what a client sees of the uploads: a log of files (abstract) |
| `DataRequests.tla` | exports, deletions, tokens |
| `Notifications.tla`, `NotificationsProofs.tla` | notices, event stream, bell, theorems |
| `MCPortal.tla`, `portal_services.cfg` | instances of these three for TLC |
| `PortalProofs.tla` | theorems about `ProposalUpload`, `DataRequests` and `MCPortal` |

## 1. Inventory

Paths are relative to `src/`; `app/` is `backend/app/`.

**Agent job pipeline** (`app/queue/publisher.py`, `app/api/v1/projects.py`
upload_proposal, `worker/worker/main.py`, `worker/worker/http_client.py`,
`app/api/internal/agent_results.py`).
*State:* the rows `Proposal` and `AgentRunLog`, the Redis lists `jobs.agent` and
`jobs.agent.dead`, the job, result and `_stop` event in the memory of each
worker, the callbacks on the network.
*Operations:* upload (flush, RPUSH, commit), BRPOP, run the agent, POST the
signed result with up to three attempts, dead-letter, stop on a signal, record a
result, acknowledge a replay.
*Hard:* the RPUSH precedes the commit; BRPOP removes the job before it is done;
answers get lost and POSTs are retried; the handler checks a status and writes
it later; workers stop, die and restart.
*Correct when:* a job is in one place at a time, no job disappears quietly, a
run is executed and closed at most once with the outcome of its execution, and
every queued run ends somewhere.

**Worker stub** (`app/services/worker_stub.py`). *State:* an asyncio task in the
API process. *Operations:* read the proposal and the run, commit the draft
baseline, the proposal and the run together, then diff from version 2 on.
*Hard:* it is on by default and works beside the real pipeline; a restart of the
API forgets its task. *Correct when:* proposal, baseline and run agree.

**Baselines and scope transitions** (`app/api/v1/baselines.py`,
`app/api/v1/client_portal.py` diff_baselines).
*State:* `Baseline.status`, the `Deliverable` rows, the `ScopeChange` rows.
*Operations:* create, update and delete a deliverable of a draft; compute the
diff; activate (version 1, GP); approve or reject a batch (PMO).
*Hard:* every handler checks, then writes by primary key with no lock; the
demotion of the other baselines is one UPDATE of a READ COMMITTED transaction.
*Correct when:* a project has at most one active baseline, keeps it, changes it
only by a decision of the PMO after version 1, and a batch of changes shares one
fate.

**Reports** (`app/api/v1/reports.py`, `app/api/v1/approvals.py`,
`client_portal.py` confirm_read; in the front end `reports/[rid]/edit/page.tsx`,
`use-autosave.ts`, `rag.ts`; `app/services/report_analyzer_stub.py`).
*State:* `Report.status`, its RAG columns, the rows of its child lists
(progresses, risks, action plans, pending items), the `ReportApproval` rows; the
draft and the timer of the wizard.
*Operations:* create, autosave (PATCH), submit, decide at the PMO and then at
the client stage, confirm reading. *Hard:* autosaves overtake each other, one
races with the submission, two decisions race in one stage, a reading is
confirmed beside a rejection.
*Correct when:* a report under review is complete and does not change, is the
one the GP had in the wizard, has child lists of one save, and is released only
with an approval of each stage.

**Projects** (`app/api/v1/projects.py`, `app/schemas/retrospective.py`).
*State:* `Project.status` and `ended_at`, `ProjectRetrospective` with its JSON list
of materialised risks. *Operations:* create, upload, close after five questions.
*Hard:* each question is a statement of its own, the commit comes later, and no
other handler looks at the status of the project. *Correct when:* a project is
closed once and for good, what is pending in it came too late to be seen, and the
retrospective names risks that are there.

**Proposal storage** (`jump_storage/`, upload_proposal). *State:* the objects
`proposals/{project}/v{n}.pdf`, the rows `Proposal`. *Operations:* compute the next
version, put, insert, commit. *Hard:* two uploads take the same version number and
write one object before the unique constraint refuses one of them; the store is
not part of the transaction. *Correct when:* versions have no gaps, and the object
of a committed proposal is the file that was sent.

**Pre-populated reports** (`app/services/prepopulate.py`). *State:* the reports of
the project with their open risks and pending items. *Operations:* look for a
report of the period, choose the newest one that may be inherited from, copy what
is open. *Hard:* no constraint speaks of periods, and source and items are read
apart. *Correct when:* a second report in a period needs an overlap, and no open
item the client has seen is lost.

**Agent runner** (`jump_agent_runner/`): `AgentRunner` over two providers, each
with a headless and a broker route, the failover policy, `ArtifactValidator`, the
tmux broker. *State:* the attempts of the run, the artifact on disk, the headless
subprocess, the tmux sessions and the file `login-pending-{engine}` that outlive
the run. *Operations:* run, execute a route, probe a login and ask the operator
for one, wait for the sentinel, accept or reject the artifact.
*Hard:* killed agents leave children that write and hold pipes; a command that
timed out goes on in its session; the validator overturns an attempt that had
succeeded. *Correct when:* each route is tried at most once per engine and only
where the policy says so, result and attempts agree, and a run ends.

**Worker authentication and heartbeat** (`app/core/worker_auth.py`,
`worker/worker/heartbeat.py`): HMAC over body and time stamp inside a window.

**Health score** (`app/services/health_score.py`, `app/api/v1/portfolio.py`).
*State:* none of its own but the weights (`PortfolioConfig`); it is computed from
the active baseline, the progresses, the last reports and the date.
*Operations:* compute, change the weights. *Hard:* five quotients with their
special cases, weights that need not sum up to 1, reports submitted out of order.
*Correct when:* it stays within 0 to 100 and moves the right way.

**Notifications and events** (`app/services/notifications.py`,
`app/notifications/sse.py`, `app/api/v1/notifications.py`; in the front end
`notification-bell.tsx`, `use-sse.ts`). *State:* the rows `InAppNotification`, a
queue of 100 events per open stream in the memory of the API, the badge and the
requests of a page. *Operations:* notify (after a decision's own commit), stream,
count, mark as read. *Hard:* the event is out before its row is committed; a full
queue drops its oldest event; a lost stream is not opened again; replies overtake
each other. *Correct when:* a badge that waits for nothing is right.

**Data requests** (`app/api/v1/me.py`, `admin_data_requests.py`,
`app/services/data_export_service.py`) **and users** (`app/api/v1/auth.py`,
`app/api/deps.py`, `app/core/security.py`). *State:* `DataProcessingRecord`,
`User.anonymized_at`, the tokens that are out. *Operations:* log in, export, ask
for deletion, register a request that came by e-mail, fulfil. *Hard:* a JWT cannot
be revoked and get_current_user does not look at `anonymized_at`; two PMOs fulfil
one record; an export reads table after table. *Correct when:* a fulfilled
deletion means an anonymised user and the reverse, an anonymised user is locked
out in the end, and an export shows what it should.

**Operator console, files, other pages of the front end:** rows and objects read
in one request.

*How they interact.* The upload calls the publisher inside its own transaction
and schedules the stub after its commit; the worker is reached through Redis and
answers over HTTP; the extraction leads to a draft and, from version 2 on, to a
diff, which client_portal also uses; reports refer to the active baseline and, when
pre-populated, to each other; closing a project reads the state of reports, risks
and transitions; decisions call the notifications after their commit; the health
score reads baseline, progresses and reports.

## 2. Plan

| step | module | abstract specification | runs | theorems | state |
|------|--------|------------------------|------|----------|-------|
| 1 | `AgentJobs` | `AgentRunLifecycle` | 2 pass, 2 violation | type, custody, agreement, conservation, refinement | done |
| 2 | `ScopeTransition` | `ScopeControl` | 1 pass, 2 violation | type, gate, batch, one active, lineage, no lapse, refinement | done |
| 3 | `ReportWorkflow`: create, autosave, submit, two-stage approval, confirm_read | `ReportReview` | 1 pass, 1 violation | type, stages, child lists, soundness and freeze under review, refinement | done |
| 4 | `ProjectClose`: the questions of close_project against the handlers that do not look at the status of the project; EXTENDS step 2 and takes its `Next` as a step | `ScopeTransition` | 1 pass, with 7 and 8 | type, final, late work, listed risks, refinement | done |
| 5 | `AgentRunner`: routes, failover, sentinel loop, validator | - | 1 pass | type and attempt bound, policy, agreement of result and attempts | done |
| 6 | `ProposalUpload`: version number, object store, unique constraint; its job is step 1 | `ProposalLog` | 1 pass, with 9 and 10 | type, versions, files, refinement | done |
| 7 | `HealthScore`: the score over the life of a project | - | with 4 | type, range, schedule, risks | done |
| 8 | `ReportInheritance`: the chain of reports | - | with 4 | type, period, inheritance | done |
| 9 | `DataRequests`: exports, deletions, tokens | - | with 6 | type, deletions, exports | done |
| 10 | `Notifications`: notices, stream, bell | - | with 6 | type, badge | done |

Modules that share no variable are checked by one run: `MCProject` and `MCPortal`
choose a part in the initial state and explore that part alone, since steps of
different parts do not depend on each other.  `ProjectClose` is different: it is a
true composition, in which scope transitions, reports and closings interleave.

## 3. `AgentJobs`

One element of `Runs` is one upload: its proposal, its fresh `run_id` and its
job.  A handler is split exactly where another process can get in between: the
flush, the RPUSH and the commit of the upload; the SELECT and the commit of the
callback and of the stub; each POST and its answer.

| code | model |
|------|-------|
| upload_proposal, enqueue_agent_job | `Flush`, `Push` (RPUSH), `Commit`, `Abort` |
| AgentWorker.run, `_process_job` | `Pop`, `Execute`, `Release`, `Stop` |
| post_signed with tenacity | `Post`, `Retry`, `GiveUp` |
| signals, death, restart | `RequestStop`, `Stop`, `Die`, `Start` |
| report_agent_result | `CallbackNotFound` (404), `CallbackReplay`, `CallbackCheck`, `CallbackCommit`, `Drop` |
| worker_stub `_process` | `StubRead`, `StubCommit` |
| the API process dies | `ApiCrash` |

`log` and `proposal` hold committed rows only: a flush shows nothing to others.
The UPDATE of `CallbackCommit` is by `run_id` and does not look at the status
again.  An answer reaches the worker only while it waits for that very attempt
(`Awaited`); a request may outlive the attempt that sent it.  `execution` and
`lost` are history variables: no guard reads them.

*Abstractions.* Payloads, prompts and the metrics of a result are left out; a
result is "done" or "failed" (a run that expired is reported as failed by
`_build_callback_payload`). A refused signature or clock is one of the reasons of
`GiveUp`. Redis is reliable and external. The agent runner is one step with two
outcomes. The branch of the publisher without Redis exists for tests only.
The worker's BRPOP failing on Redis is retried by the code and changes no state.

**Properties.** `SingleCustody`: a job is once on the queue or with one worker.
`ReportsAgree`: all callbacks of a run carry its one execution; this is why two
handlers that both read an open row cannot disagree. `JobConservation`: an open
run of a pushed job is on the queue, with a worker, dead-lettered or was lost
with its worker. `ExtractedRunIsClosed`: the stub's proposal and run agree.
`ImplementsLifecycle`: `log` and `execution` behave as `AgentRunLifecycle`.
`EventuallySettled`: every queued run is closed, dead-lettered or lost, if no worker
stays in `runner.run` for ever.

## 4. `ScopeTransition`

One project.  A version stands for its proposal and its baseline.

| code | model |
|------|-------|
| upload_proposal | `Upload` |
| worker_stub `_process`, first commit | `Extract` |
| compute_baseline_diff | `Delta` |
| worker_stub, version 2 on; diff_baselines | `DiffRead`, `DiffCommit`, `DiffEnd` |
| create, update, delete_deliverable | `EditCheck`, `EditCommit` |
| activate_baseline | `Activate`, `Update`, `Demote`, `CommitApproval` |
| decide_baseline_transition, approve | `Transition`, `Update`, `Demote`, `CommitApproval` |
| decide_baseline_transition, reject | `Transition`, `CommitRejection` |
| a refused commit, a detected deadlock, a dead process | `Fail` |
| the partial unique index of migration 0003 | `UniqueIndexAllows` |

PostgreSQL's READ COMMITTED is in the steps: `Update` is the start of the UPDATE
of the other active baselines and takes its snapshot (`others`); `Demote` waits
for rows another transaction has written and then drops from `others` those that
are no longer active; a row that becomes active after the snapshot is not seen.
The commit writes the draft by primary key, whatever it has become since.

*Abstractions.* The tracked fields of a deliverable are one content value; texts, notes,
effort and dates are left out; so are notifications, sent after the commit. The SELECTs
of a diff (the two baselines and their deliverables) are one read: an edit of the draft
that commits between them is one that comes before or after it. `overlapped` is history:
two decisions have been in flight at once.

**Properties.** `PmoGate` and `BatchAgrees` hold whatever overlaps: no version
after the first is in force without implemented changes, and a batch has one
fate. `OneActiveAlone` and `LineageHolds` hold while decisions do not overlap; that
the first of them needs this is what `scope_two_active` shows.
`ImplementsControl`: the code implements `ScopeControl`, in which a draft appears, has
its changes proposed once and all together, and is decided in one atomic step that
replaces the version in force (a rejection leaves it) and decides exactly the changes
that wait for it.  The mapping forgets which approved version has been superseded
(`Fate`), every UPDATE before a commit and every edit; only the commits are steps of
`ScopeControl`.  `voided` is `overlapped`: from the first overlap of two decisions on,
the handlers promise nothing, and the refinement says nothing.  That the gap between
check and commit is harmless until then, beside extractions, diffs and edits at any
moment, is the content of the refinement.

## 5. `ReportWorkflow`

One report of one project, the wizard that edits it and the requests about it.

| code | model |
|------|-------|
| create_report, prepopulate_report | `CreateReport`, `CreatePrepopulated` |
| the edit page, the timer of useAutosave | `OpenPage`, `EditDraft`, `ClosePage`, `Autosave` |
| handleSubmitFinal: validate, save, wait | `ClickSubmit`, `SaveAnswered` |
| patch_report: SELECT and check; UPDATE and DELETEs; commit | `PatchLoad`, `PatchWrite`, `PatchCommit` |
| a 409, the unique constraint, a lost request | `PatchFail` |
| submit_report: SELECT and checks; commit | `SubmitLoad`, `SubmitCommit`, `SubmitFail` |
| decide_report | `DecideLoad`, `ReviewCommit`, `ReviewFail` |
| confirm_read | `ConfirmLoad`, `ReviewCommit`, `ReviewFail` |

A handler is split where another transaction can get in between.  An UPDATE sets
the columns that differ from what the handler read (`Updated`), by primary key;
it comes before the DELETEs of the PATCH and keeps the row locked until its
commit (`RowLocked`), so a PATCH that changes a column and another handler that
writes the row take turns from there on.  The DELETEs of the four child lists
follow each other with only INSERTs in between, which another transaction meets
as one step; their rows are told apart by the PATCH that inserted them, and the
unique constraint on progresses makes the second of two inserts fail when there
are deliverables to report on (`tracked`, fixed in the initial state).

*Abstractions.* The scalar columns kept are the RAG levels, their justifications
and the aggregate, which the handlers validate or derive.  Best-effort work after
a commit (health score, analysis, notifications, e-mail), the promotion of
deliverables to CONCLUDED and the flags of inherited rows are left out: nothing
here reads them.  One tab edits the report and submits once at a time, as the
page does.  `approved_with_comment` is an approval.  `round` and `overlapped`
are history: two handlers have been between their SELECT and their commit at
once.

**Properties.** `StageOrder` (no stage is skipped) and `ListsAreOneSave` (the
child lists are those of one PATCH) hold under any overlap, the second as long
as there are progresses; without an overlap `DecisionsExplainStatus` (the status
is what this round's decisions make of it), `SubmittedIsSound` (a report under
review is complete and its aggregate is that of its dimensions, although a late
PATCH may have landed between the last save and the submission) hold.
`ImplementsReview`: the code implements `ReportReview`, in which creating, writing,
submitting and deciding are atomic, a report is written only while the GP has it, a
submission keeps the contents and adds the aggregate, and each decision is of its stage.
So an autosave that arrives late changes nothing under review (`FrozenUnderReview`,
proved on its own).  After an overlap `ReportReview` promises one thing still: no
decision is lost and no submission uncounted, since both are only added.

## 6. `AgentRunner`

One worker, which takes one run after the other.

| code | model |
|------|-------|
| AgentWorker `_process_job` calls runner.run | `TakeRun` |
| is_available and execute of the headless routes | `HeadlessUnavailable`, `HeadlessMissing`, `HeadlessStart` |
| run_with_heartbeat: exit or kill, then both pipes to their end | `HeadlessEnds`, `Drained` |
| `_classify_failure`; a hard timeout | `HeadlessExit` with `Classified`; `HeadlessTimeout` |
| BrokerRoute.is_available, session, is_logged_in | `BrokerUnavailable`, `SessionFails`, `Probe`, `ProbeFails` |
| request_user_login, `_wait_for_login_confirmed` | `RequestLogin`, `LoginConfirmed`, `LoginTimeout` |
| send_command, wait_for_sentinel | `Dispatch`, `SentinelSeen`, `WaitTimeout` |
| ArtifactValidator, and the log replaced after a rejection | `Accept`, `Reject` with `Rejected` |
| `HEADLESS_TO_BROKER_REASONS`, `PROVIDER_TO_PROVIDER_REASONS` | `HeadlessFails`, `ProviderFails` |
| `jump-runner login-confirm` | `LoginConfirm` |
| agents and what they leave behind (external) | `AgentWrites`, `OrphanEnds`, `SessionWrites`, `SessionPrints`, `SessionEnds` |

The runner is split where another process can get in between: it looks at
output_path when an attempt ends and again in the validator, and an orphan or a
command of the session may write in between.  `typed` is what a session has
still to run: a command waits behind those of earlier runs.

*Abstractions.* The artifact is absent, partial (whatever is not a JSON object)
or an object; a relay has a sentinel or not and an object or not, at random.
What wsl, tmux and the engines answer is free. A login is a file that the
operator removes. An exception that leaves `runner.run` ends the worker and is
the death of a worker in `AgentJobs`.

**Properties.** `PolicyFollowed`: each attempt is the policy's next one after the one
before, whatever was unavailable. `ResultAgrees`: a success is the last attempt and the
only one, of the engine and route that the result names, and no attempt of a failed run
claims success, although the validator may overturn one that did. `RunEnds`: a run ends
if the runner is not held up for ever (`HeldUp`) by a process that an agent has left and
that keeps the pipes open. `TypeOK` bounds a run at four attempts.

## 7. `ProjectClose`, `ReportInheritance`, `HealthScore`

The life of one project.

| code | model |
|------|-------|
| create_project | the initial states |
| close_project: project and owner; five SELECTs; one commit | `BeginClose`; `AskScope`, `AskReports`, `AskBaselines`, `AskRisks`; `CommitClose` |
| a 409, a 422, the unique constraint on the retrospective, an error | `EndClose` |
| everything in `ScopeTransition` | `ScopeStep` |
| the life of a report | `CreateReport`, `Submit`, `PmoApprove`, `Release`, `SendBack`, `ReturnReleased` |
| patch_report: SELECT and check; DELETE of the risks; commit | `CheckPatch`; `WritePatch`; `CommitPatch` |
| prepopulate_report | `LookUpPeriod`, `FindPrevious`, `CommitPrefill`, `EndPrefill` |
| the other handlers of reports, on the chain | `CreatePlain`, `EditItems`, `SubmitRow`, `ReleaseRow`, `SendBackRow`, `ReopenRow` |
| compute_rag_avg, compute_spi, compute_risk_inverse, compute_resolution_rate, compute_stability | `RagAvg`, `Spi`, `RiskInverse`, `ResolutionRate`, `Stability` |
| `_normalize_weights`, compute_for_project, `_band` | `Normalized`, `WeightedSum`, `Score`, `Band` |
| a day, an activation, an autosave, a submission, a report sent back, new weights | `NextDay`, `ActivateDeliverables`, `SaveProgress`, `SubmitReport`, `SendBackReport`, `UpdateWeights` |

*Abstractions.* A decision on a report is one step here: what overlapping decisions do
is `ReportWorkflow`, and their one effect that matters, a released report that goes back
(`ReturnReleased`, `ReopenRow`), is an action. A risk stands for its row: an autosave
deletes the rows it finds and inserts another, and its commit does not look at the
status again, so that it may come after the release of its report; one that fails is one
that goes no further, as nothing of it is kept. A closing names one risk at most.
Periods are numbers; an open item is known by its text, which the copy keeps. The
SELECTs of the open risks and of the open items of the source are one read with the
commit of the copy: an autosave that lands on a source already released (section 5,
after an overlap) between these is left out. The score has whole points and hundredths
of weights for floats rounded to a tenth. It is an operator over the state, as the code
computes it anew for each view; the columns that cache it (`cache_to_report`) are left
out. `late`, `seen` and `released` are history.

**Properties.** `ClosingIsFinal`: of two closings that both found the project open
one gets through, and its date and retrospective stay. `PendingIsLate`: a report, a
draft or a PROPOSED change that is pending in a closed project became so after the
closing had asked about it. That a change needs a *draft* that late follows from
the order of the questions only: a diff that commits after the first question has
its draft met by the third. `ListedRiskStays`: a risk the retrospective names is
still there unless its report became editable too late to be seen, or an autosave
that had found it editable before was under way when the closing asked about the
risks and has committed since.
`SecondInPeriodOverlaps`: a pre-populated report joins another of its period only if
that one was committed after the look-up. `ReleasedIsInherited`: its source is as
late as any report the client had seen, and all that is open there is carried
over. `ScoreInRange`, `WorseRiskNeverHelps` and `ScheduleIsMonotone`: the score
stays in its range with weights that sum up to 1.01 and in all special cases;
another risk no milder than the others does not raise it; a day never raises
the schedule index and progress never lowers it.

## 8. `ProposalUpload`, `DataRequests`, `Notifications`

| code | model |
|------|-------|
| upload_proposal: next version, put, flush, commit | `ReadVersion`, `StoreFile`, `InsertRow`, `CommitRow` |
| a refused put or commit, a dead process | `FailUpload` |
| login: credentials, token; `exp` | `CheckLogin`, `IssueToken`; `ExpireToken` |
| request_data_deletion, create_manual_request | `AskDeletion`, `AskByMail` |
| fulfill_request: the two reads; the commit | `BeginFulfil`; `CommitFulfil`, `EndFulfil` |
| data_export and build_export_zip | `BeginExport`, `ListReports`, `ReadReport`, `ReadRecords`, `CommitExport`, `EndExport` |
| the report of the client's project | `EditReport`, `ApproveReport`, `ReleaseReport`, `ReturnReport` |
| notify_*: rows with their events, the commit | `BeginNotice`, `CreateInapp`, `CommitNotice`, `FailNotice` |
| emit_to_user with its queue; events of the stubs | `Emit` with `Pushed`; `EmitOther` |
| subscribe and useSSE | `Listen`, `Hear`, `Hang` |
| the bell: count, reply, error | `AnswerCount`, `ShowCount`, `LoseCount` |
| markRead: the POST sent, its commit, its reply, an error | `ClickRead`, `MarkRead`, `Marked`, `LoseMarked` |
| another page, by the link "abrir" or otherwise; a POST whose page has gone | `Remount`; `MarkReadLate`, `LosePost` |

`InsertRow` waits, as PostgreSQL does, for a transaction that has inserted the
same version, and fails once that has committed. An event on the wire counts as
queued. A notification that is lost without one behind it puts the recipient into
`excused`, and the next count that has nothing in front of it takes it out again.
A POST /read that is not committed when its page is left goes on (`posts`, stage
"left"); if it commits, the bell of the new page may have counted before it, and
nobody asks again.

*Abstractions.* The users of `DataRequests` are clients with one report each; a
report is a status and a version of its contents. Of an export the model keeps the
report and the records. E-mails, texts and the choice of recipients are left out;
so is the list under the bell, which is asked for as the count is. One page per
recipient. `met`, `before`, `disturbed`, `shown`, `late` and `excused` are history.

**Properties.** `ImplementsLog`: the committed proposals are the log of `ProposalLog`, in
which each upload that succeeds is the next version, with its own file, and no entry
changes; so versions have no gaps and no duplicates (`VersionsInOrder`, proved on its
own). `StoredFileIsSent`: the object of a proposal is its own file, or, if
requests overlapped, at worst that of a rival which was refused (a `put` is whole or
not at all here: a local write that breaks off is left out). `UploadsEnd`: the
wait of one INSERT for another blocks nobody for ever. `DeletionIsDone`: fulfilled
deletions and anonymised users correspond. `ZipIsSound`: a ZIP holds released
contents only, unless the report was sent back between two reads, all records
there were when it was asked for, and nobody else's. `LockedOut`: an anonymised
user has no token, no login under way and no export in the end.
`BadgeIsRight`: a badge that waits for nothing shows the number of unread rows,
except after one of the losses its comment lists: overlapping handlers,
rollbacks, overlapping clicks, a page left after the commit of its POST and
notifications that push each other out of the queue do no harm.

## 9. What the runs check

| run | instance | result |
|-----|----------|--------|
| `jobs_worker` | 2 runs, 2 workers, 2 attempts, 2 interruptions, no stub, symmetry; 289,909 states | `TypeOK`, `SingleCustody`, `ReportsAgree`, `JobConservation`, `ImplementsLifecycle` hold |
| `jobs_stub` | 2 runs, 1 worker, 1 attempt, 2 interruptions, stub on, no symmetry; 95,843 states | `ExtractedRunIsClosed` and, under `FairSpec`, `EventuallySettled` hold |
| `scope_decisions` | 3 versions, 1 code, 2 deciders, 1 edit, symmetry; 238,568 states | the four invariants of section 4, `TypeOK` and the refinement `ImplementsControl` hold |
| `report_review` | 1 dimension, 2 drafts, 3 PATCHes, 2 submissions, 2 reviewers, symmetry; 2,264,352 states | the four invariants of section 5, `TypeOK` and the refinement `ImplementsReview` hold |
| `agent_failover` | 2 engines, 2 runs of one worker; 481,735 states | `TypeOK`, `ResultAgrees`, `PolicyFollowed` and, under `FairSpec`, `RunEnds` hold |
| `project_life` | closing: 2 versions, 1 decider, 2 closers, 1 report with 2 risk rows; chain: 2 prefills, 1 topic, 2 periods, 3 reports; score: 3 deliverables, 5 reports, 5 days; symmetry; 1,513,707 states | the eight properties of section 7 and `ProjectTypeOK` hold |
| `portal_services` | 3 uploads; 1 user, 2 PMOs, 2 records; 1 bell, 2 notices, a queue of 2, 2 POSTs under way; no symmetry; 593,901 states | the seven properties of section 8 and `PortalTypeOK` hold, `UploadsEnd` and `LockedOut` under `UploadFairness` and `DataFairness` |
| `jobs_unseen` | 1 run, 1 worker | `RecordExistsWhenPulled` is violated |
| `jobs_overwritten` | 1 run, 1 worker, stub on | `TerminalIsFinal` is violated |
| `scope_two_active` | 3 versions, 2 deciders | `OneActive` is violated |
| `scope_stuck` | 2 versions, 1 decider | `DraftIsDecidable` is violated |
| `report_stale_save` | 1 dimension, 2 drafts, 3 PATCHes, 1 submission, 1 reviewer | `SubmittedIsLatest` is violated |

**Bounds.** Two runs and two workers give every pair of jobs and of holders; two
attempts give a retry, a stale request beside a fresh one and an exhausted
retry (the code has three; the proofs hold for any number). `MaxInterruptions` counts stops,
deaths and crashes: two allow a death after a stop or a crash between two
deaths, and make the liveness run restart a worker that was told to stop.
Three versions are the fewest in which two drafts race to replace an active
baseline. One code with one content gives a diff with ADDED and REMOVED rows;
MODIFIED rows occur in `scope_stuck` and `scope_two_active`, whose `Contents` has
two values, and in the proofs, which are for every `Contents`. One edit at a time
is in flight, as the front end sends them.
For a report, three PATCHes are an autosave that is late, the save of the
submission, and one that lands while the report is under review; two submissions
are a report that is returned and submitted again; two reviewers are two
decisions in one stage, or a reading confirmed beside a rejection. The drafts
are a green dimension and a red one with its justification; the empty draft that
the page itself sends after seeding the progresses makes a row that a
submission must refuse.
Two runs of a worker are a second one whose command waits in a session behind
that of the first. Deadlock is not checked: when
everything is uploaded and settled the system has nothing to do.

In `project_life`, two closers are two requests that both find the project open; one
report may be pending or listed, and two autosaves are the one whose risk is listed
and the one that replaces it, checked before the release of the report and committed
after the closing has asked about the risks. Three reports are two sources of different age and
the copy; two prefills of one period overlap. Five reports and three contents
reach each case of the stability, the due dates 0, 2 and 3 and days from -1 to 3
each case of the schedule index (a project that starts tomorrow, a deliverable
that is ignored, one overdue). The one other weighting is 1.01, the largest sum
the schema lets through.
In `portal_services`, three uploads are a winner, a rival for its version and the
one after it; a queue of two is the smallest that can hold an event while another is
pushed out (the code has 100; the proof is for any size); two notices and two
events of other kinds fill it beyond its size; two POSTs are one that its page has
left beside one whose page waits.

**Fairness of `AgentJobs`** (`FairSpec`, for `EventuallySettled`). The upload's next
step and the stub are coroutines of a running event loop; BRPOP returns a job when there
is one; `post_signed` has a read timeout, so an attempt ends in a retry or is given up;
a worker that is down is started again, which is what the runbook asks of the operator
(`docs/runbooks/operacao-piloto.md`, section 7: "Re-subir o worker resolve a maioria dos
casos. Jobs ficam na fila até serem processados"). Nothing is assumed of requests
arriving, of handlers committing or of uploads starting. That `AgentRunner.run` ends is
not assumed either, since the code does not see to it: it is the hypothesis of
`EventuallySettled`, `[]<>(wpc[w] # "running")`.

**Fairness of `AgentRunner`** (`FairSpec`, for `RunEnds`). The runner is a
coroutine whose waits all have a deadline (`timeout_hard_s`), so one of its
actions is taken while one is enabled: `WF_vars(Runner)`, and no more. The one wait
without a deadline is the `gather` of the two pipes (`_subprocess.py:147`); it ends
when the last process that holds them does, which no code sees to. So `RunEnds` has a
hypothesis of its own, `[]<>~HeldUp`: the runner is not held up there for ever (finding
6). Nothing is assumed of agents, of what they leave behind, of sessions or of the
operator.

**Fairness of `ProposalUpload` and `DataRequests`.** `UploadFairness`: a handler
that has started goes on, as put is a synchronous call that returns or raises and
PostgreSQL wakes an INSERT that waited. `DataFairness`: a checked login is
answered, tokens expire (`security.py:29-38` sets `exp`, `decode_token` refuses it
later), and the handler of an export reads on and ends: weak fairness of `EndExport`
says no more than that, since `CommitExport` disables it. Nothing is assumed of
requests arriving.

## 10. What the runs find

1. **A job precedes its record** (`jobs_unseen`). `publisher.py:144-145` says the
   flush before the RPUSH makes sure that the record exists if the worker pulls
   the job at once; a flush is visible to its own transaction only. The callback
   gets a 404, is not retried and the result ends on the dead-letter list.
2. **A terminal status is overwritten** (`jobs_overwritten`), against
   `agent_results.py:3-5`: a callback and the stub both read an open row. The
   theorem `TerminalStatusIsFinal` shows that without the stub it cannot happen.
3. **Two active baselines** (`scope_two_active`). The partial unique index of
   migration 0003 compares the status with `'active'`, while the column stores
   the member name `'ACTIVE'` (`docs/dev_notes.md:9`), so it indexes no row;
   two overlapping decisions both promote. `OneActiveWithoutOverlap` shows that
   overlap is the only way.
4. **A draft nobody can decide** (`scope_stuck`). From version 2 on, a draft with
   an empty diff gets 403 from activation and 422 from the transition, and
   close_project refuses while it is there.
5. **An older draft is submitted** (`report_stale_save`). The edit page saves
   before it submits, "garante último estado" (page.tsx:231), but an autosave
   sent before (`use-autosave.ts:50` does not wait for the previous one) may reach
   the server between the two and overwrite it; the submission reads the older
   draft. No two handlers overlap in this.
6. **A killed run may not return** (`agent_failover`). The docstring of
   run_with_heartbeat says that it kills and returns at the hard timeout
   (`_subprocess.py:89`); after the kill it waits for the end of both pipes with no
   deadline (`:146-147`), and a child of the agent may hold them. The run proves the
   return under the hypothesis of `RunEnds` only; without it `FairSpec` has a
   behaviour that stays at `pc = "killed"` after three steps (`TakeRun`,
   `HeadlessStart`, `HeadlessEnds`), and the worker takes no other job.

Seen while reading, without a run: the specification lets a quota failure go to
the broker and a broker without an artifact go to the other engine
(`docs/spec_consolidada_v3.1.md:361-363`), `policy.py` does neither;
`jump_agent_runner/README.md:11` accepts results from the file only, the validator
recovers an object from the relay (`artifact.py:57-76`); `broker_route.py:179`
still passes `--bare`, which `claude_headless.py:85-97` removed because it
ignores the OAuth login; an artifact cut inside a UTF-8 character raises
UnicodeDecodeError out of the validator (`artifact.py:36`).

- *Uploads.* The loser of a race for a version may put its file over the winner's
  after the winner has committed; `file_sha256` is stored and never compared
  (`projects.py:160`). Uploads and reports go on in a closed project.
- *Pre-population.* Two reports in one period, which create_report makes freely, turn
  every later look-up into a 500 (`scalar_one_or_none`). The source may be of a later
  period than the new report (`prepopulate.py:111-125`).
- *Health score.* With a baseline and no progress the index is 0 or 50, where the
  docstring says 100 (`health_score.py:28`); it counts the progress of drafts, where
  the comment says of submitted reports (`:283`). Another *milder* risk raises the
  score, since the risks are weighted with their own values. The dashboard computes
  the score anew, where `domain.py:362-364` says that it reads the cached one; two
  active baselines (finding 3) make the whole portfolio_overview fail.
- *Data requests.* fulfill_request calls itself idempotent
  (`admin_data_requests.py:135`), but two PMOs who overlap both write `fulfilled_at` and
  `handled_by_id`. An anonymised GP or client stays on their projects.
- *Closing.* A PATCH that found its report editable may commit after the release of
  the report and the closing of the project, and replace a risk that the
  retrospective lists (`reports.py:297` against `:450`).
- *Events.* The link of a notification sends its POST /read and opens another page
  (`notification-bell.tsx:113-117`), whose bell may count before the commit: its badge
  stays one too high until something makes it ask again. The first `yield` of subscribe
  is outside its try (`sse.py:33-34`), so a client lost at the greeting leaves its queue
  registered. useSSE opens a lost stream again only when the bell is opened or closed,
  and that drops what was queued without asking for the count.

## 11. What is proved

`tlapm` checks the eight proof modules to the last leaf, for all values of the
constants under the assumptions that the modules name.

**`AgentJobsProofs`.** `TypeCorrect`, `CustodyIsSingle`, `CallbacksAgree`,
`JobsAreConserved` and `ExtractedRunsAreClosed` hold with or without the stub.
`IInv` is `TypeOK`, `Engaged` (what a busy worker holds), `Staging` (an upload
that has not been pushed has left no trace), `SingleCustody` and `ReportsAgree`.
These are inductive only together: custody needs that a run pushed now is
nowhere yet, and the agreement of callbacks needs custody, since a second
execution could disagree with the first. `JobConservation` and
`ExtractedRunIsClosed` are proved on top, with step lemmas of their own, from
`IInv` and from a closed row staying closed.
`PipelineImplementsLifecycle` maps initial states to initial states and each
action to a step of `AgentRunLifecycle` or a stutter, under `~StubEnabled`:
`CallbackCommit` on a row that has been closed meanwhile is a stutter because
the two results agree. `TerminalStatusIsFinal` follows from the same invariant.

**`ScopeTransitionProofs`.** `PmoDecides` and `BatchesAgree` hold under any overlap.
`IInv` says of each diff task and each request what it may still write (`DiffSound`,
`RequestSound`: the rows of a request belong to its version and are all its changes), of
a transaction that has demoted others that those are still active and no other
transaction's to write (`LocksHold`), and of uploads, drafts and tasks how they relate
(`Structure`). While nothing overlaps, `Alone` adds that at most one request is in
flight and that what it saw is still so, from which `OneActiveWithoutOverlap`,
`LineageIsSound` and `ScopeStaysInForce` follow. `TransitionImplementsControl` is the
refinement, by one lemma per commit.  Its core is `HoldsProposed`: what a request that
is alone read of the changes before its commit is at the commit exactly the set that
waits for the decision, which takes the once-only diff (`DiffSound`) and the agreement
of a batch; and `Alone` again for the baselines it demotes, which are all that are in
force.

**`ReportWorkflowProofs`.** `StagesInOrder` and `ListsAreWhole` hold under any
overlap, the second when there are progresses to report (`tracked`). `IInv` is
`TypeOK`, `Rounds` (decisions, taken or in flight, are of a submission that has
been made), `Stages` (the client's stage is entered after the approval of the PMO,
also by a decision still in flight), `Alone` and three of the
invariants themselves. `Alone` says that, while nothing overlaps, a handler still
finds what it has read, from which `ReviewedIsSound`, `StatusIsExplained` and
`ReviewIsFrozen` follow: without it a commit by primary key could land anywhere.
`WorkflowImplementsReview` is the refinement of `ReportReview`: a submission alone
commits what it has checked (`SubmitImplements`), a decision alone is the one its stage
allows (`DecisionImplements`), and under any overlap the history grows
(`HistoryKept`).

**`AgentRunnerProofs`.** `IInv` is `World` (types of what is not part of the
attempts) and `Core`: the two properties and `Stage`, which says of the attempts
at each stage of a run that the provider at work has tried nothing yet (`Fresh`),
headless only (`Half`), or is having its last one validated (`Validated`), and
how many there can be. `PolicyFollowed` is inductive only with it: what may be
appended depends on the last attempt and on the provider. `ProviderStep` and
`HeadlessStep` are the two ways an attempt can fail; each action is an instance.

**`ProjectCloseProofs`.** `ImplementsScope`: `CloseSpec` implements `Spec` of
`ScopeTransition` under the identity map (its variables change in `ScopeStep` only), so
that the theorems of `ScopeTransitionProofs` hold beside closings. `CloseIInv` adds to
the types that a closed project has the retrospective of the request that closed it
(`ClosedWithRetro`), that a handler has in `late` all that is pending about which it has
asked (`NothingMissed`), that every autosave between its check and its commit was under
way when the handler asked about the risks or is of a report that became pending later
(`PatchesKnown`), and that the risks of a handler about to commit are there or excused
in one of these two ways (`RisksChecked`, `RisksKept`). The commit turns these into
`PendingIsLate` and `ListedRiskStays`; a PROPOSED change has an undecided draft by the
invariant of `ScopeTransitionProofs`. `ClosedIsFinal` needs `ClosedWithRetro`, so that
the unique constraint refuses a second retrospective.

The chain of reports is proved in the same module. Its invariant is `ChainIInv`: all
reports of the period a request has looked up came after the look-up, and the source
it has chosen is as late as every report it knows as released (`PrefillSound`). It
is inductive because reports are only appended and keep their periods
(`Lengthened`), whichever of them is edited, submitted, released or sent back
meanwhile (`PrefillKept`). `SecondInPeriodMustOverlap` and `OpenItemsAreInherited`
then look at one step only, the commit, the only one that creates a pre-populated
report (`Created`) and that copies what is open in the source (`CopyCommitted`).

`ProjectImplementsControl` joins two refinements: a project that is reported on and
closed still implements `ScopeControl`.  `ProjectTypesHold` puts the types of the three
parts of `MCProject` together.

**`HealthScoreProofs`.** The score is made of the library's sums, which are folds over
sets.  The library's induction theorems take a predicate, which no prover here can
instantiate; `WFMin` takes a set.  From it `NatSetInduction` and `SubsetInduction` say
that a *set* closed under a step holds every number, or every subset of a finite set,
and from these a sum unfolds (`SumRemove`; the recursive function behind it exists,
`UnfoldingExists`, and is the only one, `UnfoldingsAgree`), is a number (`SumInt`,
`SumNat`) and is monotone (`SumMonotone`). The rest is arithmetic, for any
deliverables, reports and risks:
- `ScoreStaysInRange`: each component is a constant, a clamped quotient or a mean of
  bounded terms; normalised weights stay natural numbers (`NormalizedType`), so the
  weighted sum is a number and its clamp in range, whatever the weights sum up to;
- `ScheduleComparesOnly`: a day lets the planned sum grow (`PlanGrows`), a save the real
  one (`ProgressGrows`), and the quotient follows them across its special cases
  (`QuotientMonotone`), which is where an index of 0, 50 or 100 by decree could go the
  wrong way;
- `WorseRisksNeverHelp`: a mean in which each risk weighs its own value grows with a
  further risk at least as bad as the others (`GraverMean`, `SquaresBounded`), through
  the rounding down of the model.
None of them needs an invariant beyond the types.

**`PortalProofs`.** For `ProposalUpload`, `UploadIInv`: a row is that of a request that is done
(`RowsAreDone`), the version of a request has all its predecessors (`Numbered`), an
inserted row has no rival (`RowsDiffer`), what is under a key is of a request with
that version (`StoreSound`), and two requests with one version have met or follow
each other (`Meetings`). `VersionsInOrder` is inductive only with `Numbered`, since a
number is used after others have committed. `UploadsImplementLog` is the refinement: the
commit of a row is the addition of an entry, every other step a stutter, since the
versions taken are then exactly those before the new one (`TakenBefore`).

For `DataRequests`, `DataIInv`: a released report has been shown
(`ReleasedIsShown`), an undisturbed export that has listed a report finds it
released, and what an export has read of the records stays true because records are
only appended (`ExportSound`). `DeletionIsDone` needs the types and that a PMO
fulfils a record there is, as the code writes both rows in one commit.
`PortalTypesHold` puts the types of the three services together for `MCSpec`, in which a
part that has not been chosen keeps its initial state.

**`NotificationsProofs`.** For each recipient who is not excused, `Heralded` says that
an event whose row is still to come leaves the page waiting (a notification in the queue
or a request under way), and `Informed` that a page which does not wait, and has no
committed POST whose reply is to come (`Answered`), has, in its youngest reply or on its
badge, the right count; `Ordered` says that the replies before a late one are late. A
settled badge is the last case of `Informed`. The proof is for any size of the queue and
any number of people and notices.

**Only model-checked.** `EventuallySettled`, `RunEnds`, `UploadsEnd` and `LockedOut`:
liveness under fairness, and ENABLED, are out of the prover's reach.  Every other
property of a passing run is also a theorem, for every value of the constants.  The
violations are behaviours that TLC exhibits.

**Assumptions.** Beyond the kinds of the constants (finite sets where a sum runs over
them, numbers where there is arithmetic, model values that differ from what they stand
beside), the theorems assume what the code enforces: weights between 0 and 1
(`portfolio.py:41-45`), percentages of progress between 0 and 100, no more resolved
items than items.  That a weighting sums up to 1 is not assumed.

## 12. Not modelled

- The signature and the clock window of the worker (`app/core/worker_auth.py`): a
  refused request is one of the reasons of `GiveUp` in `AgentJobs`; whether an HMAC
  can be forged is not a question for TLC. The heartbeat inserts or updates one row
  that no handler reads.
- The report analyser (`report_analyzer_stub.py`): an in-memory task that adds
  insights, read by no handler that changes state. Its event is in `Notifications`.
- In the modelled parts: the cached columns of the health score and the first
  creation of the configuration; the progresses of a pre-populated report and the
  promotion of deliverables; the export of a GP's projects, which has no filter by
  status; registration and roles; e-mails, texts, and the list under the bell.
- Operator console, file download and the pages of the front end other than the
  report wizard and the bell: single reads.
- Offline scripts (`scripts/`), migrations other than the index of 0003, and
  generated code.

Hazards without a property are listed with the reason in `PROJECT.json`.
