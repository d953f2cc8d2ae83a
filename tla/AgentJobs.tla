----------------------------- MODULE AgentJobs -----------------------------
(***************************************************************************)
(* The agent job pipeline: upload_proposal and enqueue_agent_job in the    *)
(* API process, the Redis list jobs.agent, the AgentWorker processes that  *)
(* pull from it, and the callback handler report_agent_result that closes  *)
(* the run, with the in-process stub that may close it too.                *)
(*                                                                         *)
(* Every request of upload_proposal makes a proposal and a fresh run_id    *)
(* (make_run_id), so one element of Runs stands for the upload, for its    *)
(* proposal and for its run.  A handler is split where it waits for the    *)
(* database or for Redis; PostgreSQL runs READ COMMITTED with no row lock  *)
(* and the ORM writes by primary key, so a write needs no agreement with   *)
(* what was read.  Redis is taken to be reliable (it is external), the     *)
(* API process, the workers and the network between them are not.          *)
(***************************************************************************)
EXTENDS Naturals, Sequences

CONSTANTS
  Runs,              \* the uploads, with their proposals and their run_ids
  NoRun,             \* what a worker without a job holds
  Workers,           \* the worker processes
  MaxAttempts,       \* stop_after_attempt(...) of post_signed
  StubEnabled,       \* STUB_WORKER_ENABLED
  MaxInterruptions   \* bound: stops, deaths and crashes in a behaviour

ASSUME NoRunAssumption == NoRun \notin Runs
ASSUME AttemptsAssumption == MaxAttempts \in Nat \ {0}
ASSUME StubAssumption == StubEnabled \in BOOLEAN
ASSUME InterruptionsAssumption == MaxInterruptions \in Nat

VARIABLES
  upload,         \* upload[r]: how far the request that enqueues r has come
  log,            \* log[r]: status of the committed AgentRunLog row of r
  proposal,       \* proposal[r]: status of the committed Proposal row of r
  queue,          \* the Redis list jobs.agent
  dead,           \* the runs on the Redis list jobs.agent.dead
  wpc,            \* wpc[w]: where the loop of worker w is
  wrun,           \* wrun[w]: the run of the job w holds
  wresult,        \* wresult[w]: the result that w is reporting
  tries,          \* tries[w]: attempts of post_signed made for that result
  stopping,       \* stopping[w]: the _stop event of w
  requests,       \* callback requests the API has not answered
  stub,           \* stub[r]: the in-memory task of schedule_extraction
  interruptions,  \* how many of the MaxInterruptions have happened
  execution,      \* history: what the execution of r decided
  lost            \* history: runs whose worker died holding the job

workerVars == <<wpc, wrun, wresult, tries, stopping>>
dbVars == <<log, proposal>>
history == <<execution, lost>>
vars == <<upload, dbVars, queue, dead, workerVars, requests, stub,
          interruptions, history>>

Outcomes == {"done", "failed"}

\* A callback on its way to the API or in its handler, which has "checked"
\* the row once its SELECT has returned one that is not terminal.
Requests == [worker : Workers, run : Runs, try : 1 .. MaxAttempts,
             result : Outcomes, checked : BOOLEAN]

Busy == {"running", "posting", "awaiting"}

TypeOK ==
  /\ upload \in [Runs -> {"idle", "flushed", "pushed", "committed", "aborted"}]
  /\ log \in [Runs -> {"none", "queued"} \cup Outcomes]
  /\ proposal \in [Runs -> {"none", "pending", "extracted"}]
  /\ queue \in Seq(Runs)
  /\ dead \in SUBSET Runs
  /\ wpc \in [Workers -> Busy \cup {"idle", "down"}]
  /\ wrun \in [Workers -> Runs \cup {NoRun}]
  /\ wresult \in [Workers -> Outcomes \cup {"none"}]
  /\ tries \in [Workers -> 0 .. MaxAttempts]
  /\ stopping \in [Workers -> BOOLEAN]
  /\ requests \in SUBSET Requests
  /\ stub \in [Runs -> {"none", "scheduled", "sawOpen", "sawClosed", "ended"}]
  /\ interruptions \in 0 .. MaxInterruptions
  /\ execution \in [Runs -> Outcomes \cup {"none"}]
  /\ lost \in SUBSET Runs

Init ==
  /\ upload = [r \in Runs |-> "idle"]
  /\ log = [r \in Runs |-> "none"]
  /\ proposal = [r \in Runs |-> "none"]
  /\ queue = <<>>
  /\ dead = {}
  /\ wpc = [w \in Workers |-> "idle"]
  /\ wrun = [w \in Workers |-> NoRun]
  /\ wresult = [w \in Workers |-> "none"]
  /\ tries = [w \in Workers |-> 0]
  /\ stopping = [w \in Workers |-> FALSE]
  /\ requests = {}
  /\ stub = [r \in Runs |-> "none"]
  /\ interruptions = 0
  /\ execution = [r \in Runs |-> "none"]
  /\ lost = {}

-----------------------------------------------------------------------------
(* The publisher: upload_proposal with enqueue_agent_job inside.           *)

\* The handler adds the proposal and the AgentRunLog and flushes both: the
\* rows exist in its transaction only.
Flush(r) ==
  /\ upload[r] = "idle"
  /\ upload' = [upload EXCEPT ![r] = "flushed"]
  /\ UNCHANGED <<dbVars, queue, dead, workerVars, requests, stub,
                 interruptions, history>>

\* Mutant of Push: the RPUSH is retried although the first one took effect.
PushTwice(r) ==
  /\ upload[r] = "flushed"
  /\ upload' = [upload EXCEPT ![r] = "pushed"]
  /\ queue' = Append(Append(queue, r), r)
  /\ UNCHANGED <<dbVars, dead, workerVars, requests, stub, interruptions,
                 history>>

\* RPUSH: workers can pull the job from here on.
Push(r) ==
  /\ upload[r] = "flushed"
  /\ upload' = [upload EXCEPT ![r] = "pushed"]
  /\ queue' = Append(queue, r)
  /\ UNCHANGED <<dbVars, dead, workerVars, requests, stub, interruptions,
                 history>>

\* The commit makes both rows visible and the handler schedules the stub.
Commit(r) ==
  /\ upload[r] = "pushed"
  /\ upload' = [upload EXCEPT ![r] = "committed"]
  /\ log' = [log EXCEPT ![r] = "queued"]
  /\ proposal' = [proposal EXCEPT ![r] = "pending"]
  /\ stub' = [stub EXCEPT ![r] = IF StubEnabled THEN "scheduled" ELSE @]
  /\ UNCHANGED <<queue, dead, workerVars, requests, interruptions, history>>

\* Redis or the database raises in the handler: the session is closed without
\* a commit, and what was pushed stays pushed.
Abort(r) ==
  /\ upload[r] \in {"flushed", "pushed"}
  /\ upload' = [upload EXCEPT ![r] = "aborted"]
  /\ UNCHANGED <<dbVars, queue, dead, workerVars, requests, stub,
                 interruptions, history>>

-----------------------------------------------------------------------------
(* The worker loop.                                                        *)

\* A worker done with its job returns to the top of its loop, where it looks
\* at the _stop event.
Release(w) ==
  /\ wpc' = [wpc EXCEPT ![w] = IF stopping[w] THEN "down" ELSE "idle"]
  /\ wrun' = [wrun EXCEPT ![w] = NoRun]
  /\ wresult' = [wresult EXCEPT ![w] = "none"]
  /\ tries' = [tries EXCEPT ![w] = 0]
  /\ UNCHANGED stopping

\* BRPOP takes from the end that RPUSH adds to: the newest job goes first.
\* A worker told to stop while it blocks in BRPOP may still be given a job.
Pop(w) ==
  /\ wpc[w] = "idle"
  /\ queue # <<>>
  /\ wpc' = [wpc EXCEPT ![w] = "running"]
  /\ wrun' = [wrun EXCEPT ![w] = queue[Len(queue)]]
  /\ queue' = SubSeq(queue, 1, Len(queue) - 1)
  /\ UNCHANGED <<upload, dbVars, dead, wresult, tries, stopping, requests,
                 stub, interruptions, history>>

\* AgentRunner.run returns.
Execute(w) ==
  /\ wpc[w] = "running"
  /\ \E o \in Outcomes :
       /\ wresult' = [wresult EXCEPT ![w] = o]
       /\ execution' = [execution EXCEPT ![wrun[w]] = o]
  /\ wpc' = [wpc EXCEPT ![w] = "posting"]
  /\ UNCHANGED <<upload, dbVars, queue, dead, wrun, tries, stopping, requests,
                 stub, interruptions, lost>>

\* One attempt of post_signed: the request leaves the worker.
Post(w) ==
  /\ wpc[w] = "posting"
  /\ wpc' = [wpc EXCEPT ![w] = "awaiting"]
  /\ tries' = [tries EXCEPT ![w] = @ + 1]
  /\ requests' = requests \cup
       {[worker |-> w, run |-> wrun[w], try |-> tries[w] + 1,
         result |-> wresult[w], checked |-> FALSE]}
  /\ UNCHANGED <<upload, dbVars, queue, dead, wrun, wresult, stopping, stub,
                 interruptions, history>>

\* Mutant of Retry: the stop_after_attempt limit is forgotten.
RetryForever(w) ==
  /\ wpc[w] = "awaiting"
  /\ wpc' = [wpc EXCEPT ![w] = "posting"]
  /\ UNCHANGED <<upload, dbVars, queue, dead, wrun, wresult, tries, stopping,
                 requests, stub, interruptions, history>>

\* Mutant of Retry: the retry is around the whole job, not around the POST.
RetryWholeJob(w) ==
  /\ wpc[w] = "awaiting"
  /\ tries[w] < MaxAttempts
  /\ wpc' = [wpc EXCEPT ![w] = "running"]
  /\ UNCHANGED <<upload, dbVars, queue, dead, wrun, wresult, tries, stopping,
                 requests, stub, interruptions, history>>

\* The attempt ends in one of the errors post_signed retries (ConnectError,
\* ReadTimeout, WriteTimeout, RemoteProtocolError, 408, 5xx), whatever has
\* become of the request.
Retry(w) ==
  /\ wpc[w] = "awaiting"
  /\ tries[w] < MaxAttempts
  /\ wpc' = [wpc EXCEPT ![w] = "posting"]
  /\ UNCHANGED <<upload, dbVars, queue, dead, wrun, wresult, tries, stopping,
                 requests, stub, interruptions, history>>

\* Mutant of GiveUp: the error is logged and the job is forgotten.
GiveUpSilently(w) ==
  /\ wpc[w] = "awaiting"
  /\ Release(w)
  /\ UNCHANGED <<upload, dbVars, queue, dead, requests, stub, interruptions,
                 history>>

\* The last attempt ends in such an error, or any attempt in one post_signed
\* does not retry (another 4xx, a reset connection, a connect timeout): the
\* job goes to the dead-letter list.
GiveUp(w) ==
  /\ wpc[w] = "awaiting"
  /\ dead' = dead \cup {wrun[w]}
  /\ Release(w)
  /\ UNCHANGED <<upload, dbVars, queue, requests, stub, interruptions, history>>

\* SIGTERM or SIGINT sets the event; nothing is interrupted.
RequestStop(w) ==
  /\ wpc[w] # "down"
  /\ ~stopping[w]
  /\ interruptions < MaxInterruptions
  /\ stopping' = [stopping EXCEPT ![w] = TRUE]
  /\ interruptions' = interruptions + 1
  /\ UNCHANGED <<upload, dbVars, queue, dead, wpc, wrun, wresult, tries,
                 requests, stub, history>>

\* BRPOP times out and the top of the loop sees the event.
Stop(w) ==
  /\ wpc[w] = "idle"
  /\ stopping[w]
  /\ wpc' = [wpc EXCEPT ![w] = "down"]
  /\ UNCHANGED <<upload, dbVars, queue, dead, wrun, wresult, tries, stopping,
                 requests, stub, interruptions, history>>

\* Mutant of Die: a job whose worker dies is pushed back on the queue.
DieAndRequeue(w) ==
  /\ wpc[w] # "down"
  /\ interruptions < MaxInterruptions
  /\ interruptions' = interruptions + 1
  /\ queue' = IF wpc[w] \in Busy THEN Append(queue, wrun[w]) ELSE queue
  /\ wpc' = [wpc EXCEPT ![w] = "down"]
  /\ wrun' = [wrun EXCEPT ![w] = NoRun]
  /\ wresult' = [wresult EXCEPT ![w] = "none"]
  /\ tries' = [tries EXCEPT ![w] = 0]
  /\ UNCHANGED <<upload, dbVars, dead, stopping, requests, stub, history>>

\* The process is killed, or runner.run or the dead-letter RPUSH raises out of
\* run().  BRPOP has removed the job: nothing puts it back.
Die(w) ==
  /\ wpc[w] # "down"
  /\ interruptions < MaxInterruptions
  /\ interruptions' = interruptions + 1
  /\ lost' = IF wpc[w] \in Busy THEN lost \cup {wrun[w]} ELSE lost
  /\ wpc' = [wpc EXCEPT ![w] = "down"]
  /\ wrun' = [wrun EXCEPT ![w] = NoRun]
  /\ wresult' = [wresult EXCEPT ![w] = "none"]
  /\ tries' = [tries EXCEPT ![w] = 0]
  /\ UNCHANGED <<upload, dbVars, queue, dead, stopping, requests, stub,
                 execution>>

\* Mutant of Start: the _stop event survives the restart.
StartStillStopping(w) ==
  /\ wpc[w] = "down"
  /\ wpc' = [wpc EXCEPT ![w] = "idle"]
  /\ UNCHANGED <<upload, dbVars, queue, dead, wrun, wresult, tries, stopping,
                 requests, stub, interruptions, history>>

\* The operator starts the worker again (start-worker.ps1).
Start(w) ==
  /\ wpc[w] = "down"
  /\ wpc' = [wpc EXCEPT ![w] = "idle"]
  /\ stopping' = [stopping EXCEPT ![w] = FALSE]
  /\ UNCHANGED <<upload, dbVars, queue, dead, wrun, wresult, tries, requests,
                 stub, interruptions, history>>

-----------------------------------------------------------------------------
(* The callback handler report_agent_result, one instance per request.     *)

\* Only the attempt the worker is waiting on can bring it an answer.
Awaited(q) ==
  /\ wpc[q.worker] = "awaiting"
  /\ wrun[q.worker] = q.run
  /\ tries[q.worker] = q.try

Answer(q) ==
  IF Awaited(q) THEN Release(q.worker) ELSE UNCHANGED workerVars

\* Mutant of CallbackNotFound: the worker takes a 404 for an answer.
NotFoundIsAnAnswer(q) ==
  /\ ~q.checked
  /\ log[q.run] = "none"
  /\ requests' = requests \ {q}
  /\ Answer(q)
  /\ UNCHANGED <<upload, dbVars, queue, dead, stub, interruptions, history>>

\* No row: 404, which post_signed does not retry; the worker gives the job up.
CallbackNotFound(q) ==
  /\ ~q.checked
  /\ log[q.run] = "none"
  /\ requests' = requests \ {q}
  /\ dead' = IF Awaited(q) THEN dead \cup {q.run} ELSE dead
  /\ Answer(q)
  /\ UNCHANGED <<upload, dbVars, queue, stub, interruptions, history>>

\* A terminal row: the replay is acknowledged and ignored.
CallbackReplay(q) ==
  /\ ~q.checked
  /\ log[q.run] \in Outcomes
  /\ requests' = requests \ {q}
  /\ Answer(q)
  /\ UNCHANGED <<upload, dbVars, queue, dead, stub, interruptions, history>>

\* A row that is not terminal: the handler goes on to write it.
CallbackCheck(q) ==
  /\ ~q.checked
  /\ log[q.run] = "queued"
  /\ requests' = (requests \ {q}) \cup {[q EXCEPT !.checked = TRUE]}
  /\ UNCHANGED <<upload, dbVars, queue, dead, workerVars, stub, interruptions,
                 history>>

\* The UPDATE is by run_id: it does not look at the status again.
CallbackCommit(q) ==
  /\ q.checked
  /\ log' = [log EXCEPT ![q.run] = q.result]
  /\ requests' = requests \ {q}
  /\ Answer(q)
  /\ UNCHANGED <<upload, proposal, queue, dead, stub, interruptions, history>>

\* The request never arrives, or its handler fails before the commit.
Drop(q) ==
  /\ requests' = requests \ {q}
  /\ UNCHANGED <<upload, dbVars, queue, dead, workerVars, stub, interruptions,
                 history>>

-----------------------------------------------------------------------------
(* The stub of schedule_extraction, an asyncio task of the API process.    *)

\* The task wakes up and reads the proposal and the run.
StubRead(r) ==
  /\ stub[r] = "scheduled"
  /\ proposal[r] = "pending"
  /\ stub' = [stub EXCEPT ![r] = IF log[r] \in Outcomes THEN "sawClosed"
                                                        ELSE "sawOpen"]
  /\ UNCHANGED <<upload, dbVars, queue, dead, workerVars, requests,
                 interruptions, history>>

\* Mutant of StubCommit: the proposal and the baseline only.
StubCommitsProposalOnly(r) ==
  /\ stub[r] \in {"sawOpen", "sawClosed"}
  /\ stub' = [stub EXCEPT ![r] = "ended"]
  /\ proposal' = [proposal EXCEPT ![r] = "extracted"]
  /\ UNCHANGED <<upload, log, queue, dead, workerVars, requests,
                 interruptions, history>>

\* One commit for the baseline, the proposal and, if it read an open run, the
\* run as well.
StubCommit(r) ==
  /\ stub[r] \in {"sawOpen", "sawClosed"}
  /\ stub' = [stub EXCEPT ![r] = "ended"]
  /\ proposal' = [proposal EXCEPT ![r] = "extracted"]
  /\ log' = [log EXCEPT ![r] = IF stub[r] = "sawOpen" THEN "done" ELSE @]
  /\ UNCHANGED <<upload, queue, dead, workerVars, requests, interruptions,
                 history>>

\* The API process dies: the transactions in progress roll back, its requests
\* and its in-memory tasks are gone.
ApiCrash ==
  /\ interruptions < MaxInterruptions
  /\ interruptions' = interruptions + 1
  /\ upload' = [r \in Runs |-> IF upload[r] \in {"flushed", "pushed"}
                                 THEN "aborted" ELSE upload[r]]
  /\ requests' = {}
  /\ stub' = [r \in Runs |-> IF stub[r] = "none" THEN "none" ELSE "ended"]
  /\ UNCHANGED <<dbVars, queue, dead, workerVars, history>>

-----------------------------------------------------------------------------
Publisher(r) == Flush(r) \/ Push(r) \/ Commit(r) \/ Abort(r)

Worker(w) ==
  \/ Pop(w) \/ Execute(w) \/ Post(w) \/ Retry(w) \/ GiveUp(w)
  \/ RequestStop(w) \/ Stop(w) \/ Die(w) \/ Start(w)

Callback(q) ==
  \/ CallbackNotFound(q) \/ CallbackReplay(q)
  \/ CallbackCheck(q) \/ CallbackCommit(q) \/ Drop(q)

Stub(r) == StubRead(r) \/ StubCommit(r)

Next ==
  \/ \E r \in Runs : Publisher(r) \/ Stub(r)
  \/ \E w \in Workers : Worker(w)
  \/ \E q \in requests : Callback(q)
  \/ ApiCrash

Spec == Init /\ [][Next]_vars

(* Fairness: the event loop runs what is ready, BRPOP returns a job when   *)
(* there is one, post_signed has a read timeout, and the operator restarts *)
(* a worker that is down (the runbook operacao-piloto.md, section 7).      *)
(* Nothing makes a request arrive, a handler commit, an upload start or    *)
(* runner.run return: its pipes may be held for ever (RunEnds of           *)
(* AgentRunner).                                                           *)
Fairness ==
  /\ \A r \in Runs : WF_vars(Push(r)) /\ WF_vars(Commit(r)) /\ WF_vars(Stub(r))
  /\ \A w \in Workers :
       /\ WF_vars(Pop(w)) /\ WF_vars(Post(w))
       /\ WF_vars(Retry(w) \/ GiveUp(w)) /\ WF_vars(Start(w))

FairSpec == Spec /\ Fairness

-----------------------------------------------------------------------------
(* What custody of a job means.                                            *)

InQueue(r) == \E i \in 1 .. Len(queue) : queue[i] = r
Holds(w, r) == wpc[w] \in Busy /\ wrun[w] = r

\* A job is in one place at a time: once on the queue or with one worker, and
\* before its execution when it is on the queue (BRPOP removes what it returns,
\* and nothing pushes a run twice: publisher.py:104-112, main.py:124-133).
SingleCustody ==
  /\ \A i, j \in 1 .. Len(queue) : queue[i] = queue[j] => i = j
  /\ \A r \in Runs : InQueue(r) =>
       /\ execution[r] = "none"
       /\ \A w \in Workers : ~Holds(w, r)
  /\ \A w1, w2 \in Workers, r \in Runs :
       Holds(w1, r) /\ Holds(w2, r) => w1 = w2

\* What a worker reports, and what every callback on its way carries, is the
\* one execution of the run (main.py:187-196): this is why two handlers that
\* both read an open row still write the same status.
ReportsAgree ==
  /\ \A w \in Workers, r \in Runs : Holds(w, r) =>
       execution[r] = IF wpc[w] = "running" THEN "none" ELSE wresult[w]
  /\ \A q \in requests : execution[q.run] = q.result

\* No committed job disappears quietly: while the run of a job that was pushed
\* is open, the job is on the queue, with a worker, on the dead-letter list,
\* or was lost with the process of the worker that held it.  In particular a
\* graceful stop, a 404, an exhausted retry and an acknowledged callback all
\* account for the job (worker/main.py:106-116 and 193-213).
JobConservation ==
  \A r \in Runs :
    upload[r] \in {"pushed", "committed"} /\ log[r] \notin Outcomes
      => \/ InQueue(r)
         \/ \E w \in Workers : Holds(w, r)
         \/ r \in dead
         \/ r \in lost

\* The stub's proposal and run agree: a proposal it extracted never has an
\* open run, whatever callback runs beside it (worker_stub.py:141-160).
ExtractedRunIsClosed ==
  \A r \in Runs : proposal[r] = "extracted" => log[r] \in Outcomes

\* A terminal status is never overwritten (agent_results.py:3-5 and 54-68).
\* It holds when callbacks are the only writers, because all the callbacks of
\* a run report the same execution, and fails when the stub writes as well.
TerminalIsFinal ==
  [][\A r \in Runs : log[r] \in Outcomes => log'[r] = log[r]]_vars

\* "garantir que o registro existe se o worker imediatamente puxar o job"
\* (publisher.py:144-145): the record of a job a worker holds is visible,
\* unless its upload has failed since.
RecordExistsWhenPulled ==
  \A w \in Workers, r \in Runs :
    Holds(w, r) => log[r] # "none" \/ upload[r] = "aborted"

\* The pipeline implements the promise of AgentRunLifecycle: one execution
\* per run at most and one closing at most, with that execution's outcome,
\* in spite of lost answers, retries and handlers that check and then write.
Lifecycle == INSTANCE AgentRunLifecycle WITH status <- log
ImplementsLifecycle == Lifecycle!Spec

\* Every open run is settled: closed, dead-lettered, or lost with a worker, if no
\* worker stays in runner.run for ever.
EventuallySettled ==
  (\A w \in Workers : []<>(wpc[w] # "running")) =>
    \A r \in Runs :
      log[r] = "queued" ~> log[r] \in Outcomes \/ r \in dead \/ r \in lost
=============================================================================
