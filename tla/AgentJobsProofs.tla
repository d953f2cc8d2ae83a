-------------------------- MODULE AgentJobsProofs --------------------------
(***************************************************************************)
(* Proofs about AgentJobs, for every set of runs and workers and every     *)
(* bound.  SingleCustody and ReportsAgree are not inductive as they stand: *)
(* Staging ties the places a job can be in to how far its upload has come, *)
(* and Engaged says what a worker holds.                                   *)
(***************************************************************************)
EXTENDS AgentJobs, TLAPS

Before == {"idle", "flushed"}

\* A run whose job has not been pushed has left no trace anywhere.
Staging ==
  /\ \A r \in Runs : log[r] = "none" <=> upload[r] # "committed"
  /\ \A r \in Runs : stub[r] # "none" => upload[r] = "committed"
  /\ \A r \in Runs : upload[r] \in Before =>
       /\ execution[r] = "none"
       /\ ~InQueue(r)
       /\ \A w \in Workers : ~Holds(w, r)

\* A busy worker holds a run, reports an outcome and has attempts left to make.
Engaged ==
  /\ \A w \in Workers : wpc[w] \in Busy => wrun[w] \in Runs
  /\ \A w \in Workers : wpc[w] \in {"posting", "awaiting"} => wresult[w] \in Outcomes
  /\ \A w \in Workers : wpc[w] = "posting" => tries[w] < MaxAttempts
  /\ \A w \in Workers : wpc[w] \notin Busy => tries[w] = 0
  /\ \A w \in Workers : wpc[w] = "running" => tries[w] = 0
  /\ \A q \in requests : q.checked => log[q.run] # "none"

IInv == TypeOK /\ Engaged /\ Staging /\ SingleCustody /\ ReportsAgree

USE NoRunAssumption, AttemptsAssumption, StubAssumption, InterruptionsAssumption

LEMMA InitIInv == Init => IInv
<1> SUFFICES ASSUME Init PROVE IInv
  OBVIOUS
<1>1. TypeOK
  BY DEF Init, TypeOK, Outcomes, Busy
<1>2. Engaged
  BY DEF Init, Engaged, Busy, Outcomes
<1>3. Staging
  BY DEF Init, Staging, InQueue, Holds, Busy, Before
<1>4. SingleCustody /\ ReportsAgree
  BY DEF Init, SingleCustody, ReportsAgree, InQueue, Holds, Busy
<1> QED
  BY <1>1, <1>2, <1>3, <1>4 DEF IInv

\* Going back to the top of the loop keeps the types of the worker's variables.
LEMMA ReleaseType ==
  ASSUME TypeOK, NEW w \in Workers, Release(w)
  PROVE  /\ wpc' \in [Workers -> Busy \cup {"idle", "down"}]
         /\ wrun' \in [Workers -> Runs \cup {NoRun}]
         /\ wresult' \in [Workers -> Outcomes \cup {"none"}]
         /\ tries' \in [Workers -> 0 .. MaxAttempts]
         /\ stopping' \in [Workers -> BOOLEAN]
  BY DEF TypeOK, Release

\* The types are kept by every step.
LEMMA TypeStep ==
  ASSUME TypeOK, Engaged, [Next]_vars
  PROVE  TypeOK'
<1> USE DEF TypeOK, Outcomes, Busy, workerVars, dbVars, history
<1>1. ASSUME NEW r \in Runs, Publisher(r)
      PROVE  TypeOK'
  <2>1. CASE Flush(r)
    BY <2>1 DEF Flush
  <2>2. CASE Push(r)
    BY <2>2 DEF Push
  <2>3. CASE Commit(r)
    BY <2>3 DEF Commit
  <2>4. CASE Abort(r)
    BY <2>4 DEF Abort
  <2> QED
    BY <1>1, <2>1, <2>2, <2>3, <2>4 DEF Publisher
<1>2. ASSUME NEW r \in Runs, Stub(r)
      PROVE  TypeOK'
  <2>1. CASE StubRead(r)
    BY <2>1 DEF StubRead
  <2>2. CASE StubCommit(r)
    BY <2>2 DEF StubCommit
  <2> QED
    BY <1>2, <2>1, <2>2 DEF Stub
<1>3. ASSUME NEW w \in Workers, Worker(w)
      PROVE  TypeOK'
  <2>1. CASE Pop(w)
    BY <2>1 DEF Pop
  <2>2. CASE Execute(w)
    <3>1. PICK o \in Outcomes : /\ wresult' = [wresult EXCEPT ![w] = o]
                                /\ execution' = [execution EXCEPT ![wrun[w]] = o]
      BY <2>2 DEF Execute
    <3>2. /\ wresult' \in [Workers -> Outcomes \cup {"none"}]
          /\ execution' \in [Runs -> Outcomes \cup {"none"}]
      BY <3>1
    <3> QED
      BY <2>2, <3>2 DEF Execute
  <2>3. CASE Post(w)
    <3>1. /\ wrun[w] \in Runs
          /\ wresult[w] \in Outcomes
          /\ tries[w] + 1 \in 1 .. MaxAttempts
      BY <2>3 DEF Post, Engaged
    <3>2. [worker |-> w, run |-> wrun[w], try |-> tries[w] + 1,
           result |-> wresult[w], checked |-> FALSE] \in Requests
      BY <3>1 DEF Requests
    <3>3. requests' \in SUBSET Requests
      BY <2>3, <3>2 DEF Post
    <3>4. /\ wpc' = [wpc EXCEPT ![w] = "awaiting"]
          /\ tries' = [tries EXCEPT ![w] = @ + 1]
          /\ UNCHANGED <<upload, dbVars, queue, dead, wrun, wresult, stopping,
                         stub, interruptions, history>>
      BY <2>3 DEF Post
    <3> QED
      BY <3>1, <3>3, <3>4
  <2>4. CASE Retry(w) \/ Stop(w) \/ Start(w)
    <3>1. CASE Retry(w)
      BY <3>1 DEF Retry
    <3>2. CASE Stop(w)
      BY <3>2 DEF Stop
    <3>3. CASE Start(w)
      BY <3>3 DEF Start
    <3> QED
      BY <2>4, <3>1, <3>2, <3>3
  <2>5. CASE GiveUp(w)
    BY <2>5, ReleaseType DEF GiveUp, Engaged
  <2>6. CASE RequestStop(w)
    BY <2>6 DEF RequestStop
  <2>7. CASE Die(w)
    BY <2>7 DEF Die, Engaged
  <2> QED
    BY <1>3, <2>1, <2>2, <2>3, <2>4, <2>5, <2>6, <2>7 DEF Worker
<1>4. ASSUME NEW q \in requests, Callback(q)
      PROVE  TypeOK'
  <2>0. q \in Requests
    OBVIOUS
  <2>1. ASSUME Answer(q)
        PROVE  /\ wpc' \in [Workers -> Busy \cup {"idle", "down"}]
               /\ wrun' \in [Workers -> Runs \cup {NoRun}]
               /\ wresult' \in [Workers -> Outcomes \cup {"none"}]
               /\ tries' \in [Workers -> 0 .. MaxAttempts]
               /\ stopping' \in [Workers -> BOOLEAN]
    <3>1. CASE Awaited(q)
      <4>1. q.worker \in Workers /\ Release(q.worker)
        BY <2>0, <2>1, <3>1 DEF Answer, Requests
      <4> QED
        BY <4>1, ReleaseType
    <3>2. CASE ~Awaited(q)
      BY <2>1, <3>2 DEF Answer
    <3> QED
      BY <3>1, <3>2
  <2>2. CASE CallbackNotFound(q)
    <3>1. dead' \in SUBSET Runs
      BY <2>0, <2>2 DEF CallbackNotFound, Requests
    <3>2. /\ Answer(q)
          /\ requests' = requests \ {q}
          /\ UNCHANGED <<upload, dbVars, queue, stub, interruptions, history>>
      BY <2>2 DEF CallbackNotFound
    <3> QED
      BY <2>1, <3>1, <3>2
  <2>3. CASE CallbackReplay(q)
    <3>1. /\ Answer(q)
          /\ requests' = requests \ {q}
          /\ UNCHANGED <<upload, dbVars, queue, dead, stub, interruptions, history>>
      BY <2>3 DEF CallbackReplay
    <3> QED
      BY <2>1, <3>1
  <2>4. CASE CallbackCheck(q)
    <3>1. [q EXCEPT !.checked = TRUE] \in Requests
      BY <2>0 DEF Requests
    <3>2. requests' \in SUBSET Requests
      <4>1. requests' = (requests \ {q}) \cup {[q EXCEPT !.checked = TRUE]}
        BY <2>4 DEF CallbackCheck
      <4>2. requests \subseteq Requests
        OBVIOUS
      <4> HIDE DEF TypeOK
      <4> QED
        BY <3>1, <4>1, <4>2
    <3>3. UNCHANGED <<upload, dbVars, queue, dead, workerVars, stub,
                      interruptions, history>>
      BY <2>4 DEF CallbackCheck
    <3> QED
      BY <3>2, <3>3
  <2>5. CASE CallbackCommit(q)
    BY <2>0, <2>1, <2>5 DEF CallbackCommit, Requests
  <2>6. CASE Drop(q)
    BY <2>6 DEF Drop
  <2> QED
    BY <1>4, <2>2, <2>3, <2>4, <2>5, <2>6 DEF Callback
<1>5. CASE ApiCrash
  BY <1>5 DEF ApiCrash
<1>6. CASE UNCHANGED vars
  BY <1>6 DEF vars
<1> QED
  BY <1>1, <1>2, <1>3, <1>4, <1>5, <1>6 DEF Next

-----------------------------------------------------------------------------
(* What a step does to one worker.                                         *)

Kept(v) ==
  /\ wpc'[v] = wpc[v]
  /\ wrun'[v] = wrun[v]
  /\ wresult'[v] = wresult[v]
  /\ tries'[v] = tries[v]

Freed(v) == wpc'[v] \notin Busy /\ tries'[v] = 0

LEMMA ReleaseEffect ==
  ASSUME TypeOK, NEW w \in Workers, Release(w), NEW v \in Workers
  PROVE  IF v = w THEN Freed(v) ELSE Kept(v)
BY DEF TypeOK, Release, Freed, Kept, Busy

LEMMA AnswerEffect ==
  ASSUME TypeOK, NEW q \in requests, Answer(q), NEW v \in Workers
  PROVE  Kept(v) \/ (Freed(v) /\ wpc[v] = "awaiting" /\ wrun[v] = q.run)
<1>1. q.worker \in Workers
  BY DEF TypeOK, Requests
<1>2. CASE Awaited(q)
  <2>1. Release(q.worker)
    BY <1>2 DEF Answer
  <2>2. wpc[q.worker] = "awaiting" /\ wrun[q.worker] = q.run
    BY <1>2 DEF Awaited
  <2> QED
    BY <1>1, <2>1, <2>2, ReleaseEffect
<1>3. CASE ~Awaited(q)
  BY <1>3 DEF Answer, workerVars, Kept
<1> QED
  BY <1>2, <1>3

LEMMA CallbackEffect ==
  ASSUME TypeOK, NEW q \in requests, Callback(q), NEW v \in Workers
  PROVE  Kept(v) \/ (Freed(v) /\ wpc[v] = "awaiting" /\ wrun[v] = q.run)
<1>1. Answer(q) \/ UNCHANGED workerVars
  BY DEF Callback, CallbackNotFound, CallbackReplay, CallbackCheck,
         CallbackCommit, Drop
<1>2. CASE Answer(q)
  BY <1>2, AnswerEffect
<1>3. CASE UNCHANGED workerVars
  BY <1>3 DEF workerVars, Kept
<1> QED
  BY <1>1, <1>2, <1>3

\* In any step, a worker stays as it is, is freed, or takes one of the steps of
\* its loop that leave it with a job.
LEMMA WorkerEffect ==
  ASSUME TypeOK, Engaged, [Next]_vars, NEW v \in Workers
  PROVE  Kept(v) \/ Freed(v) \/ Pop(v) \/ Execute(v) \/ Post(v) \/ Retry(v)
<1>1. ASSUME NEW r \in Runs, Publisher(r) \/ Stub(r)
      PROVE  Kept(v)
  BY <1>1 DEF Publisher, Flush, Push, Commit, Abort, Stub, StubRead,
              StubCommit, workerVars, Kept
<1>2. ASSUME NEW w \in Workers, Worker(w)
      PROVE  Kept(v) \/ Freed(v) \/ Pop(v) \/ Execute(v) \/ Post(v) \/ Retry(v)
  <2>1. CASE v = w
    <3>1. CASE GiveUp(w)
      BY <2>1, <3>1, ReleaseEffect DEF GiveUp
    <3>2. CASE RequestStop(w)
      BY <2>1, <3>2 DEF RequestStop, Kept
    <3>3. CASE Stop(w) \/ Start(w)
      <4>1. wpc[w] \notin Busy
        BY <3>3 DEF Stop, Start, Busy
      <4>2. tries'[w] = 0
        BY <3>3, <4>1 DEF Stop, Start, Engaged
      <4>3. wpc'[w] \notin Busy
        BY <3>3 DEF Stop, Start, Busy, TypeOK
      <4> QED
        BY <2>1, <4>2, <4>3 DEF Freed
    <3>4. CASE Die(w)
      BY <2>1, <3>4 DEF Die, Freed, Busy, TypeOK
    <3> QED
      BY <1>2, <2>1, <3>1, <3>2, <3>3, <3>4 DEF Worker
  <2>2. CASE v # w
    <3>1. CASE GiveUp(w)
      BY <2>2, <3>1, ReleaseEffect DEF GiveUp
    <3>2. CASE ~GiveUp(w)
      BY <1>2, <2>2, <3>2 DEF Worker, Pop, Execute, Post, Retry, RequestStop,
           Stop, Die, Start, Kept, TypeOK
    <3> QED
      BY <3>1, <3>2
  <2> QED
    BY <2>1, <2>2
<1>3. ASSUME NEW q \in requests, Callback(q)
      PROVE  Kept(v) \/ Freed(v)
  BY <1>3, CallbackEffect
<1>4. CASE ApiCrash \/ UNCHANGED vars
  BY <1>4 DEF ApiCrash, vars, workerVars, Kept
<1> QED
  BY <1>1, <1>2, <1>3, <1>4 DEF Next

\* The record of a run that has one never goes away.
LEMMA LogStays ==
  ASSUME TypeOK, Engaged, [Next]_vars, NEW r \in Runs, log[r] # "none"
  PROVE  log'[r] # "none"
<1>1. ASSUME NEW s \in Runs, Publisher(s)
      PROVE  log'[r] # "none"
  BY <1>1 DEF Publisher, Flush, Push, Commit, Abort, dbVars, TypeOK
<1>2. ASSUME NEW s \in Runs, Stub(s)
      PROVE  log'[r] # "none"
  BY <1>2 DEF Stub, StubRead, StubCommit, dbVars, TypeOK
<1>3. ASSUME NEW w \in Workers, Worker(w)
      PROVE  log'[r] # "none"
  BY <1>3 DEF Worker, Pop, Execute, Post, Retry, GiveUp, RequestStop, Stop,
              Die, Start, dbVars
<1>4. ASSUME NEW q \in requests, Callback(q)
      PROVE  log'[r] # "none"
  <2>1. q.run \in Runs /\ q.result \in Outcomes
    BY DEF TypeOK, Requests
  <2>2. CASE CallbackCommit(q)
    BY <2>1, <2>2 DEF CallbackCommit, TypeOK, Outcomes
  <2>3. CASE ~CallbackCommit(q)
    BY <1>4, <2>3 DEF Callback, CallbackNotFound, CallbackReplay,
         CallbackCheck, Drop, dbVars
  <2> QED
    BY <2>2, <2>3
<1>5. CASE ApiCrash \/ UNCHANGED vars
  BY <1>5 DEF ApiCrash, vars, dbVars
<1> QED
  BY <1>1, <1>2, <1>3, <1>4, <1>5 DEF Next

\* Where a pending callback comes from: it was pending already, a worker has
\* just posted it, or a handler has just found its row open.
LEMMA RequestOrigin ==
  ASSUME TypeOK, Engaged, [Next]_vars, NEW q \in requests'
  PROVE  \/ q \in requests
         \/ \E w \in Workers : /\ wpc[w] = "posting"
                               /\ q.run = wrun[w]
                               /\ q.result = wresult[w]
                               /\ ~q.checked
         \/ \E p \in requests : /\ q.run = p.run
                                /\ q.result = p.result
                                /\ log[p.run] = "queued"
<1>1. ASSUME NEW s \in Runs, Publisher(s) \/ Stub(s)
      PROVE  q \in requests
  BY <1>1 DEF Publisher, Flush, Push, Commit, Abort, Stub, StubRead, StubCommit
<1>2. ASSUME NEW w \in Workers, Worker(w), ~Post(w)
      PROVE  q \in requests
  BY <1>2 DEF Worker, Pop, Execute, Retry, GiveUp, RequestStop, Stop, Die, Start
<1>3. ASSUME NEW w \in Workers, Post(w)
      PROVE  \/ q \in requests
             \/ /\ wpc[w] = "posting"
                /\ q.run = wrun[w]
                /\ q.result = wresult[w]
                /\ ~q.checked
  BY <1>3 DEF Post
<1>4. ASSUME NEW p \in requests, Callback(p), ~CallbackCheck(p)
      PROVE  q \in requests
  BY <1>4 DEF Callback, CallbackNotFound, CallbackReplay, CallbackCommit, Drop
<1>5. ASSUME NEW p \in requests, CallbackCheck(p)
      PROVE  \/ q \in requests
             \/ /\ q.run = p.run
                /\ q.result = p.result
                /\ log[p.run] = "queued"
  BY <1>5 DEF CallbackCheck, TypeOK, Requests
<1>6. CASE ApiCrash
  BY <1>6 DEF ApiCrash
<1>7. CASE UNCHANGED vars
  BY <1>7 DEF vars
<1> QED
  BY <1>1, <1>2, <1>3, <1>4, <1>5, <1>6, <1>7 DEF Next

LEMMA EngagedStep ==
  ASSUME TypeOK, Engaged, [Next]_vars
  PROVE  Engaged'
<1>1. ASSUME NEW v \in Workers
      PROVE  /\ wpc'[v] \in Busy => wrun'[v] \in Runs
             /\ wpc'[v] \in {"posting", "awaiting"} => wresult'[v] \in Outcomes
             /\ wpc'[v] = "posting" => tries'[v] < MaxAttempts
             /\ wpc'[v] \notin Busy => tries'[v] = 0
             /\ wpc'[v] = "running" => tries'[v] = 0
  <2>1. CASE Kept(v)
    BY <2>1 DEF Kept, Engaged
  <2>2. CASE Freed(v)
    BY <2>2 DEF Freed, Busy
  <2>3. CASE Pop(v)
    BY <2>3 DEF Pop, TypeOK, Engaged, Busy
  <2>4. CASE Execute(v)
    <3>1. PICK o \in Outcomes : wresult' = [wresult EXCEPT ![v] = o]
      BY <2>4 DEF Execute
    <3> QED
      BY <2>4, <3>1 DEF Execute, TypeOK, Engaged, Busy
  <2>5. CASE Post(v)
    BY <2>5 DEF Post, TypeOK, Engaged, Busy
  <2>6. CASE Retry(v)
    BY <2>6 DEF Retry, TypeOK, Engaged, Busy
  <2> QED
    BY <2>1, <2>2, <2>3, <2>4, <2>5, <2>6, WorkerEffect
<1>2. ASSUME NEW q \in requests', q.checked
      PROVE  log'[q.run] # "none"
  <2>1. q.run \in Runs
    BY RequestOrigin DEF TypeOK, Requests, Engaged, Busy
  <2>2. log[q.run] # "none"
    BY <1>2, RequestOrigin DEF Engaged
  <2> QED
    BY <2>1, <2>2, LogStays
<1> QED
  BY <1>1, <1>2 DEF Engaged

-----------------------------------------------------------------------------
(* What a step does to the queue, the uploads and the executions.          *)

LEMMA QueueEffect ==
  ASSUME [Next]_vars
  PROVE  queue' = queue \/ (\E r \in Runs : Push(r)) \/ (\E w \in Workers : Pop(w))
<1>1. ASSUME NEW r \in Runs, Publisher(r) \/ Stub(r), ~Push(r)
      PROVE  queue' = queue
  BY <1>1 DEF Publisher, Flush, Commit, Abort, Stub, StubRead, StubCommit
<1>2. ASSUME NEW w \in Workers, Worker(w), ~Pop(w)
      PROVE  queue' = queue
  BY <1>2 DEF Worker, Execute, Post, Retry, GiveUp, RequestStop, Stop, Die, Start
<1>3. ASSUME NEW q \in requests, Callback(q)
      PROVE  queue' = queue
  BY <1>3 DEF Callback, CallbackNotFound, CallbackReplay, CallbackCheck,
              CallbackCommit, Drop
<1>4. CASE ApiCrash \/ UNCHANGED vars
  BY <1>4 DEF ApiCrash, vars
<1> QED
  BY <1>1, <1>2, <1>3, <1>4 DEF Next

LEMMA ExecutionEffect ==
  ASSUME [Next]_vars
  PROVE  execution' = execution \/ \E w \in Workers : Execute(w)
<1>1. ASSUME NEW r \in Runs, Publisher(r) \/ Stub(r)
      PROVE  execution' = execution
  BY <1>1 DEF Publisher, Flush, Push, Commit, Abort, Stub, StubRead,
              StubCommit, history
<1>2. ASSUME NEW w \in Workers, Worker(w), ~Execute(w)
      PROVE  execution' = execution
  BY <1>2 DEF Worker, Pop, Post, Retry, GiveUp, RequestStop, Stop, Die, Start,
              history
<1>3. ASSUME NEW q \in requests, Callback(q)
      PROVE  execution' = execution
  BY <1>3 DEF Callback, CallbackNotFound, CallbackReplay, CallbackCheck,
              CallbackCommit, Drop, history
<1>4. CASE ApiCrash \/ UNCHANGED vars
  BY <1>4 DEF ApiCrash, vars, history
<1> QED
  BY <1>1, <1>2, <1>3, <1>4 DEF Next

\* A run enters the queue by Push only, and holds its place or leaves by Pop.
LEMMA InQueueEffect ==
  ASSUME TypeOK, [Next]_vars, NEW r \in Runs, InQueue(r)'
  PROVE  InQueue(r) \/ Push(r)
<1>1. CASE queue' = queue
  BY <1>1 DEF InQueue
<1>2. ASSUME NEW s \in Runs, Push(s)
      PROVE  InQueue(r) \/ s = r
  BY <1>2 DEF Push, InQueue, TypeOK
<1>3. ASSUME NEW w \in Workers, Pop(w)
      PROVE  InQueue(r)
  BY <1>3 DEF Pop, InQueue, TypeOK
<1> QED
  BY <1>1, <1>2, <1>3, QueueEffect

\* A worker gets a job by Pop only: the last one of the queue.
LEMMA HoldsEffect ==
  ASSUME TypeOK, Engaged, [Next]_vars,
         NEW v \in Workers, NEW r \in Runs, Holds(v, r)'
  PROVE  \/ Holds(v, r)
         \/ Pop(v) /\ queue # <<>> /\ queue[Len(queue)] = r
<1>1. CASE Kept(v)
  BY <1>1 DEF Kept, Holds
<1>2. CASE Freed(v)
  BY <1>2 DEF Freed, Holds
<1>3. CASE Pop(v)
  BY <1>3 DEF Pop, Holds, TypeOK
<1>4. CASE Execute(v) \/ Post(v) \/ Retry(v)
  BY <1>4 DEF Execute, Post, Retry, Holds, Busy, TypeOK
<1> QED
  BY <1>1, <1>2, <1>3, <1>4, WorkerEffect

LEMMA LastIsInQueue ==
  ASSUME TypeOK, queue # <<>>
  PROVE  Len(queue) \in 1 .. Len(queue) /\ InQueue(queue[Len(queue)])
BY DEF TypeOK, InQueue

\* An execution is decided by a worker that holds the run, once.
LEMMA ExecutedBy ==
  ASSUME TypeOK, Engaged, [Next]_vars, NEW r \in Runs, execution'[r] # execution[r]
  PROVE  \E w \in Workers : Execute(w) /\ Holds(w, r) /\ wpc[w] = "running"
<1>1. PICK w \in Workers : Execute(w)
  BY ExecutionEffect
<1>2. wpc[w] = "running"
  BY <1>1 DEF Execute
<1>3. wrun[w] = r
  BY <1>1 DEF Execute, TypeOK
<1> QED
  BY <1>1, <1>2, <1>3 DEF Holds, Busy

\* An upload that has not pushed its job yet had not pushed it before.
LEMMA UploadEffect ==
  ASSUME TypeOK, Staging, [Next]_vars, NEW r \in Runs
  PROVE  /\ upload'[r] \in Before => upload[r] \in Before /\ ~Push(r)
         /\ upload[r] = "committed" => upload'[r] = "committed"
         /\ upload'[r] = "committed" => upload[r] = "committed" \/ Commit(r)
<1>1. ASSUME NEW s \in Runs, Publisher(s)
      PROVE  /\ upload'[r] \in Before => upload[r] \in Before /\ ~Push(r)
             /\ upload[r] = "committed" => upload'[r] = "committed"
             /\ upload'[r] = "committed" => upload[r] = "committed" \/ Commit(r)
  BY <1>1 DEF Publisher, Flush, Push, Commit, Abort, Before, TypeOK
<1>2. CASE UNCHANGED upload
  BY <1>2 DEF Push, Before, TypeOK
<1>3. CASE ApiCrash
  BY <1>3 DEF ApiCrash, Push, Before, TypeOK
<1>4. ASSUME NEW s \in Runs, Stub(s)
      PROVE  UNCHANGED upload
  BY <1>4 DEF Stub, StubRead, StubCommit
<1>5. ASSUME NEW w \in Workers, Worker(w)
      PROVE  UNCHANGED upload
  BY <1>5 DEF Worker, Pop, Execute, Post, Retry, GiveUp, RequestStop, Stop,
              Die, Start
<1>6. ASSUME NEW q \in requests, Callback(q)
      PROVE  UNCHANGED upload
  BY <1>6 DEF Callback, CallbackNotFound, CallbackReplay, CallbackCheck,
              CallbackCommit, Drop
<1>7. UNCHANGED vars => UNCHANGED upload
  BY DEF vars
<1> QED
  BY <1>1, <1>2, <1>3, <1>4, <1>5, <1>6, <1>7 DEF Next

-----------------------------------------------------------------------------
(* The invariant is inductive.                                             *)

LEMMA StagingStep ==
  ASSUME IInv, [Next]_vars
  PROVE  Staging'
<1> USE DEF IInv
<1>1. ASSUME NEW r \in Runs
      PROVE  /\ log'[r] = "none" <=> upload'[r] # "committed"
             /\ stub'[r] # "none" => upload'[r] = "committed"
  <2>1. ASSUME NEW s \in Runs, Publisher(s)
        PROVE  /\ log'[r] = "none" <=> upload'[r] # "committed"
               /\ stub'[r] # "none" => upload'[r] = "committed"
    BY <2>1 DEF Publisher, Flush, Push, Commit, Abort, Staging, dbVars, TypeOK
  <2>2. ASSUME NEW s \in Runs, Stub(s)
        PROVE  /\ log'[r] = "none" <=> upload'[r] # "committed"
               /\ stub'[r] # "none" => upload'[r] = "committed"
    BY <2>2 DEF Stub, StubRead, StubCommit, Staging, dbVars, TypeOK
  <2>3. ASSUME NEW w \in Workers, Worker(w)
        PROVE  UNCHANGED <<log, upload, stub>>
    BY <2>3 DEF Worker, Pop, Execute, Post, Retry, GiveUp, RequestStop, Stop,
                Die, Start, dbVars
  <2>4. ASSUME NEW q \in requests, Callback(q)
        PROVE  /\ UNCHANGED <<upload, stub>>
               /\ log'[r] = "none" <=> log[r] = "none"
    <3>1. UNCHANGED <<upload, stub>>
      BY <2>4 DEF Callback, CallbackNotFound, CallbackReplay, CallbackCheck,
                  CallbackCommit, Drop
    <3>2. CASE CallbackCommit(q)
      <4>1. q.result # "none" /\ log[q.run] # "none"
        <5>1. q \in Requests
          BY DEF TypeOK
        <5>2. q.result \in Outcomes
          BY <5>1 DEF Requests
        <5>3. log[q.run] # "none"
          BY <3>2 DEF CallbackCommit, Engaged
        <5> QED
          BY <5>2, <5>3 DEF Outcomes
      <4> QED
        BY <3>1, <3>2, <4>1 DEF CallbackCommit, TypeOK
    <3>3. CASE ~CallbackCommit(q)
      BY <2>4, <3>1, <3>3 DEF Callback, CallbackNotFound, CallbackReplay,
           CallbackCheck, Drop, dbVars
    <3> QED
      BY <3>2, <3>3
  <2>5. CASE ApiCrash
    BY <2>5 DEF ApiCrash, Staging, dbVars, TypeOK
  <2>6. CASE UNCHANGED vars
    BY <2>6 DEF vars, dbVars, Staging
  <2> QED
    BY <2>1, <2>2, <2>3, <2>4, <2>5, <2>6 DEF Next, Staging
<1>2. ASSUME NEW r \in Runs, upload'[r] \in Before
      PROVE  /\ execution'[r] = "none"
             /\ ~InQueue(r)'
             /\ \A w \in Workers : ~Holds(w, r)'
  <2>1. upload[r] \in Before /\ ~Push(r)
    BY <1>2, UploadEffect
  <2>2. /\ execution[r] = "none"
        /\ ~InQueue(r)
        /\ \A w \in Workers : ~Holds(w, r)
    BY <2>1 DEF Staging
  <2>3. execution'[r] = "none"
    BY <2>2, ExecutedBy
  <2>4. ~InQueue(r)'
    BY <2>1, <2>2, InQueueEffect
  <2>5. ASSUME NEW w \in Workers, Holds(w, r)'
        PROVE  FALSE
    BY <2>2, <2>5, HoldsEffect, LastIsInQueue
  <2> QED
    BY <2>3, <2>4, <2>5
<1> QED
  BY <1>1, <1>2 DEF Staging

LEMMA CustodyStep ==
  ASSUME IInv, [Next]_vars
  PROVE  SingleCustody'
<1> USE DEF IInv
<1>1. \A i, j \in 1 .. Len(queue') : queue'[i] = queue'[j] => i = j
  <2>1. CASE queue' = queue
    BY <2>1 DEF SingleCustody
  <2>2. ASSUME NEW r \in Runs, Push(r)
        PROVE  \A i, j \in 1 .. Len(queue') : queue'[i] = queue'[j] => i = j
    <3>1. upload[r] \in Before
      BY <2>2 DEF Push, Before
    <3>2. ~InQueue(r)
      BY <3>1 DEF Staging
    <3>3. queue' = Append(queue, r) /\ queue \in Seq(Runs)
      BY <2>2 DEF Push, TypeOK
    <3> QED
      BY <3>2, <3>3 DEF SingleCustody, InQueue
  <2>3. ASSUME NEW w \in Workers, Pop(w)
        PROVE  \A i, j \in 1 .. Len(queue') : queue'[i] = queue'[j] => i = j
    BY <2>3 DEF Pop, SingleCustody, TypeOK
  <2> QED
    BY <2>1, <2>2, <2>3, QueueEffect
<1>2. ASSUME NEW r \in Runs, InQueue(r)'
      PROVE  execution'[r] = "none" /\ \A w \in Workers : ~Holds(w, r)'
  <2>1. execution[r] = "none" /\ \A w \in Workers : ~Holds(w, r)
    <3>1. CASE InQueue(r)
      BY <3>1 DEF SingleCustody
    <3>2. CASE Push(r)
      <4>1. upload[r] \in Before
        BY <3>2 DEF Push, Before
      <4> QED
        BY <4>1 DEF Staging
    <3> QED
      BY <1>2, <3>1, <3>2, InQueueEffect
  <2>2. execution'[r] = "none"
    BY <2>1, ExecutedBy
  <2>3. ASSUME NEW w \in Workers, Holds(w, r)'
        PROVE  FALSE
    <3>1. Pop(w) /\ queue # <<>> /\ queue[Len(queue)] = r
      BY <2>1, <2>3, HoldsEffect
    <3>2. queue' = SubSeq(queue, 1, Len(queue) - 1) /\ queue \in Seq(Runs)
      BY <3>1 DEF Pop, TypeOK
    <3>3. PICK i \in 1 .. Len(queue') : queue'[i] = r
      BY <1>2 DEF InQueue
    <3>4. i \in 1 .. Len(queue) /\ i # Len(queue) /\ queue[i] = r
      BY <3>1, <3>2, <3>3
    <3> QED
      BY <3>1, <3>4, LastIsInQueue DEF SingleCustody
  <2> QED
    BY <2>2, <2>3
<1>3. ASSUME NEW w1 \in Workers, NEW w2 \in Workers, NEW r \in Runs,
             Holds(w1, r)', Holds(w2, r)'
      PROVE  w1 = w2
  <2>1. CASE Holds(w1, r) /\ Holds(w2, r)
    BY <2>1 DEF SingleCustody
  <2>2. ASSUME NEW u \in Workers, NEW v \in Workers,
               Holds(u, r), Pop(v), queue # <<>>, queue[Len(queue)] = r
        PROVE  FALSE
    BY <2>2, LastIsInQueue DEF SingleCustody
  <2>3. CASE Pop(w1) /\ Pop(w2)
    BY <2>3 DEF Pop, TypeOK, Busy
  <2> QED
    BY <1>3, <2>1, <2>2, <2>3, HoldsEffect
<1> QED
  BY <1>1, <1>2, <1>3 DEF SingleCustody

LEMMA ReportsStep ==
  ASSUME IInv, [Next]_vars
  PROVE  ReportsAgree'
<1> USE DEF IInv
\* An execution that is decided is never decided again.
<1>1. ASSUME NEW r \in Runs, execution[r] # "none"
      PROVE  execution'[r] = execution[r]
  BY <1>1, ExecutedBy DEF ReportsAgree
<1>2. ASSUME NEW w \in Workers, NEW r \in Runs, Holds(w, r)'
      PROVE  execution'[r] = IF wpc'[w] = "running" THEN "none" ELSE wresult'[w]
  <2>1. CASE Pop(w)
    <3>1. queue # <<>> /\ queue[Len(queue)] = r
      BY <1>2, <2>1 DEF Pop, Holds, TypeOK
    <3>2. execution[r] = "none" /\ \A v \in Workers : ~Holds(v, r)
      BY <3>1, LastIsInQueue DEF SingleCustody
    <3>3. execution'[r] = "none" /\ wpc'[w] = "running"
      BY <2>1, <3>2, ExecutedBy DEF Pop, TypeOK
    <3> QED
      BY <3>3
  <2>2. CASE Execute(w)
    <3>1. PICK o \in Outcomes : /\ wresult' = [wresult EXCEPT ![w] = o]
                                /\ execution' = [execution EXCEPT ![wrun[w]] = o]
      BY <2>2 DEF Execute
    <3>2. wpc'[w] = "posting" /\ wrun[w] = r
      BY <1>2, <2>2 DEF Execute, Holds, TypeOK
    <3> QED
      BY <3>1, <3>2 DEF TypeOK
  <2>3. CASE Kept(w) \/ Post(w) \/ Retry(w)
    <3>1. /\ Holds(w, r)
          /\ wresult'[w] = wresult[w]
          /\ wpc'[w] = "running" <=> wpc[w] = "running"
      BY <1>2, <2>3 DEF Kept, Post, Retry, Holds, TypeOK, Busy
    <3>2. CASE wpc[w] = "running"
      <4>1. execution[r] = "none"
        BY <3>1, <3>2 DEF ReportsAgree
      <4>2. ~Execute(w)
        BY <3>1, <3>2, <2>3 DEF Kept, Execute, Post, Retry, TypeOK
      <4>3. execution'[r] = "none"
        BY <3>1, <4>1, <4>2, ExecutedBy DEF SingleCustody
      <4> QED
        BY <3>1, <3>2, <4>3
    <3>3. CASE wpc[w] # "running"
      <4>1. execution[r] = wresult[w] /\ wresult[w] \in Outcomes
        BY <3>1, <3>3 DEF ReportsAgree, Engaged, Holds, Busy
      <4> QED
        BY <1>1, <3>1, <3>3, <4>1 DEF Outcomes
    <3> QED
      BY <3>2, <3>3
  <2>4. ~Freed(w)
    BY <1>2 DEF Freed, Holds
  <2> QED
    BY <2>1, <2>2, <2>3, <2>4, WorkerEffect
<1>3. ASSUME NEW q \in requests'
      PROVE  execution'[q.run] = q.result
  <2>1. q.run \in Runs /\ q.result \in Outcomes /\ execution[q.run] = q.result
    <3>1. CASE q \in requests
      BY <3>1 DEF TypeOK, Requests, ReportsAgree
    <3>2. ASSUME NEW w \in Workers, wpc[w] = "posting",
                 q.run = wrun[w], q.result = wresult[w]
          PROVE  q.run \in Runs /\ q.result \in Outcomes /\ execution[q.run] = q.result
      <4>1. wrun[w] \in Runs /\ wresult[w] \in Outcomes /\ Holds(w, wrun[w])
        BY <3>2 DEF Engaged, Holds, Busy
      <4> QED
        BY <3>2, <4>1 DEF ReportsAgree
    <3>3. ASSUME NEW p \in requests, q.run = p.run, q.result = p.result
          PROVE  q.run \in Runs /\ q.result \in Outcomes /\ execution[q.run] = q.result
      BY <3>3 DEF TypeOK, Requests, ReportsAgree
    <3> QED
      BY <3>1, <3>2, <3>3, RequestOrigin
  <2> QED
    BY <1>1, <2>1 DEF Outcomes
<1> QED
  BY <1>2, <1>3 DEF ReportsAgree

LEMMA IInvStep == IInv /\ [Next]_vars => IInv'
BY TypeStep, EngagedStep, StagingStep, CustodyStep, ReportsStep DEF IInv

LEMMA Invariance == Spec => []IInv
BY InitIInv, IInvStep, PTL DEF Spec

-----------------------------------------------------------------------------
(* The theorems.                                                           *)

\* Every variable keeps its type; in particular a worker never makes more than
\* MaxAttempts attempts.
THEOREM TypeCorrect == Spec => []TypeOK
<1>1. IInv => TypeOK
  BY DEF IInv
<1> QED
  BY <1>1, Invariance, PTL

\* A job is in one place at a time, whatever is lost, retried or restarted.
THEOREM CustodyIsSingle == Spec => []SingleCustody
<1>1. IInv => SingleCustody
  BY DEF IInv
<1> QED
  BY <1>1, Invariance, PTL

\* Every callback of a run carries the result of its one execution.
THEOREM CallbacksAgree == Spec => []ReportsAgree
<1>1. IInv => ReportsAgree
  BY DEF IInv
<1> QED
  BY <1>1, Invariance, PTL

\* A closed run stays closed, although the stub may change the outcome.
LEMMA ClosedStays ==
  ASSUME IInv, [Next]_vars, NEW r \in Runs, log[r] \in Outcomes
  PROVE  log'[r] \in Outcomes
<1> USE DEF IInv
<1>1. ASSUME NEW s \in Runs, Publisher(s)
      PROVE  log'[r] = log[r]
  BY <1>1 DEF Publisher, Flush, Push, Commit, Abort, dbVars, TypeOK, Staging,
              Outcomes
<1>2. ASSUME NEW s \in Runs, Stub(s)
      PROVE  log'[r] \in Outcomes
  BY <1>2 DEF Stub, StubRead, StubCommit, dbVars, TypeOK, Outcomes
<1>3. ASSUME NEW w \in Workers, Worker(w)
      PROVE  log'[r] = log[r]
  BY <1>3 DEF Worker, Pop, Execute, Post, Retry, GiveUp, RequestStop, Stop,
              Die, Start, dbVars
<1>4. ASSUME NEW q \in requests, Callback(q)
      PROVE  log'[r] \in Outcomes
  <2>1. q.result \in Outcomes
    BY DEF TypeOK, Requests
  <2>2. CASE CallbackCommit(q)
    BY <2>1, <2>2 DEF CallbackCommit, TypeOK
  <2>3. CASE ~CallbackCommit(q)
    BY <1>4, <2>3 DEF Callback, CallbackNotFound, CallbackReplay,
         CallbackCheck, Drop, dbVars
  <2> QED
    BY <2>2, <2>3
<1>5. CASE ApiCrash \/ UNCHANGED vars
  BY <1>5 DEF ApiCrash, vars, dbVars
<1> QED
  BY <1>1, <1>2, <1>3, <1>4, <1>5 DEF Next

-----------------------------------------------------------------------------
(* Conservation of jobs.                                                   *)

\* A worker lets go of a job only when the run is closed, dead-lettered or lost.
LEMMA FreedHow ==
  ASSUME IInv, [Next]_vars, NEW w \in Workers, NEW r \in Runs,
         Holds(w, r), ~Holds(w, r)'
  PROVE  r \in dead' \/ r \in lost' \/ log'[r] \in Outcomes
<1> USE DEF IInv
<1>1. ASSUME NEW s \in Runs, Publisher(s) \/ Stub(s)
      PROVE  FALSE
  BY <1>1 DEF Publisher, Flush, Push, Commit, Abort, Stub, StubRead,
              StubCommit, workerVars, Holds
<1>2. ASSUME NEW v \in Workers, Worker(v)
      PROVE  r \in dead' \/ r \in lost'
  <2>1. CASE v # w
    <3>1. CASE GiveUp(v)
      BY <2>1, <3>1, ReleaseEffect DEF GiveUp, Kept, Holds
    <3>2. CASE ~GiveUp(v)
      BY <1>2, <2>1, <3>2 DEF Worker, Pop, Execute, Post, Retry, RequestStop,
           Stop, Die, Start, Holds, TypeOK
    <3> QED
      BY <3>1, <3>2
  <2>2. CASE v = w
    <3>1. CASE GiveUp(w)
      BY <3>1 DEF GiveUp, Holds
    <3>2. CASE Die(w)
      BY <3>2 DEF Die, Holds
    <3>3. CASE ~GiveUp(w) /\ ~Die(w)
      BY <1>2, <2>2, <3>3 DEF Worker, Pop, Execute, Post, Retry, RequestStop,
           Stop, Start, Holds, Busy, TypeOK
    <3> QED
      BY <2>2, <3>1, <3>2, <3>3
  <2> QED
    BY <2>1, <2>2
<1>3. ASSUME NEW q \in requests, Callback(q)
      PROVE  r \in dead' \/ log'[r] \in Outcomes
  <2>1. Answer(q) /\ Awaited(q) /\ q.run = r
    <3>1. CASE UNCHANGED workerVars
      BY <3>1 DEF workerVars, Holds
    <3>2. CASE Answer(q) /\ ~UNCHANGED workerVars
      <4>1. Awaited(q)
        BY <3>2 DEF Answer
      <4>2. ~Kept(w)
        BY DEF Kept, Holds
      <4> QED
        BY <3>2, <4>1, <4>2, AnswerEffect DEF Holds
    <3> QED
      BY <1>3, <3>1, <3>2 DEF Callback, CallbackNotFound, CallbackReplay,
           CallbackCheck, CallbackCommit, Drop
  <2>2. CASE CallbackNotFound(q)
    BY <2>1, <2>2 DEF CallbackNotFound
  <2>3. CASE CallbackReplay(q)
    BY <2>1, <2>3 DEF CallbackReplay, dbVars
  <2>4. CASE CallbackCommit(q)
    BY <2>1, <2>4 DEF CallbackCommit, TypeOK, Requests
  <2>5. CASE CallbackCheck(q) \/ Drop(q)
    BY <2>5 DEF CallbackCheck, Drop, workerVars, Holds
  <2> QED
    BY <1>3, <2>2, <2>3, <2>4, <2>5 DEF Callback
<1>4. CASE ApiCrash \/ UNCHANGED vars
  BY <1>4 DEF ApiCrash, vars, workerVars, Holds
<1> QED
  BY <1>1, <1>2, <1>3, <1>4 DEF Next

\* The dead-letter list and the lost jobs only grow.
LEMMA LossesStay ==
  ASSUME [Next]_vars
  PROVE  dead \subseteq dead' /\ lost \subseteq lost'
<1>1. ASSUME NEW s \in Runs, Publisher(s) \/ Stub(s)
      PROVE  UNCHANGED <<dead, lost>>
  BY <1>1 DEF Publisher, Flush, Push, Commit, Abort, Stub, StubRead,
              StubCommit, history
<1>2. ASSUME NEW w \in Workers, Worker(w)
      PROVE  dead \subseteq dead' /\ lost \subseteq lost'
  BY <1>2 DEF Worker, Pop, Execute, Post, Retry, GiveUp, RequestStop, Stop,
              Die, Start, history
<1>3. ASSUME NEW q \in requests, Callback(q)
      PROVE  dead \subseteq dead' /\ UNCHANGED lost
  BY <1>3 DEF Callback, CallbackNotFound, CallbackReplay, CallbackCheck,
              CallbackCommit, Drop, history
<1>4. CASE ApiCrash \/ UNCHANGED vars
  BY <1>4 DEF ApiCrash, vars, history
<1> QED
  BY <1>1, <1>2, <1>3, <1>4 DEF Next

LEMMA ConservationStep ==
  ASSUME IInv, JobConservation, [Next]_vars
  PROVE  JobConservation'
<1> USE DEF IInv
<1> SUFFICES ASSUME NEW r \in Runs,
                    upload'[r] \in {"pushed", "committed"},
                    log'[r] \notin Outcomes
             PROVE  \/ InQueue(r)'
                    \/ \E w \in Workers : Holds(w, r)'
                    \/ r \in dead'
                    \/ r \in lost'
  BY DEF JobConservation
<1>1. log[r] \notin Outcomes
  BY ClosedStays
<1>2. CASE Push(r)
  <2>1. queue' = Append(queue, r) /\ queue \in Seq(Runs)
    BY <1>2 DEF Push, TypeOK
  <2>2. queue'[Len(queue')] = r /\ Len(queue') \in 1 .. Len(queue')
    BY <2>1
  <2> QED
    BY <2>2 DEF InQueue
<1>3. CASE ~Push(r)
  <2>1. upload[r] \in {"pushed", "committed"}
    <3>1. ASSUME NEW s \in Runs, Publisher(s)
          PROVE  upload[r] \in {"pushed", "committed"}
      BY <1>3, <3>1 DEF Publisher, Flush, Push, Commit, Abort, TypeOK
    <3>2. CASE ApiCrash
      BY <3>2 DEF ApiCrash, TypeOK
    <3>3. CASE UNCHANGED upload
      BY <3>3
    <3>4. (\E s \in Runs : Stub(s)) => UNCHANGED upload
      BY DEF Stub, StubRead, StubCommit
    <3>5. (\E w \in Workers : Worker(w)) => UNCHANGED upload
      BY DEF Worker, Pop, Execute, Post, Retry, GiveUp, RequestStop, Stop,
             Die, Start
    <3>6. (\E q \in requests : Callback(q)) => UNCHANGED upload
      BY DEF Callback, CallbackNotFound, CallbackReplay, CallbackCheck,
             CallbackCommit, Drop
    <3>7. UNCHANGED vars => UNCHANGED upload
      BY DEF vars
    <3> QED
      BY <3>1, <3>2, <3>3, <3>4, <3>5, <3>6, <3>7 DEF Next
  <2>2. CASE InQueue(r)
    <3>1. CASE queue' = queue
      BY <2>2, <3>1 DEF InQueue
    <3>2. ASSUME NEW s \in Runs, Push(s)
          PROVE  InQueue(r)'
      BY <2>2, <3>2 DEF Push, InQueue, TypeOK
    <3>3. ASSUME NEW w \in Workers, Pop(w)
          PROVE  InQueue(r)' \/ Holds(w, r)'
      <4>1. PICK i \in 1 .. Len(queue) : queue[i] = r
        BY <2>2 DEF InQueue
      <4>2. CASE i = Len(queue)
        BY <3>3, <4>1, <4>2 DEF Pop, Holds, Busy, TypeOK
      <4>3. CASE i # Len(queue)
        <5>1. queue' = SubSeq(queue, 1, Len(queue) - 1) /\ queue \in Seq(Runs)
          BY <3>3 DEF Pop, TypeOK
        <5>2. i \in 1 .. Len(queue') /\ queue'[i] = r
          BY <4>1, <4>3, <5>1
        <5> QED
          BY <5>2 DEF InQueue
      <4> QED
        BY <4>2, <4>3
    <3> QED
      BY <3>1, <3>2, <3>3, QueueEffect
  <2>3. ASSUME NEW w \in Workers, Holds(w, r)
        PROVE  Holds(w, r)' \/ r \in dead' \/ r \in lost'
    BY <2>3, FreedHow
  <2> QED
    BY <1>1, <2>1, <2>2, <2>3, LossesStay DEF JobConservation
<1> QED
  BY <1>2, <1>3

\* No committed job disappears quietly: see JobConservation.
THEOREM JobsAreConserved == Spec => []JobConservation
<1>1. Init => JobConservation
  BY DEF Init, JobConservation
<1>2. IInv /\ JobConservation /\ [Next]_vars => JobConservation'
  BY ConservationStep
<1> QED
  BY <1>1, <1>2, Invariance, PTL DEF Spec

-----------------------------------------------------------------------------
(* The stub: what it read stays true, because a closed run stays closed.   *)

StubReadHolds ==
  \A r \in Runs : stub[r] = "sawClosed" => log[r] \in Outcomes

LEMMA StubStep ==
  ASSUME IInv, StubReadHolds, ExtractedRunIsClosed, [Next]_vars
  PROVE  StubReadHolds' /\ ExtractedRunIsClosed'
<1> USE DEF IInv
<1> SUFFICES ASSUME NEW r \in Runs
             PROVE  /\ stub'[r] = "sawClosed" => log'[r] \in Outcomes
                    /\ proposal'[r] = "extracted" => log'[r] \in Outcomes
  BY DEF StubReadHolds, ExtractedRunIsClosed
<1>1. CASE log[r] \in Outcomes
  BY <1>1, ClosedStays
<1>2. CASE log[r] \notin Outcomes
  <2>0. stub[r] # "sawClosed" /\ proposal[r] # "extracted"
    BY <1>2 DEF StubReadHolds, ExtractedRunIsClosed
  <2>1. ASSUME NEW s \in Runs, Publisher(s)
        PROVE  stub'[r] # "sawClosed" /\ proposal'[r] # "extracted"
    BY <2>0, <2>1 DEF Publisher, Flush, Push, Commit, Abort, dbVars, TypeOK
  <2>2. ASSUME NEW s \in Runs, StubRead(s)
        PROVE  stub'[r] # "sawClosed" /\ proposal'[r] # "extracted"
    BY <1>2, <2>0, <2>2 DEF StubRead, dbVars, TypeOK
  <2>3. ASSUME NEW s \in Runs, StubCommit(s)
        PROVE  /\ stub'[r] # "sawClosed"
               /\ proposal'[r] = "extracted" => log'[r] \in Outcomes
    BY <2>0, <2>3 DEF StubCommit, TypeOK, Outcomes
  <2>4. ASSUME NEW w \in Workers, Worker(w)
        PROVE  stub' = stub /\ proposal' = proposal
    BY <2>4 DEF Worker, Pop, Execute, Post, Retry, GiveUp, RequestStop, Stop,
                Die, Start, dbVars
  <2>5. ASSUME NEW q \in requests, Callback(q)
        PROVE  stub' = stub /\ proposal' = proposal
    BY <2>5 DEF Callback, CallbackNotFound, CallbackReplay, CallbackCheck,
                CallbackCommit, Drop, dbVars
  <2>6. CASE ApiCrash
    BY <2>0, <2>6 DEF ApiCrash, dbVars
  <2>7. CASE UNCHANGED vars
    BY <2>0, <2>7 DEF vars, dbVars
  <2> QED
    BY <2>0, <2>1, <2>2, <2>3, <2>4, <2>5, <2>6, <2>7 DEF Next, Stub
<1> QED
  BY <1>1, <1>2

\* A proposal the stub extracted never has an open run.
THEOREM ExtractedRunsAreClosed == Spec => []ExtractedRunIsClosed
<1>1. Init => StubReadHolds /\ ExtractedRunIsClosed
  BY DEF Init, StubReadHolds, ExtractedRunIsClosed
<1>2. IInv /\ StubReadHolds /\ ExtractedRunIsClosed /\ [Next]_vars
        => StubReadHolds' /\ ExtractedRunIsClosed'
  BY StubStep
<1> QED
  BY <1>1, <1>2, Invariance, PTL DEF Spec

-----------------------------------------------------------------------------
(* With the stub off, callbacks are the only writers of a run that is      *)
(* open, and AgentJobs implements AgentRunLifecycle.                       *)

OneWriter ==
  \A r \in Runs : /\ stub[r] = "none"
                  /\ log[r] \in Outcomes => log[r] = execution[r]

\* A step of the pipeline is a step of the lifecycle, or invisible to it.
LEMMA LifecycleStep ==
  ASSUME IInv, OneWriter, ~StubEnabled, [Next]_vars
  PROVE  [Lifecycle!Next]_(Lifecycle!vars)
<1> USE DEF IInv
<1>1. ASSUME NEW s \in Runs, Publisher(s)
      PROVE  [Lifecycle!Next]_(Lifecycle!vars)
  <2>1. CASE Commit(s)
    <3>1. log[s] = "none"
      BY <2>1 DEF Commit, Staging
    <3>2. Lifecycle!Create(s)
      BY <2>1, <3>1 DEF Commit, Lifecycle!Create, history
    <3> QED
      BY <3>2 DEF Lifecycle!Next
  <2>2. CASE ~Commit(s)
    BY <1>1, <2>2 DEF Publisher, Flush, Push, Abort, dbVars, history,
                      Lifecycle!vars
  <2> QED
    BY <2>1, <2>2
<1>2. ASSUME NEW s \in Runs, Stub(s)
      PROVE  FALSE
  BY <1>2 DEF Stub, StubRead, StubCommit, OneWriter
<1>3. ASSUME NEW w \in Workers, Worker(w)
      PROVE  [Lifecycle!Next]_(Lifecycle!vars)
  <2>1. CASE Execute(w)
    <3>1. /\ wrun[w] \in Runs
          /\ execution[wrun[w]] = "none"
      BY <2>1 DEF Execute, Engaged, ReportsAgree, Holds, Busy
    <3>2. Lifecycle!Execute(wrun[w])
      BY <2>1, <3>1 DEF Execute, dbVars, Lifecycle!Execute, Outcomes,
                        Lifecycle!Outcomes
    <3> QED
      BY <3>1, <3>2 DEF Lifecycle!Next
  <2>2. CASE ~Execute(w)
    BY <1>3, <2>2 DEF Worker, Pop, Post, Retry, GiveUp, RequestStop, Stop,
                      Die, Start, dbVars, history, Lifecycle!vars
  <2> QED
    BY <2>1, <2>2
<1>4. ASSUME NEW q \in requests, Callback(q)
      PROVE  [Lifecycle!Next]_(Lifecycle!vars)
  <2>1. CASE CallbackCommit(q)
    <3>1. /\ q.run \in Runs
          /\ q.result \in Outcomes
          /\ execution[q.run] = q.result
      BY DEF TypeOK, Requests, ReportsAgree
    <3>2. /\ log' = [log EXCEPT ![q.run] = q.result]
          /\ execution' = execution
          /\ log[q.run] # "none"
      BY <2>1 DEF CallbackCommit, history, Engaged
    <3>3. CASE log[q.run] = "queued"
      <4>1. Lifecycle!Close(q.run)
        BY <3>1, <3>2, <3>3 DEF Lifecycle!Close, Outcomes, Lifecycle!Outcomes
      <4> QED
        BY <3>1, <4>1 DEF Lifecycle!Next
    <3>4. CASE log[q.run] \in Outcomes
      <4>1. log[q.run] = q.result
        BY <3>1, <3>4 DEF OneWriter
      <4>2. log' = log
        BY <3>2, <4>1 DEF TypeOK
      <4> QED
        BY <3>2, <4>2 DEF Lifecycle!vars
    <3> QED
      BY <3>1, <3>2, <3>3, <3>4 DEF TypeOK
  <2>2. CASE ~CallbackCommit(q)
    BY <1>4, <2>2 DEF Callback, CallbackNotFound, CallbackReplay,
         CallbackCheck, Drop, dbVars, history, Lifecycle!vars
  <2> QED
    BY <2>1, <2>2
<1>5. CASE ApiCrash \/ UNCHANGED vars
  BY <1>5 DEF ApiCrash, vars, dbVars, history, Lifecycle!vars
<1> QED
  BY <1>1, <1>2, <1>3, <1>4, <1>5 DEF Next

LEMMA OneWriterStep ==
  ASSUME IInv, OneWriter, ~StubEnabled, [Next]_vars
  PROVE  OneWriter'
<1> USE DEF IInv
<1>1. ASSUME NEW r \in Runs
      PROVE  stub'[r] = "none"
  <2>0. stub[r] = "none"
    BY DEF OneWriter
  <2>1. ASSUME NEW s \in Runs, Publisher(s)
        PROVE  stub'[r] = "none"
    BY <2>0, <2>1 DEF Publisher, Flush, Push, Commit, Abort, TypeOK
  <2>2. ASSUME NEW s \in Runs, Stub(s)
        PROVE  FALSE
    BY <2>2 DEF Stub, StubRead, StubCommit, OneWriter
  <2>3. ASSUME NEW w \in Workers, Worker(w)
        PROVE  stub' = stub
    BY <2>3 DEF Worker, Pop, Execute, Post, Retry, GiveUp, RequestStop, Stop,
                Die, Start
  <2>4. ASSUME NEW q \in requests, Callback(q)
        PROVE  stub' = stub
    BY <2>4 DEF Callback, CallbackNotFound, CallbackReplay, CallbackCheck,
                CallbackCommit, Drop
  <2>5. CASE ApiCrash \/ UNCHANGED vars
    BY <2>0, <2>5 DEF ApiCrash, vars
  <2> QED
    BY <2>0, <2>1, <2>2, <2>3, <2>4, <2>5 DEF Next
<1>2. ASSUME NEW r \in Runs, log'[r] \in Outcomes
      PROVE  log'[r] = execution'[r]
  <2>1. ASSUME NEW s \in Runs, Lifecycle!Create(s)
        PROVE  log'[r] = execution'[r]
    BY <1>2, <2>1 DEF Lifecycle!Create, TypeOK, Outcomes, OneWriter
  <2>2. ASSUME NEW s \in Runs, Lifecycle!Execute(s)
        PROVE  log'[r] = execution'[r]
    <3>1. PICK o \in Lifecycle!Outcomes : execution' = [execution EXCEPT ![s] = o]
      BY <2>2 DEF Lifecycle!Execute
    <3>2. log' = log /\ execution[s] = "none"
      BY <2>2 DEF Lifecycle!Execute
    <3> QED
      BY <1>2, <3>1, <3>2 DEF TypeOK, Outcomes, OneWriter
  <2>3. ASSUME NEW s \in Runs, Lifecycle!Close(s)
        PROVE  log'[r] = execution'[r]
    BY <1>2, <2>3 DEF Lifecycle!Close, TypeOK, OneWriter
  <2>4. CASE UNCHANGED Lifecycle!vars
    BY <1>2, <2>4 DEF Lifecycle!vars, OneWriter
  <2> QED
    BY <2>1, <2>2, <2>3, <2>4, LifecycleStep DEF Lifecycle!Next
<1> QED
  BY <1>1, <1>2 DEF OneWriter

LEMMA OneWriterInvariance ==
  ASSUME ~StubEnabled
  PROVE  Spec => [](IInv /\ OneWriter)
<1>1. Init => OneWriter
  BY DEF Init, OneWriter, Outcomes
<1>2. IInv /\ OneWriter /\ [Next]_vars => OneWriter'
  BY OneWriterStep
<1> QED
  BY <1>1, <1>2, Invariance, PTL DEF Spec

\* With the stub off, the pipeline keeps the promise of AgentRunLifecycle.
THEOREM PipelineImplementsLifecycle ==
  ASSUME ~StubEnabled
  PROVE  Spec => ImplementsLifecycle
<1>1. Init => Lifecycle!Init
  BY DEF Init, Lifecycle!Init
<1>2. IInv /\ OneWriter /\ [Next]_vars => [Lifecycle!Next]_(Lifecycle!vars)
  BY LifecycleStep
<1> QED
  BY <1>1, <1>2, OneWriterInvariance, PTL
     DEF Spec, ImplementsLifecycle, Lifecycle!Spec

\* With the stub off, a terminal status is final, as the handler's docstring
\* promises, although it checks the status and then writes it without a lock.
THEOREM TerminalStatusIsFinal ==
  ASSUME ~StubEnabled
  PROVE  Spec => TerminalIsFinal
<1>1. IInv /\ OneWriter /\ [Next]_vars
        => [\A r \in Runs : log[r] \in Outcomes => log'[r] = log[r]]_vars
  <2> SUFFICES ASSUME IInv, OneWriter, [Next]_vars,
                      NEW r \in Runs, log[r] \in Outcomes
               PROVE  log'[r] = log[r]
    OBVIOUS
  <2>1. ASSUME NEW s \in Runs, Lifecycle!Create(s) \/ Lifecycle!Execute(s)
        PROVE  log'[r] = log[r]
    BY <2>1 DEF Lifecycle!Create, Lifecycle!Execute, IInv, TypeOK, Outcomes
  <2>2. ASSUME NEW s \in Runs, Lifecycle!Close(s)
        PROVE  log'[r] = log[r]
    BY <2>2 DEF Lifecycle!Close, IInv, TypeOK, Outcomes
  <2>3. CASE UNCHANGED Lifecycle!vars
    BY <2>3 DEF Lifecycle!vars
  <2> QED
    BY <2>1, <2>2, <2>3, LifecycleStep DEF Lifecycle!Next
<1> QED
  BY <1>1, OneWriterInvariance, PTL DEF Spec, TerminalIsFinal
=============================================================================
