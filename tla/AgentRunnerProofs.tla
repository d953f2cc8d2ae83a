-------------------------- MODULE AgentRunnerProofs --------------------------
(***************************************************************************)
(* Theorems about AgentRunner, for any engines and any number of runs.     *)
(***************************************************************************)
EXTENDS AgentRunner, TLAPS

Last(log) == log[Len(log)]
HeadlessPhase == {"headless", "executing", "exited", "killed"}
BrokerPhase == {"broker", "probing", "login", "dispatching", "waiting"}

Chain(log) == \A i \in 1 .. Len(log) - 1 : Follows(log[i], log[i + 1])

Failure(a) == ~a.success /\ a.reason # None
Failed(log) == \A i \in 1 .. Len(log) : Failure(log[i])

\* Attempts there may be before those of the engine e.
Before(e) == IF e = Primary THEN 0 ELSE 2

\* A failure after which the secondary engine may be tried.
Leads(a) ==
  /\ a.engine = Primary
  /\ \/ a.reason \in ProviderToProvider
     \/ a.route = "headless" /\ a.reason \in HeadlessToBroker

\* The provider has tried nothing yet.
Fresh(e, log) ==
  /\ Len(log) <= Before(e)
  /\ log # <<>> => Leads(Last(log))

\* The provider has tried headless, and its broker is next.
Half(e, log) ==
  /\ log # <<>>
  /\ Len(log) <= Before(e) + 1
  /\ Last(log).engine = e
  /\ Last(log).route = "headless"
  /\ Last(log).reason \in HeadlessToBroker

\* The attempt that is validated claims success, and it is the only one.
Validated(e, log) ==
  /\ log # <<>>
  /\ Last(log).engine = e
  /\ Last(log).success /\ Last(log).reason = None
  /\ \A i \in 1 .. Len(log) - 1 : Failure(log[i])
  /\ Len(log) <= Before(e) + (IF Last(log).route = "headless" THEN 1 ELSE 2)

\* What the attempts of a run are at each of its stages.
Stage ==
  /\ pc \in HeadlessPhase => Fresh(engine, attempts) /\ Failed(attempts)
  /\ pc \in BrokerPhase =>
       (Fresh(engine, attempts) \/ Half(engine, attempts)) /\ Failed(attempts)
  /\ pc = "validating" => Validated(engine, attempts)
  /\ result # None => pc = "idle"

\* The part of TypeOK that an attempt can disturb.
CoreType ==
  /\ pc \in {"idle", "validating"} \cup HeadlessPhase \cup BrokerPhase
  /\ engine \in Engines
  /\ attempts \in Seq(Log) /\ Len(attempts) <= 4
  /\ result \in Result \cup {None}

Core == CoreType /\ Chain(attempts) /\ ResultAgrees /\ Stage

\* The rest of it.
World ==
  /\ run \in 0 .. MaxRuns
  /\ pc # "idle" => run # 0
  /\ relay \in Relay
  /\ file \in {"absent", "partial", "json"}
  /\ process \in [Engines -> {"none", "running", "orphan", "holding"}]
  /\ typed \in [Engines -> Seq(1 .. MaxRuns)]
  /\ printed \in [Engines -> BOOLEAN]
  /\ marker \in [Engines -> BOOLEAN]

\* The inductive invariant.
IInv == World /\ Core

-----------------------------------------------------------------------------
\* A provider that gives up with the attempts log and the reason has something to
\* hand over.
GaveUp(e, log, reason) ==
  /\ log \in Seq(Log)
  /\ Len(log) <= Before(e) + 2
  /\ Failed(log)
  /\ Chain(log)
  /\ reason \in FailureReason
  /\ e = Primary /\ reason \in ProviderToProvider /\ log # <<>> => Leads(Last(log))

\* None is none of the reasons.
LEMMA Reasons ==
  /\ None \notin FailureReason
  /\ HeadlessToBroker \subseteq FailureReason
  /\ ProviderToProvider \subseteq FailureReason
BY NoneAssumption DEF FailureReason, HeadlessToBroker, ProviderToProvider

\* A provider that gives up leaves the run to the secondary engine, or ends it with
\* a failure.
LEMMA ProviderStep ==
  ASSUME Core, result = None, NEW log, NEW reason,
         GaveUp(engine, log, reason), ProviderFails(log, reason)
  PROVE  Core'
<1> USE DEF Core, CoreType, GaveUp
<1>1. attempts' = log
  BY DEF ProviderFails
<1>2. Len(log) \in Nat /\ Before(engine) + 2 <= 4 /\ Len(log) <= 4
  BY DEF Before
<1>3. Chain(attempts)'
  BY <1>1 DEF Chain
<1>4. CASE engine = Primary /\ reason \in ProviderToProvider
  <2>1. engine' = Secondary /\ pc' = "headless" /\ result' = None
    BY <1>4 DEF ProviderFails
  <2>2. CoreType'
    BY <2>1, <1>1, <1>2 DEF Engines, HeadlessPhase
  <2>3. ResultAgrees'
    BY <2>1 DEF ResultAgrees
  <2>4. Before(Secondary) = 2 /\ Len(log) <= 2
    BY <1>4, EnginesAssumption DEF Before
  <2>5. Fresh(engine, attempts)' /\ Failed(attempts)'
    BY <2>1, <2>4, <1>1, <1>4 DEF Fresh, Failed, Last
  <2>6. Stage'
    BY <2>1, <2>5 DEF Stage, HeadlessPhase, BrokerPhase
  <2> QED BY <2>2, <2>3, <2>6, <1>3
<1>5. CASE ~(engine = Primary /\ reason \in ProviderToProvider)
  <2>1. /\ pc' = "idle" /\ engine' = engine
        /\ result' = [success |-> FALSE, reason |-> reason,
                      engine |-> IF Tried(log) THEN engine ELSE None,
                      route |-> IF Tried(log) THEN LastRoute(log) ELSE None]
    BY <1>5 DEF ProviderFails
  <2>2. log # <<>> => Last(log) \in Log
    BY <1>2 DEF Last
  <2>3. result' \in Result
    BY <2>1, <2>2 DEF Result, Tried, LastRoute, Last, Log
  <2>4. CoreType'
    BY <2>1, <2>3, <1>1, <1>2
  <2>5. ResultAgrees'
    BY <2>1, <1>1, Reasons DEF ResultAgrees, Failed, Failure
  <2>6. Stage'
    BY <2>1 DEF Stage, HeadlessPhase, BrokerPhase
  <2> QED BY <2>4, <2>5, <2>6, <1>3
<1> QED BY <1>4, <1>5

\* So does one whose headless attempt has failed, or its broker is next.
LEMMA HeadlessStep ==
  ASSUME Core, result = None, NEW log, NEW reason,
         GaveUp(engine, log, reason), HeadlessFails(log, reason),
         log # <<>>, Len(log) <= Before(engine) + 1,
         Last(log).engine = engine, Last(log).route = "headless",
         Last(log).reason = reason
  PROVE  Core'
<1>1. CASE reason \in HeadlessToBroker
  <2>1. pc' = "broker" /\ attempts' = log /\ engine' = engine /\ result' = None
    BY <1>1 DEF HeadlessFails
  <2>2. Len(log) \in Nat /\ Len(log) <= 4
    BY DEF GaveUp, Before
  <2>3. CoreType'
    BY <2>1, <2>2 DEF Core, CoreType, GaveUp, BrokerPhase
  <2>4. Chain(attempts)' /\ Failed(attempts)'
    BY <2>1 DEF GaveUp, Chain, Failed
  <2>5. Half(engine, attempts)'
    BY <2>1, <1>1 DEF Half, Last, Before
  <2>6. Stage' /\ ResultAgrees'
    BY <2>1, <2>4, <2>5 DEF Stage, ResultAgrees, HeadlessPhase, BrokerPhase
  <2> QED BY <2>3, <2>4, <2>6 DEF Core
<1>2. CASE reason \notin HeadlessToBroker
  BY <1>2, ProviderStep DEF HeadlessFails
<1> QED BY <1>1, <1>2

\* The log of an attempt by the route the policy has next continues the chain.
LEMMA LoggedStep ==
  ASSUME CoreType, Chain(attempts), Failed(attempts),
         NEW route \in Routes, NEW reason \in FailureReason \cup {None},
         \/ Fresh(engine, attempts)
         \/ route = "broker" /\ Half(engine, attempts)
  PROVE  LET log == Logged(route, reason) IN
         /\ log \in Seq(Log) /\ log # <<>>
         /\ Len(log) = Len(attempts) + 1
         /\ Len(log) <= Before(engine) + (IF route = "headless" THEN 1 ELSE 2)
         /\ Chain(log)
         /\ \A i \in 1 .. Len(log) - 1 : Failure(log[i])
         /\ Last(log).engine = engine /\ Last(log).route = route
         /\ Last(log).reason = reason
         /\ Last(log).success <=> reason = None
<1> DEFINE entry == [engine |-> engine, route |-> route, success |-> reason = None,
                     reason |-> reason]
           log == Logged(route, reason)
<1>1. entry \in Log
  BY DEF CoreType, Log
<1>2. log = Append(attempts, entry)
  BY DEF Logged
<1> HIDE DEF entry
<1>3. attempts \in Seq(Log) /\ Len(attempts) \in Nat
  BY DEF CoreType
<1>4. /\ log \in Seq(Log) /\ Len(log) = Len(attempts) + 1
      /\ \A i \in 1 .. Len(attempts) : log[i] = attempts[i]
      /\ log[Len(attempts) + 1] = entry
  BY <1>1, <1>2, <1>3
<1> HIDE DEF log
<1>5. Last(log) = entry /\ log # <<>>
  BY <1>3, <1>4 DEF Last
<1>6. \A i \in 1 .. Len(log) - 1 : Failure(log[i])
  BY <1>3, <1>4 DEF Failed
<1>7. Len(log) <= Before(engine) + (IF route = "headless" THEN 1 ELSE 2)
  BY <1>3, <1>4 DEF Fresh, Half, Before
<1>8. Chain(log)
  <2> SUFFICES ASSUME NEW i \in 1 .. Len(log) - 1
               PROVE  Follows(log[i], log[i + 1])
    BY DEF Chain
  <2>1. CASE i < Len(attempts)
    BY <2>1, <1>3, <1>4 DEF Chain
  <2>2. CASE i = Len(attempts)
    <3>1. attempts # <<>> /\ log[i] = Last(attempts) /\ log[i + 1] = entry
      BY <2>2, <1>3, <1>4 DEF Last
    <3>2. CASE Fresh(engine, attempts)
      <4>1. Len(attempts) > 0 /\ Leads(Last(attempts))
        BY <3>1, <3>2, <1>3 DEF Fresh
      <4>2. engine = Secondary
        BY <4>1, <3>2, <1>3 DEF Fresh, Before, CoreType, Engines
      <4> QED BY <4>1, <4>2, <3>1 DEF Follows, Leads, entry
    <3>3. CASE route = "broker" /\ Half(engine, attempts)
      BY <3>1, <3>3 DEF Follows, Half, entry
    <3> QED BY <3>2, <3>3
  <2> QED BY <2>1, <2>2, <1>3, <1>4
<1>9. /\ Last(log).engine = engine /\ Last(log).route = route
      /\ Last(log).reason = reason
  BY <1>5 DEF entry
<1>10. Last(log).success <=> reason = None
  <2>1. entry.success = (reason = None)
    BY DEF entry
  <2> QED BY <2>1, <1>5
<1> QED BY <1>4, <1>5, <1>6, <1>7, <1>8, <1>9, <1>10 DEF log

\* A failed attempt, logged: the provider may give up with it.
LEMMA LoggedGivesUp ==
  ASSUME CoreType, Chain(attempts), Failed(attempts),
         NEW route \in Routes, NEW reason \in FailureReason,
         \/ Fresh(engine, attempts)
         \/ route = "broker" /\ Half(engine, attempts)
  PROVE  GaveUp(engine, Logged(route, reason), reason)
<1> DEFINE log == Logged(route, reason)
<1>1. /\ log \in Seq(Log) /\ log # <<>>
      /\ Len(log) <= Before(engine) + (IF route = "headless" THEN 1 ELSE 2)
      /\ Chain(log)
      /\ \A i \in 1 .. Len(log) - 1 : Failure(log[i])
      /\ Last(log).engine = engine /\ Last(log).reason = reason
      /\ Last(log).success <=> reason = None
  BY LoggedStep
<1> HIDE DEF log
<1>2. Len(log) \in Nat /\ Before(engine) \in {0, 2}
  BY <1>1 DEF Before
<1>3. Failure(Last(log))
  BY <1>1, Reasons DEF Failure
<1>4. Failed(log)
  BY <1>1, <1>2, <1>3 DEF Failed, Last
<1>5. engine = Primary /\ reason \in ProviderToProvider => Leads(Last(log))
  BY <1>1 DEF Leads
<1> QED BY <1>1, <1>2, <1>4, <1>5 DEF GaveUp, log

-----------------------------------------------------------------------------
\* A step of the run that leaves attempts, engine and result alone and stays in its
\* phase, or goes from headless to the broker.
LEMMA Onward ==
  ASSUME Core, UNCHANGED <<attempts, engine, result>>,
         \/ pc \in HeadlessPhase /\ pc' \in HeadlessPhase \cup BrokerPhase
         \/ pc \in BrokerPhase /\ pc' \in BrokerPhase
  PROVE  Core'
BY DEF Core, CoreType, Chain, ResultAgrees, LastEngine, LastRoute, Stage, Fresh, Half,
       Failed, Last, Before, HeadlessPhase, BrokerPhase

\* A step that leaves the run alone.
LEMMA Elsewhere ==
  ASSUME Core, UNCHANGED <<pc, attempts, engine, result>>
  PROVE  Core'
BY DEF Core, CoreType, Chain, ResultAgrees, LastEngine, LastRoute, Stage, Fresh, Half,
       Validated, Failed, Last, Before

\* While the run is on, there is no result.
LEMMA OnTheRun ==
  ASSUME Core, pc # "idle"
  PROVE  result = None
BY DEF Core, Stage
\* A failed headless attempt, by any reason.
LEMMA HeadlessLost ==
  ASSUME Core, pc \in HeadlessPhase, NEW reason \in FailureReason,
         HeadlessFails(Logged("headless", reason), reason)
  PROVE  Core'
<1> DEFINE log == Logged("headless", reason)
<1>1. Fresh(engine, attempts) /\ Failed(attempts) /\ result = None
  BY OnTheRun DEF Core, Stage, HeadlessPhase
<1>2. "headless" \in Routes
  BY DEF Routes
<1>3. /\ log # <<>>
      /\ Len(log) <= Before(engine) + 1
      /\ Last(log).engine = engine /\ Last(log).route = "headless"
      /\ Last(log).reason = reason
  BY <1>1, <1>2, LoggedStep DEF Core
<1>4. GaveUp(engine, log, reason)
  BY <1>1, <1>2, LoggedGivesUp DEF Core
<1> QED BY <1>1, <1>3, <1>4, HeadlessStep

\* A failed broker attempt, by any reason.
LEMMA BrokerLost ==
  ASSUME Core, pc \in BrokerPhase, NEW reason \in FailureReason,
         ProviderFails(Logged("broker", reason), reason)
  PROVE  Core'
<1>1. /\ Fresh(engine, attempts) \/ Half(engine, attempts)
      /\ Failed(attempts) /\ result = None
  BY OnTheRun DEF Core, Stage, BrokerPhase
<1>2. "broker" \in Routes
  BY DEF Routes
<1>3. GaveUp(engine, Logged("broker", reason), reason)
  BY <1>1, <1>2, LoggedGivesUp DEF Core
<1> QED BY <1>1, <1>3, ProviderStep

\* An attempt that claims success goes to the validator.
LEMMA ToValidation ==
  ASSUME Core, NEW route \in Routes,
         \/ route = "headless" /\ pc \in HeadlessPhase
         \/ route = "broker" /\ pc \in BrokerPhase,
         attempts' = Logged(route, None), pc' = "validating",
         UNCHANGED <<engine, result>>
  PROVE  Core'
<1> DEFINE log == Logged(route, None)
<1>1. /\ Fresh(engine, attempts) \/ (route = "broker" /\ Half(engine, attempts))
      /\ Failed(attempts) /\ result = None
  BY OnTheRun DEF Core, Stage, HeadlessPhase, BrokerPhase
<1>2. /\ log \in Seq(Log) /\ log # <<>>
      /\ Len(log) <= Before(engine) + (IF route = "headless" THEN 1 ELSE 2)
      /\ Chain(log)
      /\ \A i \in 1 .. Len(log) - 1 : Failure(log[i])
      /\ Last(log).engine = engine /\ Last(log).route = route
      /\ Last(log).reason = None
      /\ Last(log).success <=> None = None
  BY <1>1, LoggedStep DEF Core
<1> HIDE DEF log
<1>3. attempts' = log
  BY DEF log
<1>4. Len(log) \in Nat /\ Len(log) <= 4
  BY <1>2 DEF Before
<1>5. CoreType'
  BY <1>2, <1>3, <1>4 DEF Core, CoreType
<1>6. Validated(engine, attempts)'
  BY <1>2, <1>3 DEF Validated, Last, Before
<1>7. Chain(attempts)'
  BY <1>2, <1>3 DEF Chain
<1>8. ResultAgrees'
  BY <1>1 DEF ResultAgrees
<1>9. Stage'
  BY <1>1, <1>6 DEF Stage, HeadlessPhase, BrokerPhase
<1> QED BY <1>5, <1>7, <1>8, <1>9 DEF Core

-----------------------------------------------------------------------------
\* The validator takes the artifact: the last attempt is the one that succeeded.
LEMMA AcceptStep ==
  ASSUME Core, Accept
  PROVE  Core'
<1>1. /\ pc' = "idle" /\ UNCHANGED <<attempts, engine>>
      /\ result' = [success |-> TRUE, reason |-> None, engine |-> engine,
                    route |-> LastRoute(attempts)]
      /\ Validated(engine, attempts)
  BY DEF Accept, Core, Stage
<1>2. attempts \in Seq(Log) /\ Len(attempts) \in Nat \ {0} /\ engine \in Engines
  BY <1>1 DEF Core, CoreType, Validated
<1>3. Last(attempts) \in Log
  BY <1>2 DEF Last
<1>4. result' \in Result
  BY <1>1, <1>2, <1>3 DEF Result, LastRoute, Last, Log
<1>5. CoreType' /\ Chain(attempts)'
  BY <1>1, <1>4 DEF Core, CoreType, Chain
<1>6. \A i \in 1 .. Len(attempts) : attempts[i].success <=> i = Len(attempts)
  BY <1>1, <1>2 DEF Validated, Failure, Last
<1>7. ResultAgrees'
  <2>1. result'.success /\ result'.reason = None
    BY <1>1
  <2>2. \A i \in 1 .. Len(attempts') :
          attempts'[i].success <=> result'.success /\ i = Len(attempts')
    BY <1>1, <1>6, <2>1
  <2>3. attempts' # <<>> /\ LastEngine(attempts') = result'.engine
        /\ LastRoute(attempts') = result'.route
    BY <1>1 DEF Validated, LastEngine, LastRoute, Last
  <2> QED BY <2>1, <2>2, <2>3 DEF ResultAgrees
<1>8. Stage'
  BY <1>1 DEF Stage, HeadlessPhase, BrokerPhase
<1> QED BY <1>5, <1>7, <1>8 DEF Core

\* The validator refuses it: the log no longer claims success.
LEMMA RejectStep ==
  ASSUME Core, Reject
  PROVE  Core'
<1> DEFINE reason == IF Written \/ relay.object \/ relay.sentinel
                       THEN "artifact_invalid" ELSE "sentinel_not_observed"
           log == Rejected(reason)
           n == Len(attempts)
<1>1. /\ pc = "validating" /\ result = None
      /\ AttemptFails(LastRoute(attempts), log, reason)
      /\ Validated(engine, attempts)
  BY OnTheRun DEF Reject, Core, Stage
<1>2. reason \in FailureReason /\ reason # None
  BY Reasons DEF FailureReason
<1> HIDE DEF reason
<1>3. attempts \in Seq(Log) /\ n \in Nat \ {0} /\ engine \in Engines
  BY <1>1 DEF Core, CoreType, Validated
<1>4. attempts[n] \in Log
  BY <1>3
<1> DEFINE entry == [attempts[n] EXCEPT !.success = FALSE, !.reason = reason]
<1>A. /\ entry \in Log
      /\ entry.engine = attempts[n].engine /\ entry.route = attempts[n].route
      /\ entry.reason = reason /\ ~entry.success
  BY <1>2, <1>4 DEF Log
<1>B. log = [attempts EXCEPT ![n] = entry]
  BY <1>3, <1>4 DEF Rejected
<1> HIDE DEF entry, log
<1>5. /\ log \in Seq(Log) /\ Len(log) = n /\ log # <<>>
      /\ \A i \in 1 .. n : log[i] = IF i = n THEN entry ELSE attempts[i]
  BY <1>3, <1>A, <1>B
<1>6. /\ Last(log) = entry
      /\ Last(log).engine = engine /\ Last(log).route = LastRoute(attempts)
      /\ Last(log).reason = reason /\ Failure(Last(log))
  BY <1>1, <1>2, <1>3, <1>5, <1>A DEF Last, LastRoute, Validated, Failure
<1>7. Failed(log)
  BY <1>1, <1>3, <1>5, <1>6 DEF Failed, Validated, Last
<1>8. Chain(log)
  <2> SUFFICES ASSUME NEW i \in 1 .. Len(log) - 1
               PROVE  Follows(log[i], log[i + 1])
    BY DEF Chain
  <2>1. Follows(attempts[i], attempts[i + 1])
    BY <1>3, <1>5 DEF Core, Chain
  <2>2. log[i] = attempts[i]
    BY <1>3, <1>5
  <2>3. /\ log[i + 1].engine = attempts[i + 1].engine
        /\ log[i + 1].route = attempts[i + 1].route
    BY <1>3, <1>5, <1>A
  <2> QED BY <2>1, <2>2, <2>3 DEF Follows
<1>9. /\ Len(log) <= Before(engine) + 2
      /\ LastRoute(attempts) = "headless" => Len(log) <= Before(engine) + 1
  BY <1>1, <1>3, <1>5 DEF Validated, LastRoute, Last, Before
<1>10. GaveUp(engine, log, reason)
  BY <1>2, <1>5, <1>6, <1>7, <1>8, <1>9 DEF GaveUp, Leads
<1>11. CASE LastRoute(attempts) = "headless"
  BY <1>1, <1>5, <1>6, <1>9, <1>10, <1>11, HeadlessStep DEF AttemptFails
<1>12. CASE LastRoute(attempts) # "headless"
  BY <1>1, <1>10, <1>12, ProviderStep DEF AttemptFails
<1> QED BY <1>11, <1>12

\* The headless process has ended of itself.
LEMMA ExitStep ==
  ASSUME Core, HeadlessExit
  PROVE  Core'
<1>1. pc \in HeadlessPhase
  BY DEF HeadlessExit, HeadlessPhase
<1>2. PICK text \in {"login_required", "quota_exceeded", "interactive_mode_detected", None},
           failed \in BOOLEAN, printing \in Relay :
        LET reason == Classified(text, failed, printing.sentinel) IN
          IF reason = None
            THEN /\ attempts' = Logged("headless", None)
                 /\ relay' = printing
                 /\ pc' = "validating"
                 /\ UNCHANGED <<engine, result>>
            ELSE /\ HeadlessFails(Logged("headless", reason), reason)
                 /\ UNCHANGED relay
  BY DEF HeadlessExit
<1> DEFINE reason == Classified(text, failed, printing.sentinel)
<1>3. reason \in FailureReason \cup {None}
  BY DEF Classified, FailureReason
<1>4. CASE reason = None
  <2>1. "headless" \in Routes
    BY DEF Routes
  <2> QED BY <1>1, <1>2, <1>4, <2>1, ToValidation
<1>5. CASE reason # None
  BY <1>1, <1>2, <1>3, <1>5, HeadlessLost
<1> QED BY <1>4, <1>5

\* wait_for_sentinel has returned.
LEMMA WaitStep ==
  ASSUME Core, NEW observed \in BOOLEAN, pc = "waiting", StopsWaiting(observed)
  PROVE  Core'
<1>1. pc \in BrokerPhase
  BY DEF BrokerPhase
<1>2. CASE ~observed /\ ~Written
  BY <1>1, <1>2, BrokerLost DEF StopsWaiting, FailureReason
<1>3. CASE ~(~observed /\ ~Written)
  <2>1. attempts' = Logged("broker", None) /\ pc' = "validating" /\ UNCHANGED <<engine, result>>
    BY <1>3 DEF StopsWaiting
  <2>2. "broker" \in Routes
    BY DEF Routes
  <2> QED BY <1>1, <2>1, <2>2, ToValidation
<1> QED BY <1>2, <1>3

\* The broker is not there: the provider gives up with what it has.
LEMMA UnavailableStep ==
  ASSUME Core, BrokerUnavailable
  PROVE  Core'
<1>1. /\ Fresh(engine, attempts) \/ Half(engine, attempts)
      /\ Failed(attempts) /\ result = None
  BY OnTheRun DEF BrokerUnavailable, Core, Stage, BrokerPhase
<1>2. attempts # <<>> /\ engine = Primary => Leads(Last(attempts))
  BY <1>1 DEF Fresh, Half, Leads
<1>3. Len(attempts) \in Nat /\ Len(attempts) <= Before(engine) + 2
  BY <1>1 DEF Fresh, Half, Before, Core, CoreType
<1>4. GaveUp(engine, attempts, "broker_unavailable")
  BY <1>1, <1>2, <1>3 DEF GaveUp, Core, CoreType, FailureReason
<1> QED BY <1>1, <1>4, ProviderStep DEF BrokerUnavailable

-----------------------------------------------------------------------------
\* What is not part of the attempts keeps its type.
LEMMA WorldStep ==
  ASSUME IInv, [Next]_vars
  PROVE  World'
<1> USE DEF IInv, World
<1>1. CASE UNCHANGED vars
  BY <1>1 DEF vars
<1>2. CASE TakeRun
  BY <1>2, RunsAssumption DEF TakeRun, NoRelay, Relay, sessionVars
<1>3. CASE Headless
  BY <1>3 DEF Headless, HeadlessUnavailable, HeadlessMissing, HeadlessStart, HeadlessEnds,
              HeadlessExit, HeadlessTimeout, sessionVars
<1>4. CASE Broker
  <2>1. CASE Dispatch
    <3>1. /\ run \in 1 .. MaxRuns /\ engine \in Engines
          /\ typed' = [typed EXCEPT ![engine] = Append(@, run)]
          /\ UNCHANGED <<run, relay, file, process, printed, marker>>
      BY <2>1 DEF Dispatch, Core, CoreType
    <3>2. typed' \in [Engines -> Seq(1 .. MaxRuns)]
      BY <3>1
    <3> QED BY <3>1, <3>2
  <2>2. CASE Broker /\ ~Dispatch
    BY <2>2 DEF Broker, BrokerUnavailable, SessionFails, Probe, ProbeFails, RequestLogin,
                LoginConfirmed, LoginTimeout, SentinelSeen, WaitTimeout, StopsWaiting,
                sessionVars
  <2> QED BY <1>4, <2>1, <2>2
<1>5. CASE Accept
  BY <1>5 DEF Accept, NoRelay, Relay, sessionVars
<1>6. CASE Reject
  <2>1. /\ relay' = NoRelay /\ run # 0
        /\ UNCHANGED <<run, file, process, typed, printed, marker>>
    BY <1>6 DEF Reject, sessionVars
  <2>2. NoRelay \in Relay
    BY DEF NoRelay, Relay
  <2> QED BY <2>1, <2>2
<1>7. ASSUME NEW e \in Engines, Agent(e) \/ LoginConfirm(e)
      PROVE  World'
  <2>1. CASE AgentWrites(e) \/ SessionWrites(e)
    BY <2>1 DEF AgentWrites, SessionWrites, runVars, sessionVars
  <2>2. CASE OrphanEnds(e)
    BY <2>2 DEF OrphanEnds, runVars, sessionVars
  <2>3. CASE SessionPrints(e)
    BY <2>3 DEF SessionPrints, runVars
  <2>4. CASE SessionEnds(e)
    <3>1. typed' \in [Engines -> Seq(1 .. MaxRuns)]
      BY <2>4 DEF SessionEnds
    <3> QED BY <2>4, <3>1 DEF SessionEnds, runVars
  <2>5. CASE LoginConfirm(e)
    BY <2>5 DEF LoginConfirm, runVars, sessionVars
  <2> QED BY <1>7, <2>1, <2>2, <2>3, <2>4, <2>5 DEF Agent
<1> QED BY <1>1, <1>2, <1>3, <1>4, <1>5, <1>6, <1>7 DEF Next, Runner

\* Every step of the run leaves attempts, engine and result as the stage requires.
LEMMA CoreStep ==
  ASSUME IInv, [Next]_vars
  PROVE  Core'
<1>0. Core
  BY DEF IInv
<1>1. CASE UNCHANGED vars
  BY <1>0, <1>1, Elsewhere DEF vars
<1>2. CASE TakeRun
  BY <1>2, EnginesAssumption
     DEF TakeRun, Core, CoreType, Chain, ResultAgrees, Stage, Fresh, Failed, Before, Engines,
         HeadlessPhase, BrokerPhase
<1>3. CASE HeadlessUnavailable \/ HeadlessStart \/ HeadlessEnds
  BY <1>0, <1>3, Onward DEF HeadlessUnavailable, HeadlessStart, HeadlessEnds,
     HeadlessPhase, BrokerPhase
<1>4. CASE HeadlessMissing \/ HeadlessTimeout
  BY <1>0, <1>4, HeadlessLost DEF HeadlessMissing, HeadlessTimeout, HeadlessPhase, FailureReason
<1>5. CASE HeadlessExit
  BY <1>0, <1>5, ExitStep
<1>6. CASE BrokerUnavailable
  BY <1>0, <1>6, UnavailableStep
<1>7. CASE SessionFails \/ ProbeFails \/ LoginTimeout
  BY <1>0, <1>7, BrokerLost DEF SessionFails, ProbeFails, LoginTimeout, BrokerPhase,
     FailureReason
<1>8. CASE Probe \/ RequestLogin \/ LoginConfirmed \/ Dispatch
  BY <1>0, <1>8, Onward DEF Probe, RequestLogin, LoginConfirmed, Dispatch,
     HeadlessPhase, BrokerPhase
<1>9. CASE SentinelSeen \/ WaitTimeout
  BY <1>0, <1>9, WaitStep DEF SentinelSeen, WaitTimeout
<1>10. CASE Accept
  BY <1>0, <1>10, AcceptStep
<1>11. CASE Reject
  BY <1>0, <1>11, RejectStep
<1>12. ASSUME NEW e \in Engines, Agent(e) \/ LoginConfirm(e)
       PROVE  Core'
  BY <1>0, <1>12, Elsewhere DEF Agent, AgentWrites, OrphanEnds, SessionWrites, SessionPrints,
     SessionEnds, LoginConfirm, runVars
<1> QED BY <1>1, <1>2, <1>3, <1>4, <1>5, <1>6, <1>7, <1>8, <1>9, <1>10, <1>11, <1>12
        DEF Next, Runner, Headless, Broker

\* A worker starts idle, with nothing tried.
LEMMA Initially ==
  ASSUME Init
  PROVE  IInv
BY RunsAssumption, EnginesAssumption
   DEF Init, IInv, World, Core, CoreType, Chain, ResultAgrees, Stage, NoRelay, Relay, Engines,
       HeadlessPhase, BrokerPhase

\* The inductive invariant of the runner.
THEOREM Invariant == Spec => []IInv
<1>1. Init => IInv
  BY Initially
<1>2. IInv /\ [Next]_vars => IInv'
  BY WorldStep, CoreStep DEF IInv
<1> QED BY <1>1, <1>2, PTL DEF Spec

\* Every variable keeps its type: in particular a run makes four attempts at most.
THEOREM TypeCorrect == Spec => []TypeOK
<1>1. IInv => TypeOK
  BY DEF IInv, World, Core, CoreType, TypeOK, HeadlessPhase, BrokerPhase
<1> QED BY <1>1, Invariant, PTL

\* A result and the attempts that it carries agree, whatever agents and sessions do
\* to the file in the meantime.
THEOREM ResultsAgree == Spec => []ResultAgrees
<1>1. IInv => ResultAgrees
  BY DEF IInv, Core
<1> QED BY <1>1, Invariant, PTL

\* The attempts of a run are a chain of the policy.
THEOREM PolicyIsFollowed == Spec => []PolicyFollowed
<1>1. IInv => PolicyFollowed
  BY DEF IInv, Core, Chain, PolicyFollowed
<1> QED BY <1>1, Invariant, PTL
=============================================================================
