---------------------------- MODULE AgentRunner ----------------------------
(***************************************************************************)
(* What a worker does with one job after the other: AgentRunner tries the  *)
(* primary and then the secondary engine, a provider its headless and then *)
(* its broker route, and ArtifactValidator decides on what an agent leaves *)
(* in output_path (jump_agent_runner).                                     *)
(*                                                                         *)
(* A headless agent is a subprocess under a hard timeout: a kill reaches   *)
(* the process only, and what it has started may go on writing, with or    *)
(* without the pipes that the runner reads to their end.  The broker types *)
(* commands into a tmux session per engine which outlives the runs: a      *)
(* command that has timed out goes on, and the next ones wait behind it.   *)
(*                                                                         *)
(* What wsl, tmux and the engines answer is free: an engine counts as      *)
(* logged in or not as the session happens to look.  An exception that     *)
(* leaves runner.run ends the worker (its death is in AgentJobs).  The     *)
(* observer, the texts of prompts and of continuation hints, and headless  *)
(* agents that outlive their run are left out: they write to the file of   *)
(* their own run.                                                          *)
(***************************************************************************)
EXTENDS Naturals, Sequences

CONSTANTS
  Primary,     \* engine of the first provider
  Secondary,   \* engine of the second one
  None,        \* no reason, no engine, no route
  MaxRuns      \* bound: jobs the worker takes

Engines == {Primary, Secondary}
Routes == {"headless", "broker"}
FailureReason == {"login_required", "quota_exceeded", "interactive_mode_detected",
  "timeout_no_artifact", "execution_error", "sentinel_not_observed",
  "artifact_invalid", "broker_unavailable"}

ASSUME EnginesAssumption == Primary # Secondary
ASSUME NoneAssumption == None \notin FailureReason \cup Routes \cup Engines
ASSUME RunsAssumption == MaxRuns \in Nat

\* policy.py
HeadlessToBroker == {"login_required", "interactive_mode_detected",
  "timeout_no_artifact", "execution_error"}
ProviderToProvider == {"quota_exceeded", "login_required", "sentinel_not_observed",
  "artifact_invalid", "broker_unavailable"}

VARIABLES
  run,        \* runs taken so far: the last one is the current one
  pc,         \* where the current run is, "idle" between two of them
  engine,     \* of the provider at work
  attempts,   \* the AttemptLogs of the run
  relay,      \* what the attempt that is validated has printed
  result,     \* the AgentResult of the last run
  file,       \* output_path of the current run
  process,    \* process[e]: the headless agent of the current run
  typed,      \* typed[e]: runs whose command is in the session e, the first one running
  printed,    \* printed[e]: the sentinel of the current run is in the scrollback of e
  marker      \* marker[e]: the file login-pending-{engine} exists

runVars == <<run, pc, engine, attempts, relay, result>>
sessionVars == <<typed, printed>>
vars == <<run, pc, engine, attempts, relay, result, file, process, typed, printed, marker>>

Log == [engine : Engines, route : Routes, success : BOOLEAN,
        reason : FailureReason \cup {None}]
Result == [success : BOOLEAN, engine : Engines \cup {None},
           route : Routes \cup {None}, reason : FailureReason \cup {None}]
Relay == [sentinel : BOOLEAN, object : BOOLEAN]

TypeOK ==
  /\ run \in 0 .. MaxRuns
  /\ pc \in {"idle", "headless", "executing", "exited", "killed", "validating",
             "broker", "probing", "login", "dispatching", "waiting"}
  /\ engine \in Engines
  /\ attempts \in Seq(Log) /\ Len(attempts) <= 4
  /\ relay \in Relay
  /\ result \in Result \cup {None}
  /\ file \in {"absent", "partial", "json"}
  /\ process \in [Engines -> {"none", "running", "orphan", "holding"}]
  /\ typed \in [Engines -> Seq(1 .. MaxRuns)]
  /\ printed \in [Engines -> BOOLEAN]
  /\ marker \in [Engines -> BOOLEAN]

NoRelay == [sentinel |-> FALSE, object |-> FALSE]

Init ==
  /\ run = 0
  /\ pc = "idle"
  /\ engine = Primary
  /\ attempts = <<>>
  /\ relay = NoRelay
  /\ result = None
  /\ file = "absent"
  /\ process = [e \in Engines |-> "none"]
  /\ typed = [e \in Engines |-> <<>>]
  /\ printed = [e \in Engines |-> FALSE]
  /\ marker = [e \in Engines |-> FALSE]

-----------------------------------------------------------------------------
(* Attempts and their consequences.                                        *)

Logged(route, reason) ==
  Append(attempts, [engine |-> engine, route |-> route, success |-> reason = None,
                    reason |-> reason])
LastRoute(log) == log[Len(log)].route
LastEngine(log) == log[Len(log)].engine

\* The provider has tried something, of which its result tells the last route.
Tried(log) == log # <<>> /\ LastEngine(log) = engine

\* Mutant of ProviderFails: the secondary provider fails over as well.
ProviderFailsOver(log, reason) ==
  /\ attempts' = log
  /\ IF reason \in ProviderToProvider
       THEN engine' = Secondary /\ pc' = "headless" /\ UNCHANGED result
       ELSE /\ pc' = "idle"
            /\ result' = [success |-> FALSE, reason |-> reason,
                          engine |-> IF Tried(log) THEN engine ELSE None,
                          route |-> IF Tried(log) THEN LastRoute(log) ELSE None]
            /\ UNCHANGED engine

\* A provider gives up: the runner goes on to the secondary one or returns.
ProviderFails(log, reason) ==
  /\ attempts' = log
  /\ IF engine = Primary /\ reason \in ProviderToProvider
       THEN engine' = Secondary /\ pc' = "headless" /\ UNCHANGED result
       ELSE /\ pc' = "idle"
            /\ result' = [success |-> FALSE, reason |-> reason,
                          engine |-> IF Tried(log) THEN engine ELSE None,
                          route |-> IF Tried(log) THEN LastRoute(log) ELSE None]
            /\ UNCHANGED engine

\* Mutant of HeadlessFails: the broker is tried whatever the reason.
HeadlessFailsAnyhow(log, reason) ==
  /\ pc' = "broker"
  /\ attempts' = log
  /\ UNCHANGED <<engine, result>>

\* The headless attempt has failed: the broker is next, or the provider gives up.
HeadlessFails(log, reason) ==
  IF reason \in HeadlessToBroker
    THEN /\ pc' = "broker"
         /\ attempts' = log
         /\ UNCHANGED <<engine, result>>
    ELSE ProviderFails(log, reason)

AttemptFails(route, log, reason) ==
  IF route = "headless" THEN HeadlessFails(log, reason) ELSE ProviderFails(log, reason)

Written == file # "absent"

-----------------------------------------------------------------------------
(* The headless route.                                                     *)

TakeRun ==
  /\ pc = "idle"
  /\ run < MaxRuns
  /\ run' = run + 1
  /\ pc' = "headless"
  /\ engine' = Primary
  /\ attempts' = <<>>
  /\ relay' = NoRelay
  /\ result' = None
  /\ file' = "absent"
  /\ process' = [e \in Engines |-> "none"]
  /\ printed' = [e \in Engines |-> FALSE]
  /\ UNCHANGED <<typed, marker>>

\* is_available refuses: straight to the broker.
HeadlessUnavailable ==
  /\ pc = "headless"
  /\ pc' = "broker"
  /\ UNCHANGED <<run, engine, attempts, relay, result, file, process,
                 sessionVars, marker>>

\* The executable has gone since is_available.
HeadlessMissing ==
  /\ pc = "headless"
  /\ HeadlessFails(Logged("headless", "broker_unavailable"), "broker_unavailable")
  /\ UNCHANGED <<run, relay, file, process, sessionVars, marker>>

HeadlessStart ==
  /\ pc = "headless"
  /\ process' = [process EXCEPT ![engine] = "running"]
  /\ pc' = "executing"
  /\ UNCHANGED <<run, engine, attempts, relay, result, file, sessionVars, marker>>

\* _classify_failure: what is printed goes before the exit code, and both go
\* before the sentinel and the file.
Classified(text, failed, sentinel) ==
  CASE text # None -> text
    [] text = None /\ failed -> "execution_error"
    [] text = None /\ ~failed /\ ~sentinel /\ ~Written -> "sentinel_not_observed"
    [] OTHER -> None

\* The process ends, or is killed at the deadline; what it has started is on its own.
HeadlessEnds ==
  /\ pc = "executing"
  /\ \E left \in {"none", "orphan", "holding"} :
       process' = [process EXCEPT ![engine] = left]
  /\ pc' \in {"exited", "killed"}
  /\ UNCHANGED <<run, engine, attempts, relay, result, file, sessionVars, marker>>

\* The pipes have been read to their end.
Drained == process[engine] # "holding"

HeadlessExit ==
  /\ pc = "exited"
  /\ Drained
  /\ \E text \in {"login_required", "quota_exceeded", "interactive_mode_detected", None},
        failed \in BOOLEAN, printing \in Relay :
       LET reason == Classified(text, failed, printing.sentinel) IN
         IF reason = None
           THEN /\ attempts' = Logged("headless", None)
                /\ relay' = printing
                /\ pc' = "validating"
                /\ UNCHANGED <<engine, result>>
           ELSE /\ HeadlessFails(Logged("headless", reason), reason)
                /\ UNCHANGED relay
  /\ UNCHANGED <<run, file, process, sessionVars, marker>>

HeadlessTimeout ==
  /\ pc = "killed"
  /\ Drained
  /\ HeadlessFails(Logged("headless", "timeout_no_artifact"), "timeout_no_artifact")
  /\ UNCHANGED <<run, relay, file, process, sessionVars, marker>>

-----------------------------------------------------------------------------
(* The broker route.                                                       *)

\* ensure_ready fails: the provider gives up with no log of the broker.
BrokerUnavailable ==
  /\ pc = "broker"
  /\ ProviderFails(attempts, "broker_unavailable")
  /\ UNCHANGED <<run, relay, file, process, sessionVars, marker>>

\* The session cannot be created.
SessionFails ==
  /\ pc = "broker"
  /\ ProviderFails(Logged("broker", "broker_unavailable"), "broker_unavailable")
  /\ UNCHANGED <<run, relay, file, process, sessionVars, marker>>

\* is_logged_in: the probe is typed, and the scrollback read a little later.
Probe ==
  /\ pc = "broker"
  /\ pc' \in {"probing", "dispatching"}
  /\ UNCHANGED <<run, engine, attempts, relay, result, file, process, sessionVars, marker>>

ProbeFails ==
  /\ pc = "broker"
  /\ ProviderFails(Logged("broker", "execution_error"), "execution_error")
  /\ UNCHANGED <<run, relay, file, process, sessionVars, marker>>

\* request_user_login.
RequestLogin ==
  /\ pc = "probing"
  /\ pc' = "login"
  /\ marker' = [marker EXCEPT ![engine] = TRUE]
  /\ UNCHANGED <<run, engine, attempts, relay, result, file, process, sessionVars>>

LoginConfirmed ==
  /\ pc = "login"
  /\ ~marker[engine]
  /\ pc' = "dispatching"
  /\ UNCHANGED <<run, engine, attempts, relay, result, file, process, sessionVars, marker>>

\* Mutant of LoginTimeout: the login is awaited for good.
LoginAwaited ==
  /\ pc = "login"
  /\ FALSE
  /\ UNCHANGED vars

\* No confirmation seen in time, though one may have come since; the file stays.
LoginTimeout ==
  /\ pc = "login"
  /\ ProviderFails(Logged("broker", "login_required"), "login_required")
  /\ UNCHANGED <<run, relay, file, process, sessionVars, marker>>

Dispatch ==
  /\ pc = "dispatching"
  /\ typed' = [typed EXCEPT ![engine] = Append(@, run)]
  /\ pc' = "waiting"
  /\ UNCHANGED <<run, engine, attempts, relay, result, file, process, printed, marker>>

\* wait_for_sentinel returns: an attempt with neither sentinel nor file has failed.
StopsWaiting(observed) ==
  /\ IF ~observed /\ ~Written
       THEN /\ ProviderFails(Logged("broker", "timeout_no_artifact"), "timeout_no_artifact")
            /\ UNCHANGED relay
       ELSE /\ attempts' = Logged("broker", None)
            /\ relay' \in {r \in Relay : r.sentinel = observed}
            /\ pc' = "validating"
            /\ UNCHANGED <<engine, result>>
  /\ UNCHANGED <<run, file, process, sessionVars, marker>>

SentinelSeen ==
  /\ pc = "waiting"
  /\ printed[engine]
  /\ StopsWaiting(TRUE)

WaitTimeout ==
  /\ pc = "waiting"
  /\ StopsWaiting(FALSE)

-----------------------------------------------------------------------------
(* ArtifactValidator.                                                      *)

\* Rule 1: the file, if there is one, decides.  Rule 2: an object in the end of what
\* was printed is written to the file, if there is none.
Accept ==
  /\ pc = "validating"
  /\ file = "json" \/ (file = "absent" /\ relay.object)
  /\ file' = "json"
  /\ pc' = "idle"
  /\ relay' = NoRelay
  /\ result' = [success |-> TRUE, reason |-> None, engine |-> engine,
                route |-> LastRoute(attempts)]
  /\ UNCHANGED <<run, engine, attempts, process, sessionVars, marker>>

\* Mutant of Rejected: the log that said success is kept.
RejectedUnlogged(reason) == attempts

\* The log of the attempt becomes one of a failure.
Rejected(reason) ==
  [attempts EXCEPT ![Len(attempts)].success = FALSE, ![Len(attempts)].reason = reason]

\* A file that is not an object or cannot be read, an object that cannot be written,
\* a sentinel alone, or nothing at all.
Reject ==
  /\ pc = "validating"
  /\ relay' = NoRelay
  /\ LET reason == IF Written \/ relay.object \/ relay.sentinel
                     THEN "artifact_invalid" ELSE "sentinel_not_observed" IN
       AttemptFails(LastRoute(attempts), Rejected(reason), reason)
  /\ UNCHANGED <<run, file, process, sessionVars, marker>>

-----------------------------------------------------------------------------
(* Agents, and the operator.                                               *)

\* A headless agent writes, or what it has started and left.
AgentWrites(e) ==
  /\ process[e] # "none"
  /\ file' \in {"partial", "json"}
  /\ UNCHANGED <<runVars, process, sessionVars, marker>>

\* What an agent has started ends, and closes the pipes it has held.
OrphanEnds(e) ==
  /\ process[e] \in {"orphan", "holding"}
  /\ process' = [process EXCEPT ![e] = "none"]
  /\ UNCHANGED <<runVars, file, sessionVars, marker>>

\* The command at the head of the session writes the file of its run.
SessionWrites(e) ==
  /\ typed[e] # <<>> /\ Head(typed[e]) = run
  /\ file' \in {"partial", "json"}
  /\ UNCHANGED <<runVars, process, sessionVars, marker>>

\* It prints the sentinel of its run.
SessionPrints(e) ==
  /\ typed[e] # <<>> /\ Head(typed[e]) = run
  /\ printed' = [printed EXCEPT ![e] = TRUE]
  /\ UNCHANGED <<runVars, file, process, typed, marker>>

\* It ends, and the next one starts.
SessionEnds(e) ==
  /\ typed[e] # <<>>
  /\ typed' = [typed EXCEPT ![e] = Tail(@)]
  /\ UNCHANGED <<runVars, file, process, printed, marker>>

\* The operator confirms the login, whenever there is one to confirm.
LoginConfirm(e) ==
  /\ marker[e]
  /\ marker' = [marker EXCEPT ![e] = FALSE]
  /\ UNCHANGED <<runVars, file, process, sessionVars>>

-----------------------------------------------------------------------------
Headless ==
  \/ HeadlessUnavailable \/ HeadlessMissing \/ HeadlessStart
  \/ HeadlessEnds \/ HeadlessExit \/ HeadlessTimeout

Broker ==
  \/ BrokerUnavailable \/ SessionFails \/ Probe \/ ProbeFails
  \/ RequestLogin \/ LoginConfirmed \/ LoginTimeout
  \/ Dispatch \/ SentinelSeen \/ WaitTimeout

Runner == Headless \/ Broker \/ Accept \/ Reject

Agent(e) == AgentWrites(e) \/ OrphanEnds(e) \/ SessionWrites(e) \/ SessionPrints(e)
            \/ SessionEnds(e)

Next ==
  \/ TakeRun
  \/ Runner
  \/ \E e \in Engines : Agent(e) \/ LoginConfirm(e)

Spec == Init /\ [][Next]_vars

\* The coroutine goes on while it can, and its waits have deadlines.  Nothing makes
\* what an agent has left end or close its pipes.
Fairness == WF_vars(Runner)

FairSpec == Spec /\ Fairness

-----------------------------------------------------------------------------
\* The result and the log of attempts tell the same story: a success is the last
\* attempt, of the engine and the route that the result names, and a failure has
\* no attempt that claims success.
ResultAgrees ==
  result # None =>
    /\ result.success <=> result.reason = None
    /\ \A i \in 1 .. Len(attempts) :
         attempts[i].success <=> result.success /\ i = Len(attempts)
    /\ result.success =>
         /\ attempts # <<>>
         /\ LastEngine(attempts) = result.engine
         /\ LastRoute(attempts) = result.route

\* The policy has b next after a: the broker of an engine after a failure it may
\* cure, the secondary engine after one that it may cure, or one that the broker of
\* the primary engine could not be had for.
Follows(a, b) ==
  \/ /\ a.engine = b.engine
     /\ a.route = "headless" /\ b.route = "broker"
     /\ a.reason \in HeadlessToBroker
  \/ /\ a.engine = Primary /\ b.engine = Secondary
     /\ \/ a.reason \in ProviderToProvider
        \/ a.route = "headless" /\ a.reason \in HeadlessToBroker

\* Each attempt is one that the policy has next after the one before: no route of an
\* engine is tried twice, and none after a failure that it could not cure.
PolicyFollowed ==
  \A i \in 1 .. Len(attempts) - 1 : Follows(attempts[i], attempts[i + 1])

\* The one wait without a deadline: an agent has exited, or has been killed at its
\* deadline, and the runner reads on from pipes that something the agent has started
\* still holds.
HeldUp == pc \in {"exited", "killed"} /\ ~Drained

\* A run ends, whatever the agents and the operator do, if the runner is not held up
\* for ever.  Without that hypothesis it need not, and the docstring "Em hard timeout,
\* mata o processo e retorna" (_subprocess.py:89) is not kept.
RunEnds == []<>~HeldUp => (pc # "idle" ~> pc = "idle")
=============================================================================
