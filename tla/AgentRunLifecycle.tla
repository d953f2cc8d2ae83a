------------------------- MODULE AgentRunLifecycle -------------------------
(***************************************************************************)
(* What the platform promises about an agent run, whatever the queue, the  *)
(* network and the processes do: a run is created once, executed at most   *)
(* once, and closed at most once, with the outcome of that execution.      *)
(* AgentJobs is shown to implement it when the in-process stub is off.     *)
(*                                                                         *)
(* Creation and execution are not ordered: enqueue_agent_job pushes the    *)
(* job on the queue before it commits the row (publisher.py:148 and 156),  *)
(* so a worker may execute a run whose record is not there yet, or never   *)
(* will be.                                                                *)
(***************************************************************************)
CONSTANTS Runs        \* the run_ids

VARIABLES status,     \* status[r]: the AgentRunLog row of r, "none" while there is no row
          execution   \* execution[r]: what AgentRunner.run decided, "none" before

vars == <<status, execution>>

Outcomes == {"done", "failed"}

Init ==
  /\ status = [r \in Runs |-> "none"]
  /\ execution = [r \in Runs |-> "none"]

Create(r) ==
  /\ status[r] = "none"
  /\ status' = [status EXCEPT ![r] = "queued"]
  /\ UNCHANGED execution

Execute(r) ==
  /\ execution[r] = "none"
  /\ \E o \in Outcomes : execution' = [execution EXCEPT ![r] = o]
  /\ UNCHANGED status

Close(r) ==
  /\ status[r] = "queued"
  /\ execution[r] \in Outcomes
  /\ status' = [status EXCEPT ![r] = execution[r]]
  /\ UNCHANGED execution

Next == \E r \in Runs : Create(r) \/ Execute(r) \/ Close(r)

Spec == Init /\ [][Next]_vars
=============================================================================
