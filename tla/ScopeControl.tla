---------------------------- MODULE ScopeControl ---------------------------
(***************************************************************************)
(* What the portal promises about the scope of one project: at most one    *)
(* version is in force, the first one puts itself in force, and a later    *)
(* one replaces it only when the PMO approves the changes proposed for it, *)
(* all at once.  A decision is one atomic step and is taken once.          *)
(*                                                                         *)
(* The handlers neither lock the baseline they decide nor look at it       *)
(* again, so the promise is void once two decisions have overlapped.       *)
(* ScopeTransition is shown to implement it.                               *)
(***************************************************************************)
EXTENDS Naturals

CONSTANTS Versions,   \* of the scope, from 1 on
          Keys        \* the changes there may be, with the versions they lead from and to

VARIABLES fate,      \* fate[v]: what has become of version v
          inForce,   \* the versions in force
          change,    \* change[k]: status of the change k, "none" before it is proposed
          voided     \* two decisions have overlapped

vars == <<fate, inForce, change, voided>>

Init ==
  /\ fate = [v \in Versions |-> "none"]
  /\ inForce = {}
  /\ change = [k \in Keys |-> "none"]
  /\ voided = FALSE

Draft(v) ==
  /\ fate[v] = "none"
  /\ fate' = [fate EXCEPT ![v] = "draft"]
  /\ UNCHANGED <<inForce, change>>

Moved(changes, status) == change' = [k \in Keys |-> IF k \in changes THEN status ELSE change[k]]

\* Once per draft: what differs from a scope that is or has been in force.
Propose(v) ==
  /\ fate[v] = "draft"
  /\ v > 1
  /\ \A k \in Keys : k.to = v => change[k] = "none"
  /\ \E changes \in SUBSET {k \in Keys : k.to = v /\ fate[k.from] = "approved"} :
       Moved(changes, "PROPOSED")
  /\ UNCHANGED <<fate, inForce>>

Proposed(v) == {k \in Keys : k.to = v /\ change[k] = "PROPOSED"}

Approve(v) ==
  /\ fate[v] = "draft"
  /\ v = 1 \/ Proposed(v) # {}
  /\ fate' = [fate EXCEPT ![v] = "approved"]
  /\ inForce' = {v}
  /\ Moved(Proposed(v), "IMPLEMENTED")

Reject(v) ==
  /\ fate[v] = "draft"
  /\ Proposed(v) # {}
  /\ fate' = [fate EXCEPT ![v] = "rejected"]
  /\ Moved(Proposed(v), "REJECTED")
  /\ UNCHANGED inForce

Next ==
  \/ /\ voided' = voided
     /\ \E v \in Versions : Draft(v) \/ Propose(v) \/ Approve(v) \/ Reject(v)
  \/ voided' = TRUE

Spec == Init /\ [][Next]_vars
=============================================================================
