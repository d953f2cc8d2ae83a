------------------------- MODULE MCScopeTransition -------------------------
(* Small instances of ScopeTransition for TLC.                             *)
EXTENDS ScopeTransition, TLC

CONSTANT Usual   \* the content every deliverable is extracted with

\* _stub_deliverables writes the same deliverables for every proposal.
MCExtracted == [c \in Codes |-> Usual]

\* Requests are interchangeable.
Symmetry == Permutations(Deciders)
=============================================================================
