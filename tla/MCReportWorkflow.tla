------------------------- MODULE MCReportWorkflow -------------------------
(* Small instances of ReportWorkflow for TLC: one dimension.               *)
EXTENDS ReportWorkflow, TLC

CONSTANTS Prazo, Text

Written(level, text) ==
  [rag |-> [d \in Dimensions |-> level], just |-> [d \in Dimensions |-> text]]

\* Green, and red with its justification; the empty draft is what the page opens.
MCDrafts == {Written("GREEN", None), Written("RED", Text)}

Symmetry == Permutations(Reviewers)
=============================================================================
