----------------------------- MODULE MCProject -----------------------------
(* Small instances of ProjectClose, ReportInheritance and HealthScore.     *)
(* The three describe one project and share no variable, so TLC explores   *)
(* one of them at a time: their product would only interleave steps that   *)
(* do not depend on each other.                                            *)
EXTENDS ProjectClose, ReportInheritance, HealthScore, TLC

CONSTANT Usual   \* the content every deliverable is extracted with

VARIABLE part

MCExtracted == [c \in Codes |-> Usual]

Rag(prazo, escopo, qualidade) ==
  [d \in Dimensions |-> CASE d = "prazo" -> prazo [] d = "escopo" -> escopo
                          [] d = "qualidade" -> qualidade]
Risky(p, i) == [probability |-> p, impact |-> i]

\* All well; all bad, with risks of three levels; neither.
MCReportContents ==
  {[rag |-> Rag("GREEN", "GREEN", "GREEN"), risks |-> << >>, items |-> 0, resolved |-> 0],
   [rag |-> Rag("RED", "AMBER", "GREEN"),
    risks |-> <<Risky(3, 2), Risky(1, 1), Risky(2, 2)>>, items |-> 3, resolved |-> 1],
   [rag |-> Rag("AMBER", "GREEN", "GREEN"), risks |-> <<Risky(2, 1)>>,
    items |-> 1, resolved |-> 1]}

\* One deliverable that is due from the start, and two that are not.
MCDue == <<0, 2, 3>>

\* The project starts tomorrow.
MCFirstDay == -1

\* A sum of 1.01, which the schema lets through.
MCWeightings == {[rag_avg |-> 35, spi |-> 25, risk_inverse |-> 20,
                  resolution_rate |-> 10, stability |-> 11]}

MCInit ==
  /\ part \in {"closing", "chain", "score"}
  /\ CloseInit /\ ChainInit /\ ScoreInit

MCNext ==
  \/ part = "closing" /\ CloseNext /\ UNCHANGED <<part, chainVars, scoreVars>>
  \/ part = "chain" /\ ChainNext /\ UNCHANGED <<part, closeVars, scoreVars>>
  \/ part = "score" /\ ScoreNext /\ UNCHANGED <<part, closeVars, chainVars>>

MCSpec == MCInit /\ [][MCNext]_<<part, closeVars, chainVars, scoreVars>>

ProjectTypeOK == CloseTypeOK /\ ChainTypeOK /\ ScoreTypeOK

Symmetry == Permutations(Closers) \cup Permutations(Reports) \cup Permutations(Prefills)
=============================================================================
