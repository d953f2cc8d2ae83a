---------------------------- MODULE HealthScore ----------------------------
(***************************************************************************)
(* The health score of one project (health_score.py) while its life goes   *)
(* on: days pass, progress is saved, reports are submitted for any period  *)
(* and sent back, the PMO edits the weights.  The score is derived from    *)
(* what is in the tables when it is asked for, so it is an operator over   *)
(* the state; the two columns that cache it are left out.                  *)
(*                                                                         *)
(* Numbers are whole points from 0 to 100 and weights are hundredths,      *)
(* where the code has floats rounded to a tenth; a quotient is cut.        *)
(***************************************************************************)
EXTENDS Integers, Sequences, FiniteSets, SequencesExt

CONSTANTS
  Due,          \* the deliverables, each with its due date in days from the start
  Percents,     \* what percent_complete may be
  ReportContents,   \* what a submitted report may hold
  Weightings,   \* what the weights may be
  FirstDay,     \* today, at first, in days from the start of the project
  LastDay,      \* bound: days
  MaxReports    \* bound: reports that count

Dimensions == {"prazo", "escopo", "qualidade"}
Components == {"rag_avg", "spi", "risk_inverse", "resolution_rate", "stability"}
Rags == {"GREEN", "AMBER", "RED"}
Axis == 1 .. 3     \* baixo, medio, alto
Risks == Seq([probability : Axis, impact : Axis])

\* A report that has been submitted has all its dimensions.
ReportContent == [rag : [Dimensions -> Rags], risks : Risks,
                  items : Nat, resolved : Nat]

Weights == [Components -> 0 .. 100]

ASSUME DueAssumption == IsFiniteSet(DOMAIN Due) /\ \A d \in DOMAIN Due : Due[d] \in Int
ASSUME PercentAssumption == Percents \subseteq 0 .. 100
ASSUME DayAssumption == FirstDay \in Int /\ LastDay \in Int /\ FirstDay <= LastDay
ASSUME ReportsAssumption == MaxReports \in Nat
ASSUME WeightAssumption == Weightings \subseteq Weights
ASSUME ContentAssumption ==
  \A c \in ReportContents : c \in ReportContent /\ c.resolved <= c.items

Deliverables == DOMAIN Due

VARIABLES
  today,      \* days since the start of the project
  baselined,  \* it has an active baseline, with the deliverables
  progress,   \* progress[d]: the highest percent_complete over its progresses
  reports,    \* the reports that count, by period, the newest first
  weights     \* portfolio_config.health_score_weights

scoreVars == <<today, baselined, progress, reports, weights>>

DEFAULT_WEIGHTS == [rag_avg |-> 35, spi |-> 25, risk_inverse |-> 20,
                    resolution_rate |-> 10, stability |-> 10]

ScoreInit ==
  /\ today = FirstDay
  /\ baselined = FALSE
  /\ progress = [d \in Deliverables |-> 0]
  /\ reports = << >>
  /\ weights = DEFAULT_WEIGHTS

-----------------------------------------------------------------------------
(* The five components.                                                    *)

Clamp(x) == IF x < 0 THEN 0 ELSE IF x > 100 THEN 100 ELSE x
Numeric(rag) == CASE rag = "GREEN" -> 100 [] rag = "AMBER" -> 50 [] rag = "RED" -> 0

\* _aggregate_rag of reports.py.
Worst(rag) ==
  CASE \E d \in Dimensions : rag[d] = "RED" -> "RED"
    [] \A d \in Dimensions : rag[d] = "GREEN" -> "GREEN"
    [] OTHER -> "AMBER"

RagAvg ==
  IF reports = << >> THEN 50
  ELSE SumFunction([d \in Dimensions |-> Numeric(reports[1].rag[d])]) \div 3

\* A deliverable due on the first day or before it is ignored.
Scheduled == {d \in Deliverables : Due[d] > 0}
Planned(d) == Clamp((today * 100) \div Due[d])
AllPlanned == SumFunction([d \in Scheduled |-> Planned(d)])
AllReal == SumFunctionOnSet(progress, Scheduled)

\* Mutant of Spi: the score of a project that has nothing planned yet is 0.
SpiWithoutCases ==
  IF ~baselined \/ Scheduled = {} THEN 100
  ELSE IF AllPlanned > 0 THEN Clamp((AllReal * 100) \div AllPlanned) ELSE 0

\* The quotient of two means over the same deliverables.
Spi ==
  IF ~baselined \/ Scheduled = {} THEN 100
  ELSE CASE AllPlanned > 0 -> Clamp((AllReal * 100) \div AllPlanned)
         [] AllPlanned = 0 /\ AllReal > 0 -> 100
         [] AllPlanned = 0 /\ AllReal = 0 -> 50

\* Mutant of LevelValue: two levels of the table are swapped.
LevelValueSwapped(r) ==
  CASE r.probability + r.impact = 6 -> 100
    [] r.probability + r.impact = 5 -> 50
    [] r.probability + r.impact = 4 -> 75
    [] OTHER -> 25

\* _RISK_LEVEL_MATRIX and _RISK_LEVEL_VALUE.
LevelValue(r) ==
  CASE r.probability + r.impact = 6 -> 100
    [] r.probability + r.impact = 5 -> 75
    [] r.probability + r.impact = 4 -> 50
    [] OTHER -> 25

\* The mean of the open risks, each weighted with its own value.
RiskInverse(risks) ==
  IF risks = << >> THEN 100
  ELSE Clamp(100 - SumFunction([i \in DOMAIN risks |-> LevelValue(risks[i]) * LevelValue(risks[i])])
                   \div SumFunction([i \in DOMAIN risks |-> LevelValue(risks[i])]))

OpenRisks == IF reports = << >> THEN << >> ELSE reports[1].risks

ResolutionRate ==
  IF reports = << >> THEN 100
  ELSE IF reports[1].items = 0 THEN 100
  ELSE Clamp((reports[1].resolved * 100) \div reports[1].items)

\* The aggregates of the last five reports.
Stability ==
  LET last == SubSeq(reports, 1, IF Len(reports) < 5 THEN Len(reports) ELSE 5)
      rags == {Worst(last[i].rag) : i \in DOMAIN last}
  IN CASE last = << >> -> 50
       [] Cardinality(rags) = 1 /\ Len(last) = 5 -> Numeric(Worst(last[1].rag))
       [] Cardinality(rags) = 1 /\ Len(last) \in {3, 4} -> 60
       [] OTHER -> 30

-----------------------------------------------------------------------------
(* The score.                                                              *)

\* _normalize_weights: a sum within a hundredth of 1 is taken as it is.
Normalized(w) ==
  LET total == SumFunctionOnSet(w, Components)
  IN CASE total <= 0 -> DEFAULT_WEIGHTS
       [] total \in 99 .. 101 -> w
       [] OTHER -> [k \in Components |-> (w[k] * 100) \div total]

\* What compute_for_project sums up, with these risks in the last report.
WeightedSum(risks) ==
  LET w == Normalized(weights)
  IN (w.rag_avg * RagAvg + w.spi * Spi + w.risk_inverse * RiskInverse(risks)
        + w.resolution_rate * ResolutionRate + w.stability * Stability) \div 100

\* Mutant of Score: the sum is trusted.
ScoreUnclamped(risks) == WeightedSum(risks)

Score(risks) == Clamp(WeightedSum(risks))

Band(score) ==
  CASE score >= 70 -> "green" [] score \in 40 .. 69 -> "amber" [] score < 40 -> "red"

ScoreTypeOK ==
  /\ today \in FirstDay .. LastDay
  /\ baselined \in BOOLEAN
  /\ progress \in [Deliverables -> Percents \cup {0}]
  /\ reports \in Seq(ReportContents) /\ Len(reports) <= MaxReports
  /\ weights \in Weightings \cup {DEFAULT_WEIGHTS}

-----------------------------------------------------------------------------
(* The life of the project.                                                *)

NextDay ==
  /\ today < LastDay
  /\ today' = today + 1
  /\ UNCHANGED <<baselined, progress, reports, weights>>

ActivateDeliverables ==
  /\ ~baselined
  /\ baselined' = TRUE
  /\ UNCHANGED <<today, progress, reports, weights>>

\* An autosave of any report, a draft as well, replaces its progresses.
SaveProgress(d) ==
  /\ baselined
  /\ \E p \in Percents \ {progress[d]} : progress' = [progress EXCEPT ![d] = p]
  /\ UNCHANGED <<today, baselined, reports, weights>>

\* submit_report, for a period before, between or after the others.
SubmitReport ==
  /\ Len(reports) < MaxReports
  /\ \E c \in ReportContents, i \in 1 .. Len(reports) + 1 :
       reports' = InsertAt(reports, i, c)
  /\ UNCHANGED <<today, baselined, progress, weights>>

\* A report that is sent back counts no more until it is submitted again.
SendBackReport ==
  /\ \E i \in DOMAIN reports : reports' = RemoveAt(reports, i)
  /\ UNCHANGED <<today, baselined, progress, weights>>

\* update_portfolio_config: the sum is 1, give or take a hundredth.
UpdateWeights ==
  /\ \E w \in (Weightings \cup {DEFAULT_WEIGHTS}) \ {weights} :
       /\ SumFunctionOnSet(w, Components) \in 99 .. 101
       /\ weights' = w
  /\ UNCHANGED <<today, baselined, progress, reports>>

ScoreNext ==
  \/ NextDay \/ ActivateDeliverables
  \/ \E d \in Deliverables : SaveProgress(d)
  \/ SubmitReport \/ SendBackReport \/ UpdateWeights

ScoreSpec == ScoreInit /\ [][ScoreNext]_scoreVars

-----------------------------------------------------------------------------
\* A project is not better for what is worse: another open risk, no milder than
\* those of the last report, never raises the score, and a risk of the report is
\* never valued lower than one less probable and less grave (domain.py:233-250,
\* health_score.py:307-343; the weights are the values themselves, so that milder
\* risks do raise the score).
WorseRiskNeverHelps ==
  reports # << >> =>
    /\ \A i \in DOMAIN OpenRisks, p, g \in Axis :
         p <= OpenRisks[i].probability /\ g <= OpenRisks[i].impact =>
           LevelValue([probability |-> p, impact |-> g]) <= LevelValue(OpenRisks[i])
    /\ \A r \in [probability : Axis, impact : Axis] :
         (\A i \in DOMAIN OpenRisks : LevelValue(OpenRisks[i]) <= LevelValue(r)) =>
           Score(Append(OpenRisks, r)) <= Score(OpenRisks)

\* The score stays between 0 and 100, with weights that sum up to 1.01 as well
\* (schemas/portfolio.py:45-58, health_score.py:457-464), and with it its components: no
\* date, progress or report makes one of them undefined.
ScoreInRange ==
  /\ \A x \in {RagAvg, Spi, RiskInverse(OpenRisks), ResolutionRate, Stability,
               Score(OpenRisks)} : x \in 0 .. 100
  /\ Band(Score(OpenRisks)) \in {"green", "amber", "red"}

\* The schedule index compares progress with the calendar and nothing else
\* (health_score.py:233-304): a day that passes never raises it, progress never
\* lowers it, although it is 100 without a baseline, 50 or 100 while nothing is
\* planned, and a quotient from then on.
ScheduleIsMonotone ==
  [][/\ today' > today => Spi' <= Spi
     /\ baselined /\ (\A d \in Deliverables : progress'[d] >= progress[d])
          /\ today' = today => Spi' >= Spi
     /\ UNCHANGED <<today, baselined, progress>> => Spi' = Spi]_scoreVars
=============================================================================
