\* One scope transition against two closings; three reports against two
\* pre-populations; five reports and four days for the score.
SPECIFICATION MCSpec
CONSTANTS
  MaxVersion = 2
  Codes = {c1}
  Usual = x
  Contents = {x}
  Absent = Absent
  Extracted <- MCExtracted
  Deciders = {d1}
  MaxEdits = 0
  Closers = {k1, k2}
  Reports = {r1}
  MaxRisk = 2
  Prefills = {p1, p2}
  Topics = {t1}
  MaxPeriod = 2
  MaxRows = 3
  Due <- MCDue
  Percents = {0, 100}
  ReportContents <- MCReportContents
  Weightings <- MCWeightings
  FirstDay <- MCFirstDay
  LastDay = 3
  MaxReports = 5
SYMMETRY Symmetry
INVARIANTS ProjectTypeOK PendingIsLate ListedRiskStays ScoreInRange WorseRiskNeverHelps
PROPERTIES ClosingIsFinal SecondInPeriodOverlaps ReleasedIsInherited ScheduleIsMonotone
\* A closed project is idle; the bounds stop the rest.
CHECK_DEADLOCK FALSE
