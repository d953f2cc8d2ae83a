\* Real worker only (STUB_WORKER_ENABLED=false).
SPECIFICATION Spec
CONSTANTS
  Runs = {r1, r2}
  NoRun = NoRun
  Workers = {w1, w2}
  MaxAttempts = 2
  StubEnabled = FALSE
  MaxInterruptions = 2
SYMMETRY Symmetry
INVARIANTS TypeOK SingleCustody ReportsAgree JobConservation
PROPERTIES ImplementsLifecycle
\* Everything uploaded and settled: nothing is left to do.
CHECK_DEADLOCK FALSE
