\* Stub and worker together (the default of is_enabled), two uploads, with
\* liveness: no symmetry.
SPECIFICATION FairSpec
CONSTANTS
  Runs = {r1, r2}
  NoRun = NoRun
  Workers = {w1}
  MaxAttempts = 1
  StubEnabled = TRUE
  MaxInterruptions = 2
INVARIANTS ExtractedRunIsClosed
PROPERTIES EventuallySettled
CHECK_DEADLOCK FALSE
