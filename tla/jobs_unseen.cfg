\* publisher.py:144-145 against the RPUSH before the commit.
SPECIFICATION Spec
CONSTANTS
  Runs = {r1}
  NoRun = NoRun
  Workers = {w1}
  MaxAttempts = 3
  StubEnabled = FALSE
  MaxInterruptions = 1
INVARIANTS RecordExistsWhenPulled
CHECK_DEADLOCK FALSE
