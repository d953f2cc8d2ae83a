\* agent_results.py:3-5 against the stub and a callback that both read first.
SPECIFICATION Spec
CONSTANTS
  Runs = {r1}
  NoRun = NoRun
  Workers = {w1}
  MaxAttempts = 3
  StubEnabled = TRUE
  MaxInterruptions = 1
PROPERTIES TerminalIsFinal
CHECK_DEADLOCK FALSE
