\* Two runs of one worker that share the sessions of both engines.
SPECIFICATION FairSpec
CONSTANTS
  Primary = claude
  Secondary = codex
  None = None
  MaxRuns = 2
INVARIANTS TypeOK ResultAgrees PolicyFollowed
PROPERTIES RunEnds
\* Once all the jobs are done nothing is left to do.
CHECK_DEADLOCK FALSE
