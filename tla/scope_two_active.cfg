\* migration 0003:59 and baselines.py:297-298 against overlapping decisions.
SPECIFICATION Spec
CONSTANTS
  MaxVersion = 3
  Codes = {c1}
  Usual = x
  Contents = {x, y}
  Absent = Absent
  Extracted <- MCExtracted
  Deciders = {d1, d2}
  MaxEdits = 1
INVARIANTS OneActive
\* Everything decided: nothing is left to do.
CHECK_DEADLOCK FALSE
