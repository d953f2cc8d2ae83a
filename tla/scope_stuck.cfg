\* projects.py:420-421 against a draft whose diff is empty.
SPECIFICATION Spec
CONSTANTS
  MaxVersion = 2
  Codes = {c1}
  Usual = x
  Contents = {x, y}
  Absent = Absent
  Extracted <- MCExtracted
  Deciders = {d1}
  MaxEdits = 1
INVARIANTS DraftIsDecidable
\* Everything decided: nothing is left to do.
CHECK_DEADLOCK FALSE
