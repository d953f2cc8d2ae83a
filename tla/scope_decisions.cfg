\* Three versions, two decisions and one edit at a time; the edits remove and
\* restore a deliverable.
SPECIFICATION Spec
CONSTANTS
  MaxVersion = 3
  Codes = {c1}
  Usual = x
  Contents = {x}
  Absent = Absent
  Extracted <- MCExtracted
  Deciders = {d1, d2}
  MaxEdits = 1
SYMMETRY Symmetry
INVARIANTS TypeOK PmoGate BatchAgrees OneActiveAlone LineageHolds
PROPERTIES ImplementsControl
\* Everything decided: nothing is left to do.
CHECK_DEADLOCK FALSE
