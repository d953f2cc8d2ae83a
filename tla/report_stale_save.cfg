\* The comment of the edit page (line 231) against an autosave still in flight.
SPECIFICATION Spec
CONSTANTS
  Prazo = Prazo
  Text = Text
  Dimensions = {Prazo}
  Texts = {Text}
  None = None
  Drafts <- MCDrafts
  Reviewers = {h1}
  MaxSaves = 3
  MaxRounds = 1
INVARIANTS SubmittedIsLatest
\* Everything decided: nothing is left to do.
CHECK_DEADLOCK FALSE
