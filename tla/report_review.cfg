\* Three saves, two rounds, two reviewers.
SPECIFICATION Spec
CONSTANTS
  Prazo = Prazo
  Text = Text
  Dimensions = {Prazo}
  Texts = {Text}
  None = None
  Drafts <- MCDrafts
  Reviewers = {h1, h2}
  MaxSaves = 3
  MaxRounds = 2
SYMMETRY Symmetry
INVARIANTS TypeOK StageOrder DecisionsExplainStatus SubmittedIsSound ListsAreOneSave
PROPERTIES ImplementsReview
\* Everything decided: nothing is left to do.
CHECK_DEADLOCK FALSE
