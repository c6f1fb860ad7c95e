SPECIFICATION Spec
CONSTANTS
  Texts <- MCTexts
  Queries <- MCQueries
  None = None
  MaxCandidates = 2
INVARIANTS
  LeftmostMatch
  AnswerComplete
  Ranked
