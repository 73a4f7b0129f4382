\* Creating, merging and asking for the status of pull requests.
CONSTANTS
  Handler = {h1, h2}
  Base = {main, dev}
  PageSize = 1
  ListedRuns = 2
  ShownRuns = 2
  MaxPulls = 2
  MaxSha = 2
  MaxRuns = 2
SPECIFICATION Spec
SYMMETRY Symmetry
INVARIANTS ConflictIsExcused MergedAnswerIsTrue
PROPERTIES CreateAnswersItsPair MergedWasExpected GreenMeansNothingFailed
