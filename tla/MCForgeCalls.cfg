\* Concurrent and repeated requests with one key per scope, lost answers,
\* crashes, branches that exist.
CONSTANTS
  dispatchKey = dispatchKey
  branchKey = branchKey
  runTests = runTests
  runLint = runLint
  newBranch = newBranch
  sameBranch = sameBranch
  Key = {dispatchKey, branchKey}
  NoKey = NoKey
  NoRecord = NoRecord
  Handler = {h1, h2}
  Payload = {runTests, runLint, newBranch, sameBranch}
  Accepts <- MCAccepts
  Named = {newBranch, sameBranch}
  Continue = {sameBranch}
SPECIFICATION Spec
SYMMETRY Symmetry
INVARIANTS OncePerKeyUnlessExcused CrossedOnlyByOverlap
PROPERTIES AnsweredIsNeverRepeated
