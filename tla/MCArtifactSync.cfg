\* Overlapping synchronisations of a run that is rerun, with failures.
CONSTANTS
  s1 = s1
  s2 = s2
  Sync = {s1, s2}
  Artifact = {1, 2}
  Undigested = {2}
  PageSize = 1
  MaxAttempt = 2
SPECIFICATION Spec
SYMMETRY Symmetric
INVARIANTS ManifestDescribesDisk
PROPERTIES AnsweredIsOnDisk SteadyListIsWhole
