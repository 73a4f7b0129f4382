\* Logs of a run under the rate limiter, and what is cut out of each log.
CONSTANTS
  Key = {k1, k2}
  Limit = 2
  Window = 1
  Jobs = 3
  JobsPage = 2
  Binary = {1}
  MaxFiles = 3
  MaxFailed = 1
  Logs <- SomeLogs
  MaxLines = 3
  Line <- SomeLines
  MaxBytes = 3
  TailBytes = 2
  Lead = 1
  Rest = 1
  TailLines = 2
  StepLead = 1
  StepRest = 1
SPECIFICATION Spec
SYMMETRY Symmetry
INVARIANTS LimitPerWindow WholeOrTruncated FailedLogsAreThere UntruncatedIsWhole LookedForIsShown
