\* Safety of locking, pruning and counting under crashes.
CONSTANTS
  Workspace = {w1, w2}
  Handler = {h1, h2}
  Target = {t1, t2}
  NoWorkspace = NoWorkspace
  NoMeta = NoMeta
  TornMeta = TornMeta
  MaxCount = 1
  TTL = 1
SPECIFICATION Spec
SYMMETRY Symmetry
INVARIANTS TypeOK MutualExclusion NoLeakedLock PreparedIsCloned CountExceededOnlyByRevival
PROPERTIES RemovedOnlyWhenUnused TargetFixed ImplementsLock
