\* Patches and writes with failures, dry runs and crashes between scripts.
CONSTANTS
  readme = readme
  docs = docs
  page = page
  x = x
  y = y
  bad = bad
  Blank = Blank
  Line = {x, y, bad, Blank}
  Path = {readme, docs, page}
  Top = Top
  Dir <- DirOf
  Allowed = {readme, docs, page}
  DeniedLine = {bad}
  Absent = Absent
  Binary = Binary
  Patches <- AllPatches
  Writes <- AllWrites
  ScriptContent <- ScriptContents
  InitialTrees <- AllTrees
  MaxChanged = 2
  MaxEdits = 2
SPECIFICATION Spec
INVARIANTS TypeOK HunksInOrderAreSpliced
PROPERTIES AllOrNothing OmittedOnlyInNewDirectories RetriedWriteChangesNothing
