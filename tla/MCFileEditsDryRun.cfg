\* A dry run that the restoration cannot undo.
CONSTANTS
  readme = readme
  docs = docs
  page = page
  x = x
  y = y
  bad = bad
  Blank = Blank
  Line = {x, y, bad, Blank}
  Path = {readme, docs, page}
  Top = Top
  Dir <- DirOf
  Allowed = {readme, docs, page}
  DeniedLine = {bad}
  Absent = Absent
  Binary = Binary
  Patches <- AllPatches
  Writes <- AllWrites
  ScriptContent <- ScriptContents
  InitialTrees <- OneTree
  MaxChanged = 2
  MaxEdits = 2
SPECIFICATION Spec

PROPERTIES DryRunChangesNothing
