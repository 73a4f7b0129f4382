\* One file whose content policy may refuse; others may force-push the branch back.
CONSTANTS
  source = source
  other = other
  secret = secret
  text = text
  binary = binary
  Absent = Absent
  Path = {source}
  Allowed = {source}
  Content = {text, binary, Absent}
  Denied = {binary}
  Selections <- SelectOne
  MaxCommit = 3
  MayRewind = TRUE
  Key = {}
  NoKey = NoKey
  NoRecord = NoRecord
SPECIFICATION Spec
INVARIANTS MetaHeadWasPublished
PROPERTIES PushOverwritesNothing SelectedContentIsAllowed
