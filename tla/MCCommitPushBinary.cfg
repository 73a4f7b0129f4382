\* A binary file a script staged and then replaced.
CONSTANTS
  source = source
  other = other
  secret = secret
  text = text
  binary = binary
  Absent = Absent
  Path = {source, other}
  Allowed = {source, other}
  Content = {text, binary, Absent}
  Denied = {binary}
  Selections <- SelectOne
  MaxCommit = 2
  MayRewind = FALSE
  Key = {}
  NoKey = NoKey
  NoRecord = NoRecord
SPECIFICATION Spec
PROPERTIES PublishedContentIsAllowed
