\* commit_and_push against other writers, scripts, failures and crashes.
CONSTANTS
  source = source
  other = other
  secret = secret
  text = text
  binary = binary
  Absent = Absent
  Path = {source, secret}
  Allowed = {source}
  Content = {text, Absent}
  Denied = {}
  Selections <- SelectSome
  MaxCommit = 3
  MayRewind = FALSE
  Key = {k1}
  NoKey = NoKey
  NoRecord = NoRecord
SPECIFICATION Spec
INVARIANTS AcknowledgedIsPublished
PROPERTIES PushReplacesExpectedHead PublishedDiffIsAllowed
