\* Every request is answered.
CONSTANTS
  Workspace = {w1, w2}
  Handler = {h1, h2}
  Target = {t1}
  NoWorkspace = NoWorkspace
  NoMeta = NoMeta
  TornMeta = TornMeta
  MaxCount = 1
  TTL = 1
SPECIFICATION FairSpec
PROPERTIES EveryRequestAnswered
