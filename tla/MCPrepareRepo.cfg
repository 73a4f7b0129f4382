SPECIFICATION Spec
CONSTANTS
  Workspace = {w1, w2}
  Handler = {h1, h2}
  MaxTip = 2
  NoWorkspace = NoWorkspace
  w1 = w1
  w2 = w2
  h1 = h1
  h2 = h2
SYMMETRY Symmetry
CHECK_DEADLOCK FALSE
INVARIANTS
  PreparedIsUsable
  
PROPERTIES
  RefreshedIsCurrent
  HeadNeverGoesBack
