SPECIFICATION Spec
CONSTANTS
  Handlers = {h1, h2}
  Inputs <- SomeInputs
  Config <- DefaultConfig
  None = None
  Bundles = {b0, b1, b2}
  Factory = b0
  Works = {b0, b1}
  MaxEvents = 4
  Assets = {worker, updater}
  WBAssets = {worker}
INVARIANT StartsAgain
INVARIANT WayBack
INVARIANT FailureRestores
INVARIANT VerdictHonest
SYMMETRY Symmetry
VIEW View
CHECK_DEADLOCK FALSE
