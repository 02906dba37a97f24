SPECIFICATION FairSpec
CONSTANTS
  N = 1
  MaxBacklog = 1
  Builds = {"nix"}
  Main = Main
  None = None
PROPERTY ExitReturns
CHECK_DEADLOCK FALSE
