SPECIFICATION FairSpec
CONSTANTS
  N = 2
  MaxBacklog = 1
  Builds = {"win", "nix"}
  Main = Main
  None = None
INVARIANTS TypeOK StopQuiesces QuitMeansIdle
PROPERTIES WinExitReturns IdleEngineEnds
CHECK_DEADLOCK FALSE
