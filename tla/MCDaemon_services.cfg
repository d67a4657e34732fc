SPECIFICATION Spec
SYMMETRY PidSymmetry
CONSTANTS
  Procs <- TwoProcs
  Rank <- TwoRank
  Odin = "odin1_driver"
  Deps <- TwoDeps
  WaitFor <- TwoDeps
  AutoRestart <- TwoAuto
  StopTimeout <- TwoStop
  GracefulTimeout = 2
  InitialBackoff = 1
  MaxBackoff = 2
  MinUptimeReset = 2
  OdinTimeout = 1
  OdinMaxFails = 1
  OdinResetUptime = 2
  Pids = {x1, x2, x3}
  NoPid = NoPid
  AgeCap = 2
  Jumps = {}
  MaxJumps = 0
  MaxCrashes = 1
  Requests = {"start", "stop", "restart", "all", "shutdown"}
  ForkMayFail = FALSE
  StartWhileStopping = FALSE
INVARIANTS TypeOK SignalsOwnChild StoppingIsTimed OneInstance ExitLeavesNone
