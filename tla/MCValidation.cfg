SPECIFICATION Spec
CONSTANTS
  Default <- MCDefault
  HostMax <- MCHostMax
  Inputs <- MCInputs
  OwnDefaults <- MCOwnDefaults
  MethodNames = {"m", "n"}
  Bodies = {"x", "y"}
  Bases = {0, 1, 7, 1000}
  RuleFields = {"loss_percent", "loss_factor", "latency_factor", "latency_margin_ms"}
  LossPercent = "loss_percent"
  LossFactor = "loss_factor"
  LatencyFactor = "latency_factor"
  LatencyMargin = "latency_margin_ms"
  Lo <- MCLo
  Hi <- MCHi
  Def <- MCDef
  NaN = NaN
  MinCode = 1
  MaxCode = 5
  MaxParts = 3
  DefaultLo = 2
  DefaultHi = 3
  MaxNodes = 2
  MaxClones = 2
  MaxFailures = 2
  MaxSteps = 2
  MaxChain = 2
  MaxPlan = 2
  MaxConvert = 8
  MaxLines = 2
  MaxValues = 1
  MaxDays = 1
  MaxHours = 1
  MaxRowBytes = 3
  MaxExtra = 4
  MaxParams = 1
  MaxRoots = 2
  MaxVisits = 3
INVARIANTS DecodedStrictly PlanAnswered SplicedAsEncoded PushdownSelects NothingHidden ManifestReadBack CanonicalKept DestinationsRefused SourcePaths
CHECK_DEADLOCK FALSE
