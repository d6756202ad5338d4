SPECIFICATION DriverSpec
CONSTANTS
  Budgets = {12000, 20000, 69410, 3000000}
  StepMicros = {0, 1000, 5000, 20000, 60000, 70000}
  MaxCalls = 2
  Limits = {0, 300, 65536}
  Rates = {600, 3000000}
  Gains = {800, 1000, 1001}
  Offsets <- MCOffsets
  Periods = {0, 50, 5000000}
  Oscillator = 1000
  Targets <- MCTargets
  Averages <- MCAverages
  Distances = {0, 26214400}
  Faults <- MCFaults
  ModeFaults <- MCModeFaults
  MaxLost = 2
  MaxModeCalls = 2
  GoodMaps <- MCGoodMaps
  Scenes <- MCScenes
  Enabled <- MCEnabled
  SpadFaults <- MCSpadFaults
  MaxSpadCalls = 2
INVARIANTS
  DriverTypeOK ReadBackIsStable
  LimitChecksAgree SettingsRoundTrip StatusExplained SigmaFollowsSignal
  ClosestToTarget
PROPERTIES
  SuccessFitsBudget RefusalKeepsFit CachedTimeoutIsCurrent
  NeverCompensatedTwice CalibrationInstalled
  StateFollowsSensor TuningFollowsSession ResetReturns
  SpadsAsReported
CHECK_DEADLOCK FALSE
