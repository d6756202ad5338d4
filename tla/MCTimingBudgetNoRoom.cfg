SPECIFICATION TimingSpec
CONSTANTS
    Budgets = {12000, 17500, 200000}
    StepMicros = {1000}
    MaxCalls = 1
    Faults <- MCFaults
INVARIANT NoRoomIsAnError
CHECK_DEADLOCK FALSE
