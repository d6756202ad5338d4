SPECIFICATION SpadsSpec
CONSTANTS
    GoodMaps <- MCGoodMaps
    Scenes = {}
    Enabled <- MCEnabled
    SpadFaults <- MCFaults
    MaxSpadCalls = 1
INVARIANT CountsEnabledBits
CHECK_DEADLOCK FALSE
