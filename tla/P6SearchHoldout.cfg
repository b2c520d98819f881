SPECIFICATION MCSpec
CONSTANTS
    Groups = {"g1", "g2", "h"}
    QModes = {"fp16", "int8"}
    HoldoutGroups = {"h"}
    Registries <- MCRegistries
    Plans <- MCPlans
    BatchSize = 2
    RoundCount = 2
    StaticGroups = 3
    StaticGenomes = 6
    GoldSuccesses = 0
    MinOnlineRows = 1
    MaxAttempts = 1
INVARIANT AdmittedSpaceCoversBudget
CHECK_DEADLOCK FALSE
