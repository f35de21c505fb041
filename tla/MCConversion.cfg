SPECIFICATION ConversionSpec
CONSTANTS
    Inputs <- MCInputs
    MaxUnits = 3
    AssetsBudget = 2
    MaxBundle = 11
    LargeUnit = 2
INVARIANTS
    UnitsKeepTheProse
    PublishableIsNavigable
    AnchorsLand
    AssetsAccountedFor
    
    ScoreExplained
    CancelInTime
CHECK_DEADLOCK FALSE
