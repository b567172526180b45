\* Full batches of host routes; foreign UPDATEs with up to two odd attributes.
SPECIFICATION Spec
CONSTANTS
    Settings <- MCSettings
    ForeignSettings <- MCForeignSettings
    Foreign <- MCForeign
    Bits4 = {32}
    Bits6 = {128}
INVARIANTS UpdateNeverPanics WorstDefectWins OwnUpdatesAreValid RecoveryNamesRoutes
CHECK_DEADLOCK FALSE
