SPECIFICATION FairWatchdogSpec
CONSTANTS
    MaxAttempts = 6
    MaxOutages = 3
    MaxSyncErrors = 2
INVARIANTS
    RecoveryReconciles
PROPERTIES
    OutagesPass
