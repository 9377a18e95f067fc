SPECIFICATION FairSpec
CONSTANTS
    r1 = r1
    r2 = r2
    o1 = o1
    RemoteStates <- MCRemoteStates
    Reconcilers <- MCOneReconciler
    Observers <- MCObservers
    MaxGeneration = 7
    MaxChecks = 1
    MaxSlow = 0
    MaxCrashes = 1
PROPERTIES
    OutcomeIsRecorded
CHECK_DEADLOCK FALSE
