SPECIFICATION Spec
CONSTANTS
    r1 = r1
    r2 = r2
    o1 = o1
    RemoteStates <- MCRemoteStates
    Reconcilers <- MCOneReconciler
    Observers <- MCObservers
    MaxGeneration = 4
    MaxChecks = 1
    MaxSlow = 0
    MaxCrashes = 0
INVARIANTS
    ObservationsAreNotRefused
CHECK_DEADLOCK FALSE
