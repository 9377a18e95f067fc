SPECIFICATION Spec
CONSTANTS
    r1 = r1
    r2 = r2
    o1 = o1
    RemoteStates <- MCFewRemoteStates
    Reconcilers <- MCReconcilers
    Observers <- MCObservers
    MaxGeneration = 4
    MaxChecks = 1
    MaxSlow = 1
    MaxCrashes = 0
SYMMETRY Symmetry
INVARIANTS
    ReconciliationInv
    OneInspectorPerLease
PROPERTIES
    SettlesTheCurrentSnapshotOnce
    ClosedIsFinal
    ImplementsOperation
CHECK_DEADLOCK FALSE
