CONSTANTS
    workload = workload
    mgmt = mgmt
    other = other
    cfg = cfg
    creds = creds
    state = state
    Cluster <- Three
    Workload = workload
    Mgmt = mgmt
    Namespace <- NsNames
    NsOf <- SharedNs
    PivotNs <- Namespaces
    Secret <- WithState
    Named <- Credentials
    Labelled = {state}
    CfgSecret = cfg
    VerifySecret <- Credentials
    Options <- SafeOptions
    PivotSupported = TRUE
    MaxRuns = 2
    MaxApply = 3
    MaxMove = 2
SPECIFICATION Spec
INVARIANTS TypeOK ClusterHeld RealizedHasMachines
PROPERTIES ImplementsCustody PivotContestsNothing TeardownKeepsParity
CHECK_DEADLOCK FALSE
