CONSTANTS
    workload = workload
    mgmt = mgmt
    other = other
    cfg = cfg
    creds = creds
    state = state
    Cluster <- Two
    Workload = workload
    Mgmt = mgmt
    Namespace <- NsNames
    NsOf <- SharedNs
    PivotNs <- Namespaces
    Secret <- Credentials
    Named <- Credentials
    Labelled = {}
    CfgSecret = cfg
    VerifySecret <- CfgOnly
    Options <- PivotOnly
    PivotSupported = TRUE
    MaxRuns = 1
    MaxApply = 3
    MaxMove = 2
SPECIFICATION Spec
INVARIANT FaultFreeRunSurvives
CHECK_DEADLOCK FALSE
