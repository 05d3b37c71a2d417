CONSTANTS
    workload = workload
    mgmt = mgmt
    other = other
    cfg = cfg
    creds = creds
    state = state
    Cluster <- Two
    Workload = workload
    Mgmt = mgmt
    Namespace <- NsNames
    NsOf <- SharedNs
    PivotNs <- Namespaces
    Secret <- Credentials
    Named <- Credentials
    Labelled = {}
    CfgSecret = cfg
    VerifySecret <- CfgOnly
    Options <- PlainOptions
    PivotSupported = TRUE
    MaxRuns = 2
    MaxApply = 3
    MaxMove = 2
SPECIFICATION Spec
INVARIANT SuccessIsPromoted
CHECK_DEADLOCK FALSE
