CONSTANTS
    workload = workload
    mgmt = mgmt
    other = other
    cfg = cfg
    creds = creds
    state = state
    Cluster <- Three
    Workload = workload
    Mgmt = mgmt
    Namespace <- NsNames
    NsOf <- SharedNs
    PivotNs <- Namespaces
    Secret <- WithState
    Named <- Credentials
    Labelled = {state}
    CfgSecret = cfg
    VerifySecret <- Credentials
    Options <- LiveOptions
    PivotSupported = TRUE
    MaxRuns = 2
    MaxApply = 2
    MaxMove = 2
SPECIFICATION FairSpec
PROPERTIES RunEnds HandOffCompletes
CHECK_DEADLOCK FALSE
