CONSTANTS
    p1 = p1
    p2 = p2
    Runners = {p1, p2}
    KindClusters <- MCKindClusters
    Inputs <- MCInputs
    Edits <- MCEdits
    Hashed <- MCHashed
    Vault <- MCVault
    Styles = {"form", "attended", "unattended", "forced"}
    MaxInputs = 2
    MaxRuns = 2
SPECIFICATION Spec
CHECK_DEADLOCK FALSE
SYMMETRY MCSymmetry
INVARIANT TypeOK
PROPERTY SuppliedStays
PROPERTY RestoredAsSaved
