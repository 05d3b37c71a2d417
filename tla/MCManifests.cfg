SPECIFICATION Spec
CONSTANTS
    r1 = r1
    r2 = r2
    w1 = w1
    w2 = w2
    Runners <- MCRunners
    Workloads <- MCWorkloads
    Sizes = {1, 2}
    Networks = {1}
    Commands <- Everyday
    Flavours = {"kubeadm", "k3s"}
    SpecRevisions = TRUE
    MaxRuns = 2
    MaxEdits = 1
SYMMETRY Alike
INVARIANTS TypeOK ApplyAccepted SecretIsWhole StampMeansRead
PROPERTIES RolledOnlyWhenChanged
CHECK_DEADLOCK FALSE
