\* Reconciler safety and liveness with failures, timeouts, Service edits,
\* Node churn and out-of-band NodeBalancer deletion.
CONSTANTS
    Absent = Absent
    Garbage = Garbage
    BadJSON = BadJSON
    Err = Err
    None = None
    Secrets = {"tls"}
    NBIds = {1, 2}
    CfgIds = {1, 2, 3, 4}
    Nodes <- MCNodes
    NodeIP <- MCNodeIP
    PortLists <- MCPortLists
    AnnMaps <- MCAnnMaps
    MaxFailures = 1
    MaxEdits = 2
    SvcWorker = "worker"
    SyncWorker = "worker"
SPECIFICATION Spec
INVARIANTS
    TypeOK
    AtMostOneNodeBalancer
    OneConfigPerPort
PROPERTIES
    SuccessMeansConverged
