\* The reconciler never crashes: a failed kube client construction in
\* retrieveKubeClient is reported as an error by every later addSSLCert.
CONSTANTS
    Absent = Absent
    Garbage = Garbage
    BadJSON = BadJSON
    Err = Err
    None = None
    Secrets = {"tls"}
    NBIds = {1, 2}
    CfgIds = {1, 2, 3, 4}
    Nodes <- MCNodes
    NodeIP <- MCNodeIP
    PortLists <- MCPortLists
    AnnMaps <- MCAnnMapsTLS
    MaxFailures = 1
    MaxEdits = 1
    SvcWorker = "worker"
    SyncWorker = "worker"
SPECIFICATION Spec
INVARIANTS
    NeverPanics
