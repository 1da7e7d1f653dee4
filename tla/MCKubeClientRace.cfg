\* Two goroutines race on the lazy l.kubeClient of retrieveKubeClient with
\* no client construction failing: the reconciler still never crashes.
CONSTANTS
    Absent = Absent
    Garbage = Garbage
    BadJSON = BadJSON
    Err = Err
    None = None
    Secrets = {"tls"}
    NBIds = {1, 2}
    CfgIds = {1, 2, 3, 4}
    Nodes <- MCOneNode
    NodeIP <- MCOneNodeIP
    PortLists <- MCPortLists
    AnnMaps <- MCAnnMapsTLS
    MaxFailures = 0
    MaxEdits = 2
    SvcWorker = "svc"
    SyncWorker = "sync"
SPECIFICATION RacySpec
INVARIANTS
    NeverPanics
