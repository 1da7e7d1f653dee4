\* Liveness: once Service edits, Node churn and provider and kube client
\* failures stop, repeated EnsureLoadBalancer calls converge the provider to
\* the Service, after any panic on the nil kube client and the restart.
CONSTANTS
    Absent = Absent
    Garbage = Garbage
    BadJSON = BadJSON
    Err = Err
    None = None
    Secrets = {"tls"}
    NBIds = {1, 2}
    CfgIds = {1, 2, 3, 4}
    Nodes <- MCNodes
    NodeIP <- MCNodeIP
    PortLists <- MCPortLists
    AnnMaps <- MCAnnMapsTLS
    MaxFailures = 2
    MaxEdits = 2
    SvcWorker = "worker"
    SyncWorker = "worker"
SPECIFICATION Spec
PROPERTIES
    EventuallyConverged
