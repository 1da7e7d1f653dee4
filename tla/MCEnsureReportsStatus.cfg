\* EnsureLoadBalancer after the NodeBalancer is deleted out of band between
\* its UpdateLoadBalancer and its final GetLoadBalancer.
CONSTANTS
    Absent = Absent
    Garbage = Garbage
    BadJSON = BadJSON
    Err = Err
    None = None
    Secrets = {"tls"}
    NBIds = {1, 2}
    CfgIds = {1, 2, 3, 4}
    Nodes <- MCNodes
    NodeIP <- MCNodeIP
    PortLists <- MCPortLists
    AnnMaps <- MCAnnMapsLive
    MaxFailures = 0
    MaxEdits = 2
    SvcWorker = "worker"
    SyncWorker = "worker"
SPECIFICATION Spec
PROPERTIES
    EnsureReportsStatus
