\* A second EnsureLoadBalancer/UpdateLoadBalancer with nothing changed: the
\* retry of an Ensure whose last read failed after the provider converged.
CONSTANTS
    Absent = Absent
    Garbage = Garbage
    BadJSON = BadJSON
    Err = Err
    None = None
    Secrets = {"tls"}
    NBIds = {1, 2}
    CfgIds = {1, 2, 3, 4}
    Nodes <- MCNodes
    NodeIP <- MCNodeIP
    PortLists <- MCPortLists
    AnnMaps <- MCAnnMapsLive
    MaxFailures = 1
    MaxEdits = 0
    SvcWorker = "worker"
    SyncWorker = "worker"
SPECIFICATION Spec
PROPERTIES
    IdempotentWhenConverged
