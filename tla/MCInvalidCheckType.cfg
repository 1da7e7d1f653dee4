\* Spec 4.3: an unrecognised health-check type is a configuration error,
\* never sent to the provider.
CONSTANTS
    Absent = Absent
    Garbage = Garbage
    BadJSON = BadJSON
    Err = Err
    None = None
    Secrets = {"tls"}
    NBIds = {1, 2}
    CfgIds = {1, 2, 3, 4}
    Nodes <- MCNodes
    NodeIP <- MCNodeIP
    PortLists <- MCPortLists
    AnnMaps <- MCAnnMaps
    MaxFailures = 1
    MaxEdits = 2
    SvcWorker = "worker"
    SyncWorker = "worker"
SPECIFICATION Spec
PROPERTIES
    InvalidCheckTypeRejected
