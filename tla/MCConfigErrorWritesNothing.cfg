\* Ports removed and an unsupported protocol set in the same Service edit.
CONSTANTS
    Absent = Absent
    Garbage = Garbage
    BadJSON = BadJSON
    Err = Err
    None = None
    Secrets = {"tls"}
    NBIds = {1, 2}
    CfgIds = {1, 2, 3, 4}
    Nodes <- MCNodes
    NodeIP <- MCNodeIP
    PortLists <- MCPortLists
    AnnMaps <- MCAnnMapsBadProtocol
    MaxFailures = 0
    MaxEdits = 2
    SvcWorker = "worker"
    SyncWorker = "worker"
SPECIFICATION Spec
PROPERTIES
    ConfigErrorWritesNothing
