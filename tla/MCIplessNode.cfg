\* Liveness with a Node that has no InternalIP: every Update fails while it
\* is in the Node list, and convergence resumes once it has left; a deleted
\* Service still loses its NodeBalancer, however the delete calls fail or
\* the NodeBalancer disappears between the delete verb's lookups.
CONSTANTS
    Absent = Absent
    Garbage = Garbage
    BadJSON = BadJSON
    Err = Err
    None = None
    Secrets = {"tls"}
    NBIds = {1, 2}
    CfgIds = {1, 2, 3, 4}
    Nodes <- MCNodes
    NodeIP <- MCNodeIPMissing
    PortLists <- MCPortLists
    AnnMaps <- MCAnnMapsLive
    MaxFailures = 2
    MaxEdits = 3
    SvcWorker = "worker"
    SyncWorker = "worker"
SPECIFICATION Spec
PROPERTIES
    EventuallyConverged
    EventuallyCleanedUp
