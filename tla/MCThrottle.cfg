\* Reference check of getConnectionThrottle: every decimal throttle value,
\* including ones outside Go's int range, is clamped to [0, 20].
CONSTANTS
    Absent = Absent
    Garbage = Garbage
    BadJSON = BadJSON
    Err = Err
    Secrets = {"tls"}
    BelowInt = BelowInt
    AboveInt = AboveInt
SPECIFICATION Spec
INVARIANTS
    ThrottleClamped
