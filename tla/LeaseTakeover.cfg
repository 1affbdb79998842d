SPECIFICATION Spec

CONSTANTS
    Replicas = {r1, r2, r3}
    r1 = r1
    r2 = r2
    r3 = r3
    LeaseDuration = 7
    RenewDeadline = 3
    RetryPeriod = 1
    MaxLatency = 1
    Disturbances = {"crash"}
    MaxDisturbances = 1
    Nobody = Nobody
    Absent = Absent

SYMMETRY Interchangeable
INVARIANT AtMostOneLeader
