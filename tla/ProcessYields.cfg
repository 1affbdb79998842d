SPECIFICATION FairProcessSpec

CONSTANTS
    Replicas = {r1, r2}
    r1 = r1
    r2 = r2
    LeaseDuration = 3
    RenewDeadline = 2
    RetryPeriod = 1
    MaxLatency = 0
    Disturbances = {"error"}
    MaxDisturbances = 2
    Nobody = Nobody
    Absent = Absent
    DrainTimeout = 3

PROPERTY LoserYields
