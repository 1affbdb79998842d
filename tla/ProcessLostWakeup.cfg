SPECIFICATION FairProcessSpec

CONSTANTS
    Replicas = {r1}
    r1 = r1
    LeaseDuration = 3
    RenewDeadline = 2
    RetryPeriod = 1
    MaxLatency = 0
    Disturbances = {}
    MaxDisturbances = 0
    Nobody = Nobody
    Absent = Absent
    DrainTimeout = 3

PROPERTY LeaderServes
