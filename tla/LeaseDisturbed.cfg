SPECIFICATION FairSpec

CONSTANTS
    Replicas = {r1, r2}
    r1 = r1
    r2 = r2
    LeaseDuration = 7
    RenewDeadline = 3
    RetryPeriod = 1
    MaxLatency = 1
    Disturbances = {"crash", "error", "delete", "shutdown"}
    MaxDisturbances = 2
    Nobody = Nobody
    Absent = Absent

INVARIANT TypeOK
INVARIANT StaleLeadershipBounded
INVARIANT LeaderLeaseFresh
INVARIANT SoleUntilDisturbed
PROPERTY LeadershipConverges
