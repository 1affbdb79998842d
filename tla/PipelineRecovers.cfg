SPECIFICATION FairSpec

CONSTANTS
    Plugins = {p1}
    Artefacts = {good, bad}
    Genuine = {good}
    p1 = p1
    good = good
    bad = bad
    Nothing = Nothing
    MaxGeneration = 2
    Events = {"edit", "repush", "revoke", "entries", "delete plugin", "delete set", "crash", "error"}
    MaxEvents = 2

INVARIANT TypeOK
INVARIANT OnlyVerifiedMounted
INVARIANT RevokedNeverStored
INVARIANT ConfigRefsExist
INVARIANT AtRestConsistent
PROPERTY RevokedUnmounted
PROPERTY HealthyMounted
PROPERTY DanglingMountsHeal
