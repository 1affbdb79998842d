SPECIFICATION EdgeFairSpec
CONSTANTS
    Gateways = {g1}
    Domains = {d1}
    EdgeSpecs <- ScaledSpecs
    Issuer = TRUE
    EdgeEvents = {"edit"}
    MaxEdgeEvents = 1
    Nobody = Nobody
PROPERTY CountComesToRest
