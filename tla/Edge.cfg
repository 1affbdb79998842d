SPECIFICATION EdgeFairSpec
CONSTANTS
    Gateways = {g1, g2}
    Domains = {d1}
    EdgeSpecs <- MCEdgeSpecs
    Issuer = TRUE
    EdgeEvents = {"edit", "delete", "error", "edge", "crash"}
    MaxEdgeEvents = 1
    Nobody = Nobody
INVARIANTS EdgeTypeOK NothingLeftAtEdge
PROPERTIES DomainsSettle GatewayDeletionEnds 
