SPECIFICATION CoordFairSpec
CONSTANTS
    Gateways = {g1}
    ClusterSpecs <- MCClusterSpecs
    GatewaySpecs <- MCGatewaySpecs
    CoordEvents = {"edit cluster", "delete cluster", "edit gateway", "delete gateway", "plugin", "rotate", "nats", "crash", "error"}
    MaxCoordEvents = 2
    Nobody = Nobody
INVARIANTS CoordTypeOK ReplicasCoordinated
PROPERTIES KeyIsCreatedOnce HeldBlockStays BoundGatewaysConnect UnverifiedUnbound
