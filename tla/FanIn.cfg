SPECIFICATION FanFairSpec
CONSTANTS
    g1 = g1
    Gateways = {g1}
    Routes = {r1}
    Servers = {1}
    Lists = {"default", "named"}
    GatewaySpecs <- MCGatewaySpecs
    RouteSpecs <- MCRouteSpecs
    ServerSpecs <- MCServerSpecs
    Signed = {"signed"}
    FanEvents = {"gateway", "route", "server", "list", "error", "list error", "crash"}
    MaxFanEvents = 1
    NoGateway = NoGateway
INVARIANTS FanTypeOK RefusedStaysOut
PROPERTIES FailClosedForChanges PodsFollowFanIn RevocationReachesPods ServerDeletionEnds
