----------------------- MODULE MCClusterCoordination -----------------------
(* Instances of ClusterCoordination for TLC. *)
EXTENDS ClusterCoordination

CSpec(managed, backend, config, pinned, tidy) ==
    [managed |-> managed, backend |-> backend, config |-> config, pinned |-> pinned, tidy |-> tidy]
GSpec(scale, ref, inline) == [scale |-> scale, ref |-> ref, inline |-> inline]

MCClusterSpecs ==
    {CSpec("tls", "single_node", "empty", FALSE, TRUE),
     CSpec("off", "external", "secure", TRUE, TRUE),
     CSpec("off", "single_node", "empty", FALSE, TRUE),
     CSpec("plain", "external", "empty", FALSE, FALSE)}

MCGatewaySpecs ==
    {GSpec("one", TRUE, "none"), GSpec("many", TRUE, "none"), GSpec("auto", TRUE, "none"),
     GSpec("many", FALSE, "shared"), GSpec("one", FALSE, "none"), GSpec("many", FALSE, "none")}
=============================================================================
