---------------------------- MODULE MCGatewayEdge ----------------------------
(* Two gateways that a custom domain moves between. *)
EXTENDS GatewayEdge

Cloud(domains, coordinated, budget) ==
    [cloud |-> TRUE, domains |-> domains, replicas |-> 2, auto |-> FALSE,
     min |-> 0, max |-> 0, coordinated |-> coordinated, budget |-> budget]

SelfHosted(replicasWanted, auto) ==
    [cloud |-> FALSE, domains |-> {}, replicas |-> replicasWanted, auto |-> auto,
     min |-> 2, max |-> 0, coordinated |-> FALSE, budget |-> "unset"]

MCEdgeSpecs == {Cloud(Domains, TRUE, "unset"), Cloud({}, FALSE, "off"), SelfHosted(2, TRUE)}

ScaledSpecs == {SelfHosted(2, TRUE), SelfHosted(1, FALSE)}
=============================================================================
