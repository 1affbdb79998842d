--------------------------- MODULE MCGatewayFanIn ---------------------------
(* A gateway that routes and servers may come to and leave. *)
EXTENDS GatewayFanIn

CONSTANTS g1

MCGatewaySpecs ==
    { [consents |-> FALSE, inline |-> "none", taken |-> FALSE, list |-> "default"],
      [consents |-> TRUE,  inline |-> "ops",  taken |-> TRUE,  list |-> "named"] }

MCRouteSpecs ==
    { [gateway |-> g1, foreign |-> TRUE, tenant |-> "tenant A", tidy |-> TRUE],
      [gateway |-> g1, foreign |-> FALSE, tenant |-> "unset", tidy |-> TRUE],
      [gateway |-> NoGateway, foreign |-> FALSE, tenant |-> "tenant B", tidy |-> TRUE],
      [gateway |-> g1, foreign |-> FALSE, tenant |-> "tenant B", tidy |-> FALSE] }

Serves(g, name, image, verify, refused) ==
    [gateway |-> g, name |-> name, image |-> image, pinned |-> TRUE, verify |-> verify,
     refused |-> refused, tidy |-> TRUE]

MCServerSpecs ==
    { Serves(g1, "shared", "signed", TRUE, FALSE), Serves(g1, "own", "unsigned", FALSE, TRUE),
      Serves(NoGateway, "own", "unsigned", TRUE, FALSE),
      [Serves(g1, "own", "signed", TRUE, FALSE) EXCEPT !.tidy = FALSE] }
=============================================================================
