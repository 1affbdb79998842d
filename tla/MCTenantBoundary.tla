-------------------------- MODULE MCTenantBoundary --------------------------
(* Two tenants that may claim the same namespace, with and without a quota. *)
EXTENDS TenantBoundary

CONSTANTS n1, n2

Declares(ns, counts, cap, allowed) ==
    [namespaces |-> ns, counts |-> counts, cap |-> cap, allowed |-> allowed, tidy |-> TRUE]

MCTenantSpecs ==
    { Declares({n1}, TRUE, 2, Plugins), Declares({n1}, FALSE, 1, {"listed"}),
      Declares({n1, n2}, TRUE, 2, {"listed"}), Declares({}, FALSE, 2, Plugins) }

MCWorkloadSpecs ==
    { [kind |-> "gateway", ceiling |-> 2, tidy |-> TRUE],
      [kind |-> "plugin set", uses |-> {"unlisted"}, tidy |-> TRUE] }
=============================================================================
