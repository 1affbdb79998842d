------------------------- MODULE MCConfigRendering -------------------------
(* Inputs for TLC: every mix of plugin sources under one identity, and every identity. *)
EXTENDS ConfigRendering

\* A release before each threshold and one after the last, as is a tag that is no version.
Tags == {40, 43, 50, 99}

Entry(id) == [id |-> id, class |-> ClassOf(id), network |-> FALSE]

Plain ==
    [cloud |-> "served", domain |-> TRUE, canonical |-> "none", tag |-> 99, plugins |-> <<>>,
     cluster |-> "none", metrics |-> <<>>, traces |-> {}, events |-> FALSE,
     issuer |-> "none", audience |-> "unset", cache |-> FALSE, published |-> "none",
     set |-> {}, ref |-> "none", defaults |-> {}, collector |-> FALSE]

PluginInputs ==
    {[Plain EXCEPT !.cloud = c, !.plugins = p, !.set = s, !.cluster = k, !.ref = r, !.metrics = m,
                   !.traces = t, !.defaults = d, !.collector = u, !.cache = u] :
        c \in {"none", "bare", "served"},
        p \in {<<>>, <<Entry("otlp"), Entry("vendor")>>, <<Entry("http"), Entry("http")>>},
        s \in {{}, {<<>>}, {<<Entry("nats")>>}}, k \in {"none", "single_node", "nats", "other"},
        r \in {"none", "nats"}, m \in {<<>>, <<"prometheus", "otlp", "prometheus">>, <<"vendor">>},
        t \in {{}, {<<>>}, {<<"otlp">>}},
        d \in {{}, {<<>>}, {<<"http", "vendor", "vendor">>}}, u \in BOOLEAN}

IdentityInputs ==
    {[Plain EXCEPT !.domain = d, !.canonical = c, !.tag = t, !.events = e, !.issuer = i, !.audience = a,
                   !.published = p] :
        d \in BOOLEAN, c \in {"none", "platform", "custom"}, t \in Tags, e \in BOOLEAN,
        p \in {"none", "elsewhere"}, i \in Issuers, a \in {"unset"} \cup Hosts}

MCInputs == PluginInputs \cup IdentityInputs
=============================================================================
