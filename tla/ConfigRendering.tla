-------------------------- MODULE ConfigRendering --------------------------
(***************************************************************************)
(* The document a gateway boots from, as one pass of controllers/gateway.rs *)
(* renders it from spec.config: which plugins it loads                     *)
(* (templates/plugin_render.rs) and which identity it advertises           *)
(* (inject_resource_metadata and its neighbours).                          *)
(*                                                                         *)
(* The functions overlay one document one after the other, and each reads  *)
(* what the earlier ones left in it; the order of the actions is that of   *)
(* reconcile_inner.  The gateway refuses to boot from a document that      *)
(* loads a plugin twice, selects one that no entry loads, withholds a      *)
(* capability a plugin needs or holds a key the image does not know.       *)
(***************************************************************************)
EXTENDS Naturals, Sequences, FiniteSets

CONSTANTS Inputs      \* what a pass starts from: see InputType

\* Plugins of the public registry: the default backends, the sinks and the coordinators.
\* "vendor" is somebody else's.
DefaultBackends == <<"mock", "http">>
FirstPartySinks == {"prometheus", "otlp"}
Coordinators    == {"nats"}
PluginIds       == {"mock", "http", "prometheus", "otlp", "nats", "vendor"}

\* The descriptors: class, and whether network_outbound is required.
ClassOf(id) ==
    CASE id \in {"mock", "http"} -> "backend"
      [] id = "prometheus" -> "metrics_sink"
      [] id = "otlp" -> "telemetry_sink"
      [] id = "nats" -> "cluster"
      [] id = "vendor" -> "backend"
NeedsNetwork(id) == id \in {"http", "otlp", "nats"}

EntryType == [id : PluginIds, class : {"backend", "metrics_sink", "telemetry_sink", "cluster"},
              network : BOOLEAN]

\* First gateway releases that know a key; a tag that is not a version is taken as current.
AdditionalResourcesMin == 41
CanonicalUrlMin        == 44
EventsMin              == 60

Hosts == {"platform", "custom", "elsewhere"}

Issuers == {"none", "placeholder", "crooked", "relative"} \cup Hosts

\* spec.cloud ("bare" has no external URL), its custom domain and canonical URL; the image
\* tag; spec.config: its plugin entries, cluster block, sinks, events, authorization server,
\* canonical URL and cache directory; the resolved plugin set and cluster; the operator's
\* default plugins and collector.  What may be missing is a set of at most one: the sinks of
\* traces, the plugin set, the operator's list of defaults.
InputType ==
    [cloud : {"none", "bare", "served"}, domain : BOOLEAN,
     canonical : {"none", "platform", "custom"}, tag : Nat,
     plugins : Seq(EntryType), cluster : {"none", "single_node", "nats", "other"},
     metrics : Seq(PluginIds), traces : SUBSET Seq(PluginIds), events : BOOLEAN,
     issuer : Issuers, audience : {"unset"} \cup Hosts, published : {"none", "elsewhere"},
     cache : BOOLEAN, set : SUBSET Seq(EntryType), ref : {"none", "nats"},
     defaults : SUBSET Seq(PluginIds), collector : BOOLEAN]

ASSUME RenderingAssumption ==
    /\ Inputs # {} /\ Inputs \subseteq InputType
    /\ \A i \in Inputs :
           Cardinality(i.traces) <= 1 /\ Cardinality(i.set) <= 1 /\ Cardinality(i.defaults) <= 1

VARIABLES
    input,     \* what this pass was given
    step,      \* the next overlay
    config,    \* the document so far
    aligned    \* the condition AuthorizationServerAligned: its reason, "none" when there is none

renderVars == <<input, step, config, aligned>>

RenderSteps == {"plugins", "cluster", "resource", "canonical", "events", "align", "cache",
                "backends", "traces", "sinks", "coordinator", "done"}

\* The document is the published one, reduced to the keys the overlays read or write.
RenderInit ==
    /\ input \in Inputs
    /\ step = "plugins"
    /\ config = [plugins |-> input.plugins, added |-> {}, cluster |-> input.cluster, metrics |-> input.metrics,
                 traces |-> input.traces, cache |-> input.cache, resource |-> "none",
                 additional |-> {}, canonical |-> input.published, pinned |-> FALSE]
    /\ aligned = "none"

Overlay(from, to, document) ==
    /\ step = from
    /\ step' = to
    /\ config' = document
    /\ UNCHANGED <<input, aligned>>

SeqRange(s) == {s[i] : i \in DOMAIN s}

\* The only member, or a default.
OrElse(given, default) == IF given = {} THEN default ELSE CHOOSE x \in given : TRUE

\* plugin_ids: what the entries claim so far.
Loaded(document) ==
    {e.id : e \in SeqRange(document.plugins)} \cup {a.entry.id : a \in document.added}

\* push_plugin_entry: "array order carries no semantics here", so that what the overlays append
\* to the array is a set, in which two of them can still append the same entry.
Push(document, by, entries) ==
    [document EXCEPT !.added = @ \cup {[by |-> by, entry |-> e] : e \in entries}]

\* An entry for a plugin of the registry, with the grants its table lists.
RegistryEntry(id) == [id |-> id, class |-> ClassOf(id), network |-> NeedsNetwork(id)]

-----------------------------------------------------------------------------
(* Plugins and cluster *)

\* merge_plugins: a resolved set replaces the published entries.
MergePlugins ==
    Overlay("plugins", "cluster",
            [config EXCEPT !.plugins = OrElse(input.set, @)])

\* merge_cluster_block: the block of a bound cluster replaces the published one.
MergeClusterBlock ==
    Overlay("cluster",
            CASE input.cloud = "none" -> "done" [] input.cloud = "bare" -> "cache" [] OTHER -> "resource",
            [config EXCEPT !.cluster = IF input.ref = "none" THEN @ ELSE input.ref])

\* set_plugin_cache_dir, unless the document has one.
SetPluginCacheDir == Overlay("cache", "backends", [config EXCEPT !.cache = TRUE])

\* render_cloud_default_entry: the class of a backend, and the grants of the standard set
\* only.
DefaultEntry(id) ==
    [id |-> id, class |-> "backend", network |-> id \in SeqRange(DefaultBackends) /\ NeedsNetwork(id)]

\* append_cloud_default_plugins, for the ids that nothing claims.
AppendCloudDefaultPlugins ==
    LET ids == SeqRange(OrElse(input.defaults, DefaultBackends))
    IN  Overlay("backends", "traces",
                Push(config, "default", {DefaultEntry(id) : id \in ids \ Loaded(config)}))

\* append_default_traces_block: a document with any traces block keeps it.
AppendDefaultTracesBlock ==
    Overlay("traces", "sinks",
            [config EXCEPT !.traces = IF input.collector /\ @ = {} THEN {<<"otlp">>} ELSE @])

\* configured_sink_kinds: each once.
ConfiguredSinkKinds(document) == SeqRange(document.metrics) \cup SeqRange(OrElse(document.traces, <<>>))

\* Mutant of AppendObservabilitySinkPlugins: every configured sink gets an entry.
AppendEverySinkPlugin ==
    LET wanted == FirstPartySinks \cap ConfiguredSinkKinds(config)
    IN  Overlay("sinks", "coordinator",
                Push(config, "sink", {RegistryEntry(id) : id \in wanted}))

\* append_observability_sink_plugins: an entry for each first-party sink that has none.
AppendObservabilitySinkPlugins ==
    LET wanted == FirstPartySinks \cap ConfiguredSinkKinds(config)
    IN  Overlay("sinks", "coordinator",
                Push(config, "sink", {RegistryEntry(id) : id \in wanted \ Loaded(config)}))

\* append_cluster_coordinator_plugin.
AppendClusterCoordinatorPlugin ==
    LET wanted == Coordinators \cap {config.cluster}
    IN  Overlay("coordinator", "done",
                Push(config, "coordinator", {RegistryEntry(id) : id \in wanted \ Loaded(config)}))

-----------------------------------------------------------------------------
(* Identity *)

GatewayAtLeast(min) == input.tag >= min

Domain == IF input.domain THEN {"custom"} ELSE {}

\* Mutant of InjectResourceMetadata: every custom domain is advertised as well.
InjectEveryDomain ==
    Overlay("resource", "canonical",
            [config EXCEPT !.resource = IF input.canonical = "none" THEN "platform" ELSE input.canonical,
                           !.additional = IF GatewayAtLeast(AdditionalResourcesMin) THEN Domain ELSE {}])

\* The canonical URL alone, or the platform's address and every custom domain, as far as the
\* image knows how to say so.
InjectResourceMetadata ==
    Overlay("resource", "canonical",
            [config EXCEPT !.resource = IF input.canonical = "none" THEN "platform" ELSE input.canonical,
                           !.additional = IF input.canonical = "none" /\ GatewayAtLeast(AdditionalResourcesMin)
                                          THEN Domain ELSE {}])

\* inject_canonical_url: the gateway redirects every other name there.
InjectCanonicalUrl ==
    Overlay("canonical", "events",
            [config EXCEPT !.canonical = IF input.canonical # "none" /\ GatewayAtLeast(CanonicalUrlMin)
                                         THEN input.canonical ELSE @])

\* inject_events_policy, when the document turns events on.
InjectEventsPolicy ==
    Overlay("events", "align",
            [config EXCEPT !.pinned = input.events /\ GatewayAtLeast(EventsMin)])

Advertised(document) == {document.resource} \cup document.additional

\* authorization_server_alignment: the first of the problems.  A crooked issuer is an origin
\* with a path behind it, a relative one no absolute URL.
AuthorizationServerAlignment(document) ==
    CASE input.issuer \in {"none", "placeholder"} -> "none"
      [] input.issuer = "crooked" -> "IssuerNotBareOrigin"
      [] input.issuer \in ({"relative"} \cup Hosts) \ Advertised(document) -> "IssuerOriginMismatch"
      [] input.issuer \in Advertised(document) ->
             IF input.audience \in Hosts \ Advertised(document) THEN "ResourceMismatch" ELSE "Aligned"

JudgeAlignment ==
    /\ step = "align"
    /\ step' = "cache"
    /\ aligned' = AuthorizationServerAlignment(config)
    /\ UNCHANGED <<input, config>>

-----------------------------------------------------------------------------
(* The specification *)

RenderNext ==
    \/ MergePlugins \/ MergeClusterBlock
    \/ InjectResourceMetadata \/ InjectCanonicalUrl \/ InjectEventsPolicy \/ JudgeAlignment
    \/ SetPluginCacheDir \/ AppendCloudDefaultPlugins \/ AppendDefaultTracesBlock
    \/ AppendObservabilitySinkPlugins \/ AppendClusterCoordinatorPlugin

RenderSpec == RenderInit /\ [][RenderNext]_renderVars

-----------------------------------------------------------------------------
(* Properties *)

Rendered == step = "done" /\ input.cloud # "none"

\* Ids the operator's own setting lists although they are no backends of the standard set:
\* "the operator cannot know a foreign plugin's requirements".  A first-party sink that is
\* listed there is one of them, and gets neither its class nor its grants.
Foreign == (UNION {SeqRange(ids) : ids \in input.defaults}) \ SeqRange(DefaultBackends)

\* "An entry whose source does not resolve fails gateway boot", "a duplicate plugin id
\* registers a duplicate alias and fails boot", "the gateway refuses to boot rather than losing
\* a signal": a managed gateway loads every plugin that its document selects, none twice that
\* its own entries do not list twice, and with what it needs, whatever the author, the plugin
\* set and the operator's defaults list.
BootsWithItsPlugins ==
    Rendered =>
        /\ config.plugins = OrElse(input.set, input.plugins)
        /\ \A a \in config.added :
               /\ \A e \in SeqRange(config.plugins) : e.id # a.entry.id
               /\ \A b \in config.added : b.entry.id = a.entry.id => b = a
               /\ \/ a.entry.id \in Foreign
                  \/ /\ a.entry.class = ClassOf(a.entry.id)
                     /\ NeedsNetwork(a.entry.id) => a.entry.network
        /\ FirstPartySinks \cap ConfiguredSinkKinds(config) \subseteq Loaded(config)
        /\ Coordinators \cap {config.cluster} \subseteq Loaded(config)
        /\ input.defaults = {} => SeqRange(DefaultBackends) \subseteq Loaded(config)

\* The names the edge routes to the gateway, and what a client that comes by one of them meets:
\* the gateway serves it there, or sends it to the canonical URL, and tells it the resource of
\* the name it is served at if that is an additional one, and the main resource otherwise.
EdgeNames   == {"platform"} \cup Domain
ServedAt(n) == IF config.canonical = "none" THEN n ELSE config.canonical
Told(n)     == IF n \in config.additional THEN n ELSE config.resource

\* The image knows the keys it takes to advertise what spec.cloud asks for, and the document
\* names no canonical URL where spec.cloud names none.
PlatformDecides ==
    IF input.canonical = "none"
    THEN input.published = "none" /\ input.tag >= AdditionalResourcesMin
    ELSE input.tag >= CanonicalUrlMin

\* "A host a client is sent away from cannot be one": a client is told the resource of the URL
\* it ends up at, whichever name it came by and whatever URL the document published; and the
\* condition on the authorization server, which looks at the document only, calls an issuer
\* misplaced exactly when no client ends up at its host, and an audience right only when some
\* client is told it.
ToldWhereServed ==
    Rendered /\ input.cloud = "served" /\ PlatformDecides =>
        LET ends == {ServedAt(n) : n \in EdgeNames}
        IN  /\ \A n \in ends : Told(n) = n
            /\ input.issuer \in Hosts =>
                   ((aligned = "IssuerOriginMismatch") <=> input.issuer \notin ends)
            /\ aligned = "Aligned" => input.audience \in {"unset"} \cup ends
=============================================================================
