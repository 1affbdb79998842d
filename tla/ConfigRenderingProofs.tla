------------------------ MODULE ConfigRenderingProofs ------------------------
(***************************************************************************)
(* What a rendered document says about its gateway's identity and about    *)
(* the plugins it boots with, for every set of inputs and every image tag. *)
(***************************************************************************)
EXTENDS ConfigRendering, TLAPS

Keys == {"plugins", "added", "cluster", "metrics", "traces", "cache", "resource", "additional", "canonical",
         "pinned"}

\* The condition agrees with the names the document advertises.
Judged(reason, names) ==
    /\ input.issuer \in Hosts => ((reason = "IssuerOriginMismatch") <=> input.issuer \notin names)
    /\ reason = "Aligned" => input.audience \in {"unset"} \cup names

\* How far the overlays of an identity have come: what the earlier ones wrote and no later one
\* takes back.
IdentityInv ==
    /\ input \in Inputs
    /\ step \in RenderSteps
    /\ DOMAIN config = Keys
    /\ input.cloud = "served" =>
         /\ step \notin {"plugins", "cluster", "resource"} =>
              /\ config.resource = IF input.canonical = "none" THEN "platform" ELSE input.canonical
              /\ config.additional = IF input.canonical = "none" /\ input.tag >= AdditionalResourcesMin
                                     THEN Domain ELSE {}
         /\ config.canonical =
              IF /\ step \notin {"plugins", "cluster", "resource", "canonical"}
                 /\ input.canonical # "none" /\ input.tag >= CanonicalUrlMin
              THEN input.canonical ELSE input.published
         /\ step \notin {"plugins", "cluster", "resource", "canonical", "events", "align"} =>
              Judged(aligned, Advertised(config))

\* The overlays of plugins, cluster and telemetry change no key of the identity.
PluginOverlay ==
    \/ MergePlugins \/ MergeClusterBlock \/ SetPluginCacheDir \/ AppendCloudDefaultPlugins
    \/ AppendDefaultTracesBlock \/ AppendObservabilitySinkPlugins \/ AppendClusterCoordinatorPlugin

LEMMA IdentityKept ==
    ASSUME DOMAIN config = Keys, PluginOverlay
    PROVE  /\ DOMAIN config' = Keys
           /\ config'.resource = config.resource /\ config'.additional = config.additional
           /\ config'.canonical = config.canonical
           /\ UNCHANGED <<input, aligned>>
<1>1. ASSUME NEW k \in {"plugins", "added", "cluster", "cache", "traces"}, NEW x,
             config' = [config EXCEPT ![k] = x], UNCHANGED <<input, aligned>>
      PROVE  /\ DOMAIN config' = Keys
             /\ config'.resource = config.resource /\ config'.additional = config.additional
             /\ config'.canonical = config.canonical
             /\ UNCHANGED <<input, aligned>>
  BY <1>1 DEF Keys
<1>2. CASE MergePlugins                    BY <1>1, <1>2 DEF MergePlugins, Overlay
<1>3. CASE MergeClusterBlock               BY <1>1, <1>3 DEF MergeClusterBlock, Overlay
<1>4. CASE SetPluginCacheDir               BY <1>1, <1>4 DEF SetPluginCacheDir, Overlay
<1>5. CASE AppendCloudDefaultPlugins       BY <1>1, <1>5 DEF AppendCloudDefaultPlugins, Push, Overlay
<1>6. CASE AppendDefaultTracesBlock        BY <1>1, <1>6 DEF AppendDefaultTracesBlock, Overlay
<1>7. CASE AppendObservabilitySinkPlugins  BY <1>1, <1>7 DEF AppendObservabilitySinkPlugins, Push, Overlay
<1>8. CASE AppendClusterCoordinatorPlugin  BY <1>1, <1>8 DEF AppendClusterCoordinatorPlugin, Push, Overlay
<1> QED BY <1>2, <1>3, <1>4, <1>5, <1>6, <1>7, <1>8 DEF PluginOverlay

\* Where they come in the order.
LEMMA OverlayOrder ==
    ASSUME PluginOverlay, input.cloud = "served"
    PROVE  \/ step = "plugins" /\ step' = "cluster"
           \/ step = "cluster" /\ step' = "resource"
           \/ /\ step \in {"cache", "backends", "traces", "sinks", "coordinator"}
              /\ step' \in {"backends", "traces", "sinks", "coordinator", "done"}
BY DEF PluginOverlay, MergePlugins, MergeClusterBlock, SetPluginCacheDir, AppendCloudDefaultPlugins,
       AppendDefaultTracesBlock, AppendObservabilitySinkPlugins, AppendClusterCoordinatorPlugin, Overlay

\* authorization_server_alignment judges issuer and audience by the advertised names.
LEMMA AlignmentJudges ==
    ASSUME input \in InputType
    PROVE  Judged(AuthorizationServerAlignment(config), Advertised(config))
<1>1. input.issuer \in Issuers /\ input.audience \in {"unset"} \cup Hosts
  BY DEF InputType
<1>2. "crooked" \notin Hosts /\ "relative" \notin Hosts /\ "none" \notin Hosts /\ "placeholder" \notin Hosts
  BY DEF Hosts
<1> HIDE DEF Hosts
<1> QED BY <1>1, <1>2 DEF AuthorizationServerAlignment, Issuers, Judged

\* Every overlay adds to what the earlier ones wrote.
LEMMA IdentityStep == IdentityInv /\ [RenderNext]_renderVars => IdentityInv'
<1> SUFFICES ASSUME IdentityInv, [RenderNext]_renderVars PROVE IdentityInv'
  OBVIOUS
<1> USE DEF IdentityInv
<1>0. input \in InputType
  BY RenderingAssumption
<1>1. CASE PluginOverlay
  <2>1. /\ DOMAIN config' = Keys
        /\ config'.resource = config.resource /\ config'.additional = config.additional
        /\ config'.canonical = config.canonical
        /\ UNCHANGED <<input, aligned>>
    BY <1>1, IdentityKept
  <2>2. step' \in RenderSteps
    BY <1>1 DEF PluginOverlay, MergePlugins, MergeClusterBlock, SetPluginCacheDir,
                AppendCloudDefaultPlugins, AppendDefaultTracesBlock, AppendObservabilitySinkPlugins,
                AppendClusterCoordinatorPlugin, Overlay, RenderSteps
  <2>3. /\ Domain' = Domain
        /\ Judged(aligned, Advertised(config)) => Judged(aligned, Advertised(config))'
    BY <2>1 DEF Advertised, Domain, Judged
  <2>4. CASE input.cloud = "served"
    BY <1>1, <2>1, <2>2, <2>3, <2>4, OverlayOrder
  <2> QED BY <2>1, <2>2, <2>4
<1>2. CASE InjectResourceMetadata
  BY <1>2 DEF InjectResourceMetadata, Overlay, Keys, RenderSteps, GatewayAtLeast, Domain
<1>3. CASE InjectCanonicalUrl
  BY <1>3 DEF InjectCanonicalUrl, Overlay, Keys, RenderSteps, GatewayAtLeast, Domain
<1>4. CASE InjectEventsPolicy
  BY <1>4 DEF InjectEventsPolicy, Overlay, Keys, RenderSteps, GatewayAtLeast, Domain
<1>5. CASE JudgeAlignment
  <2>1. UNCHANGED <<input, config>> /\ aligned' = AuthorizationServerAlignment(config)
        /\ step = "align" /\ step' = "cache"
    BY <1>5 DEF JudgeAlignment
  <2>2. Judged(aligned, Advertised(config))'
    BY <1>0, <2>1, AlignmentJudges DEF Judged, Advertised
  <2> QED BY <2>1, <2>2 DEF Keys, RenderSteps, Domain
<1>6. CASE UNCHANGED renderVars
  BY <1>6 DEF renderVars, Domain, Advertised, Judged
<1> QED BY <1>1, <1>2, <1>3, <1>4, <1>5, <1>6 DEF RenderNext, PluginOverlay

\* For every document, image and choice of spec.cloud that the image can express: a client is
\* told the resource of the URL it ends up at, and the condition on the authorization server
\* agrees with where clients end up.
THEOREM IdentityConsistent == RenderSpec => []ToldWhereServed
<1>1. RenderInit => IdentityInv
  BY DEF RenderInit, IdentityInv, Keys, RenderSteps
<1>2. IdentityInv => ToldWhereServed
  <2> DEFINE ends == {ServedAt(n) : n \in EdgeNames}
  <2> SUFFICES ASSUME IdentityInv, Rendered, input.cloud = "served", PlatformDecides
               PROVE  (\A n \in ends : Told(n) = n) /\ Judged(aligned, ends)
    BY DEF ToldWhereServed, Judged
  <2>0. input \in InputType
    BY RenderingAssumption DEF IdentityInv
  <2>1. /\ config.resource = IF input.canonical = "none" THEN "platform" ELSE input.canonical
        /\ config.additional = IF input.canonical = "none" /\ input.tag >= AdditionalResourcesMin
                               THEN Domain ELSE {}
        /\ config.canonical = IF input.canonical # "none" /\ input.tag >= CanonicalUrlMin
                              THEN input.canonical ELSE input.published
        /\ Judged(aligned, Advertised(config))
    BY DEF IdentityInv, Rendered
  <2>2. CASE input.canonical = "none"
    <3>1. /\ config.resource = "platform" /\ config.additional = Domain
          /\ config.canonical = "none"
      BY <2>1, <2>2 DEF PlatformDecides
    <3>2. ends = EdgeNames /\ Advertised(config) = EdgeNames
      BY <3>1 DEF ServedAt, EdgeNames, Advertised
    <3>3. \A n \in EdgeNames : Told(n) = n
      BY <3>1 DEF Told, EdgeNames
    <3> QED BY <2>1, <3>2, <3>3
  <2>3. CASE input.canonical # "none"
    <3>1. /\ config.resource = input.canonical /\ config.additional = {}
          /\ config.canonical = input.canonical
      BY <2>1, <2>3 DEF PlatformDecides
    <3>2. ends = {input.canonical} /\ Advertised(config) = {input.canonical}
      BY <2>3, <3>1 DEF ServedAt, EdgeNames, Advertised
    <3>3. Told(input.canonical) = input.canonical
      BY <3>1 DEF Told
    <3> QED BY <2>1, <3>2, <3>3
  <2> QED BY <2>2, <2>3
<1> QED BY <1>1, <1>2, IdentityStep, PTL DEF RenderSpec

-----------------------------------------------------------------------------
(* Plugins *)

\* Nothing is added before the defaults are.
BeforeDefaults == {"plugins", "cluster", "resource", "canonical", "events", "align", "cache", "backends"}

\* What an overlay may add: a plugin of its own that nothing else loads, with what it needs.
AddedWell(document) ==
    \A a \in document.added :
        /\ \A e \in SeqRange(document.plugins) : e.id # a.entry.id
        /\ \A b \in document.added : b.entry.id = a.entry.id => b = a
        /\ \/ a.entry.id \in Foreign
           \/ /\ a.entry.class = ClassOf(a.entry.id)
              /\ NeedsNetwork(a.entry.id) => a.entry.network

\* How far the plugins of a managed gateway have come: each overlay has seen to what it is for,
\* and neither it nor a later one loads anything twice.
PluginsInv ==
    /\ step \in RenderSteps
    /\ DOMAIN config = Keys
    /\ AddedWell(config)
    /\ step \in BeforeDefaults => config.added = {}
    /\ config.plugins = IF step = "plugins" THEN input.plugins ELSE OrElse(input.set, input.plugins)
    /\ input.cloud # "none" =>
         /\ step \notin BeforeDefaults /\ input.defaults = {} =>
              SeqRange(DefaultBackends) \subseteq Loaded(config)
         /\ step \in {"coordinator", "done"} =>
              FirstPartySinks \cap ConfiguredSinkKinds(config) \subseteq Loaded(config)
         /\ step = "done" => Coordinators \cap {config.cluster} \subseteq Loaded(config)

\* Entries whose ids are not loaded yet are loaded once, and make their ids loaded.
LEMMA PushWell ==
    ASSUME DOMAIN config = Keys, AddedWell(config), NEW by, NEW new,
           \A e \in new : e.id \notin Loaded(config),
           \A e, f \in new : e.id = f.id => e = f,
           \A e \in new : \/ e.id \in Foreign
                          \/ e.class = ClassOf(e.id) /\ (NeedsNetwork(e.id) => e.network),
           config' = Push(config, by, new),
           UNCHANGED input
    PROVE  /\ DOMAIN config' = Keys /\ AddedWell(config)'
           /\ \A k \in Keys \ {"added"} : config'[k] = config[k]
           /\ Loaded(config)' = Loaded(config) \cup {e.id : e \in new}
<1> DEFINE pushed == {[by |-> by, entry |-> e] : e \in new}
<1>1. /\ DOMAIN config' = Keys
      /\ \A k \in Keys \ {"added"} : config'[k] = config[k]
      /\ config'.added = config.added \cup pushed
  BY DEF Push, Keys
<1>2. config'.plugins = config.plugins
  BY <1>1 DEF Keys
<1>3. \A a \in pushed : a.entry \in new /\ a.by = by /\ a = [by |-> by, entry |-> a.entry]
  OBVIOUS
<1>4. \A e \in new : [by |-> by, entry |-> e] \in pushed /\ [by |-> by, entry |-> e].entry = e
  OBVIOUS
<1> HIDE DEF pushed
<1>5. Loaded(config)' = Loaded(config) \cup {e.id : e \in new}
  <2>1. {a.entry.id : a \in pushed} = {e.id : e \in new}
    <3>1. ASSUME NEW a \in pushed PROVE a.entry.id \in {e.id : e \in new}
      BY <1>3
    <3>2. ASSUME NEW e \in new PROVE \E a \in pushed : e.id = a.entry.id
      <4>1. PICK a \in pushed : a.entry = e
        BY <1>4
      <4> QED BY <4>1
    <3> QED BY <3>1, <3>2
  <2>2. {a.entry.id : a \in config'.added} = {a.entry.id : a \in config.added} \cup {a.entry.id : a \in pushed}
    BY <1>1
  <2> QED BY <1>2, <2>1, <2>2 DEF Loaded
<1>6. ASSUME NEW a \in config'.added
      PROVE  \A e \in SeqRange(config'.plugins) : e.id # a.entry.id
  BY <1>1, <1>2, <1>3 DEF AddedWell, Loaded
<1>7. ASSUME NEW a \in config'.added, NEW b \in config'.added, b.entry.id = a.entry.id
      PROVE  b = a
  <2>1. CASE a \in config.added /\ b \in config.added
    BY <1>7, <2>1 DEF AddedWell
  <2>2. CASE a \in pushed /\ b \in pushed
    BY <1>3, <1>7, <2>2
  <2>3. ASSUME NEW c \in config.added, NEW d \in pushed, c.entry.id = d.entry.id PROVE FALSE
    BY <1>3, <2>3 DEF Loaded
  <2> QED BY <1>1, <1>7, <2>1, <2>2, <2>3
<1>8. ASSUME NEW a \in config'.added
      PROVE  \/ a.entry.id \in Foreign
             \/ a.entry.class = ClassOf(a.entry.id) /\ (NeedsNetwork(a.entry.id) => a.entry.network)
  BY <1>1, <1>3 DEF AddedWell
<1>9. Foreign' = Foreign
  BY DEF Foreign
<1>10. AddedWell(config)'
  BY <1>6, <1>7, <1>8, <1>9 DEF AddedWell
<1> QED BY <1>1, <1>5, <1>10

\* An entry for a plugin of the registry carries the class and grants of its table.
LEMMA RegistryEntries ==
    ASSUME NEW ids, NEW taken, NEW new, new = {RegistryEntry(id) : id \in ids \ taken}
    PROVE  /\ \A e \in new : e.id \notin taken
           /\ \A e, f \in new : e.id = f.id => e = f
           /\ \A e \in new : e.class = ClassOf(e.id) /\ (NeedsNetwork(e.id) => e.network)
           /\ {e.id : e \in new} = ids \ taken
<1>1. ASSUME NEW id
      PROVE  /\ RegistryEntry(id).id = id /\ RegistryEntry(id).class = ClassOf(id)
             /\ RegistryEntry(id).network = NeedsNetwork(id)
  BY DEF RegistryEntry
<1>2. \A e \in new : e.id \in ids \ taken /\ e = RegistryEntry(e.id)
  BY <1>1
<1>3. \A id \in ids \ taken : RegistryEntry(id) \in new /\ RegistryEntry(id).id = id
  BY <1>1
<1>4. \A e \in new : e.class = ClassOf(e.id) /\ e.network = NeedsNetwork(e.id)
  BY <1>1, <1>2
<1>5. \A e \in new : NeedsNetwork(e.id) => e.network
  BY <1>4
<1>6. {e.id : e \in new} = ids \ taken
  BY <1>2, <1>3
<1> QED BY <1>2, <1>4, <1>5, <1>6

\* So does a default of the standard set.
LEMMA DefaultEntries ==
    ASSUME NEW ids, NEW taken, NEW new, new = {DefaultEntry(id) : id \in ids \ taken}
    PROVE  /\ \A e \in new : e.id \notin taken
           /\ \A e, f \in new : e.id = f.id => e = f
           /\ \A e \in new : e.id \in SeqRange(DefaultBackends) =>
                                 e.class = ClassOf(e.id) /\ (NeedsNetwork(e.id) => e.network)
           /\ {e.id : e \in new} = ids \ taken
<1>1. ASSUME NEW id
      PROVE  /\ DefaultEntry(id).id = id /\ DefaultEntry(id).class = "backend"
             /\ DefaultEntry(id).network = (id \in SeqRange(DefaultBackends) /\ NeedsNetwork(id))
  BY DEF DefaultEntry
<1>2. \A id \in SeqRange(DefaultBackends) : ClassOf(id) = "backend"
  BY DEF SeqRange, DefaultBackends, ClassOf
<1>3. \A e \in new : e.id \in ids \ taken /\ e = DefaultEntry(e.id)
  BY <1>1
<1>4. \A id \in ids \ taken : DefaultEntry(id) \in new /\ DefaultEntry(id).id = id
  BY <1>1
<1>5. ASSUME NEW e \in new, e.id \in SeqRange(DefaultBackends)
      PROVE  e.class = ClassOf(e.id) /\ (NeedsNetwork(e.id) => e.network)
  <2>1. e.class = "backend" /\ e.network = (e.id \in SeqRange(DefaultBackends) /\ NeedsNetwork(e.id))
    BY <1>1, <1>3
  <2> QED BY <1>2, <1>5, <2>1
<1>6. {e.id : e \in new} = ids \ taken
  BY <1>3, <1>4
<1> QED BY <1>3, <1>5, <1>6

\* Each overlay of the plugins does what it is for and keeps what the earlier ones did.
LEMMA PluginsStep == PluginsInv /\ [RenderNext]_renderVars => PluginsInv'
<1> SUFFICES ASSUME PluginsInv, [RenderNext]_renderVars PROVE PluginsInv'
  OBVIOUS
<1>0. /\ step \in RenderSteps /\ DOMAIN config = Keys /\ AddedWell(config)
      /\ step \in BeforeDefaults => config.added = {}
      /\ config.plugins = IF step = "plugins" THEN input.plugins ELSE OrElse(input.set, input.plugins)
  BY DEF PluginsInv
\* Overlays that leave the plugins, the sinks and the cluster alone.
<1>1. ASSUME step' \in RenderSteps, DOMAIN config' = Keys, UNCHANGED input,
             \A k \in {"plugins", "added", "metrics", "traces", "cluster"} : config'[k] = config[k],
             \/ step = step'
             \/ /\ step \in BeforeDefaults \ {"plugins", "backends"}
                /\ step' \in BeforeDefaults \ {"plugins"} \/ (step' = "done" /\ input.cloud = "none")
      PROVE  PluginsInv'
  <2>1. /\ config'.plugins = config.plugins /\ config'.added = config.added
        /\ config'.metrics = config.metrics /\ config'.traces = config.traces
        /\ config'.cluster = config.cluster
    BY <1>1
  <2>2. /\ Loaded(config)' = Loaded(config) /\ AddedWell(config)'
        /\ ConfiguredSinkKinds(config)' = ConfiguredSinkKinds(config)
    BY <1>0, <1>1, <2>1 DEF Loaded, AddedWell, Foreign, ConfiguredSinkKinds
  <2> QED BY <1>1, <2>1, <2>2 DEF PluginsInv, BeforeDefaults
<1>2. CASE MergePlugins
  <2>1. /\ step = "plugins" /\ step' = "cluster" /\ DOMAIN config' = Keys
        /\ config'.plugins = OrElse(input.set, config.plugins) /\ config'.added = {}
        /\ UNCHANGED input
    BY <1>0, <1>2 DEF MergePlugins, Overlay, Keys, BeforeDefaults
  <2>2. config'.plugins = OrElse(input.set, input.plugins)
    BY <1>0, <2>1
  <2>3. AddedWell(config)'
    BY <2>1 DEF AddedWell
  <2> QED BY <2>1, <2>2, <2>3 DEF PluginsInv, BeforeDefaults, RenderSteps
<1>3. CASE MergeClusterBlock
  <2>1. /\ step = "cluster" /\ DOMAIN config' = Keys /\ UNCHANGED input
        /\ config'.plugins = config.plugins /\ config'.added = {}
        /\ \/ step' = "done" /\ input.cloud = "none"
           \/ step' \in {"cache", "resource"}
    BY <1>0, <1>3 DEF MergeClusterBlock, Overlay, Keys, BeforeDefaults
  <2>2. config'.plugins = OrElse(input.set, input.plugins)
    BY <1>0, <2>1
  <2>3. AddedWell(config)'
    BY <2>1 DEF AddedWell
  <2> QED BY <2>1, <2>2, <2>3 DEF PluginsInv, BeforeDefaults, RenderSteps
<1>4. CASE InjectResourceMetadata
  <2>1. /\ step = "resource" /\ step' = "canonical" /\ DOMAIN config' = Keys /\ UNCHANGED input
        /\ \A k \in {"plugins", "added", "metrics", "traces", "cluster"} : config'[k] = config[k]
    BY <1>0, <1>4 DEF InjectResourceMetadata, Overlay, Keys
  <2> QED BY <1>1, <2>1 DEF BeforeDefaults, RenderSteps
<1>5. CASE InjectCanonicalUrl
  <2>1. /\ step = "canonical" /\ step' = "events" /\ DOMAIN config' = Keys /\ UNCHANGED input
        /\ \A k \in {"plugins", "added", "metrics", "traces", "cluster"} : config'[k] = config[k]
    BY <1>0, <1>5 DEF InjectCanonicalUrl, Overlay, Keys
  <2> QED BY <1>1, <2>1 DEF BeforeDefaults, RenderSteps
<1>6. CASE InjectEventsPolicy
  <2>1. /\ step = "events" /\ step' = "align" /\ DOMAIN config' = Keys /\ UNCHANGED input
        /\ \A k \in {"plugins", "added", "metrics", "traces", "cluster"} : config'[k] = config[k]
    BY <1>0, <1>6 DEF InjectEventsPolicy, Overlay, Keys
  <2> QED BY <1>1, <2>1 DEF BeforeDefaults, RenderSteps
<1>7. CASE JudgeAlignment
  <2>1. /\ step = "align" /\ step' = "cache" /\ UNCHANGED <<input, config>>
    BY <1>7 DEF JudgeAlignment
  <2> QED BY <1>0, <1>1, <2>1 DEF BeforeDefaults, RenderSteps
<1>8. CASE SetPluginCacheDir
  <2>1. /\ step = "cache" /\ step' = "backends" /\ DOMAIN config' = Keys /\ UNCHANGED input
        /\ \A k \in {"plugins", "added", "metrics", "traces", "cluster"} : config'[k] = config[k]
    BY <1>0, <1>8 DEF SetPluginCacheDir, Overlay, Keys
  <2> QED BY <1>1, <2>1 DEF BeforeDefaults, RenderSteps
<1>9. CASE AppendCloudDefaultPlugins
  <2> DEFINE ids == SeqRange(OrElse(input.defaults, DefaultBackends))
             new == {DefaultEntry(id) : id \in ids \ Loaded(config)}
  <2>1. /\ step = "backends" /\ step' = "traces" /\ UNCHANGED input
        /\ config' = Push(config, "default", new)
    BY <1>9 DEF AppendCloudDefaultPlugins, Overlay
  <2>2. \A id \in ids : id \in SeqRange(DefaultBackends) \/ id \in Foreign
    <3>1. CASE input.defaults = {}
      BY <3>1 DEF OrElse
    <3>2. CASE input.defaults # {}
      <4>1. OrElse(input.defaults, DefaultBackends) \in input.defaults
        BY <3>2 DEF OrElse
      <4> QED BY <4>1 DEF Foreign
    <3> QED BY <3>1, <3>2
  <2>3. input.defaults = {} => ids = SeqRange(DefaultBackends)
    BY DEF OrElse
  <2> HIDE DEF ids
  <2>4. /\ \A e \in new : e.id \notin Loaded(config)
        /\ \A e, f \in new : e.id = f.id => e = f
        /\ \A e \in new : \/ e.id \in Foreign
                          \/ e.class = ClassOf(e.id) /\ (NeedsNetwork(e.id) => e.network)
        /\ {e.id : e \in new} = ids \ Loaded(config)
    <3>1. /\ \A e \in new : e.id \notin Loaded(config)
          /\ \A e, f \in new : e.id = f.id => e = f
          /\ \A e \in new : e.id \in SeqRange(DefaultBackends) =>
                                e.class = ClassOf(e.id) /\ (NeedsNetwork(e.id) => e.network)
          /\ {e.id : e \in new} = ids \ Loaded(config)
      BY DefaultEntries
    <3> HIDE DEF new
    <3>2. \A e \in new : e.id \in SeqRange(DefaultBackends) \/ e.id \in Foreign
      BY <2>2, <3>1
    <3> QED BY <3>1, <3>2
  <2> HIDE DEF new
  <2>5. /\ DOMAIN config' = Keys /\ AddedWell(config)'
        /\ \A k \in Keys \ {"added"} : config'[k] = config[k]
        /\ Loaded(config)' = Loaded(config) \cup {e.id : e \in new}
    BY <1>0, <2>1, <2>4, PushWell
  <2>6. config'.plugins = OrElse(input.set, input.plugins)
    BY <1>0, <2>1, <2>5 DEF Keys
  <2>7. input.defaults = {} => SeqRange(DefaultBackends) \subseteq Loaded(config)'
    BY <2>3, <2>4, <2>5
  <2> QED BY <2>1, <2>5, <2>6, <2>7 DEF PluginsInv, BeforeDefaults, RenderSteps
<1>10. CASE AppendDefaultTracesBlock
  <2>1. /\ step = "traces" /\ step' = "sinks" /\ DOMAIN config' = Keys /\ UNCHANGED input
        /\ \A k \in {"plugins", "added"} : config'[k] = config[k]
    BY <1>0, <1>10 DEF AppendDefaultTracesBlock, Overlay, Keys
  <2>2. config'.plugins = config.plugins /\ config'.added = config.added
    BY <2>1
  <2>3. Loaded(config)' = Loaded(config) /\ AddedWell(config)'
    BY <1>0, <2>1, <2>2 DEF Loaded, AddedWell, Foreign
  <2> QED BY <1>0, <2>1, <2>2, <2>3 DEF PluginsInv, BeforeDefaults, RenderSteps
<1>11. CASE AppendObservabilitySinkPlugins
  <2> DEFINE wanted == FirstPartySinks \cap ConfiguredSinkKinds(config)
             new    == {RegistryEntry(id) : id \in wanted \ Loaded(config)}
  <2>1. /\ step = "sinks" /\ step' = "coordinator" /\ UNCHANGED input
        /\ config' = Push(config, "sink", new)
    BY <1>11 DEF AppendObservabilitySinkPlugins, Overlay
  <2>2. /\ \A e \in new : e.id \notin Loaded(config)
        /\ \A e, f \in new : e.id = f.id => e = f
        /\ \A e \in new : e.class = ClassOf(e.id) /\ (NeedsNetwork(e.id) => e.network)
        /\ {e.id : e \in new} = wanted \ Loaded(config)
    <3> HIDE DEF wanted
    <3> QED BY RegistryEntries
  <2> HIDE DEF new
  <2>3. /\ DOMAIN config' = Keys /\ AddedWell(config)'
        /\ \A k \in Keys \ {"added"} : config'[k] = config[k]
        /\ Loaded(config)' = Loaded(config) \cup {e.id : e \in new}
    BY <1>0, <2>1, <2>2, PushWell
  <2>4. /\ config'.plugins = config.plugins /\ config'.metrics = config.metrics
        /\ config'.traces = config.traces
    BY <2>3 DEF Keys
  <2>5. FirstPartySinks \cap ConfiguredSinkKinds(config)' \subseteq Loaded(config)'
    BY <2>2, <2>3, <2>4 DEF ConfiguredSinkKinds
  <2>6. /\ Loaded(config) \subseteq Loaded(config)'
        /\ config'.plugins = OrElse(input.set, input.plugins)
    BY <1>0, <2>1, <2>3, <2>4
  <2> QED BY <2>1, <2>3, <2>5, <2>6 DEF PluginsInv, BeforeDefaults, RenderSteps
<1>12. CASE AppendClusterCoordinatorPlugin
  <2> DEFINE wanted == Coordinators \cap {config.cluster}
             new    == {RegistryEntry(id) : id \in wanted \ Loaded(config)}
  <2>1. /\ step = "coordinator" /\ step' = "done" /\ UNCHANGED input
        /\ config' = Push(config, "coordinator", new)
    BY <1>12 DEF AppendClusterCoordinatorPlugin, Overlay
  <2>2. /\ \A e \in new : e.id \notin Loaded(config)
        /\ \A e, f \in new : e.id = f.id => e = f
        /\ \A e \in new : e.class = ClassOf(e.id) /\ (NeedsNetwork(e.id) => e.network)
        /\ {e.id : e \in new} = wanted \ Loaded(config)
    <3> HIDE DEF wanted
    <3> QED BY RegistryEntries
  <2> HIDE DEF new
  <2>3. /\ DOMAIN config' = Keys /\ AddedWell(config)'
        /\ \A k \in Keys \ {"added"} : config'[k] = config[k]
        /\ Loaded(config)' = Loaded(config) \cup {e.id : e \in new}
    BY <1>0, <2>1, <2>2, PushWell
  <2>4. /\ config'.plugins = config.plugins /\ config'.metrics = config.metrics
        /\ config'.traces = config.traces /\ config'.cluster = config.cluster
    BY <2>3 DEF Keys
  <2>5. /\ ConfiguredSinkKinds(config)' = ConfiguredSinkKinds(config)
        /\ Loaded(config) \subseteq Loaded(config)'
        /\ Coordinators \cap {config'.cluster} \subseteq Loaded(config)'
    BY <2>2, <2>3, <2>4 DEF ConfiguredSinkKinds
  <2>6. config'.plugins = OrElse(input.set, input.plugins)
    BY <1>0, <2>1, <2>4
  <2> QED BY <2>1, <2>3, <2>5, <2>6 DEF PluginsInv, BeforeDefaults, RenderSteps
<1>13. CASE UNCHANGED renderVars
  BY <1>0, <1>1, <1>13 DEF renderVars
<1> QED
  BY <1>2, <1>3, <1>4, <1>5, <1>6, <1>7, <1>8, <1>9, <1>10, <1>11, <1>12, <1>13 DEF RenderNext

\* A managed gateway loads every plugin its document selects, none that the operator adds
\* twice, and each with the class and grants it needs: for every document, plugin set and list
\* of defaults.
THEOREM PluginsBoot == RenderSpec => []BootsWithItsPlugins
<1>1. RenderInit => PluginsInv
  <2> SUFFICES ASSUME RenderInit PROVE PluginsInv
    OBVIOUS
  <2>1. /\ step = "plugins" /\ DOMAIN config = Keys
        /\ config.plugins = input.plugins /\ config.added = {}
    BY DEF RenderInit, Keys
  <2> QED BY <2>1 DEF PluginsInv, AddedWell, BeforeDefaults, RenderSteps
<1>2. PluginsInv => BootsWithItsPlugins
  BY DEF PluginsInv, AddedWell, BootsWithItsPlugins, Rendered, BeforeDefaults
<1> QED BY <1>1, <1>2, PluginsStep, PTL DEF RenderSpec

=============================================================================
