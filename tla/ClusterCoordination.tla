------------------------- MODULE ClusterCoordination -------------------------
(***************************************************************************)
(* How the replicas of a gateway come to share one coordinator.            *)
(*                                                                         *)
(*   controllers/cluster.rs     provisions a managed NATS coordinator:     *)
(*                              Certificate, create-once Secret,           *)
(*                              StatefulSet; judges whether the backend    *)
(*                              may be bound, and says so in its status;   *)
(*   controllers/gateway.rs     resolves clusterRef into a cluster block   *)
(*                              and a copy of the Secret, or holds the     *)
(*                              whole pass and keeps what runs;            *)
(*   admission/validators       keep specs that cannot coordinate out.     *)
(*                                                                         *)
(* One MCPGCluster and the gateways of one namespace.  A pass is split     *)
(* where it talks to the apiserver.  Passes over one object never overlap. *)
(***************************************************************************)
EXTENDS Naturals, FiniteSets

CONSTANTS
    Gateways,        \* MCPGGateway names in one namespace
    ClusterSpecs,    \* the MCPGCluster specs users may submit
    GatewaySpecs,    \* the MCPGGateway specs users may submit
    CoordEvents,     \* which of CoordEventKinds may happen
    MaxCoordEvents,  \* and how many of them in one behaviour
    Nobody           \* owns no Secret

CoordEventKinds == {"edit cluster", "delete cluster", "edit gateway", "delete gateway",
                    "plugin", "rotate", "nats", "crash", "error"}

\* spec.managed (and its tls), spec.backend, spec.config, spec.pluginRef, and
\* whether the rest of the spec is well formed.
ClusterSpecType ==
    [managed : {"off", "plain", "tls"}, backend : {"single_node", "external"},
     config : {"empty", "secure", "plaintext", "waived"}, pinned : BOOLEAN, tidy : BOOLEAN]

\* The replica ceiling (one, many, or an autoscaler with a ceiling above one),
\* spec.clusterRef, and the kind of an inline spec.config.cluster.
GatewaySpecType ==
    [scale : {"one", "many", "auto"}, ref : BOOLEAN, inline : {"none", "single_node", "shared"}]

ASSUME CoordinationAssumption ==
    /\ ClusterSpecs \subseteq ClusterSpecType /\ ClusterSpecs # {}
    /\ GatewaySpecs \subseteq GatewaySpecType /\ GatewaySpecs # {}
    /\ Nobody \notin Gateways
    /\ CoordEvents \subseteq CoordEventKinds
    /\ MaxCoordEvents \in Nat

VARIABLES
    cluster,     \* the MCPGCluster: phase, spec, condition Ready is True
    secret,      \* its coordination Secret: key (0: no Secret) and CA
    minted,      \* keys generated so far
    certificate, \* the Certificate exists
    issued,      \* the CA cert-manager has issued, 0 when none
    nats,        \* the StatefulSet: "none", "starting" or "up"
    plugin,      \* the MCPGPlugin that pluginRef names is there and Ready
    clDirty, clPass,
    gw,          \* each MCPGGateway: phase and spec
    gwDirty, gwPass,
    configMap,   \* the cluster block in each gateway's ConfigMap
    deployment,  \* each gateway's Deployment: replicas, the cluster block of the
                 \* configuration it is stamped with, whether it takes the Secret's
                 \* copy as environment
    hpa,         \* gateways that have a HorizontalPodAutoscaler
    copy,        \* the namespace's copy of the Secret: key, CA and the gateway that owns it
    occurred     \* events so far

clusterVars == <<cluster, secret, minted, certificate, nats, clDirty, clPass>>
gatewayVars == <<gw, gwPass, configMap, deployment, hpa, copy>>
coordVars   == <<clusterVars, issued, plugin, gatewayVars, gwDirty, occurred>>

-----------------------------------------------------------------------------
(* Types *)

Phases == {"absent", "new", "live", "deleting"}     \* "live": has our finalizer
CAs    == 0 .. 2                                    \* two CAs follow each other
\* What a configuration may say about the coordinator: nothing was rendered, no
\* block or the in-process one, an inline backend, or what an MCPGCluster yields.
Blocks == {"unrendered", "local", "inline", "plain", "tls", "external"}
Shared == {"inline", "plain", "tls", "external"}
NoDeployment == [size |-> "none", block |-> "unrendered", env |-> FALSE]
NoCopy   == [key |-> 0, ca |-> 0, owner |-> Nobody]
NoSecret == [key |-> 0, ca |-> 0]

\* A pass that has ended remembers nothing; its spec is then any one.
ClusterIdle == [pc |-> "idle", spec |-> CHOOSE s \in ClusterSpecs : TRUE,
                ca |-> 0, key |-> 0, ok |-> FALSE]
GatewayIdle == [pc |-> "idle", spec |-> CHOOSE s \in GatewaySpecs : TRUE,
                block |-> "unrendered", key |-> 0, ca |-> 0]

ClusterSteps == {"idle", "tls", "read secret", "write secret", "nats",
                 "report", "prune", "release"}
GatewaySteps == {"idle", "hold", "coordination", "config", "copy", "deployment", "report"}

ClusterTypes ==
    /\ cluster \in [phase : Phases, spec : ClusterSpecs, ready : BOOLEAN]
    /\ secret \in [key : Nat, ca : CAs]
    /\ minted \in Nat
    /\ certificate \in BOOLEAN
    /\ issued \in CAs
    /\ nats \in {"none", "starting", "up"}
    /\ plugin \in BOOLEAN
    /\ clDirty \in BOOLEAN
    /\ clPass \in [pc : ClusterSteps, spec : ClusterSpecs, ca : CAs, key : Nat, ok : BOOLEAN]
    /\ occurred \in 0 .. MaxCoordEvents

GatewayTypes ==
    /\ gw \in [Gateways -> [phase : Phases, spec : GatewaySpecs]]
    /\ gwDirty \in [Gateways -> BOOLEAN]
    /\ gwPass \in [Gateways -> [pc : GatewaySteps, spec : GatewaySpecs, block : Blocks,
                                key : Nat, ca : CAs]]
    /\ configMap \in [Gateways -> Blocks]
    /\ deployment \in [Gateways -> [size : {"none", "one", "many", "unpinned"},
                                    block : Blocks, env : BOOLEAN]]
    /\ hpa \subseteq Gateways
    /\ copy \in [key : Nat, ca : CAs, owner : Gateways \cup {Nobody}]

\* Every variable keeps its type.
CoordTypeOK == ClusterTypes /\ GatewayTypes

\* Nothing has been created yet but the plugin a cluster may pin, which is verified.
CoordInit ==
    /\ cluster = [phase |-> "absent", spec |-> ClusterIdle.spec, ready |-> FALSE]
    /\ secret = NoSecret
    /\ minted = 0
    /\ certificate = FALSE
    /\ issued = 0
    /\ nats = "none"
    /\ plugin = TRUE
    /\ clDirty = FALSE
    /\ clPass = ClusterIdle
    /\ gw = [g \in Gateways |-> [phase |-> "absent", spec |-> GatewayIdle.spec]]
    /\ gwDirty = [g \in Gateways |-> FALSE]
    /\ gwPass = [g \in Gateways |-> GatewayIdle]
    /\ configMap = [g \in Gateways |-> "unrendered"]
    /\ deployment = [g \in Gateways |-> NoDeployment]
    /\ hpa = {}
    /\ copy = NoCopy
    /\ occurred = 0

-----------------------------------------------------------------------------
(* Specs and admission *)

Managed(s)    == s.managed # "off"
SingleNode(s) == ~ Managed(s) /\ s.backend = "single_node"
Ceiling(s)    == IF s.scale = "one" THEN 1 ELSE 2

\* render_cluster_block_with.
ClusterBlock(s) ==
    CASE Managed(s)    -> s.managed
      [] SingleNode(s) -> "local"
      [] OTHER         -> "external"

InlineBlock(s) == IF s.inline = "shared" THEN "inline" ELSE "local"

\* The validating webhook of MCPGCluster: managed excludes backend and config, the
\* in-process backend takes no config, any other needs one and an encrypted transport.
ValidateCluster(s) ==
    /\ Managed(s) => s.backend = "single_node"
    /\ s.config = "empty" <=> s.backend = "single_node"
    /\ s.config # "plaintext"
    /\ s.tidy

\* coordination_path: how a gateway means to coordinate its replicas.
CoordinationPath(s) ==
    CASE Ceiling(s) <= 1       -> "single replica"
      [] Ceiling(s) > 1 /\ s.ref -> "ref"
      [] Ceiling(s) > 1 /\ ~ s.ref /\ s.inline = "shared" -> "inline"
      [] OTHER                 -> "denied"

BindingAlreadyAdmitted(old, s) == old # {} /\ \A o \in old : Ceiling(o) > 1 /\ o.ref = s.ref

\* judge_referenced_cluster, on the object as it is now.
JudgeReferencedCluster ==
    cluster.phase # "absent" /\ ~ SingleNode(cluster.spec) /\ cluster.ready

Occurs(kind) ==
    /\ kind \in CoordEvents
    /\ occurred < MaxCoordEvents
    /\ occurred' = occurred + 1

\* enforce_multi_replica_coordination; old holds the spec before an update.  It
\* admits when the MCPGCluster cannot be read.
AdmitGateway(old, s) ==
    LET path == CoordinationPath(s)
    IN  /\ path # "denied"
        /\ \/ path # "ref"
           \/ BindingAlreadyAdmitted(old, s)
           \/ JudgeReferencedCluster

-----------------------------------------------------------------------------
(* The cluster controller *)

\* Every write of the MCPGCluster reaches the gateway controller, whose watch of it
\* is not filtered; likewise the other way round.
BoundGateways == {g \in Gateways : gw[g].phase # "absent" /\ gw[g].spec.ref}
ClusterWritten == gwDirty' = [g \in Gateways |-> gwDirty[g] \/ g \in BoundGateways]

ClusterMoves(next) == clPass' = [clPass EXCEPT !.pc = next]

ClusterFrame == UNCHANGED <<issued, plugin, gatewayVars>>

\* reconcile_inner: the deletion branch, or ensure_finalizer and provisioning.
BeginCluster ==
    /\ clDirty /\ clPass.pc = "idle"
    /\ cluster.phase # "absent"
    /\ clDirty' = FALSE
    /\ LET s == cluster.spec
           deleting == cluster.phase = "deleting"
       IN  clPass' = [ClusterIdle EXCEPT !.spec = s,
                        !.pc = CASE deleting /\ Managed(s)      -> "prune"
                                 [] deleting /\ ~ Managed(s)    -> "release"
                                 [] ~ deleting /\ Managed(s)    -> "tls"
                                 [] ~ deleting /\ ~ Managed(s)  -> "report"]
    /\ cluster' = [cluster EXCEPT !.phase = IF @ = "new" THEN "live" ELSE @]
    /\ IF cluster.phase = "new" THEN ClusterWritten ELSE UNCHANGED gwDirty
    /\ ClusterFrame
    /\ UNCHANGED <<secret, minted, certificate, nats, occurred>>

\* reconcile_managed, steps 1 and 2, on the TLS path: build_nats_certificate, then
\* read_ca_cert, where a CA that cannot be read counts as one not issued yet.
ProvisionTls ==
    /\ clPass.pc = "tls"
    /\ certificate' = (certificate \/ clPass.spec.managed = "tls")
    /\ \/ /\ clPass' = [clPass EXCEPT !.pc = "read secret",
                          !.ca = IF clPass.spec.managed = "tls" THEN issued ELSE 0]
          /\ UNCHANGED occurred
       \/ Occurs("error") /\ ClusterMoves("read secret")
    /\ ClusterFrame
    /\ UNCHANGED <<cluster, secret, minted, nats, clDirty, gwDirty>>

\* Step 3, ensure_coordination_secret: first the existing data.
ReadSecret ==
    /\ clPass.pc = "read secret"
    /\ clPass' = [clPass EXCEPT !.pc = "write secret", !.key = secret.key]
    /\ ClusterFrame
    /\ UNCHANGED <<cluster, secret, minted, certificate, nats, clDirty, gwDirty, occurred>>

\* Mutant of WriteSecret: the Secret is rendered afresh on every pass.
WriteSecretAfresh ==
    /\ clPass.pc = "write secret"
    /\ secret' = [key |-> minted + 1, ca |-> clPass.ca]
    /\ minted' = minted + 1
    /\ ClusterMoves("nats")
    /\ ClusterFrame
    /\ UNCHANGED <<cluster, certificate, nats, clDirty, gwDirty, occurred>>

\* Then merge_coordination_data and a forced apply: token and key are minted only
\* when absent, the CA follows what was read.
WriteSecret ==
    /\ clPass.pc = "write secret"
    /\ secret' = [key |-> IF clPass.key = 0 THEN minted + 1 ELSE clPass.key, ca |-> clPass.ca]
    /\ minted' = IF clPass.key = 0 THEN minted + 1 ELSE minted
    /\ ClusterMoves("nats")
    /\ ClusterFrame
    /\ UNCHANGED <<cluster, certificate, nats, clDirty, gwDirty, occurred>>

\* Steps 4 and 5: ConfigMap, Services and StatefulSet, whose applied status says
\* whether the server is up.
ApplyNats ==
    /\ clPass.pc = "nats"
    /\ nats' = IF nats = "none" THEN "starting" ELSE nats
    /\ clPass' = [clPass EXCEPT !.pc = "report",
                    !.ok = nats = "up" /\ (clPass.spec.managed = "tls" => clPass.ca # 0)]
    /\ ClusterFrame
    /\ UNCHANGED <<cluster, secret, minted, certificate, clDirty, gwDirty, occurred>>

\* Mutant of ClassifyReadiness: a pinned plugin is not looked up.
ClassifyReadinessUnpinned(s, up) == Managed(s) => up

\* A managed coordinator must be up, a pinned plugin verified.
ClassifyReadiness(s, up) == (Managed(s) => up) /\ (s.pinned => plugin)

\* The verdict and the status, best-effort; its lastReconcileTime differs on every pass.
ReportCluster ==
    /\ clPass.pc = "report"
    /\ \/ /\ cluster' = [cluster EXCEPT !.ready = ClassifyReadiness(clPass.spec, clPass.ok)]
          /\ ClusterWritten
          /\ UNCHANGED occurred
       \/ Occurs("error") /\ UNCHANGED <<cluster, gwDirty>>
    /\ clPass' = ClusterIdle
    /\ ClusterFrame
    /\ UNCHANGED <<secret, minted, certificate, nats, clDirty>>

\* prune_managed_children: every deletion is tried, none is retried.  The volume of
\* the StatefulSet stays.
PruneManaged ==
    /\ clPass.pc = "prune"
    /\ \/ /\ secret' = NoSecret /\ nats' = "none" /\ certificate' = FALSE /\ issued' = 0
          /\ UNCHANGED occurred
       \/ /\ Occurs("error")
          /\ secret' \in {secret, NoSecret}
          /\ nats' \in {nats, "none"}
          /\ certificate' \in {certificate, FALSE}
          /\ issued' \in {issued, 0}
    /\ ClusterMoves("release")
    /\ UNCHANGED <<cluster, minted, clDirty, gwDirty, plugin, gatewayVars>>

ReleaseCluster ==
    /\ clPass.pc = "release"
    /\ cluster' = [cluster EXCEPT !.phase = "absent", !.ready = FALSE]
    /\ clPass' = ClusterIdle
    /\ clDirty' = FALSE
    /\ ClusterWritten
    /\ ClusterFrame
    /\ UNCHANGED <<secret, minted, certificate, nats, occurred>>

\* Any other apiserver error leaves the pass through error_policy.
ClusterPassErrs ==
    /\ clPass.pc \in {"tls", "read secret", "write secret", "nats", "report", "release"}
    /\ Occurs("error")
    /\ clPass' = ClusterIdle
    /\ clDirty' = TRUE
    /\ ClusterFrame
    /\ UNCHANGED <<cluster, secret, minted, certificate, nats, gwDirty>>

ClusterStep ==
    \/ BeginCluster \/ ProvisionTls \/ ReadSecret \/ WriteSecret \/ ApplyNats
    \/ ReportCluster \/ PruneManaged \/ ReleaseCluster

-----------------------------------------------------------------------------
(* The gateway controller *)

GatewayWritten(g) ==
    clDirty' = (clDirty \/ (gw[g].spec.ref /\ cluster.phase # "absent"))

GatewayMoves(g, next) == gwPass' = [gwPass EXCEPT ![g].pc = next]

\* What a pass over gateway g leaves alone.
GatewayFrame ==
    UNCHANGED <<cluster, secret, minted, certificate, nats, clPass, issued, plugin>>

\* Mutant of ClassifyClusterBinding: the controller leaves the ceiling to admission.
ClassifyClusterBindingTrusting(s) == cluster.phase # "absent" /\ cluster.ready

\* classify_cluster_binding: the reference resolves to a coordinator this gateway may
\* use.  A cluster that is being deleted still counts.
ClassifyClusterBinding(s) ==
    /\ cluster.phase # "absent"
    /\ cluster.ready
    /\ SingleNode(cluster.spec) => Ceiling(s) <= 1

\* Mutant of ResolveCluster: a reference that does not resolve yields no block.
ResolveClusterLoosely(s) ==
    IF s.ref /\ ClassifyClusterBinding(s)
    THEN [GatewayIdle EXCEPT !.spec = s, !.block = ClusterBlock(cluster.spec),
            !.pc = IF Managed(cluster.spec) THEN "coordination" ELSE "config"]
    ELSE [GatewayIdle EXCEPT !.spec = s, !.block = InlineBlock(s), !.pc = "config"]

\* resolve_cluster and merge_cluster_block: what this pass will render, or a hold.
ResolveCluster(s) ==
    CASE ~ s.ref ->
           [GatewayIdle EXCEPT !.spec = s, !.block = InlineBlock(s), !.pc = "config"]
      [] s.ref /\ ClassifyClusterBinding(s) ->
           [GatewayIdle EXCEPT !.spec = s, !.block = ClusterBlock(cluster.spec),
              !.pc = IF Managed(cluster.spec) THEN "coordination" ELSE "config"]
      [] OTHER ->
           [GatewayIdle EXCEPT !.spec = s, !.pc = "hold"]

ReleaseGateway(g) ==
    /\ gwDirty[g] /\ gwPass[g].pc = "idle"
    /\ gw[g].phase = "deleting"
    /\ gw' = [gw EXCEPT ![g].phase = "absent"]
    /\ gwDirty' = [gwDirty EXCEPT ![g] = FALSE]
    /\ GatewayWritten(g)
    /\ GatewayFrame
    /\ UNCHANGED <<gwPass, configMap, deployment, hpa, copy, occurred>>

\* ensure_finalizer, then the MCPGCluster is read.
BeginGateway(g) ==
    /\ gwDirty[g] /\ gwPass[g].pc = "idle"
    /\ gw[g].phase \in {"new", "live"}
    /\ gw' = [gw EXCEPT ![g].phase = "live"]
    /\ gwDirty' = [gwDirty EXCEPT ![g] = FALSE]
    /\ IF gw[g].phase = "new" THEN GatewayWritten(g) ELSE UNCHANGED clDirty
    /\ gwPass' = [gwPass EXCEPT ![g] = ResolveCluster(gw[g].spec)]
    /\ GatewayFrame
    /\ UNCHANGED <<configMap, deployment, hpa, copy, occurred>>

\* The hold path writes the status, best-effort, and renders nothing.
Hold(g) ==
    /\ gwPass[g].pc = "hold"
    /\ \/ GatewayWritten(g) /\ UNCHANGED occurred
       \/ Occurs("error") /\ UNCHANGED clDirty
    /\ gwPass' = [gwPass EXCEPT ![g] = GatewayIdle]
    /\ GatewayFrame
    /\ UNCHANGED <<gw, gwDirty, configMap, deployment, hpa, copy>>

\* The coordination Secret, read after the verdict; a missing one is no error.
ReadCoordination(g) ==
    /\ gwPass[g].pc = "coordination"
    /\ gwPass' = [gwPass EXCEPT ![g].pc = "config",
                                ![g].key = secret.key, ![g].ca = secret.ca]
    /\ GatewayFrame
    /\ UNCHANGED <<clDirty, gw, gwDirty, configMap, deployment, hpa, copy, occurred>>

\* The ConfigMap, then Service and ServiceAccount: the first of several writes, any of
\* which may fail.  The gateway owns it, so a change asks for another pass.
ApplyConfig(g) ==
    /\ gwPass[g].pc = "config"
    /\ configMap' = [configMap EXCEPT ![g] = gwPass[g].block]
    /\ gwDirty' = [gwDirty EXCEPT ![g] = gwDirty[g] \/ configMap' # configMap]
    /\ GatewayMoves(g, IF gwPass[g].key # 0 THEN "copy" ELSE "deployment")
    /\ GatewayFrame
    /\ UNCHANGED <<clDirty, gw, deployment, hpa, copy, occurred>>

\* Mutant of ApplyCopy: the copy is written once and then left alone.
ApplyCopyOnce(g) ==
    /\ gwPass[g].pc = "copy"
    /\ copy' = IF copy = NoCopy THEN [key |-> gwPass[g].key, ca |-> gwPass[g].ca, owner |-> g]
                                ELSE copy
    /\ GatewayMoves(g, "deployment")
    /\ GatewayFrame
    /\ UNCHANGED <<clDirty, gw, gwDirty, configMap, deployment, hpa, occurred>>

\* build_coordination_secret_copy: one name for every gateway of the namespace, so
\* the last to write it owns it.  Nobody watches it.
ApplyCopy(g) ==
    /\ gwPass[g].pc = "copy"
    /\ copy' = [key |-> gwPass[g].key, ca |-> gwPass[g].ca, owner |-> g]
    /\ GatewayMoves(g, "deployment")
    /\ GatewayFrame
    /\ UNCHANGED <<clDirty, gw, gwDirty, configMap, deployment, hpa, occurred>>

\* build_env_from: the copied coordination Secret, which the pods cannot start without.
BuildEnvFrom(pass) == pass.key # 0

\* Mutant of ApplyDeployment: the replica count is written for autoscaled gateways too.
ApplyDeploymentAsScaled(g) ==
    /\ gwPass[g].pc = "deployment"
    /\ deployment' = [deployment EXCEPT ![g] =
           [size |-> gwPass[g].spec.scale, block |-> gwPass[g].block, env |-> BuildEnvFrom(gwPass[g])]]
    /\ gwDirty' = [gwDirty EXCEPT ![g] = gwDirty[g] \/ deployment' # deployment]
    /\ GatewayMoves(g, "report")
    /\ GatewayFrame
    /\ UNCHANGED <<clDirty, gw, configMap, hpa, copy, occurred>>

\* The Deployment, owned like the ConfigMap.  build_deployment sets no replica count where an autoscaler owns it.
ApplyDeployment(g) ==
    /\ gwPass[g].pc = "deployment"
    /\ deployment' = [deployment EXCEPT ![g] =
           [size |-> IF gwPass[g].spec.scale = "auto" THEN "unpinned" ELSE gwPass[g].spec.scale,
            block |-> gwPass[g].block, env |-> BuildEnvFrom(gwPass[g])]]
    /\ gwDirty' = [gwDirty EXCEPT ![g] = gwDirty[g] \/ deployment' # deployment]
    /\ GatewayMoves(g, "report")
    /\ GatewayFrame
    /\ UNCHANGED <<clDirty, gw, configMap, hpa, copy, occurred>>

\* build_hpa, which leaves the autoscaler of an earlier spec alone, then the status,
\* best-effort.
ReportGateway(g) ==
    /\ gwPass[g].pc = "report"
    /\ hpa' = IF gwPass[g].spec.scale = "auto" THEN hpa \cup {g} ELSE hpa
    /\ \/ GatewayWritten(g) /\ UNCHANGED occurred
       \/ Occurs("error") /\ UNCHANGED clDirty
    /\ gwPass' = [gwPass EXCEPT ![g] = GatewayIdle]
    /\ GatewayFrame
    /\ UNCHANGED <<gw, gwDirty, configMap, deployment, copy>>

GatewayPassErrs(g) ==
    /\ gwPass[g].pc \in {"coordination", "config", "copy", "deployment", "report"}
    /\ Occurs("error")
    /\ gwPass' = [gwPass EXCEPT ![g] = GatewayIdle]
    /\ gwDirty' = [gwDirty EXCEPT ![g] = TRUE]
    /\ GatewayFrame
    /\ UNCHANGED <<clDirty, gw, configMap, deployment, hpa, copy>>

GatewayStep(g) ==
    \/ ReleaseGateway(g) \/ BeginGateway(g) \/ Hold(g) \/ ReadCoordination(g)
    \/ ApplyConfig(g) \/ ApplyCopy(g) \/ ApplyDeployment(g) \/ ReportGateway(g)

\* The garbage collector removes what a deleted gateway owned.
CollectGatewayGarbage(g) ==
    /\ gw[g].phase = "absent" /\ gwPass[g].pc = "idle"
    /\ \/ configMap[g] # "unrendered" \/ deployment[g] # NoDeployment
       \/ g \in hpa \/ copy.owner = g
    /\ configMap' = [configMap EXCEPT ![g] = "unrendered"]
    /\ deployment' = [deployment EXCEPT ![g] = NoDeployment]
    /\ hpa' = hpa \ {g}
    /\ copy' = IF copy.owner = g THEN NoCopy ELSE copy
    /\ GatewayFrame
    /\ UNCHANGED <<clDirty, gw, gwDirty, gwPass, occurred>>

-----------------------------------------------------------------------------
(* Users, cert-manager, NATS and time *)

UserFrame == UNCHANGED <<secret, minted, certificate, issued, nats, plugin, clPass,
                         gwPass, configMap, deployment, hpa, copy>>

SubmitCluster(s, phase) ==
    /\ ValidateCluster(s)
    /\ cluster' = [cluster EXCEPT !.phase = phase, !.spec = s]
    /\ clDirty' = TRUE
    /\ ClusterWritten
    /\ UserFrame
    /\ UNCHANGED gw

CreateCluster(s) ==
    /\ cluster.phase = "absent"
    /\ SubmitCluster(s, "new")
    /\ UNCHANGED occurred

EditCluster(s) ==
    /\ Occurs("edit cluster")
    /\ cluster.phase \in {"new", "live"}
    /\ s # cluster.spec
    /\ SubmitCluster(s, cluster.phase)

\* An object without our finalizer disappears at once.
Deleted(phase) == IF phase = "new" THEN "absent" ELSE "deleting"

DeleteCluster ==
    /\ Occurs("delete cluster")
    /\ cluster.phase \in {"new", "live"}
    /\ cluster' = [cluster EXCEPT !.phase = Deleted(@)]
    /\ clDirty' = (cluster.phase = "live")
    /\ ClusterWritten
    /\ UserFrame
    /\ UNCHANGED gw

SubmitGateway(g, s, phase) ==
    /\ gw' = [gw EXCEPT ![g] = [phase |-> phase, spec |-> s]]
    /\ gwDirty' = [gwDirty EXCEPT ![g] = TRUE]
    /\ clDirty' = (clDirty \/ (s.ref /\ cluster.phase # "absent"))
    /\ UserFrame
    /\ UNCHANGED cluster

CreateGateway(g, s) ==
    /\ gw[g].phase = "absent"
    /\ \/ AdmitGateway({}, s) /\ UNCHANGED occurred
       \/ CoordinationPath(s) = "ref" /\ Occurs("error")
    /\ SubmitGateway(g, s, "new")

EditGateway(g, s) ==
    /\ Occurs("edit gateway")
    /\ gw[g].phase \in {"new", "live"}
    /\ s # gw[g].spec
    /\ AdmitGateway({gw[g].spec}, s)
    /\ SubmitGateway(g, s, gw[g].phase)

DeleteGateway(g) ==
    /\ Occurs("delete gateway")
    /\ gw[g].phase \in {"new", "live"}
    /\ gw' = [gw EXCEPT ![g].phase = Deleted(@)]
    /\ gwDirty' = [gwDirty EXCEPT ![g] = gw[g].phase = "live"]
    /\ GatewayWritten(g)
    /\ UserFrame
    /\ UNCHANGED cluster

\* The pinned plugin is verified, revoked or removed.  map_plugin_to_clusters tells
\* the cluster only if they share a name.
FlipPlugin(told) ==
    /\ Occurs("plugin")
    /\ plugin' = ~ plugin
    /\ clDirty' = (clDirty \/ (told /\ cluster.phase # "absent"))
    /\ UNCHANGED <<cluster, secret, minted, certificate, nats, clPass, issued, gatewayVars, gwDirty>>

Elsewhere == UNCHANGED <<cluster, secret, minted, certificate, clDirty, clPass, plugin,
                         gatewayVars, gwDirty>>

\* cert-manager issues the certificate, and may replace the CA.
IssueCertificate ==
    /\ certificate
    /\ \/ issued = 0 /\ UNCHANGED occurred
       \/ issued # 0 /\ Occurs("rotate")
    /\ issued' = (issued % 2) + 1
    /\ Elsewhere
    /\ UNCHANGED nats

\* The NATS pod needs its token, and its certificate where it has one.
NatsStarts ==
    /\ nats = "starting"
    /\ secret.key # 0
    /\ certificate => issued # 0
    /\ nats' = "up"
    /\ Elsewhere
    /\ UNCHANGED <<issued, occurred>>

NatsFails ==
    /\ Occurs("nats")
    /\ nats = "up"
    /\ nats' = "starting"
    /\ Elsewhere
    /\ UNCHANGED issued

\* The operator restarts: every pass is forgotten, every object is listed anew.
CoordCrash ==
    /\ Occurs("crash")
    /\ clPass' = ClusterIdle
    /\ clDirty' = (cluster.phase # "absent")
    /\ gwPass' = [g \in Gateways |-> GatewayIdle]
    /\ gwDirty' = [g \in Gateways |-> gw[g].phase # "absent"]
    /\ UNCHANGED <<cluster, secret, minted, certificate, issued, nats, plugin, gw, configMap, deployment, hpa, copy>>

\* A requeue takes many seconds and a pass less, so it finds the controllers at rest.
CoordQuiet ==
    /\ clPass.pc = "idle" /\ ~ clDirty
    /\ \A g \in Gateways : gwPass[g].pc = "idle" /\ ~ gwDirty[g]

\* The resync, and the 15 s poll of a managed coordinator that is not ready.
ResyncCluster ==
    /\ CoordQuiet
    /\ cluster.phase # "absent"
    /\ clDirty' = TRUE
    /\ UNCHANGED <<cluster, secret, minted, certificate, nats, clPass, issued, plugin,
                   gatewayVars, gwDirty, occurred>>

\* The resync, and the 30 s requeue of a held pass.
ResyncGateway(g) ==
    /\ CoordQuiet
    /\ gw[g].phase # "absent"
    /\ gwDirty' = [gwDirty EXCEPT ![g] = TRUE]
    /\ UNCHANGED <<clusterVars, issued, plugin, gatewayVars, occurred>>

-----------------------------------------------------------------------------
(* The specification *)

CoordUser ==
    \/ \E s \in ClusterSpecs : CreateCluster(s) \/ EditCluster(s)
    \/ DeleteCluster
    \/ \E g \in Gateways, s \in GatewaySpecs : CreateGateway(g, s) \/ EditGateway(g, s)
    \/ \E g \in Gateways : DeleteGateway(g)
    \/ \E told \in BOOLEAN : FlipPlugin(told)

CoordNext ==
    \/ ClusterStep \/ ClusterPassErrs
    \/ \E g \in Gateways : \/ GatewayStep(g) \/ GatewayPassErrs(g)
                           \/ CollectGatewayGarbage(g) \/ ResyncGateway(g)
    \/ CoordUser \/ IssueCertificate \/ NatsStarts \/ NatsFails
    \/ CoordCrash \/ ResyncCluster

CoordSpec == CoordInit /\ [][CoordNext]_coordVars

\* kube-runtime runs what it has scheduled, requeues come due, cert-manager and NATS
\* do their work.
CoordFairness ==
    /\ WF_coordVars(ClusterStep)
    /\ \A g \in Gateways : /\ WF_coordVars(GatewayStep(g))
                           /\ WF_coordVars(CollectGatewayGarbage(g))
                           /\ SF_coordVars(ResyncGateway(g))
    /\ SF_coordVars(ResyncCluster)
    /\ WF_coordVars(issued = 0 /\ IssueCertificate)
    /\ WF_coordVars(NatsStarts)

CoordFairSpec == CoordSpec /\ CoordFairness

-----------------------------------------------------------------------------
(* Properties *)

Several(g) == deployment[g].size \in {"many", "unpinned"}

\* The reference of a live gateway resolves to nothing it may use, so its passes hold.
Held(g) == gw[g].spec.ref /\ ~ ClassifyClusterBinding(gw[g].spec)

\* "N replicas without one run as N independent single_node gateways": whatever is
\* edited while a pass is under way, and whatever admission lets through, a Deployment
\* told to run several replicas is rendered for a configuration with a coordinator.  Its
\* ConfigMap, written some requests before it, is without one only while the pass that
\* scales it down to one replica is between the two writes or, where that pass was broken
\* off, until the pass that is due has judged the gateway again; and for as long as that
\* one has to hold.
ReplicasCoordinated ==
    \A g \in Gateways :
        /\ Several(g) => deployment[g].block \in Shared
        /\ gw[g].phase = "live" /\ Several(g) /\ configMap[g] \notin Shared =>
             \/ gwPass[g].pc \in {"copy", "deployment"} /\ gwPass[g].spec.scale = "one"
             \/ gwPass[g].pc \in {"hold", "coordination", "config"}
             \/ gwDirty[g]
             \/ Held(g)

Key == INSTANCE CreateOnceKey WITH key <- secret.key, dying <- cluster.phase = "deleting"

\* The coordination Secret implements the create-once promise of its comments, over
\* crashes, failed requests and re-created clusters.
KeyIsCreatedOnce == Key!KeySpec

\* "A False condition makes the reconcile hold rather than render config without the
\* block": a gateway that keeps its clusterRef never has a coordinator taken out of its
\* ConfigMap or its Deployment while the cluster is gone or unready, only by a pass that
\* has found an in-process cluster for its single replica.
HeldBlockStays ==
    [][\A g \in Gateways :
          /\ gw[g].spec.ref /\ gwPass[g].spec.ref
          /\ \/ configMap[g] \in Shared /\ configMap'[g] \notin Shared
             \/ deployment[g].block \in Shared /\ deployment'[g].block \notin Shared
          => \/ gw[g].phase = "absent"
             \/ gwPass[g].spec.scale = "one" /\ gwPass[g].block = "local"]_coordVars

Serviceable ==
    /\ cluster.phase = "live"
    /\ Managed(cluster.spec)
    /\ nats = "up"
    /\ cluster.spec.managed = "tls" => certificate /\ issued # 0
    /\ cluster.spec.pinned => plugin

\* Once a managed coordinator can serve, a gateway that stays bound to it ends up with
\* its block in the ConfigMap and on the Deployment, the Secret projected, and the key and
\* the CA in force in the copy, whatever was edited, deleted, rotated or failed before.
BoundGatewaysConnect ==
    \A g \in Gateways :
        <>[](Serviceable /\ gw[g].phase = "live" /\ gw[g].spec.ref)
            => <>[](/\ configMap[g] = cluster.spec.managed
                    /\ deployment[g].block = cluster.spec.managed /\ deployment[g].env
                    /\ copy.key = secret.key /\ copy.ca = issued)

\* A coordinator pinned to a plugin that stays unverified stops being bindable, also
\* when no watch tells the cluster.
UnverifiedUnbound ==
    <>[](cluster.phase = "live" /\ cluster.spec.pinned /\ ~ plugin) => <>[](~ cluster.ready)
=============================================================================
