---------------------- MODULE ClusterCoordinationProofs ----------------------
(***************************************************************************)
(* What cluster coordination guarantees for every set of gateways and      *)
(* specs and every number of events: type correctness, that no Deployment  *)
(* scales without a coordinator, whichever of the writes of a pass fails,  *)
(* that a held gateway keeps its coordinator, that the Secret implements the create-once key, and that a *)
(* gateway without a pass runs what its spec and its cluster say.          *)
(***************************************************************************)
EXTENDS ClusterCoordination, TLAPS

-----------------------------------------------------------------------------
(* Operators *)

\* A pass that has ended is a record of the right type: some spec can be submitted.
LEMMA IdleTypes ==
    /\ ClusterIdle \in [pc : ClusterSteps, spec : ClusterSpecs, ca : CAs, key : Nat, ok : BOOLEAN]
    /\ ClusterIdle.pc = "idle" /\ ClusterIdle.key = 0 /\ ClusterIdle.ca = 0
    /\ ClusterIdle.ok = FALSE
    /\ GatewayIdle \in [pc : GatewaySteps, spec : GatewaySpecs, block : Blocks, key : Nat, ca : CAs]
    /\ GatewayIdle.pc = "idle" /\ GatewayIdle.block = "unrendered"
<1> USE CoordinationAssumption
<1>1. (CHOOSE s \in ClusterSpecs : TRUE) \in ClusterSpecs
  OBVIOUS
<1>2. (CHOOSE s \in GatewaySpecs : TRUE) \in GatewaySpecs
  OBVIOUS
<1> QED BY <1>1, <1>2 DEF ClusterIdle, GatewayIdle, ClusterSteps, GatewaySteps, CAs, Blocks

\* render_cluster_block_with yields one of the blocks, and a coordinator unless the
\* backend is the in-process one.
LEMMA ClusterBlockType ==
    ASSUME NEW s \in ClusterSpecs
    PROVE  ClusterBlock(s) \in Blocks /\ (~ SingleNode(s) => ClusterBlock(s) \in Shared)
           /\ (SingleNode(s) => ClusterBlock(s) = "local")
<1> s \in ClusterSpecType
  BY CoordinationAssumption
<1> QED BY DEF ClusterBlock, ClusterSpecType, Managed, SingleNode, Blocks, Shared

\* What resolve_cluster hands to the rest of the pass: the spec it was called with, and
\* a block that coordinates whenever the spec was admitted and may run several replicas.
LEMMA ResolveClusterType ==
    ASSUME CoordTypeOK, NEW s \in GatewaySpecs
    PROVE  /\ ResolveCluster(s) \in [pc : GatewaySteps, spec : GatewaySpecs, block : Blocks,
                                     key : Nat, ca : CAs]
           /\ ResolveCluster(s).spec = s
           /\ /\ ResolveCluster(s).pc # "hold"
              /\ s.scale # "one"
              /\ CoordinationPath(s) # "denied"
              => ResolveCluster(s).block \in Shared
           /\ ResolveCluster(s).pc # "hold" /\ s.ref /\ ResolveCluster(s).block \notin Shared
              => ResolveCluster(s).block = "local" /\ s.scale = "one"
<1>1. cluster.spec \in ClusterSpecs
  BY DEF CoordTypeOK, ClusterTypes
<1>2. s \in GatewaySpecType
  BY CoordinationAssumption
<1>3. CASE ~ s.ref
  <2>1. ResolveCluster(s) = [GatewayIdle EXCEPT !.spec = s, !.block = InlineBlock(s),
                                                !.pc = "config"]
    BY <1>3 DEF ResolveCluster
  <2>2. s.scale # "one" /\ CoordinationPath(s) # "denied" => InlineBlock(s) \in Shared
    BY <1>3 DEF CoordinationPath, Ceiling, InlineBlock, Shared
  <2>3. InlineBlock(s) \in Blocks
    BY DEF InlineBlock, Blocks
  <2> QED BY <1>3, <2>1, <2>2, <2>3, IdleTypes DEF GatewaySteps
<1>4. CASE s.ref /\ ClassifyClusterBinding(s)
  <2>1. ResolveCluster(s) = [GatewayIdle EXCEPT !.spec = s, !.block = ClusterBlock(cluster.spec),
                               !.pc = IF Managed(cluster.spec) THEN "coordination" ELSE "config"]
    BY <1>4 DEF ResolveCluster
  <2>2. ClusterBlock(cluster.spec) \in Blocks
        /\ (ClusterBlock(cluster.spec) \in Shared
              \/ (ClusterBlock(cluster.spec) = "local" /\ s.scale = "one"))
    BY <1>1, <1>4, ClusterBlockType DEF ClassifyClusterBinding, Ceiling
  <2> HIDE DEF ClusterBlock
  <2> QED BY <1>4, <2>1, <2>2, <1>2, IdleTypes DEF Blocks, GatewaySteps
<1>5. CASE s.ref /\ ~ ClassifyClusterBinding(s)
  <2>1. ResolveCluster(s) = [GatewayIdle EXCEPT !.spec = s, !.pc = "hold"]
    BY <1>5 DEF ResolveCluster
  <2> QED BY <2>1, <1>2, IdleTypes DEF Blocks, GatewaySteps
<1> QED BY <1>2, <1>3, <1>4, <1>5 DEF GatewaySpecType

-----------------------------------------------------------------------------
(* Who changes what *)

\* The cluster controller leaves the gateways, their passes and their children alone.
LEMMA ClusterControllerOnly ==
    ASSUME ClusterStep \/ ClusterPassErrs
    PROVE  UNCHANGED <<plugin, gatewayVars>>
BY DEF ClusterStep, ClusterPassErrs, BeginCluster, ProvisionTls, ReadSecret, WriteSecret,
       ApplyNats, ReportCluster, PruneManaged, ReleaseCluster, ClusterFrame

\* The gateway controller and the garbage collector read the cluster and write none of it.
LEMMA GatewayControllerOnly ==
    ASSUME NEW g \in Gateways,
           GatewayStep(g) \/ GatewayPassErrs(g) \/ CollectGatewayGarbage(g)
    PROVE  UNCHANGED <<cluster, secret, minted, certificate, nats, clPass, issued, plugin>>
BY DEF GatewayStep, GatewayPassErrs, CollectGatewayGarbage, ReleaseGateway, BeginGateway, Hold,
       ReadCoordination, ApplyConfig, ApplyCopy, ApplyDeployment, ReportGateway, GatewayFrame

\* A user changes specs and lifecycles, never a status, a child object or a pass.
LEMMA UserOnly ==
    ASSUME CoordUser
    PROVE  UNCHANGED <<secret, minted, certificate, issued, nats, clPass, gwPass, configMap,
                       deployment, hpa, copy>>
BY DEF CoordUser, CreateCluster, EditCluster, DeleteCluster, CreateGateway, EditGateway,
       DeleteGateway, FlipPlugin, SubmitCluster, SubmitGateway, UserFrame, gatewayVars

\* cert-manager, NATS and the resyncs touch neither specs nor passes.
LEMMA WorldOnly ==
    ASSUME \/ IssueCertificate \/ NatsStarts \/ NatsFails \/ ResyncCluster
           \/ \E g \in Gateways : ResyncGateway(g)
    PROVE  UNCHANGED <<cluster, secret, minted, certificate, clPass, plugin, gatewayVars>>
BY DEF IssueCertificate, NatsStarts, NatsFails, ResyncCluster, ResyncGateway, Elsewhere,
       clusterVars

-----------------------------------------------------------------------------
(* Types *)

\* An event that happens stays within the bound.
LEMMA OccursType ==
    ASSUME NEW kind, Occurs(kind), occurred \in 0 .. MaxCoordEvents
    PROVE  occurred' \in 0 .. MaxCoordEvents
BY CoordinationAssumption DEF Occurs

\* The specification starts in its types.
LEMMA CoordInitTypes == CoordInit => CoordTypeOK
<1> SUFFICES ASSUME CoordInit PROVE CoordTypeOK
  OBVIOUS
<1>1. ClusterTypes
  <2>1. certificate \in BOOLEAN /\ plugin \in BOOLEAN /\ clDirty \in BOOLEAN
    BY Zenon DEF CoordInit
  <2>2. cluster \in [phase : Phases, spec : ClusterSpecs, ready : BOOLEAN]
    BY IdleTypes DEF CoordInit, Phases
  <2>3. secret \in [key : Nat, ca : CAs] /\ issued \in CAs
    BY DEF CoordInit, NoSecret, CAs
  <2>4. minted \in Nat /\ occurred \in 0 .. MaxCoordEvents
    BY CoordinationAssumption DEF CoordInit
  <2> QED BY <2>1, <2>2, <2>3, <2>4, IdleTypes DEF CoordInit, ClusterTypes
<1>2. GatewayTypes
  BY IdleTypes, CoordinationAssumption
  DEF CoordInit, GatewayTypes, NoDeployment, NoCopy, CAs, Phases, Blocks
<1> QED BY <1>1, <1>2 DEF CoordTypeOK

\* Every step keeps the cluster, its children and the cluster controller's pass typed.
LEMMA ClusterTypesStep == CoordTypeOK /\ [CoordNext]_coordVars => ClusterTypes'
<1> SUFFICES ASSUME CoordTypeOK, [CoordNext]_coordVars PROVE ClusterTypes'
  OBVIOUS
<1> USE CoordinationAssumption, IdleTypes
<1> USE DEF ClusterTypes, Phases, CAs
<1>0. ClusterTypes /\ GatewayTypes
  BY DEF CoordTypeOK
<1>1. CASE ClusterStep \/ ClusterPassErrs
  <2> USE <1>0, OccursType DEF ClusterFrame, ClusterMoves, ClusterSteps
  <2>1. CASE BeginCluster     BY <2>1 DEF BeginCluster
  <2>2. CASE ProvisionTls     BY <2>2, ZenonT(90) DEF ProvisionTls
  <2>3. CASE ReadSecret       BY <2>3 DEF ReadSecret
  <2>4. CASE WriteSecret
    <3>1. clPass.key \in Nat /\ clPass.ca \in CAs /\ minted \in Nat
      OBVIOUS
    <3>2. (IF clPass.key = 0 THEN minted + 1 ELSE clPass.key) \in Nat
          /\ (IF clPass.key = 0 THEN minted + 1 ELSE minted) \in Nat
      BY ONLY <3>1
    <3>3. secret' \in [key : Nat, ca : CAs]
      BY <2>4, <3>1, <3>2 DEF WriteSecret
    <3> QED BY <2>4, <3>2, <3>3 DEF WriteSecret
  <2>5. CASE ApplyNats        BY <2>5 DEF ApplyNats
  <2>6. CASE ReportCluster    BY <2>6 DEF ReportCluster, ClassifyReadiness
  <2>7. CASE PruneManaged
    <3>0. NoSecret \in [key : Nat, ca : CAs]
      BY DEF NoSecret
    <3>1. secret' \in [key : Nat, ca : CAs] /\ nats' \in {"none", "starting", "up"}
      BY <2>7, <3>0 DEF PruneManaged
    <3>2. certificate' \in BOOLEAN
      BY <2>7, Zenon DEF PruneManaged
    <3>3. issued' \in CAs /\ occurred' \in 0 .. MaxCoordEvents
      BY <2>7, ZenonT(90) DEF PruneManaged
    <3> QED BY <2>7, <3>1, <3>2, <3>3 DEF PruneManaged
  <2>8. CASE ReleaseCluster   BY <2>8 DEF ReleaseCluster
  <2>9. CASE ClusterPassErrs  BY <2>9 DEF ClusterPassErrs
  <2> QED BY <1>1, <2>1, <2>2, <2>3, <2>4, <2>5, <2>6, <2>7, <2>8, <2>9 DEF ClusterStep
<1>2. ASSUME NEW g \in Gateways,
             GatewayStep(g) \/ GatewayPassErrs(g) \/ CollectGatewayGarbage(g)
      PROVE  ClusterTypes'
  <2>1. UNCHANGED <<cluster, secret, minted, certificate, nats, clPass, issued, plugin>>
    BY <1>2, GatewayControllerOnly
  <2>2. gw[g].spec \in GatewaySpecType
    BY <1>0 DEF GatewayTypes
  <2>3. clDirty' \in BOOLEAN /\ occurred' \in 0 .. MaxCoordEvents
    BY <1>0, <1>2, <2>2, OccursType
    DEF GatewayStep, GatewayPassErrs, CollectGatewayGarbage, ReleaseGateway, BeginGateway, Hold,
        ReadCoordination, ApplyConfig, ApplyCopy, ApplyDeployment, ReportGateway, GatewayWritten,
        GatewaySpecType
  <2> QED BY <1>0, <2>1, <2>3
<1>3. CASE CoordUser
  <2> USE <1>0, OccursType DEF UserFrame
  <2>1. ASSUME NEW s \in ClusterSpecs, CreateCluster(s) \/ EditCluster(s) PROVE ClusterTypes'
    BY <2>1, ZenonT(90) DEF CreateCluster, EditCluster, SubmitCluster
  <2>2. CASE DeleteCluster
    BY <2>2 DEF DeleteCluster, Deleted
  <2>3. ASSUME NEW g \in Gateways, NEW s \in GatewaySpecs,
               CreateGateway(g, s) \/ EditGateway(g, s)
        PROVE  ClusterTypes'
    BY <2>3, ZenonT(90) DEF CreateGateway, EditGateway, SubmitGateway, GatewaySpecType
  <2>4. ASSUME NEW g \in Gateways, DeleteGateway(g) PROVE ClusterTypes'
    BY <2>4 DEF DeleteGateway, GatewayWritten, GatewayTypes, GatewaySpecType
  <2>5. ASSUME NEW told \in BOOLEAN, FlipPlugin(told) PROVE ClusterTypes'
    BY <2>5 DEF FlipPlugin
  <2> QED BY <1>3, <2>1, <2>2, <2>3, <2>4, <2>5 DEF CoordUser
<1>4. CASE IssueCertificate
  BY <1>0, <1>4, OccursType DEF IssueCertificate, Elsewhere
<1>5. CASE NatsStarts \/ NatsFails
  BY <1>0, <1>5, OccursType DEF NatsStarts, NatsFails, Elsewhere
<1>6. CASE CoordCrash
  BY <1>0, <1>6, OccursType DEF CoordCrash
<1>7. CASE ResyncCluster \/ \E g \in Gateways : ResyncGateway(g)
  BY <1>0, <1>7 DEF ResyncCluster, ResyncGateway, clusterVars
<1>8. CASE UNCHANGED coordVars
  BY <1>0, <1>8 DEF coordVars, clusterVars
<1> QED BY <1>1, <1>2, <1>3, <1>4, <1>5, <1>6, <1>7, <1>8 DEF CoordNext

\* Every step keeps the gateways, their passes and their children typed.
LEMMA GatewayTypesStep == CoordTypeOK /\ [CoordNext]_coordVars => GatewayTypes'
<1> SUFFICES ASSUME CoordTypeOK, [CoordNext]_coordVars PROVE GatewayTypes'
  OBVIOUS
<1> USE CoordinationAssumption, IdleTypes
<1> USE DEF GatewayTypes
<1>0. ClusterTypes /\ GatewayTypes
  BY DEF CoordTypeOK
<1>1. CASE ClusterStep \/ ClusterPassErrs
  <2>1. gwDirty' \in [Gateways -> BOOLEAN]
    BY <1>0, <1>1
    DEF ClusterStep, ClusterPassErrs, BeginCluster, ProvisionTls, ReadSecret, WriteSecret,
        ApplyNats, ReportCluster, PruneManaged, ReleaseCluster, ClusterWritten
  <2> QED BY <1>0, <1>1, <2>1, ClusterControllerOnly DEF gatewayVars
<1>2. ASSUME NEW g \in Gateways,
             GatewayStep(g) \/ GatewayPassErrs(g) \/ CollectGatewayGarbage(g)
      PROVE  GatewayTypes'
  <2> USE <1>0 DEF GatewayMoves, GatewaySteps, Phases
  <2>1. CASE ReleaseGateway(g)     BY <2>1, SMTT(60) DEF ReleaseGateway
  <2>2. CASE BeginGateway(g)
    <3>1. ResolveCluster(gw[g].spec) \in [pc : GatewaySteps, spec : GatewaySpecs, block : Blocks,
                                          key : Nat, ca : CAs]
      BY ResolveClusterType
    <3> QED BY <2>2, <3>1 DEF BeginGateway
  <2>3. CASE Hold(g)               BY <2>3 DEF Hold
  <2>4. CASE ReadCoordination(g)
    <3>1. secret.key \in Nat /\ secret.ca \in CAs
      BY DEF ClusterTypes
    <3>2. gwPass' = [gwPass EXCEPT ![g] =
            [@ EXCEPT !.pc = "config",
                      !.key = secret.key, !.ca = secret.ca]]
      BY <2>4 DEF ReadCoordination
    <3>3. gwPass' \in [Gateways -> [pc : GatewaySteps, spec : GatewaySpecs, block : Blocks,
                                    key : Nat, ca : CAs]]
      BY <3>1, <3>2
    <3> QED BY <2>4, <3>3 DEF ReadCoordination
  <2>10. CASE ApplyConfig(g)
    <3> DEFINE step == IF gwPass[g].key # 0 THEN "copy" ELSE "deployment"
    <3>1. configMap' \in [Gateways -> Blocks] /\ gwDirty' \in [Gateways -> BOOLEAN]
      BY <2>10 DEF ApplyConfig
    <3>2. step \in GatewaySteps
      OBVIOUS
    <3>3. gwPass' = [gwPass EXCEPT ![g] = [@ EXCEPT !.pc = step]]
      BY <2>10 DEF ApplyConfig
    <3> HIDE DEF step
    <3>4. gwPass' \in [Gateways -> [pc : GatewaySteps, spec : GatewaySpecs, block : Blocks,
                                    key : Nat, ca : CAs]]
      BY <3>2, <3>3
    <3> QED BY <2>10, <3>1, <3>4 DEF ApplyConfig
  <2>5. CASE ApplyCopy(g)          BY <2>5 DEF ApplyCopy
  <2>6. CASE ApplyDeployment(g)
    <3>1. gwPass[g].spec \in GatewaySpecType
      OBVIOUS
    <3>2. deployment' \in [Gateways -> [size : {"none", "one", "many", "unpinned"},
                                        block : Blocks, env : BOOLEAN]]
      BY <2>6, <3>1 DEF ApplyDeployment, BuildEnvFrom, GatewaySpecType
    <3>3. gwDirty' \in [Gateways -> BOOLEAN]
      BY <2>6 DEF ApplyDeployment
    <3>4. gwPass' \in [Gateways -> [pc : GatewaySteps, spec : GatewaySpecs, block : Blocks,
                                    key : Nat, ca : CAs]]
      BY <2>6 DEF ApplyDeployment
    <3> QED BY <2>6, <3>2, <3>3, <3>4 DEF ApplyDeployment
  <2>7. CASE ReportGateway(g)      BY <2>7 DEF ReportGateway
  <2>8. CASE GatewayPassErrs(g)    BY <2>8 DEF GatewayPassErrs
  <2>9. CASE CollectGatewayGarbage(g)
    <3>1. NoDeployment \in [size : {"none", "one", "many", "unpinned"}, block : Blocks,
                            env : BOOLEAN]
      BY DEF NoDeployment, Blocks
    <3>2. NoCopy \in [key : Nat, ca : CAs, owner : Gateways \cup {Nobody}]
      BY DEF NoCopy, CAs
    <3> QED BY <2>9, <3>1, <3>2 DEF CollectGatewayGarbage, Blocks
  <2> QED BY <1>2, <2>1, <2>2, <2>3, <2>4, <2>5, <2>6, <2>7, <2>8, <2>9, <2>10 DEF GatewayStep
<1>3. CASE CoordUser
  <2> USE <1>0 DEF UserFrame, Phases
  <2>1. ASSUME NEW s \in ClusterSpecs, CreateCluster(s) \/ EditCluster(s) PROVE GatewayTypes'
    BY <2>1 DEF CreateCluster, EditCluster, SubmitCluster, ClusterWritten
  <2>2. CASE DeleteCluster
    BY <2>2 DEF DeleteCluster, ClusterWritten
  <2>3. ASSUME NEW g \in Gateways, NEW s \in GatewaySpecs,
               CreateGateway(g, s) \/ EditGateway(g, s)
        PROVE  GatewayTypes'
    <3>1. gwDirty' \in [Gateways -> BOOLEAN]
      BY <2>3 DEF CreateGateway, EditGateway, SubmitGateway
    <3>2. PICK phase \in Phases : SubmitGateway(g, s, phase)
      BY <2>3 DEF CreateGateway, EditGateway
    <3> QED BY <3>1, <3>2 DEF SubmitGateway
  <2>4. ASSUME NEW g \in Gateways, DeleteGateway(g) PROVE GatewayTypes'
    <3>1. gwDirty' \in [Gateways -> BOOLEAN]
      BY <2>4 DEF DeleteGateway
    <3>2. Deleted(gw[g].phase) \in Phases
      BY DEF Deleted
    <3>3. gw' = [gw EXCEPT ![g] = [gw[g] EXCEPT !.phase = Deleted(gw[g].phase)]]
      BY <2>4 DEF DeleteGateway
    <3>4. gw' \in [Gateways -> [phase : Phases, spec : GatewaySpecs]]
      BY <3>2, <3>3, SMTT(60)
    <3> QED BY <2>4, <3>1, <3>4 DEF DeleteGateway
  <2>5. ASSUME NEW told \in BOOLEAN, FlipPlugin(told) PROVE GatewayTypes'
    BY <2>5 DEF FlipPlugin, gatewayVars
  <2> QED BY <1>3, <2>1, <2>2, <2>3, <2>4, <2>5 DEF CoordUser
<1>4. CASE IssueCertificate \/ NatsStarts \/ NatsFails
  BY <1>0, <1>4 DEF IssueCertificate, NatsStarts, NatsFails, Elsewhere, gatewayVars
<1>5. CASE CoordCrash
  BY <1>0, <1>5 DEF CoordCrash
<1>6. CASE ResyncCluster \/ \E g \in Gateways : ResyncGateway(g)
  BY <1>0, <1>6 DEF ResyncCluster, ResyncGateway, gatewayVars
<1>7. CASE UNCHANGED coordVars
  BY <1>0, <1>7 DEF coordVars, gatewayVars
<1> QED BY <1>1, <1>2, <1>3, <1>4, <1>5, <1>6, <1>7 DEF CoordNext

\* The cluster and gateway controllers, admission and everything around them keep every
\* object, Secret and pass in its type.
THEOREM CoordTypeCorrect == CoordSpec => []CoordTypeOK
<1>1. CoordInit => CoordTypeOK
  BY CoordInitTypes
<1>2. CoordTypeOK /\ [CoordNext]_coordVars => CoordTypeOK'
  BY ClusterTypesStep, GatewayTypesStep DEF CoordTypeOK
<1> QED BY <1>1, <1>2, PTL DEF CoordSpec

-----------------------------------------------------------------------------
(* Coordination *)

\* Admission has let every stored gateway through: none asks for several replicas
\* without a clusterRef or an inline backend.
GatewaysAdmitted ==
    \A g \in Gateways : gw[g].phase # "absent" => CoordinationPath(gw[g].spec) # "denied"

\* A pass that will render carries a coordinator if its spec may run several replicas,
\* and drops one that its clusterRef names only for a single replica.
PassesCoordinated ==
    \A g \in Gateways :
        gwPass[g].pc \in {"coordination", "config", "copy", "deployment", "report"} =>
            /\ gwPass[g].spec.scale # "one" => gwPass[g].block \in Shared
            /\ gwPass[g].spec.ref /\ gwPass[g].block \notin Shared
               => gwPass[g].block = "local" /\ gwPass[g].spec.scale = "one"

\* The Deployment of several replicas was rendered with a coordinator.
BlocksCoordinated == \A g \in Gateways : Several(g) => deployment[g].block \in Shared

\* The inductive invariant of coordination.
CoordinationInv == CoordTypeOK /\ GatewaysAdmitted /\ PassesCoordinated /\ BlocksCoordinated

\* The webhook is the only way in: every step keeps the stored gateways admitted.
LEMMA GatewaysAdmittedStep ==
    CoordinationInv /\ [CoordNext]_coordVars => GatewaysAdmitted'
<1> SUFFICES ASSUME CoordinationInv, [CoordNext]_coordVars PROVE GatewaysAdmitted'
  OBVIOUS
<1> HIDE DEF CoordinationPath
<1>0. GatewayTypes /\ GatewaysAdmitted
  BY DEF CoordinationInv, CoordTypeOK
<1> USE DEF GatewaysAdmitted
<1>1. CASE UNCHANGED gw
  BY <1>0, <1>1
<1>2. ASSUME NEW g \in Gateways, ReleaseGateway(g) \/ BeginGateway(g) \/ DeleteGateway(g)
      PROVE  GatewaysAdmitted'
  <2>1. ASSUME NEW h \in Gateways
        PROVE  gw'[h].spec = gw[h].spec /\ (gw'[h].phase # "absent" => gw[h].phase # "absent")
    <3>1. PICK phase : gw' = [gw EXCEPT ![g] = [gw[g] EXCEPT !.phase = phase]]
      BY <1>2 DEF ReleaseGateway, BeginGateway, DeleteGateway
    <3>2. gw[g].phase # "absent"
      BY <1>2 DEF ReleaseGateway, BeginGateway, DeleteGateway
    <3> QED BY <1>0, <3>1, <3>2 DEF GatewayTypes
  <2> QED BY <1>0, <2>1
<1>3. ASSUME NEW g \in Gateways, NEW s \in GatewaySpecs, CreateGateway(g, s) \/ EditGateway(g, s)
      PROVE  GatewaysAdmitted'
  <2>1. CoordinationPath(s) # "denied"
    BY <1>3 DEF CreateGateway, EditGateway, AdmitGateway
  <2>2. PICK phase : gw' = [gw EXCEPT ![g] = [phase |-> phase, spec |-> s]]
    BY <1>3 DEF CreateGateway, EditGateway, SubmitGateway
  <2>3. ASSUME NEW h \in Gateways
        PROVE  gw'[h] = gw[h] \/ gw'[h].spec = s
    BY <1>0, <2>2 DEF GatewayTypes
  <2> QED BY <1>0, <2>1, <2>3
<1>4. \/ UNCHANGED gw
      \/ \E g \in Gateways : \/ ReleaseGateway(g) \/ BeginGateway(g) \/ DeleteGateway(g)
                             \/ \E s \in GatewaySpecs : CreateGateway(g, s) \/ EditGateway(g, s)
  <2>1. CASE ClusterStep \/ ClusterPassErrs
    BY <2>1, ClusterControllerOnly DEF gatewayVars
  <2>2. ASSUME NEW g \in Gateways, GatewayStep(g) \/ GatewayPassErrs(g) \/ CollectGatewayGarbage(g)
        PROVE  ReleaseGateway(g) \/ BeginGateway(g) \/ UNCHANGED gw
    BY <2>2 DEF GatewayStep, GatewayPassErrs, CollectGatewayGarbage, Hold, ReadCoordination,
                ApplyConfig, ApplyCopy, ApplyDeployment, ReportGateway
  <2>3. CASE CoordUser
    <3>1. ASSUME NEW s \in ClusterSpecs, CreateCluster(s) \/ EditCluster(s) PROVE UNCHANGED gw
      BY <3>1 DEF CreateCluster, EditCluster, SubmitCluster
    <3>2. DeleteCluster => UNCHANGED gw
      BY DEF DeleteCluster
    <3>3. ASSUME NEW told \in BOOLEAN, FlipPlugin(told) PROVE UNCHANGED gw
      BY <3>3 DEF FlipPlugin, gatewayVars
    <3> QED BY <2>3, <3>1, <3>2, <3>3 DEF CoordUser
  <2>4. CASE \/ IssueCertificate \/ NatsStarts \/ NatsFails \/ ResyncCluster
             \/ \E g \in Gateways : ResyncGateway(g)
    BY <2>4, WorldOnly DEF gatewayVars
  <2>5. CASE CoordCrash
    BY <2>5 DEF CoordCrash
  <2>6. CASE UNCHANGED coordVars
    BY <2>6 DEF coordVars, gatewayVars
  <2> QED BY <2>1, <2>2, <2>3, <2>4, <2>5, <2>6 DEF CoordNext
<1> QED BY <1>1, <1>2, <1>3, <1>4

\* The gateway controller is the only one that changes a pass over a gateway or its
\* Deployment; a crash forgets the passes.
LEMMA PassesChange ==
    ASSUME [CoordNext]_coordVars
    PROVE  \/ UNCHANGED <<gwPass, configMap, deployment>>
           \/ CoordCrash
           \/ \E g \in Gateways : GatewayStep(g) \/ GatewayPassErrs(g) \/ CollectGatewayGarbage(g)
<1>1. CASE ClusterStep \/ ClusterPassErrs
  BY <1>1, ClusterControllerOnly DEF gatewayVars
<1>2. CASE CoordUser
  BY <1>2, UserOnly
<1>3. CASE \/ IssueCertificate \/ NatsStarts \/ NatsFails \/ ResyncCluster
           \/ \E g \in Gateways : ResyncGateway(g)
  BY <1>3, WorldOnly DEF gatewayVars
<1>4. CASE UNCHANGED coordVars
  BY <1>4 DEF coordVars, gatewayVars
<1> QED BY <1>1, <1>2, <1>3, <1>4 DEF CoordNext

\* Whatever is edited while a pass is under way, what it renders was judged against the
\* spec it renders.
LEMMA PassesCoordinatedStep ==
    CoordinationInv /\ [CoordNext]_coordVars => PassesCoordinated'
<1> SUFFICES ASSUME CoordinationInv, [CoordNext]_coordVars PROVE PassesCoordinated'
  OBVIOUS
<1>0. CoordTypeOK /\ GatewayTypes /\ GatewaysAdmitted /\ PassesCoordinated
  BY DEF CoordinationInv, CoordTypeOK
<1> USE DEF PassesCoordinated
<1>1. CASE UNCHANGED <<gwPass, configMap, deployment>>
  BY <1>0, <1>1
<1>2. CASE CoordCrash
  BY <1>2, IdleTypes DEF CoordCrash
<1>3. ASSUME NEW g \in Gateways,
             GatewayStep(g) \/ GatewayPassErrs(g) \/ CollectGatewayGarbage(g)
      PROVE  PassesCoordinated'
  <2>1. CASE UNCHANGED gwPass
    BY <1>0, <2>1
  <2>2. CASE gwPass' = [gwPass EXCEPT ![g] = GatewayIdle]
    BY <1>0, <2>2, IdleTypes DEF GatewayTypes
  <2>3. CASE BeginGateway(g)
    <3> DEFINE pass == ResolveCluster(gw[g].spec)
    <3>1. gw[g].spec \in GatewaySpecs /\ CoordinationPath(gw[g].spec) # "denied"
      BY <1>0, <2>3 DEF BeginGateway, GatewaysAdmitted, GatewayTypes
    <3>2. pass.pc \in {"coordination", "config", "copy", "deployment", "report"} =>
            /\ pass.spec.scale # "one" => pass.block \in Shared
            /\ pass.spec.ref /\ pass.block \notin Shared
               => pass.block = "local" /\ pass.spec.scale = "one"
      BY <1>0, <3>1, ResolveClusterType
    <3>3. gwPass' = [gwPass EXCEPT ![g] = pass]
      BY <2>3 DEF BeginGateway
    <3> HIDE DEF pass
    <3> QED BY <1>0, <3>2, <3>3 DEF GatewayTypes
  <2>4. CASE ReadCoordination(g)
    BY <1>0, <2>4 DEF ReadCoordination, GatewayTypes
  <2>5. CASE ApplyConfig(g) \/ ApplyCopy(g) \/ ApplyDeployment(g)
    <3>1. \E pc \in {"copy", "deployment", "report"} : GatewayMoves(g, pc)
      <4>1. ApplyConfig(g) => GatewayMoves(g, "copy") \/ GatewayMoves(g, "deployment")
        BY DEF ApplyConfig
      <4>2. ApplyCopy(g) => GatewayMoves(g, "deployment")
        BY DEF ApplyCopy
      <4>3. ApplyDeployment(g) => GatewayMoves(g, "report")
        BY DEF ApplyDeployment
      <4> QED BY <2>5, <4>1, <4>2, <4>3
    <3>2. gwPass[g].pc \in {"config", "copy", "deployment"}
      BY <2>5 DEF ApplyConfig, ApplyCopy, ApplyDeployment
    <3> QED BY <1>0, <3>1, <3>2 DEF GatewayMoves, GatewayTypes
  <2> QED BY <1>3, <2>1, <2>2, <2>3, <2>4, <2>5
          DEF GatewayStep, GatewayPassErrs, CollectGatewayGarbage, ReleaseGateway, Hold,
              ReportGateway
<1> QED BY <1>1, <1>2, <1>3, PassesChange

\* Only a Deployment and a ConfigMap that are applied or collected change.
LEMMA ChildrenChange ==
    ASSUME CoordTypeOK, [CoordNext]_coordVars, NEW g \in Gateways
    PROVE  /\ \/ deployment'[g] = deployment[g]
              \/ ApplyDeployment(g)
              \/ CollectGatewayGarbage(g) /\ deployment'[g] = NoDeployment
           /\ \/ configMap'[g] = configMap[g]
              \/ ApplyConfig(g)
              \/ CollectGatewayGarbage(g)
<1> DEFINE Sent(h) == deployment'[h] = deployment[h] \/ ApplyDeployment(h)
                      \/ (CollectGatewayGarbage(h) /\ deployment'[h] = NoDeployment)
           Told(h) == configMap'[h] = configMap[h] \/ ApplyConfig(h) \/ CollectGatewayGarbage(h)
<1>0. GatewayTypes
  BY DEF CoordTypeOK
<1>1. CASE UNCHANGED <<gwPass, configMap, deployment>> \/ CoordCrash
  BY <1>1 DEF CoordCrash
<1>2. ASSUME NEW h \in Gateways,
             GatewayStep(h) \/ GatewayPassErrs(h) \/ CollectGatewayGarbage(h)
      PROVE  Sent(g) /\ Told(g)
  <2>1. CASE UNCHANGED <<configMap, deployment>>
    BY <2>1
  <2>2. CASE ApplyDeployment(h)
    BY <1>0, <2>2 DEF ApplyDeployment, GatewayTypes
  <2>3. CASE CollectGatewayGarbage(h)
    BY <1>0, <2>3 DEF CollectGatewayGarbage, GatewayTypes
  <2>4. CASE ApplyConfig(h)
    BY <1>0, <2>4 DEF ApplyConfig, GatewayTypes
  <2> QED BY <1>2, <2>1, <2>2, <2>3, <2>4
          DEF GatewayStep, GatewayPassErrs, ReleaseGateway, BeginGateway, Hold, ReadCoordination,
              ApplyCopy, ReportGateway
<1> QED BY <1>1, <1>2, PassesChange

\* The Deployment takes what the pass carries.
LEMMA BlocksCoordinatedStep ==
    CoordinationInv /\ [CoordNext]_coordVars => BlocksCoordinated'
<1> SUFFICES ASSUME CoordinationInv, [CoordNext]_coordVars, NEW g \in Gateways
             PROVE  deployment'[g].size \in {"many", "unpinned"} => deployment'[g].block \in Shared
  BY DEF BlocksCoordinated, Several
<1>0. CoordTypeOK /\ GatewayTypes /\ PassesCoordinated /\ BlocksCoordinated
  BY DEF CoordinationInv, CoordTypeOK
<1>1. CASE deployment'[g] = deployment[g]
  BY <1>0, <1>1 DEF BlocksCoordinated, Several
<1>2. CASE ApplyDeployment(g)
  BY <1>0, <1>2 DEF ApplyDeployment, PassesCoordinated, GatewayTypes
<1>3. CASE deployment'[g] = NoDeployment
  BY <1>3 DEF NoDeployment
<1> QED BY <1>0, <1>1, <1>2, <1>3, ChildrenChange

\* The invariant holds in every reachable state.
LEMMA CoordinationInvariant == CoordSpec => []CoordinationInv
<1>1. CoordInit => CoordinationInv
  <2> SUFFICES ASSUME CoordInit PROVE CoordinationInv
    OBVIOUS
  <2>1. GatewaysAdmitted /\ PassesCoordinated /\ BlocksCoordinated
    BY IdleTypes DEF CoordInit, GatewaysAdmitted, PassesCoordinated, BlocksCoordinated, Several,
                     NoDeployment
  <2> QED BY <2>1, CoordInitTypes DEF CoordinationInv
<1>2. CoordinationInv /\ [CoordNext]_coordVars => CoordinationInv'
  BY ClusterTypesStep, GatewayTypesStep, GatewaysAdmittedStep, PassesCoordinatedStep,
     BlocksCoordinatedStep
  DEF CoordinationInv, CoordTypeOK
<1> QED BY <1>1, <1>2, PTL DEF CoordSpec

\* A gateway that keeps its clusterRef never has a coordinator taken out of its ConfigMap or
\* its Deployment by a pass of resolve_cluster that found the cluster gone or unready.
THEOREM HoldingKeepsBlock == CoordSpec => HeldBlockStays
<1> DEFINE Kept(g) ==
      /\ gw[g].spec.ref /\ gwPass[g].spec.ref
      /\ \/ configMap[g] \in Shared /\ configMap'[g] \notin Shared
         \/ deployment[g].block \in Shared /\ deployment'[g].block \notin Shared
      => \/ gw[g].phase = "absent"
         \/ gwPass[g].spec.scale = "one" /\ gwPass[g].block = "local"
<1>1. CoordinationInv /\ [CoordNext]_coordVars => [\A g \in Gateways : Kept(g)]_coordVars
  <2> SUFFICES ASSUME CoordinationInv, [CoordNext]_coordVars, NEW g \in Gateways PROVE Kept(g)
    OBVIOUS
  <2>0. CoordTypeOK /\ GatewayTypes /\ PassesCoordinated
    BY DEF CoordinationInv, CoordTypeOK
  <2>1. CASE deployment'[g] = deployment[g] /\ configMap'[g] = configMap[g]
    BY <2>1
  <2>2. CASE ApplyDeployment(g)
    <3>1. gwPass[g].pc = "deployment" /\ deployment'[g].block = gwPass[g].block
          /\ UNCHANGED configMap
      BY <2>0, <2>2 DEF ApplyDeployment, GatewayTypes
    <3> QED BY <2>0, <3>1 DEF PassesCoordinated
  <2>3. CASE CollectGatewayGarbage(g)
    BY <2>3 DEF CollectGatewayGarbage
  <2>4. CASE ApplyConfig(g)
    <3>1. gwPass[g].pc = "config" /\ configMap'[g] = gwPass[g].block /\ UNCHANGED deployment
      BY <2>0, <2>4 DEF ApplyConfig, GatewayTypes
    <3> QED BY <2>0, <3>1 DEF PassesCoordinated
  <2> QED BY <2>0, <2>1, <2>2, <2>3, <2>4, ChildrenChange
<1> QED BY <1>1, CoordinationInvariant, PTL DEF CoordSpec, HeldBlockStays

-----------------------------------------------------------------------------
(* The create-once key *)

\* What the cluster controller has read of the Secret is still true when it writes, and
\* a cluster whose children are pruned is being deleted.
KeyInv ==
    /\ CoordTypeOK
    /\ clPass.pc = "write secret" => clPass.key = secret.key
    /\ clPass.pc \in {"prune", "release"} => cluster.phase = "deleting"

\* The Secret and the cluster controller's pass change only by its own steps, but for a
\* crash; a deletion under way is ended only by that controller.
LEMMA KeyFrame ==
    ASSUME [CoordNext]_coordVars
    PROVE  \/ ClusterStep
           \/ ClusterPassErrs /\ UNCHANGED <<cluster, secret>> /\ clPass' = ClusterIdle
           \/ CoordCrash /\ UNCHANGED <<cluster, secret>> /\ clPass' = ClusterIdle
           \/ /\ UNCHANGED <<secret, clPass>>
              /\ cluster.phase = "deleting" => cluster' = cluster
<1>1. CASE ClusterPassErrs \/ CoordCrash
  BY <1>1 DEF ClusterPassErrs, CoordCrash
<1>2. ASSUME NEW g \in Gateways,
             GatewayStep(g) \/ GatewayPassErrs(g) \/ CollectGatewayGarbage(g)
      PROVE  UNCHANGED <<secret, clPass, cluster>>
  BY <1>2, GatewayControllerOnly
<1>3. CASE CoordUser
  <2>1. UNCHANGED <<secret, clPass>>
    BY <1>3, UserOnly
  <2>2. cluster.phase = "deleting" => cluster' = cluster
    BY <1>3 DEF CoordUser, CreateCluster, EditCluster, DeleteCluster, CreateGateway, EditGateway,
                DeleteGateway, FlipPlugin, SubmitGateway
  <2> QED BY <2>1, <2>2
<1>4. CASE \/ IssueCertificate \/ NatsStarts \/ NatsFails \/ ResyncCluster
           \/ \E g \in Gateways : ResyncGateway(g)
  BY <1>4, WorldOnly
<1>5. CASE UNCHANGED coordVars
  BY <1>5 DEF coordVars, clusterVars
<1> QED BY <1>1, <1>2, <1>3, <1>4, <1>5 DEF CoordNext

\* The invariant of the key holds in every reachable state.
LEMMA KeyInvariant == CoordSpec => []KeyInv
<1>1. CoordInit => KeyInv
  BY CoordInitTypes, IdleTypes DEF CoordInit, KeyInv
<1>2. KeyInv /\ [CoordNext]_coordVars => KeyInv'
  <2> SUFFICES ASSUME KeyInv, [CoordNext]_coordVars PROVE KeyInv'
    OBVIOUS
  <2>0. CoordTypeOK /\ CoordTypeOK' /\ ClusterTypes
    BY ClusterTypesStep, GatewayTypesStep DEF KeyInv, CoordTypeOK
  <2> USE DEF KeyInv
  <2>1. CASE clPass' = ClusterIdle
    BY <2>0, <2>1, IdleTypes
  <2>2. CASE UNCHANGED <<secret, clPass>> /\ (cluster.phase = "deleting" => cluster' = cluster)
    BY <2>0, <2>2
  <2>3. CASE BeginCluster
    BY <2>0, <2>3, IdleTypes DEF BeginCluster, ClusterTypes
  <2>4. CASE ProvisionTls \/ WriteSecret \/ ApplyNats
    <3>1. clPass'.pc \in {"read secret", "nats", "report"}
      BY <2>0, <2>4 DEF ProvisionTls, WriteSecret, ApplyNats, ClusterMoves, ClusterTypes
    <3> QED BY <2>0, <3>1
  <2>5. CASE ReadSecret
    BY <2>0, <2>5 DEF ReadSecret, ClusterTypes
  <2>6. CASE PruneManaged
    BY <2>0, <2>6 DEF PruneManaged, ClusterMoves, ClusterTypes
  <2> QED BY <2>1, <2>2, <2>3, <2>4, <2>5, <2>6, KeyFrame
          DEF ClusterStep, ReportCluster, ReleaseCluster
<1> QED BY <1>1, <1>2, PTL DEF CoordSpec

\* The cluster controller implements the create-once promise of its Secret: it mints a
\* key only where there is none, destroys one only while the cluster is being deleted,
\* and otherwise writes back the key it finds, over crashes, failed requests and
\* clusters that are deleted and created again.
THEOREM KeyRefinement == CoordSpec => KeyIsCreatedOnce
<1>1. CoordInit => Key!KeyInit
  BY DEF CoordInit, NoSecret, Key!KeyInit
<1>2. KeyInv /\ [CoordNext]_coordVars => [Key!KeyNext]_(Key!keyVars)
  <2> SUFFICES ASSUME KeyInv, [CoordNext]_coordVars
               PROVE  \/ UNCHANGED (secret.key)
                      \/ secret.key = 0 /\ secret'.key \in Nat \ {0}
                      \/ /\ cluster.phase = "deleting" /\ UNCHANGED cluster
                         /\ secret'.key = 0
    BY Zenon DEF Key!KeyNext, Key!keyVars, Key!Mint, Key!Destroy
  <2>0. ClusterTypes
    BY DEF KeyInv, CoordTypeOK
  <2>1. CASE UNCHANGED secret
    BY <2>1
  <2>2. CASE WriteSecret
    <3>1. clPass.key = secret.key /\ minted \in Nat
      BY <2>0, <2>2 DEF WriteSecret, KeyInv, ClusterTypes
    <3>2. secret'.key = IF secret.key = 0 THEN minted + 1 ELSE secret.key
      BY <2>2, <3>1 DEF WriteSecret
    <3>3. minted + 1 \in Nat \ {0}
      BY ONLY <3>1
    <3> QED BY <3>2, <3>3, Zenon
  <2>3. CASE PruneManaged
    <3>1. cluster.phase = "deleting" /\ UNCHANGED cluster
      BY <2>3 DEF PruneManaged, KeyInv
    <3>2. secret' = secret \/ secret' = NoSecret
      BY <2>3, Zenon DEF PruneManaged
    <3> QED BY <3>1, <3>2 DEF NoSecret
  <2> QED BY <2>1, <2>2, <2>3, KeyFrame
          DEF ClusterStep, BeginCluster, ProvisionTls, ReadSecret, ApplyNats, ReportCluster,
              ReleaseCluster
<1> QED BY <1>1, <1>2, KeyInvariant, PTL DEF CoordSpec, KeyIsCreatedOnce, Key!KeySpec

-----------------------------------------------------------------------------
(* Gateways at rest *)

\* resolve_cluster finds something to render, and the block merge_cluster_block renders then.
Renders(s) == s.ref => ClassifyClusterBinding(s)
Wanted(s)  == IF s.ref THEN ClusterBlock(cluster.spec) ELSE InlineBlock(s)

\* ConfigMap and Deployment are the ones a pass makes of a spec and a block.
Deployed(g, s, block) ==
    /\ configMap[g] = block
    /\ deployment[g].block = block
    /\ deployment[g].size = IF s.scale = "auto" THEN "unpinned" ELSE s.scale

\* What a gateway without a pass runs: a Deployment for its spec and for the cluster as they
\* are now, unless the reference does not resolve, and then whatever it ran before.
BoundAtRest ==
    \A g \in Gateways :
        gw[g].phase = "live" /\ gwPass[g].pc = "idle" /\ ~ gwDirty[g] /\ Renders(gw[g].spec) =>
            /\ Deployed(g, gw[g].spec, Wanted(gw[g].spec))
            /\ gw[g].spec.scale = "auto" => g \in hpa

\* What makes that inductive: a pass works on the spec and the cluster as they are now, and
\* has reached its verdict on them, unless another pass is scheduled.
Following(g) ==
    gw[g].phase = "live" =>
        LET pass == gwPass[g]
            told == gwDirty[g]
        IN  /\ pass.pc # "idle" => told \/ pass.spec = gw[g].spec
            /\ pass.pc = "hold" => told \/ ~ Renders(pass.spec)
            /\ pass.pc \notin {"idle", "hold"} => told \/ pass.block = Wanted(pass.spec)
            /\ pass.pc \in {"copy", "deployment"} => configMap[g] = pass.block
            /\ pass.pc = "report" => Deployed(g, pass.spec, pass.block)
            /\ pass.pc = "idle" => \/ told
                                   \/ ~ Renders(gw[g].spec)
                                   \/ /\ Deployed(g, gw[g].spec, Wanted(gw[g].spec))
                                      /\ gw[g].spec.scale = "auto" => g \in hpa

\* A step that leaves the gateway, its pass and its children alone keeps that, when the
\* gateway is told of every change of a cluster it refers to.
LEMMA StaysFollowing ==
    ASSUME NEW g \in Gateways, Following(g),
           gw'[g] = gw[g], gwPass'[g] = gwPass[g],
           configMap'[g] = configMap[g], deployment'[g] = deployment[g],
           g \in hpa => g \in hpa',
           gwDirty[g] => gwDirty'[g],
           \/ cluster' = cluster
           \/ gw[g].phase = "live" /\ gw[g].spec.ref => gwDirty'[g]
    PROVE  Following(g)'
<1>1. \A s, b : Deployed(g, s, b) => Deployed(g, s, b)'
  BY DEF Deployed
<1>2. CASE gwDirty'[g]
  BY <1>1, <1>2 DEF Following
<1>3. CASE ~ gwDirty'[g] /\ gw[g].phase = "live"
  <2>1. cluster' = cluster \/ ~ gw[g].spec.ref
    BY <1>3
  <2>2. \A s : cluster' = cluster \/ ~ s.ref =>
                 (Renders(s)' <=> Renders(s)) /\ Wanted(s)' = Wanted(s)
    BY DEF Renders, Wanted, ClassifyClusterBinding, ClusterBlock, InlineBlock, SingleNode, Managed
  <2>3. (Renders(gw[g].spec)' <=> Renders(gw[g].spec)) /\ Wanted(gw[g].spec)' = Wanted(gw[g].spec)
    BY <2>1, <2>2
  <2> QED BY <1>1, <1>3, <2>3 DEF Following
<1> QED BY <1>2, <1>3 DEF Following

\* A pass that ends in an error is tried again.
LEMMA FailedFollowing ==
    ASSUME NEW g \in Gateways, gwPass'[g] = GatewayIdle, gwDirty'[g]
    PROVE  Following(g)'
BY IdleTypes DEF Following

\* The verdict of resolve_cluster is the one on the cluster as it is.
LEMMA ResolveClusterVerdict ==
    ASSUME NEW s
    PROVE  /\ ResolveCluster(s).spec = s /\ ResolveCluster(s).pc # "idle"
           /\ ResolveCluster(s).pc \notin {"copy", "deployment", "report"}
           /\ ResolveCluster(s).pc = "hold" => ~ Renders(s)
           /\ ResolveCluster(s).pc # "hold" => ResolveCluster(s).block = Wanted(s)
<1>1. CASE ~ s.ref
  <2> DEFINE block == InlineBlock(s)
             pass  == [GatewayIdle EXCEPT !.spec = s, !.block = block, !.pc = "config"]
  <2>1. ResolveCluster(s) = pass /\ Wanted(s) = block
    BY <1>1 DEF ResolveCluster, Wanted
  <2> HIDE DEF block
  <2>2. pass.spec = s /\ pass.pc = "config" /\ pass.block = block
    BY ONLY DEF GatewayIdle
  <2> HIDE DEF pass
  <2> QED BY <2>1, <2>2
<1>2. CASE s.ref /\ ClassifyClusterBinding(s)
  <2> DEFINE block == ClusterBlock(cluster.spec)
             step  == IF Managed(cluster.spec) THEN "coordination" ELSE "config"
             pass  == [GatewayIdle EXCEPT !.spec = s, !.block = block, !.pc = step]
  <2>1. ResolveCluster(s) = pass /\ Wanted(s) = block
    BY <1>2 DEF ResolveCluster, Wanted
  <2>2. step \in {"coordination", "config"}
    OBVIOUS
  <2> HIDE DEF block, step
  <2>3. pass.spec = s /\ pass.pc = step /\ pass.block = block
    BY ONLY DEF GatewayIdle
  <2> HIDE DEF pass
  <2> QED BY <2>1, <2>2, <2>3
<1>3. CASE s.ref /\ ~ ClassifyClusterBinding(s)
  <2> DEFINE pass == [GatewayIdle EXCEPT !.spec = s, !.pc = "hold"]
  <2>1. ResolveCluster(s) = pass
    BY <1>3 DEF ResolveCluster
  <2>2. pass.spec = s /\ pass.pc = "hold"
    BY ONLY DEF GatewayIdle
  <2> HIDE DEF pass
  <2> QED BY <1>3, <2>1, <2>2 DEF Renders
<1> QED BY <1>1, <1>2, <1>3

\* And it holds only what does not resolve.
LEMMA ResolveClusterNotHeld ==
    ASSUME NEW s, Renders(s) PROVE ResolveCluster(s).pc # "hold"
<1>1. CASE ~ s.ref
  <2> DEFINE block == InlineBlock(s)
             pass  == [GatewayIdle EXCEPT !.spec = s, !.block = block, !.pc = "config"]
  <2>1. ResolveCluster(s) = pass
    BY <1>1 DEF ResolveCluster
  <2> HIDE DEF block
  <2>2. pass.pc = "config"
    BY ONLY DEF GatewayIdle
  <2> QED BY <2>1, <2>2
<1>2. CASE s.ref
  <2> DEFINE block == ClusterBlock(cluster.spec)
             step  == IF Managed(cluster.spec) THEN "coordination" ELSE "config"
             pass  == [GatewayIdle EXCEPT !.spec = s, !.block = block, !.pc = step]
  <2>1. ResolveCluster(s) = pass
    BY <1>2 DEF ResolveCluster, Renders
  <2>2. step \in {"coordination", "config"}
    OBVIOUS
  <2> HIDE DEF block, step
  <2>3. pass.pc = step
    BY ONLY DEF GatewayIdle
  <2> QED BY <2>1, <2>2, <2>3
<1> QED BY <1>1, <1>2

\* The steps of a pass keep their own gateway following.
LEMMA OwnPassFollowing ==
    ASSUME CoordTypeOK, NEW g \in Gateways, Following(g), GatewayStep(g) \/ GatewayPassErrs(g)
    PROVE  Following(g)'
<1> USE DEF GatewayTypes
<1>0. GatewayTypes /\ UNCHANGED cluster
  BY GatewayControllerOnly DEF CoordTypeOK
<1>a. gwPass[g] \in [pc : GatewaySteps, spec : GatewaySpecs, block : Blocks, key : Nat, ca : CAs]
      /\ gw[g] \in [phase : Phases, spec : GatewaySpecs]
  BY <1>0
<1>b. \A s : Renders(s)' = Renders(s) /\ Wanted(s)' = Wanted(s)
  BY <1>0 DEF Renders, Wanted, ClassifyClusterBinding
<1>1. CASE ReleaseGateway(g)
  <2>1. gw'[g] = [gw[g] EXCEPT !.phase = "absent"]
    BY <1>0, <1>1 DEF ReleaseGateway
  <2>2. gw'[g].phase = "absent"
    BY ONLY <1>a, <2>1
  <2> QED BY <2>2 DEF Following
<1>2. CASE BeginGateway(g)
  <2>1. gwPass'[g] = ResolveCluster(gw[g].spec) /\ gw'[g] = [gw[g] EXCEPT !.phase = "live"]
    BY <1>0, <1>2 DEF BeginGateway
  <2>2. gw'[g].spec = gw[g].spec
    BY ONLY <1>a, <2>1
  <2> DEFINE pass == ResolveCluster(gw[g].spec)
  <2>3. /\ pass.spec = gw[g].spec /\ pass.pc # "idle"
        /\ pass.pc \notin {"copy", "deployment", "report"}
        /\ pass.pc = "hold" => ~ Renders(gw[g].spec)
        /\ pass.pc # "hold" => pass.block = Wanted(gw[g].spec)
    BY ResolveClusterVerdict
  <2>4. gwPass'[g] = pass
    BY <2>1
  <2> HIDE DEF pass
  <2> QED BY <1>b, <2>2, <2>3, <2>4 DEF Following
<1>3. CASE Hold(g)
  <2>1. /\ gwPass[g].pc = "hold" /\ gwPass'[g] = GatewayIdle
        /\ UNCHANGED <<gw, gwDirty>>
    BY <1>0, <1>3 DEF Hold
  <2> QED BY <1>b, <2>1, IdleTypes DEF Following
<1>4. CASE ReadCoordination(g)
  <2> DEFINE pass == [gwPass[g] EXCEPT !.pc = "config", !.key = secret.key, !.ca = secret.ca]
  <2>1. gwPass'[g] = pass
    BY <1>0, <1>4 DEF ReadCoordination
  <2>3. pass.pc = "config" /\ pass.spec = gwPass[g].spec /\ pass.block = gwPass[g].block
    BY ONLY <1>a
  <2> HIDE DEF pass
  <2>4. gwPass[g].pc = "coordination" /\ UNCHANGED <<gw, gwDirty>>
    BY <1>4 DEF ReadCoordination
  <2> QED BY <1>b, <2>1, <2>3, <2>4 DEF Following
<1>9. CASE ApplyConfig(g)
  <2> DEFINE step == IF gwPass[g].key # 0 THEN "copy" ELSE "deployment"
             pass == [gwPass[g] EXCEPT !.pc = step]
  <2>1. gwPass'[g] = pass
    BY <1>0, <1>9 DEF ApplyConfig, GatewayMoves
  <2>2. step \in {"copy", "deployment"}
    OBVIOUS
  <2> HIDE DEF step
  <2>3. pass.pc = step /\ pass.spec = gwPass[g].spec /\ pass.block = gwPass[g].block
    BY ONLY <1>a
  <2> HIDE DEF pass
  <2>4. /\ gwPass[g].pc = "config" /\ UNCHANGED gw /\ (gwDirty[g] => gwDirty'[g])
        /\ configMap'[g] = gwPass[g].block
    BY <1>0, <1>9 DEF ApplyConfig
  <2> QED BY <1>b, <2>1, <2>2, <2>3, <2>4 DEF Following
<1>5. CASE ApplyCopy(g)
  <2> DEFINE pass == [gwPass[g] EXCEPT !.pc = "deployment"]
  <2>1. gwPass'[g] = pass
    BY <1>0, <1>5 DEF ApplyCopy, GatewayMoves
  <2>2. pass.pc = "deployment" /\ pass.spec = gwPass[g].spec /\ pass.block = gwPass[g].block
    BY ONLY <1>a
  <2> HIDE DEF pass
  <2>3. gwPass[g].pc = "copy" /\ UNCHANGED <<gw, gwDirty, configMap>>
    BY <1>5 DEF ApplyCopy
  <2> QED BY <1>b, <2>1, <2>2, <2>3 DEF Following
<1>6. CASE ApplyDeployment(g)
  <2> DEFINE pass == [gwPass[g] EXCEPT !.pc = "report"]
             size == IF gwPass[g].spec.scale = "auto" THEN "unpinned" ELSE gwPass[g].spec.scale
             made == [size |-> size, block |-> gwPass[g].block, env |-> BuildEnvFrom(gwPass[g])]
  <2>1. gwPass'[g] = pass
    BY <1>0, <1>6 DEF ApplyDeployment, GatewayMoves
  <2>2. pass.pc = "report" /\ pass.spec = gwPass[g].spec /\ pass.block = gwPass[g].block
    BY ONLY <1>a
  <2> HIDE DEF pass
  <2>3. gwPass[g].pc = "deployment" /\ UNCHANGED gw /\ (gwDirty[g] => gwDirty'[g])
    BY <1>0, <1>6 DEF ApplyDeployment
  <2>4. deployment'[g] = made
    BY <1>0, <1>6 DEF ApplyDeployment
  <2>5. \A s, b : s = gwPass[g].spec /\ b = gwPass[g].block /\ configMap[g] = b
                  => Deployed(g, s, b)'
    <3>1. UNCHANGED configMap
      BY <1>6 DEF ApplyDeployment
    <3> QED BY <2>4, <3>1 DEF Deployed
  <2> HIDE DEF made, size
  <2> QED BY <1>b, <2>1, <2>2, <2>3, <2>5 DEF Following
<1>7. CASE ReportGateway(g)
  <2>1. /\ gwPass[g].pc = "report" /\ gwPass'[g] = GatewayIdle
        /\ UNCHANGED <<gw, gwDirty, configMap, deployment>>
        /\ gwPass[g].spec.scale = "auto" => g \in hpa'
    BY <1>0, <1>7 DEF ReportGateway
  <2>2. \A s, b : Deployed(g, s, b) => Deployed(g, s, b)'
    BY <2>1 DEF Deployed
  <2>3. gwPass'[g].pc = "idle"
    BY <2>1, IdleTypes
  <2> QED BY <1>b, <2>1, <2>2, <2>3 DEF Following
<1>8. CASE GatewayPassErrs(g)
  <2>1. gwPass'[g] = GatewayIdle /\ gwDirty'[g]
    BY <1>0, <1>8 DEF GatewayPassErrs
  <2> QED BY <2>1, FailedFollowing
<1> QED BY <1>1, <1>2, <1>3, <1>4, <1>5, <1>6, <1>7, <1>8, <1>9 DEF GatewayStep

\* A pass over another gateway, and the garbage collector, keep a gateway following.
LEMMA OthersFollowing ==
    ASSUME CoordTypeOK, NEW g \in Gateways, NEW h \in Gateways, Following(h),
           \/ CollectGatewayGarbage(g)
           \/ h # g /\ (GatewayStep(g) \/ GatewayPassErrs(g))
    PROVE  Following(h)'
<1> USE DEF GatewayTypes
<1>0. GatewayTypes /\ UNCHANGED cluster
  BY GatewayControllerOnly DEF CoordTypeOK
<1>1. CASE CollectGatewayGarbage(g) /\ h = g
  <2>1. gw'[h].phase = "absent"
    BY <1>1 DEF CollectGatewayGarbage
  <2> QED BY <2>1 DEF Following
<1>2. CASE CollectGatewayGarbage(g) /\ h # g
  <2>1. /\ UNCHANGED <<gw, gwPass, gwDirty>>
        /\ configMap'[h] = configMap[h] /\ deployment'[h] = deployment[h]
        /\ h \in hpa => h \in hpa'
    BY <1>0, <1>2 DEF CollectGatewayGarbage
  <2> QED BY <1>0, <2>1, StaysFollowing
<1>3. CASE h # g /\ (GatewayStep(g) \/ GatewayPassErrs(g))
  <2>1. /\ gw'[h] = gw[h] /\ configMap'[h] = configMap[h]
        /\ deployment'[h] = deployment[h] /\ (h \in hpa => h \in hpa')
    BY <1>0, <1>3 DEF GatewayStep, GatewayPassErrs, ReleaseGateway, BeginGateway, Hold,
                      ReadCoordination, ApplyConfig, ApplyCopy, ApplyDeployment, ReportGateway
  <2>2. gwPass'[h] = gwPass[h]
    BY <1>0, <1>3 DEF GatewayStep, GatewayPassErrs, ReleaseGateway, BeginGateway, Hold,
                      ReadCoordination, ApplyConfig, ApplyCopy, ApplyDeployment, ReportGateway, GatewayMoves
  <2>3. gwDirty[h] => gwDirty'[h]
    BY <1>0, <1>3 DEF GatewayStep, GatewayPassErrs, ReleaseGateway, BeginGateway, Hold,
                      ReadCoordination, ApplyConfig, ApplyCopy, ApplyDeployment, ReportGateway
  <2> QED BY <1>0, <2>1, <2>2, <2>3, StaysFollowing
<1> QED BY <1>1, <1>2, <1>3

\* Every write of the cluster tells the gateways that refer to it.
LEMMA ClusterWritesTell ==
    ASSUME CoordTypeOK, NEW h \in Gateways,
           \/ ClusterStep \/ ClusterPassErrs \/ DeleteCluster
           \/ \E s \in ClusterSpecs : CreateCluster(s) \/ EditCluster(s)
    PROVE  /\ gwDirty[h] => gwDirty'[h]
           /\ \/ cluster' = cluster
              \/ gw[h].phase = "live" /\ gw[h].spec.ref => gwDirty'[h]
<1>0. GatewayTypes
  BY DEF CoordTypeOK
<1>1. CASE ClusterWritten
  BY <1>0, <1>1 DEF ClusterWritten, BoundGateways, GatewayTypes
<1>2. CASE UNCHANGED <<cluster, gwDirty>>
  BY <1>2
<1>3. CASE BeginCluster
  <2>1. CASE cluster.phase = "new"
    BY <1>1, <1>3, <2>1 DEF BeginCluster
  <2>2. CASE cluster.phase # "new"
    <3>1. cluster' = cluster /\ UNCHANGED gwDirty
      BY <1>3, <2>2 DEF BeginCluster, CoordTypeOK, ClusterTypes
    <3> QED BY <3>1, <1>2
  <2> QED BY <2>1, <2>2
<1>4. ClusterWritten \/ UNCHANGED <<cluster, gwDirty>> \/ BeginCluster
  BY DEF ClusterStep, ClusterPassErrs, DeleteCluster, CreateCluster, EditCluster, SubmitCluster,
         ProvisionTls, ReadSecret, WriteSecret, ApplyNats, ReportCluster, PruneManaged,
         ReleaseCluster
<1> QED BY <1>1, <1>2, <1>3, <1>4

\* The cluster controller, users and the world keep a gateway following.
LEMMA AroundFollowing ==
    ASSUME CoordTypeOK, NEW h \in Gateways, Following(h),
           \/ ClusterStep \/ ClusterPassErrs \/ CoordUser \/ CoordCrash
           \/ IssueCertificate \/ NatsStarts \/ NatsFails \/ ResyncCluster
           \/ \E g \in Gateways : ResyncGateway(g)
    PROVE  Following(h)'
<1> USE DEF GatewayTypes
<1>0. GatewayTypes
  BY DEF CoordTypeOK
<1>1. CASE ClusterStep \/ ClusterPassErrs
  <2>1. UNCHANGED <<gw, gwPass, configMap, deployment, hpa>>
    BY <1>1, ClusterControllerOnly DEF gatewayVars
  <2> QED BY <1>1, <2>1, ClusterWritesTell, StaysFollowing
<1>2. ASSUME DeleteCluster \/ \E s \in ClusterSpecs : CreateCluster(s) \/ EditCluster(s)
      PROVE  Following(h)'
  <2>1. UNCHANGED <<gw, gwPass, configMap, deployment, hpa>>
    BY <1>2 DEF DeleteCluster, CreateCluster, EditCluster, SubmitCluster, UserFrame
  <2> QED BY <1>2, <2>1, ClusterWritesTell, StaysFollowing
<1>3. ASSUME NEW g \in Gateways, NEW s \in GatewaySpecs, CreateGateway(g, s) \/ EditGateway(g, s)
      PROVE  Following(h)'
  <2>1. PICK phase : /\ gw' = [gw EXCEPT ![g] = [phase |-> phase, spec |-> s]]
                     /\ gwDirty' = [gwDirty EXCEPT ![g] = TRUE]
                     /\ phase = "live" => gw[g].phase = "live"
    <3>1. PICK phase : SubmitGateway(g, s, phase) /\ (phase = "live" => gw[g].phase = "live")
      <4>1. CreateGateway(g, s) => SubmitGateway(g, s, "new")
        BY DEF CreateGateway
      <4>2. EditGateway(g, s) => SubmitGateway(g, s, gw[g].phase)
        BY DEF EditGateway
      <4> HIDE DEF SubmitGateway
      <4> QED BY <1>3, <4>1, <4>2
    <3> QED BY <3>1 DEF SubmitGateway
  <2>2. UNCHANGED <<cluster, gwPass, configMap, deployment, hpa>>
    BY <1>3 DEF CreateGateway, EditGateway, SubmitGateway, UserFrame
  <2>3. CASE h # g
    <3>1. gw'[h] = gw[h] /\ gwDirty'[h] = gwDirty[h]
      BY <1>0, <2>1, <2>3
    <3> QED BY <2>2, <3>1, StaysFollowing
  <2>4. CASE h = g
    <3>1. gwDirty'[h] /\ (gw'[h].phase = "live" => gw[h].phase = "live")
      BY <1>0, <2>1, <2>4
    <3>2. \A t, b : Deployed(h, t, b) => Deployed(h, t, b)'
      BY <2>2 DEF Deployed
    <3> QED BY <2>2, <3>1, <3>2 DEF Following
  <2> QED BY <2>3, <2>4
<1>4. ASSUME NEW g \in Gateways, DeleteGateway(g) PROVE Following(h)'
  <2>1. UNCHANGED <<cluster, gwPass, configMap, deployment, hpa>>
    BY <1>4 DEF DeleteGateway, UserFrame
  <2>2. CASE h # g
    <3>1. gw'[h] = gw[h] /\ gwDirty'[h] = gwDirty[h]
      BY <1>0, <1>4, <2>2 DEF DeleteGateway
    <3> QED BY <2>1, <3>1, StaysFollowing
  <2>3. CASE h = g
    <3>1. gw'[h] = [gw[h] EXCEPT !.phase = Deleted(@)]
      BY <1>0, <1>4, <2>3 DEF DeleteGateway
    <3>2. gw'[h].phase # "live"
      BY <1>0, <3>1 DEF Deleted
    <3> QED BY <3>2 DEF Following
  <2> QED BY <2>2, <2>3
<1>5. ASSUME NEW told \in BOOLEAN, FlipPlugin(told) PROVE Following(h)'
  <2>1. UNCHANGED <<cluster, gw, gwPass, configMap, deployment, hpa, gwDirty>>
    BY <1>5 DEF FlipPlugin, gatewayVars
  <2> QED BY <2>1, StaysFollowing
<1>6. CASE CoordCrash
  <2>1. gw'[h] = gw[h] /\ gwPass'[h] = GatewayIdle /\ gwDirty'[h] = (gw[h].phase # "absent")
    BY <1>6 DEF CoordCrash
  <2>2. gw[h].phase = "live" => gwDirty'[h]
    BY <2>1
  <2> QED BY <2>1, <2>2, IdleTypes DEF Following
<1>7. CASE \/ IssueCertificate \/ NatsStarts \/ NatsFails \/ ResyncCluster
           \/ \E g \in Gateways : ResyncGateway(g)
  <2>1. UNCHANGED <<cluster, gw, gwPass, configMap, deployment, hpa>>
    BY <1>7, WorldOnly DEF gatewayVars
  <2>2. gwDirty[h] => gwDirty'[h]
    BY <1>0, <1>7 DEF IssueCertificate, NatsStarts, NatsFails, ResyncCluster, ResyncGateway, Elsewhere
  <2> QED BY <2>1, <2>2, StaysFollowing
<1> QED BY <1>1, <1>2, <1>3, <1>4, <1>5, <1>6, <1>7 DEF CoordUser

\* So every gateway follows in every reachable state.
LEMMA AlwaysFollowing == CoordSpec => [](\A g \in Gateways : Following(g))
<1> DEFINE Inv == CoordTypeOK /\ \A g \in Gateways : Following(g)
<1>1. CoordInit => Inv
  <2> SUFFICES ASSUME CoordInit, NEW g \in Gateways PROVE Following(g)
    BY CoordInitTypes
  <2> QED BY DEF CoordInit, Following
<1>2. Inv /\ [CoordNext]_coordVars => Inv'
  <2> SUFFICES ASSUME CoordTypeOK, \A g \in Gateways : Following(g), [CoordNext]_coordVars,
                      NEW h \in Gateways
               PROVE  Following(h)'
    BY ClusterTypesStep, GatewayTypesStep DEF CoordTypeOK
  <2>1. ASSUME NEW g \in Gateways,
               GatewayStep(g) \/ GatewayPassErrs(g) \/ CollectGatewayGarbage(g)
        PROVE  Following(h)'
    BY <2>1, OwnPassFollowing, OthersFollowing
  <2>2. CASE UNCHANGED coordVars
    BY <2>2, StaysFollowing DEF coordVars, clusterVars, gatewayVars
  <2> QED BY <2>1, <2>2, AroundFollowing DEF CoordNext
<1> QED BY <1>1, <1>2, PTL DEF CoordSpec

\* A live gateway with no pass under way and none scheduled runs the Deployment of its spec
\* as it is now, with the block of the cluster as it is now: an edit of either between the
\* read of resolve_cluster and the apply of the Deployment is never lost.  Only a reference
\* that does not resolve leaves the gateway on what it ran before.
THEOREM BindingSettledAtRest == CoordSpec => []BoundAtRest
<1>1. (\A g \in Gateways : Following(g)) => BoundAtRest
  BY DEF Following, BoundAtRest
<1> QED BY <1>1, AlwaysFollowing, PTL

\* An admitted spec of several replicas that resolves yields a coordinator.
LEMMA WantedShared ==
    ASSUME CoordTypeOK, NEW s \in GatewaySpecs, Renders(s), s.scale # "one",
           CoordinationPath(s) # "denied"
    PROVE  Wanted(s) \in Shared
<1>1. ResolveCluster(s).pc # "hold"
  BY ResolveClusterNotHeld
<1> QED BY <1>1, ResolveClusterType, ResolveClusterVerdict

\* No Deployment is told to run several replicas on a configuration without a coordinator, for
\* any gateways, clusters, edits, crashes and failed requests, also one between the ConfigMap
\* and the Deployment of a pass: the two judgements of admission and of resolve_cluster suffice
\* although the cluster can change between them and the writes.
THEOREM CoordinatedReplicas == CoordSpec => []ReplicasCoordinated
<1>1. CoordinationInv /\ (\A g \in Gateways : Following(g)) => ReplicasCoordinated
  <2> SUFFICES ASSUME CoordinationInv, NEW g \in Gateways, Following(g), gw[g].phase = "live",
                      Several(g), ~ gwDirty[g], ~ Held(g),
                      gwPass[g].pc \notin {"hold", "coordination", "config"},
                      ~ (gwPass[g].pc \in {"copy", "deployment"} /\ gwPass[g].spec.scale = "one")
               PROVE  configMap[g] \in Shared
    BY DEF ReplicasCoordinated, CoordinationInv, BlocksCoordinated
  <2>0. CoordTypeOK /\ GatewayTypes /\ PassesCoordinated /\ GatewaysAdmitted
    BY DEF CoordinationInv, CoordTypeOK
  <2>1. CASE gwPass[g].pc \in {"copy", "deployment"}
    BY <2>0, <2>1 DEF Following, PassesCoordinated
  <2>2. CASE gwPass[g].pc = "report"
    BY <2>0, <2>2 DEF Following, PassesCoordinated, Deployed, Several
  <2>3. CASE gwPass[g].pc = "idle"
    <3>1. Renders(gw[g].spec)
      BY DEF Held, Renders
    <3>2. Deployed(g, gw[g].spec, Wanted(gw[g].spec))
      BY <2>3, <3>1 DEF Following
    <3>3. gw[g].spec.scale # "one" /\ configMap[g] = Wanted(gw[g].spec)
      BY <3>2 DEF Deployed, Several
    <3>4. gw[g].spec \in GatewaySpecs /\ CoordinationPath(gw[g].spec) # "denied"
      BY <2>0 DEF GatewayTypes, GatewaysAdmitted
    <3> QED BY <2>0, <3>1, <3>3, <3>4, WantedShared
  <2>4. gwPass[g].pc \in GatewaySteps
    BY <2>0 DEF GatewayTypes
  <2> QED BY <2>1, <2>2, <2>3, <2>4 DEF GatewaySteps
<1> QED BY <1>1, CoordinationInvariant, AlwaysFollowing, PTL

=============================================================================
