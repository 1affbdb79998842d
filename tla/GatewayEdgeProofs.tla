------------------------- MODULE GatewayEdgeProofs -------------------------
(***************************************************************************)
(* Proofs about GatewayEdge, for any number of gateways, domains and       *)
(* disturbances: every variable keeps its type, nothing of a gateway is    *)
(* left at the shared edge once it is gone, and a living one that no pass  *)
(* is due for has all that its spec asks for.                              *)
(***************************************************************************)
EXTENDS GatewayEdge, TLAPS

-----------------------------------------------------------------------------
(* The inductive invariant *)

AtEdge(g, d) == g \in listeners[d] \/ certs[d] = g

\* Where a gateway's pass can be, given its phase: the cleanup belongs to a gateway that is
\* being deleted, and only a spec with a cloud block writes to the edge.
PassFits(g) ==
    /\ edgePass[g].pc \in {"listeners", "certificates"} => edgePass[g].spec.cloud
    /\ edgePass[g].leaving => /\ edgeGw[g].phase = "deleting"
                              /\ edgePass[g].pc \in {"relinquish", "list", "collect", "release"}
    /\ edgePass[g].pc \in {"relinquish", "release"} => edgePass[g].leaving
    /\ edgeGw[g].phase = "gone" => edgePass[g].pc = "idle"

\* What a gateway has at the edge is known from its spec until the cleanup, and then from
\* the step of the cleanup.
EdgeAccounted(g) ==
    /\ edgePass[g].pc # "idle" /\ edgePass[g].spec.cloud => edgeGw[g].spec.cloud
    /\ \A d \in Domains : AtEdge(g, d) => edgeGw[g].spec.cloud /\ edgeGw[g].phase # "gone"
    /\ edgePass[g].leaving /\ edgePass[g].pc # "relinquish" => \A d \in Domains : g \notin listeners[d]
    /\ edgePass[g].leaving /\ edgePass[g].pc = "collect" =>
           \A d \in Domains : certs[d] = g => d \in edgePass[g].todo
    /\ edgePass[g].pc = "release" => \A d \in Domains : certs[d] # g

Tracked(g) == PassFits(g) /\ (g \notin forgotten => EdgeAccounted(g))

EdgeInv == EdgeTypeOK /\ \A g \in Gateways : Tracked(g)
-----------------------------------------------------------------------------
(* Types *)

\* No pass is a record of the right type: some spec can be submitted.
LEMMA EdgeIdleType ==
    /\ EdgeIdle \in EdgePassType
    /\ EdgeIdle.pc = "idle" /\ EdgeIdle.leaving = FALSE
<1>1. AnySpec \in EdgeSpecs
  BY EdgeAssumption DEF AnySpec
<1> QED BY <1>1 DEF EdgeIdle, EdgePassType, EdgeSteps, MaxReplicas

\* Specs are records of their type.
LEMMA SpecFields ==
    ASSUME NEW s \in EdgeSpecs
    PROVE  /\ s.domains \subseteq Domains /\ s.cloud \in BOOLEAN
           /\ s.replicas \in 1 .. 3 /\ s.min \in 0 .. 3 /\ s.max \in 0 .. 3
BY EdgeAssumption DEF EdgeSpecType, MaxReplicas

\* An event that happens stays within the bound.
LEMMA EdgeOccursType ==
    ASSUME NEW kind, EdgeOccurs(kind), happened \in 0 .. MaxEdgeEvents
    PROVE  happened' \in 0 .. MaxEdgeEvents
BY EdgeAssumption DEF EdgeOccurs

\* The autoscaler's bounds are counts.
LEMMA BuildHpaType ==
    ASSUME NEW s \in EdgeSpecs
    PROVE  BuildHpa(s) \in HpaType
BY SpecFields DEF BuildHpa, Larger, HpaType, MaxReplicas

\* The Deployment that is applied has a count, and says who pinned it.
LEMMA BuildReplicasType ==
    ASSUME NEW g \in Gateways, NEW s \in EdgeSpecs, replicas[g] \in ReplicasType
    PROVE  BuildReplicas(g, s) \in ReplicasType
<1>1. EffectiveReplicas(s) \in 0 .. MaxReplicas
  <2>1. s.replicas \in 1 .. 3
    BY SpecFields
  <2>2. EffectiveReplicas(s) = 1 \/ EffectiveReplicas(s) = s.replicas
    BY Zenon DEF EffectiveReplicas
  <2> QED BY ONLY <2>1, <2>2 DEF MaxReplicas
<1>2. [replicas[g] EXCEPT !.count = EffectiveReplicas(s), !.by = "operator"] \in ReplicasType
  BY <1>1 DEF ReplicasType
<1>3. [replicas[g] EXCEPT !.count = 1, !.by = "nobody"] \in ReplicasType
  <2>1. 1 \in 0 .. MaxReplicas
    BY DEF MaxReplicas
  <2> QED BY <2>1 DEF ReplicasType
<1> QED BY <1>2, <1>3 DEF BuildReplicas

\* The specification starts in its types.
LEMMA EdgeInitTypes == EdgeInit => EdgeTypeOK
<1> SUFFICES ASSUME EdgeInit PROVE EdgeTypeOK
  OBVIOUS
<1>1. edgeGw \in [Gateways -> EdgeGwType]
  BY DEF EdgeInit, EdgeGwType
<1>2. replicas \in [Gateways -> ReplicasType] /\ hpas \in [Gateways -> HpaType]
  BY DEF EdgeInit, ReplicasType, HpaType, MaxReplicas
<1>3. happened \in 0 .. MaxEdgeEvents
  BY EdgeAssumption DEF EdgeInit
<1> QED BY <1>1, <1>2, <1>3, EdgeIdleType DEF EdgeInit, EdgeTypeOK

\* A pass that moves on keeps its type, whichever step it moves to.
LEMMA MovedPass ==
    ASSUME NEW g \in Gateways, edgePass \in [Gateways -> EdgePassType], NEW to \in EdgeSteps
    PROVE  /\ [edgePass[g] EXCEPT !.pc = to] \in EdgePassType
           /\ \A todo \in SUBSET Domains : [edgePass[g] EXCEPT !.pc = to, !.todo = todo] \in EdgePassType
           /\ \A n \in 0 .. MaxReplicas : [edgePass[g] EXCEPT !.pc = to, !.available = n] \in EdgePassType
<1>1. edgePass[g] \in EdgePassType
  OBVIOUS
<1> QED BY ONLY <1>1, to \in EdgeSteps DEF EdgePassType

\* Each step of a pass keeps the types.
LEMMA EdgeWorkTypes ==
    ASSUME EdgeTypeOK, NEW g \in Gateways, EdgeWork(g) \/ EdgePassErrs(g)
    PROVE  EdgeTypeOK'
<1> USE DEF EdgeTypeOK
<1>a. edgePass[g] \in EdgePassType /\ edgeGw[g] \in EdgeGwType /\ replicas[g] \in ReplicasType
  OBVIOUS
<1>b. edgePass[g].spec \in EdgeSpecs /\ edgePass[g].todo \subseteq Domains
  BY <1>a DEF EdgePassType
<1>c. edgePass[g].spec.domains \subseteq Domains
  BY <1>b, SpecFields
<1>d. ASSUME EdgeFails(g) \/ EdgeEnds(g)
      PROVE  edgePass' \in [Gateways -> EdgePassType]
  BY <1>d, EdgeIdleType DEF EdgeFails, EdgeEnds
<1>1. CASE BeginEdgePass(g)
  <2> DEFINE leaves == edgeGw[g].phase = "deleting"
             cloud  == edgeGw[g].spec.cloud
             step   == CASE leaves /\ cloud -> "relinquish"
                         [] leaves /\ ~ cloud -> "release"
                         [] OTHER -> "deployment"
             next   == [EdgeIdle EXCEPT !.spec = edgeGw[g].spec, !.leaving = leaves, !.pc = step]
             moved  == [edgeGw[g] EXCEPT !.phase = IF @ = "new" THEN "live" ELSE @]
  <2>1. edgePass' = [edgePass EXCEPT ![g] = next]
    BY <1>1 DEF BeginEdgePass
  <2>2. edgeGw' = [edgeGw EXCEPT ![g] = moved]
    BY <1>1 DEF BeginEdgePass
  <2>3. step \in EdgeSteps
    BY DEF EdgeSteps
  <2>4. leaves \in BOOLEAN
    OBVIOUS
  <2> HIDE DEF leaves, step
  <2>5. edgeGw[g].spec \in EdgeSpecs
    BY <1>a DEF EdgeGwType
  <2>6. next \in EdgePassType
    BY ONLY EdgeIdleType, <2>3, <2>4, <2>5 DEF EdgePassType
  <2>7. moved \in EdgeGwType
    BY ONLY <1>a DEF EdgeGwType
  <2> HIDE DEF next, moved
  <2>8. edgePass' \in [Gateways -> EdgePassType] /\ edgeGw' \in [Gateways -> EdgeGwType]
    BY <2>1, <2>2, <2>6, <2>7
  <2> QED BY <1>1, <2>8 DEF BeginEdgePass
<1>2. CASE ApplyWorkload(g)
  <2> DEFINE to == IF edgePass[g].spec.cloud THEN "listeners" ELSE "scale"
  <2>1. edgePass' = [edgePass EXCEPT ![g] = [edgePass[g] EXCEPT !.pc = to,
                                                !.available = replicas[g].available]]
    BY <1>2 DEF ApplyWorkload
  <2>2. to \in EdgeSteps
    BY DEF EdgeSteps
  <2>3. replicas[g].available \in 0 .. MaxReplicas
    BY <1>a DEF ReplicasType
  <2> HIDE DEF to
  <2>4. edgePass' \in [Gateways -> EdgePassType]
    BY <2>1, <2>2, <2>3, MovedPass
  <2>5. replicas' \in [Gateways -> ReplicasType]
    BY <1>2, <1>a, <1>b, BuildReplicasType DEF ApplyWorkload
  <2>6. httproute' \in [Gateways -> SUBSET (Domains \cup {"platform"})]
    BY <1>2, <1>c DEF ApplyWorkload, BuildHttpRoute
  <2>7. edgeDirty' \subseteq Gateways
    BY <1>2 DEF ApplyWorkload
  <2> QED BY <1>2, <2>4, <2>5, <2>6, <2>7 DEF ApplyWorkload
<1>3. CASE ApplyListeners(g)
  <2> DEFINE mine == edgePass[g].spec.domains
             to   == IF mine = {} THEN "list" ELSE "certificates"
  <2>1. \/ edgePass' = [edgePass EXCEPT ![g] = [edgePass[g] EXCEPT !.pc = to, !.todo = mine]]
        \/ edgePass' = [edgePass EXCEPT ![g] = [edgePass[g] EXCEPT !.pc = "list"]]
        \/ EdgeFails(g)
    BY <1>3 DEF ApplyListeners, EdgeMoves
  <2>2. to \in EdgeSteps /\ "list" \in EdgeSteps
    BY DEF EdgeSteps
  <2>3. /\ [edgePass[g] EXCEPT !.pc = to, !.todo = mine] \in EdgePassType
        /\ [edgePass[g] EXCEPT !.pc = "list"] \in EdgePassType
    <3> HIDE DEF to, mine
    <3>1. mine \in SUBSET Domains
      BY <1>c DEF mine
    <3> QED BY <2>2, <3>1, MovedPass
  <2> HIDE DEF to
  <2>4. edgePass' \in [Gateways -> EdgePassType]
    BY <2>1, <2>3, <1>d
  <2>5. listeners' \in [Domains -> SUBSET Gateways]
    BY <1>3 DEF ApplyListeners, BuildEdgeListenerApply
  <2>6. edgeDirty' \subseteq Gateways
    BY <1>3 DEF ApplyListeners, EdgeFails
  <2> QED BY <1>3, <2>4, <2>5, <2>6 DEF ApplyListeners
<1>4. CASE ApplyCertificate(g)
  <2>1. CASE Issuer /\ ~ edgeUp
    BY <1>4, <2>1, <1>d DEF ApplyCertificate, EdgeFails
  <2>2. CASE ~ (Issuer /\ ~ edgeUp)
    <3>1. PICK d \in edgePass[g].todo :
             /\ certs' = IF Issuer THEN BuildCertificate(g, d) ELSE certs
             /\ edgePass' = [edgePass EXCEPT ![g].todo = @ \ {d},
                                             ![g].pc = IF edgePass[g].todo = {d} THEN "list" ELSE @]
      BY <1>4, <2>2 DEF ApplyCertificate
    <3> DEFINE rest == edgePass[g].todo \ {d}
               to   == IF edgePass[g].todo = {d} THEN "list" ELSE edgePass[g].pc
    <3>2. edgePass' = [edgePass EXCEPT ![g] = [edgePass[g] EXCEPT !.pc = to, !.todo = rest]]
      BY <3>1
    <3>3. to \in EdgeSteps /\ rest \in SUBSET Domains
      BY <1>a, <1>b DEF EdgePassType, EdgeSteps
    <3> HIDE DEF to, rest
    <3>4. edgePass' \in [Gateways -> EdgePassType]
      BY <3>2, <3>3, MovedPass
    <3>5. certs' \in [Domains -> Gateways \cup {Nobody}]
      BY <3>1, <1>b DEF BuildCertificate
    <3>6. UNCHANGED edgeDirty
      BY <1>4, <2>2 DEF ApplyCertificate
    <3> QED BY <1>4, <3>4, <3>5, <3>6 DEF ApplyCertificate
  <2> QED BY <2>1, <2>2
<1>5. CASE ListCertificates(g)
  <2> DEFINE wanted == IF Issuer /\ ~ edgePass[g].leaving THEN edgePass[g].spec.domains ELSE {}
             doomed == {d \in Domains : certs[d] = g /\ d \notin wanted}
             to     == IF doomed = {} THEN Collected(g) ELSE "collect"
  <2>1. \/ edgePass' = [edgePass EXCEPT ![g] = [edgePass[g] EXCEPT !.pc = to, !.todo = doomed]]
        \/ edgePass' = [edgePass EXCEPT ![g] = [edgePass[g] EXCEPT !.pc = Collected(g)]]
    BY <1>5 DEF ListCertificates, EdgeMoves
  <2>2. to \in EdgeSteps /\ Collected(g) \in EdgeSteps /\ doomed \in SUBSET Domains
    BY DEF EdgeSteps, Collected
  <2> HIDE DEF to, doomed
  <2>3. /\ [edgePass[g] EXCEPT !.pc = to, !.todo = doomed] \in EdgePassType
        /\ [edgePass[g] EXCEPT !.pc = Collected(g)] \in EdgePassType
    BY <2>2, MovedPass
  <2>4. edgePass' \in [Gateways -> EdgePassType]
    BY <2>1, <2>3
  <2>5. happened' \in 0 .. MaxEdgeEvents /\ forgotten' \subseteq Gateways
    BY <1>5, EdgeOccursType DEF ListCertificates
  <2> QED BY <1>5, <2>4, <2>5 DEF ListCertificates
<1>6. CASE CollectCertificate(g)
  <2>1. PICK d \in edgePass[g].todo :
           /\ edgePass' = [edgePass EXCEPT ![g].todo = @ \ {d},
                               ![g].pc = IF edgePass[g].todo = {d} THEN Collected(g) ELSE @]
           /\ \/ certs' = [certs EXCEPT ![d] = Nobody]
              \/ UNCHANGED certs
    BY <1>6 DEF CollectCertificate
  <2> DEFINE rest == edgePass[g].todo \ {d}
             to   == IF edgePass[g].todo = {d} THEN Collected(g) ELSE edgePass[g].pc
  <2>2. edgePass' = [edgePass EXCEPT ![g] = [edgePass[g] EXCEPT !.pc = to, !.todo = rest]]
    BY <2>1
  <2>3. to \in EdgeSteps /\ rest \in SUBSET Domains
    BY <1>a, <1>b DEF EdgePassType, EdgeSteps, Collected
  <2> HIDE DEF to, rest
  <2>4. edgePass' \in [Gateways -> EdgePassType]
    BY <2>2, <2>3, MovedPass
  <2>5. certs' \in [Domains -> Gateways \cup {Nobody}]
    BY <2>1
  <2>6. happened' \in 0 .. MaxEdgeEvents /\ forgotten' \subseteq Gateways
    BY <1>6, EdgeOccursType DEF CollectCertificate
  <2> QED BY <1>6, <2>4, <2>5, <2>6 DEF CollectCertificate
<1>7. CASE ScaleAndReport(g)
  <2>1. edgePass' \in [Gateways -> EdgePassType]
    BY <1>7, <1>d DEF ScaleAndReport
  <2>2. hpas' \in [Gateways -> HpaType] /\ pdbs' \subseteq Gateways
    BY <1>7, <1>b, BuildHpaType DEF ScaleAndReport
  <2>3. happened' \in 0 .. MaxEdgeEvents
    BY <1>7, EdgeOccursType DEF ScaleAndReport
  <2>4. JudgeReady(edgePass[g]) \in BOOLEAN
    BY DEF JudgeReady
  <2>5. [edgeGw[g] EXCEPT !.ready = JudgeReady(edgePass[g])] \in EdgeGwType
    BY <1>a, <2>4 DEF EdgeGwType
  <2>6. edgeGw' \in [Gateways -> EdgeGwType]
    BY <1>7, <2>5 DEF ScaleAndReport, ReportReady
  <2> QED BY <1>7, <2>1, <2>2, <2>3, <2>6 DEF ScaleAndReport
<1>8. CASE RelinquishListeners(g)
  <2>1. edgePass' = [edgePass EXCEPT ![g] = [edgePass[g] EXCEPT !.pc = "list"]]
    BY <1>8 DEF RelinquishListeners, EdgeMoves
  <2>2. edgePass' \in [Gateways -> EdgePassType]
    BY <2>1, MovedPass DEF EdgeSteps
  <2>3. listeners' \in [Domains -> SUBSET Gateways]
    BY <1>8 DEF RelinquishListeners, BuildEdgeListenerApply
  <2>4. happened' \in 0 .. MaxEdgeEvents /\ forgotten' \subseteq Gateways
    BY <1>8, EdgeOccursType DEF RelinquishListeners
  <2> QED BY <1>8, <2>2, <2>3, <2>4 DEF RelinquishListeners
<1>9. CASE ReleaseGateway(g)
  <2>1. edgePass' \in [Gateways -> EdgePassType]
    BY <1>9, <1>d DEF ReleaseGateway
  <2>2. edgeGw' = [edgeGw EXCEPT ![g] = [edgeGw[g] EXCEPT !.phase = "gone", !.ready = FALSE]]
    BY <1>9 DEF ReleaseGateway
  <2>3. [edgeGw[g] EXCEPT !.phase = "gone", !.ready = FALSE] \in EdgeGwType
    BY ONLY <1>a DEF EdgeGwType
  <2>4. edgeGw' \in [Gateways -> EdgeGwType]
    BY <2>2, <2>3
  <2>5. [count |-> 0, by |-> "nobody", available |-> 0] \in ReplicasType /\ <<0, 0>> \in HpaType
    BY DEF ReplicasType, HpaType, MaxReplicas
  <2>6. replicas' \in [Gateways -> ReplicasType] /\ hpas' \in [Gateways -> HpaType]
    BY <1>9, <2>5 DEF ReleaseGateway
  <2>7. /\ httproute' \in [Gateways -> SUBSET (Domains \cup {"platform"})]
        /\ pdbs' \subseteq Gateways /\ edgeDirty' \subseteq Gateways
    BY <1>9 DEF ReleaseGateway
  <2> QED BY <1>9, <2>1, <2>4, <2>6, <2>7 DEF ReleaseGateway
<1>10. CASE EdgePassErrs(g)
  <2>1. edgePass' \in [Gateways -> EdgePassType] /\ edgeDirty' \subseteq Gateways
    BY <1>10, <1>d DEF EdgePassErrs, EdgeFails
  <2>2. happened' \in 0 .. MaxEdgeEvents
    BY <1>10, EdgeOccursType DEF EdgePassErrs
  <2> QED BY <1>10, <2>1, <2>2 DEF EdgePassErrs
<1> QED BY <1>1, <1>2, <1>3, <1>4, <1>5, <1>6, <1>7, <1>8, <1>9, <1>10 DEF EdgeWork

\* So does what users and the cluster around it do.
LEMMA EdgeAroundTypes ==
    ASSUME EdgeTypeOK,
           \/ \E g \in Gateways : HpaScales(g) \/ PodsFollow(g)
           \/ EdgeUsers \/ EdgeCrash \/ EdgeResync
    PROVE  EdgeTypeOK'
<1> USE DEF EdgeTypeOK
<1>1. ASSUME NEW g \in Gateways, HpaScales(g) PROVE EdgeTypeOK'
  <2>1. PICK n \in hpas[g][1] .. hpas[g][2] :
           replicas' = [replicas EXCEPT ![g] = [replicas[g] EXCEPT !.count = n, !.by = "hpa"]]
    BY <1>1 DEF HpaScales
  <2>2. hpas[g][1] \in 0 .. 3 /\ hpas[g][2] \in 0 .. 3
    BY DEF HpaType, MaxReplicas
  <2>3. n \in 0 .. MaxReplicas
    BY <2>2 DEF MaxReplicas
  <2>4. [replicas[g] EXCEPT !.count = n, !.by = "hpa"] \in ReplicasType
    BY <2>3 DEF ReplicasType
  <2>5. replicas' \in [Gateways -> ReplicasType]
    BY <2>1, <2>4
  <2> QED BY <1>1, <2>5 DEF HpaScales
<1>2. ASSUME NEW g \in Gateways, PodsFollow(g) PROVE EdgeTypeOK'
  <2>1. [replicas[g] EXCEPT !.available = replicas[g].count] \in ReplicasType
    BY DEF ReplicasType
  <2>2. replicas' \in [Gateways -> ReplicasType]
    BY <1>2, <2>1 DEF PodsFollow
  <2> QED BY <1>2, <2>2 DEF PodsFollow
<1>3. ASSUME NEW g \in Gateways, NEW s \in EdgeSpecs, EditGateway(g, s) PROVE EdgeTypeOK'
  <2>1. [edgeGw[g] EXCEPT !.spec = s] \in EdgeGwType
    BY ZenonT(90) DEF EdgeGwType
  <2>2. edgeGw' \in [Gateways -> EdgeGwType] /\ forgotten' \subseteq Gateways
    BY <1>3, <2>1 DEF EditGateway
  <2>3. happened' \in 0 .. MaxEdgeEvents
    BY <1>3, EdgeOccursType DEF EditGateway
  <2> QED BY <1>3, <2>2, <2>3 DEF EditGateway
<1>4. ASSUME NEW g \in Gateways, DeleteGateway(g) PROVE EdgeTypeOK'
  <2>1. [edgeGw[g] EXCEPT !.phase = "deleting"] \in EdgeGwType
    BY DEF EdgeGwType
  <2>2. edgeGw' \in [Gateways -> EdgeGwType]
    BY <1>4, <2>1 DEF DeleteGateway
  <2>3. happened' \in 0 .. MaxEdgeEvents
    BY <1>4, EdgeOccursType DEF DeleteGateway
  <2> QED BY <1>4, <2>2, <2>3 DEF DeleteGateway
<1>5. CASE EdgeGoes
  <2>1. happened' \in 0 .. MaxEdgeEvents
    BY <1>5, EdgeOccursType DEF EdgeGoes
  <2>2. edgeUp' \in BOOLEAN
    BY <1>5, Zenon DEF EdgeGoes
  <2> QED BY <1>5, <2>1, <2>2 DEF EdgeGoes
<1>6. CASE EdgeCrash
  <2>1. happened' \in 0 .. MaxEdgeEvents
    BY <1>6, EdgeOccursType DEF EdgeCrash
  <2> QED BY <1>6, <2>1, EdgeIdleType DEF EdgeCrash
<1>7. CASE EdgeResync
  BY <1>7 DEF EdgeResync
<1> QED BY <1>1, <1>2, <1>3, <1>4, <1>5, <1>6, <1>7 DEF EdgeUsers

\* Every step keeps the types.
LEMMA EdgeTypesStep == EdgeTypeOK /\ [EdgeNext]_edgeVars => EdgeTypeOK'
<1>1. ASSUME EdgeTypeOK, UNCHANGED edgeVars PROVE EdgeTypeOK'
  BY <1>1 DEF EdgeTypeOK, edgeVars
<1> QED BY <1>1, EdgeWorkTypes, EdgeAroundTypes DEF EdgeNext

\* Every variable of the edge keeps its type, whatever the counts, bounds and domains the
\* specs ask for: among others, the replica count stays within the maximum through every
\* hand-over between the operator and the autoscaler.
THEOREM EdgeTypeCorrect == EdgeSpec => []EdgeTypeOK
BY EdgeInitTypes, EdgeTypesStep, PTL DEF EdgeSpec

-----------------------------------------------------------------------------
(* Nothing is left at the edge *)

\* A gateway stays tracked by a step that leaves its own state and pass alone and gives it
\* nothing at the edge.
LEMMA Untouched ==
    ASSUME NEW g \in Gateways, Tracked(g),
           edgePass'[g] = edgePass[g], edgeGw'[g] = edgeGw[g], forgotten \subseteq forgotten',
           \A d \in Domains : /\ g \in listeners'[d] => g \in listeners[d]
                              /\ certs'[d] = g => certs[d] = g
    PROVE  Tracked(g)'
BY DEF Tracked, PassFits, EdgeAccounted, AtEdge

\* A pass that ends leaves its gateway tracked, when that is not going.
LEMMA EndedPass ==
    ASSUME NEW g \in Gateways, Tracked(g), edgePass'[g] = EdgeIdle,
           edgeGw'[g].spec = edgeGw[g].spec, edgeGw'[g].phase = edgeGw[g].phase,
           forgotten \subseteq forgotten',
           \A d \in Domains : /\ g \in listeners'[d] => g \in listeners[d]
                              /\ certs'[d] = g => certs[d] = g
    PROVE  Tracked(g)'
BY EdgeIdleType DEF Tracked, PassFits, EdgeAccounted, AtEdge

\* The steps of a pass keep its own gateway tracked.
LEMMA EdgeWorkTracks ==
    ASSUME EdgeInv, NEW g \in Gateways, EdgeWork(g) \/ EdgePassErrs(g)
    PROVE  Tracked(g)'
<1> USE DEF EdgeTypeOK
<1>0. EdgeTypeOK /\ Tracked(g)
  BY DEF EdgeInv
<1>a. edgePass[g] \in EdgePassType /\ edgeGw[g] \in EdgeGwType /\ edgePass[g].leaving \in BOOLEAN
  BY <1>0 DEF EdgePassType
<1>1. CASE BeginEdgePass(g)
  <2> DEFINE leaves == edgeGw[g].phase = "deleting"
             cloud  == edgeGw[g].spec.cloud
             step   == CASE leaves /\ cloud -> "relinquish"
                         [] leaves /\ ~ cloud -> "release"
                         [] OTHER -> "deployment"
             next   == [EdgeIdle EXCEPT !.spec = edgeGw[g].spec, !.leaving = leaves, !.pc = step]
             moved  == [edgeGw[g] EXCEPT !.phase = IF @ = "new" THEN "live" ELSE @]
  <2>1. edgePass'[g] = next
    BY <1>0, <1>1 DEF BeginEdgePass
  <2>2. edgeGw'[g] = moved
    BY <1>0, <1>1 DEF BeginEdgePass
  <2>3. /\ leaves => step \in {"relinquish", "release"} /\ (step = "release" => ~ cloud)
        /\ ~ leaves => step = "deployment"
    OBVIOUS
  <2> HIDE DEF step
  <2>4. next.pc = step /\ next.leaving = leaves /\ next.spec = edgeGw[g].spec
    BY ONLY EdgeIdleType DEF EdgePassType
  <2>5. moved.spec = edgeGw[g].spec /\ (leaves => moved.phase = "deleting")
    BY ONLY <1>a DEF EdgeGwType
  <2>6. edgeGw[g].phase # "gone" /\ moved.phase # "gone"
    BY <1>1, <1>a DEF BeginEdgePass, EdgeGwType
  <2> HIDE DEF next, moved
  <2>7. UNCHANGED <<listeners, certs, forgotten>>
    BY <1>1 DEF BeginEdgePass
  <2>8. PassFits(g)'
    BY <2>1, <2>2, <2>3, <2>4, <2>5, <2>6 DEF PassFits
  <2>9. ASSUME g \notin forgotten PROVE EdgeAccounted(g)'
    <3>1. \A d \in Domains : AtEdge(g, d) => cloud
      BY <1>0, <2>9 DEF Tracked, EdgeAccounted
    <3> QED BY <2>1, <2>2, <2>3, <2>4, <2>5, <2>6, <2>7, <3>1 DEF EdgeAccounted, AtEdge
  <2> QED BY <2>7, <2>8, <2>9 DEF Tracked
<1>2. CASE ApplyWorkload(g)
  <2> DEFINE to   == IF edgePass[g].spec.cloud THEN "listeners" ELSE "scale"
             next == [edgePass[g] EXCEPT !.pc = to, !.available = replicas[g].available]
  <2>1. edgePass'[g] = next
    BY <1>0, <1>2 DEF ApplyWorkload
  <2>2. next.pc = to /\ next.spec = edgePass[g].spec /\ next.leaving = edgePass[g].leaving
    BY ONLY <1>a DEF EdgePassType
  <2> HIDE DEF next
  <2>3. edgePass[g].pc = "deployment" /\ UNCHANGED <<edgeGw, listeners, certs, forgotten>>
    BY <1>2 DEF ApplyWorkload
  <2> QED BY <1>0, <2>1, <2>2, <2>3 DEF Tracked, PassFits, EdgeAccounted, AtEdge
<1>3. CASE ApplyListeners(g)
  <2> DEFINE mine == edgePass[g].spec.domains
             to   == IF mine = {} THEN "list" ELSE "certificates"
             next == [edgePass[g] EXCEPT !.pc = to, !.todo = mine]
             past == [edgePass[g] EXCEPT !.pc = "list"]
  <2>1. edgePass[g].pc = "listeners" /\ UNCHANGED <<edgeGw, certs, forgotten>>
    BY <1>3 DEF ApplyListeners
  <2>2. CASE edgePass'[g] = next
    <3>1. next.pc = to /\ next.spec = edgePass[g].spec /\ next.leaving = edgePass[g].leaving
      BY ONLY <1>a DEF EdgePassType
    <3> HIDE DEF next
    <3> QED BY <1>0, <2>1, <2>2, <3>1 DEF Tracked, PassFits, EdgeAccounted, AtEdge
  <2>3. CASE edgePass'[g] = past
    <3>1. past.pc = "list" /\ past.spec = edgePass[g].spec /\ past.leaving = edgePass[g].leaving
      BY ONLY <1>a DEF EdgePassType
    <3> HIDE DEF past
    <3> QED BY <1>0, <2>1, <2>3, <3>1 DEF Tracked, PassFits, EdgeAccounted, AtEdge
  <2>4. CASE edgePass'[g] = EdgeIdle
    BY <1>0, <2>1, <2>4, EdgeIdleType DEF Tracked, PassFits, EdgeAccounted, AtEdge
  <2>5. edgePass'[g] = next \/ edgePass'[g] = past \/ edgePass'[g] = EdgeIdle
    <3>1. \/ edgePass' = [edgePass EXCEPT ![g] = next]
          \/ edgePass' = [edgePass EXCEPT ![g] = past]
          \/ EdgeFails(g)
      BY <1>0, <1>3 DEF ApplyListeners, EdgeMoves
    <3> HIDE DEF next, past
    <3> QED BY <1>0, <3>1 DEF EdgeFails, EdgeEnds
  <2> QED BY <2>2, <2>3, <2>4, <2>5
<1>4. CASE ApplyCertificate(g)
  <2>1. edgePass[g].pc = "certificates" /\ UNCHANGED <<edgeGw, listeners, forgotten>>
    BY <1>4 DEF ApplyCertificate
  <2>2. CASE Issuer /\ ~ edgeUp
    BY <1>0, <1>4, <2>1, <2>2, EndedPass DEF ApplyCertificate, EdgeFails, EdgeEnds
  <2>3. CASE ~ (Issuer /\ ~ edgeUp)
    <3>1. PICK d \in edgePass[g].todo :
             edgePass' = [edgePass EXCEPT ![g].todo = @ \ {d},
                                          ![g].pc = IF edgePass[g].todo = {d} THEN "list" ELSE @]
      BY <1>4, <2>3 DEF ApplyCertificate
    <3> DEFINE rest == edgePass[g].todo \ {d}
               to   == IF edgePass[g].todo = {d} THEN "list" ELSE edgePass[g].pc
               next == [edgePass[g] EXCEPT !.pc = to, !.todo = rest]
    <3>2. edgePass'[g] = next
      BY <1>0, <3>1
    <3>3. next.pc = to /\ next.spec = edgePass[g].spec /\ next.leaving = edgePass[g].leaving
      BY ONLY <1>a DEF EdgePassType
    <3> HIDE DEF next
    <3>4. next.pc = "list" \/ next.pc = "certificates"
      BY <2>1, <3>3
    <3> HIDE DEF to
    <3> QED BY <1>0, <2>1, <3>2, <3>3, <3>4 DEF Tracked, PassFits, EdgeAccounted, AtEdge
  <2> QED BY <2>2, <2>3
<1>5. CASE ListCertificates(g)
  <2> DEFINE wanted == IF Issuer /\ ~ edgePass[g].leaving THEN edgePass[g].spec.domains ELSE {}
             doomed == {d \in Domains : certs[d] = g /\ d \notin wanted}
             to     == IF doomed = {} THEN Collected(g) ELSE "collect"
             next   == [edgePass[g] EXCEPT !.pc = to, !.todo = doomed]
             past   == [edgePass[g] EXCEPT !.pc = Collected(g)]
  <2>1. edgePass[g].pc = "list" /\ UNCHANGED <<edgeGw, listeners, certs>>
    BY <1>5 DEF ListCertificates
  <2>2. \/ edgePass'[g] = next /\ UNCHANGED forgotten
        \/ edgePass'[g] = past /\ (edgePass[g].leaving => g \in forgotten')
                               /\ forgotten \subseteq forgotten'
    BY <1>0, <1>5 DEF ListCertificates, EdgeMoves
  <2>3. /\ edgePass[g].leaving => Collected(g) = "release"
        /\ ~ edgePass[g].leaving => Collected(g) = "scale"
    BY DEF Collected
  <2>4. /\ next.pc = to /\ next.spec = edgePass[g].spec /\ next.leaving = edgePass[g].leaving
        /\ next.todo = doomed
        /\ past.pc = Collected(g) /\ past.spec = edgePass[g].spec
        /\ past.leaving = edgePass[g].leaving
    BY ONLY <1>a DEF EdgePassType
  <2>5. edgePass[g].leaving => \A d \in Domains : certs[d] = g => d \in doomed
    OBVIOUS
  <2>6. \/ to = "collect"
        \/ to = Collected(g) /\ doomed = {}
    OBVIOUS
  <2> HIDE DEF next, past, doomed, to
  <2>7. CASE edgePass'[g] = next /\ UNCHANGED forgotten
    BY <1>0, <2>1, <2>3, <2>4, <2>5, <2>6, <2>7 DEF Tracked, PassFits, EdgeAccounted, AtEdge
  <2>8. CASE edgePass'[g] = past /\ (edgePass[g].leaving => g \in forgotten')
                                 /\ forgotten \subseteq forgotten'
    BY <1>0, <2>1, <2>3, <2>4, <2>8 DEF Tracked, PassFits, EdgeAccounted, AtEdge
  <2> QED BY <2>2, <2>7, <2>8
<1>6. CASE CollectCertificate(g)
  <2>1. edgePass[g].pc = "collect" /\ UNCHANGED <<edgeGw, listeners>>
    BY <1>6 DEF CollectCertificate
  <2>2. PICK d \in edgePass[g].todo :
           /\ edgePass' = [edgePass EXCEPT ![g].todo = @ \ {d},
                               ![g].pc = IF edgePass[g].todo = {d} THEN Collected(g) ELSE @]
           /\ \/ certs' = [certs EXCEPT ![d] = Nobody] /\ UNCHANGED forgotten
              \/ /\ edgePass[g].leaving => g \in forgotten'
                 /\ forgotten \subseteq forgotten'
                 /\ UNCHANGED certs
    BY <1>6 DEF CollectCertificate
  <2> DEFINE rest == edgePass[g].todo \ {d}
             to   == IF edgePass[g].todo = {d} THEN Collected(g) ELSE edgePass[g].pc
             next == [edgePass[g] EXCEPT !.pc = to, !.todo = rest]
  <2>3. edgePass'[g] = next
    BY <1>0, <2>2
  <2>4. /\ next.pc = to /\ next.spec = edgePass[g].spec /\ next.leaving = edgePass[g].leaving
        /\ next.todo = rest
    BY ONLY <1>a DEF EdgePassType
  <2>5. /\ edgePass[g].leaving => Collected(g) = "release"
        /\ ~ edgePass[g].leaving => Collected(g) = "scale"
    BY DEF Collected
  <2>6. to = "collect" \/ (to = Collected(g) /\ edgePass[g].todo = {d})
    BY <2>1
  <2>7. Nobody # g
    BY EdgeAssumption
  <2> HIDE DEF next, to
  <2>8. PassFits(g)'
    BY <1>0, <2>1, <2>3, <2>4, <2>5, <2>6 DEF Tracked, PassFits
  <2>9. ASSUME g \notin forgotten' PROVE EdgeAccounted(g)'
    <3>1. EdgeAccounted(g)
      BY <1>0, <2>2, <2>9 DEF Tracked
    <3>2. \A e \in Domains : certs'[e] = g => certs[e] = g
      BY <1>0, <2>2, <2>7
    <3>3. edgePass[g].leaving => certs' = [certs EXCEPT ![d] = Nobody]
      BY <2>2, <2>9
    <3>4. edgePass[g].leaving => \A e \in Domains : certs'[e] = g => e \in rest
      BY <1>0, <2>1, <2>7, <3>1, <3>2, <3>3 DEF EdgeAccounted
    <3>5. /\ edgePass'[g].pc # "idle" /\ edgePass'[g].spec.cloud => edgeGw'[g].spec.cloud
          /\ \A e \in Domains : AtEdge(g, e)' => edgeGw'[g].spec.cloud /\ edgeGw'[g].phase # "gone"
      BY <2>1, <2>3, <2>4, <3>1, <3>2 DEF EdgeAccounted, AtEdge
    <3>6. edgePass'[g].leaving => \A e \in Domains : g \notin listeners'[e]
      BY <2>1, <2>3, <2>4, <3>1 DEF EdgeAccounted
    <3>7. edgePass'[g].leaving => \A e \in Domains : certs'[e] = g => e \in edgePass'[g].todo
      BY <2>3, <2>4, <3>4
    <3>8. edgePass'[g].pc = "release" => edgePass[g].leaving /\ rest = {}
      BY <2>3, <2>4, <2>5, <2>6
    <3> QED BY <3>4, <3>5, <3>6, <3>7, <3>8 DEF EdgeAccounted
  <2> QED BY <2>8, <2>9 DEF Tracked
<1>7. CASE ScaleAndReport(g)
  <2>1. edgePass'[g] = EdgeIdle /\ UNCHANGED <<listeners, certs, forgotten>>
    BY <1>0, <1>7 DEF ScaleAndReport, EdgeEnds
  <2>2. \/ UNCHANGED edgeGw
        \/ edgeGw'[g] = [edgeGw[g] EXCEPT !.ready = JudgeReady(edgePass[g])]
    BY <1>0, <1>7 DEF ScaleAndReport, ReportReady
  <2>3. edgeGw'[g].spec = edgeGw[g].spec /\ edgeGw'[g].phase = edgeGw[g].phase
    BY <2>2, <1>a DEF EdgeGwType
  <2> QED BY <1>0, <2>1, <2>3, EndedPass
<1>8. CASE RelinquishListeners(g)
  <2> DEFINE next == [edgePass[g] EXCEPT !.pc = "list"]
  <2>1. edgePass'[g] = next
    BY <1>0, <1>8 DEF RelinquishListeners, EdgeMoves
  <2>2. next.pc = "list" /\ next.spec = edgePass[g].spec /\ next.leaving = edgePass[g].leaving
    BY ONLY <1>a DEF EdgePassType
  <2>3. edgePass[g].pc = "relinquish" /\ UNCHANGED <<edgeGw, certs>>
    BY <1>8 DEF RelinquishListeners
  <2>4. \/ UNCHANGED forgotten /\ \A d \in Domains : g \notin listeners'[d]
        \/ g \in forgotten'
    BY <1>8 DEF RelinquishListeners, BuildEdgeListenerApply
  <2> HIDE DEF next
  <2>5. PassFits(g)'
    BY <1>0, <2>1, <2>2, <2>3 DEF Tracked, PassFits
  <2>6. ASSUME g \notin forgotten' PROVE EdgeAccounted(g)'
    BY <1>0, <2>1, <2>2, <2>3, <2>4, <2>6 DEF Tracked, PassFits, EdgeAccounted, AtEdge
  <2> QED BY <2>5, <2>6 DEF Tracked
<1>9. CASE ReleaseGateway(g)
  <2>1. edgePass'[g] = EdgeIdle /\ UNCHANGED <<listeners, certs, forgotten>>
    BY <1>0, <1>9 DEF ReleaseGateway, EdgeEnds
  <2>2. edgePass[g].pc = "release"
    BY <1>9 DEF ReleaseGateway
  <2>3. g \notin forgotten => \A d \in Domains : ~ AtEdge(g, d)
    BY <1>0, <2>2 DEF Tracked, PassFits, EdgeAccounted, AtEdge
  <2> QED BY <2>1, <2>3, EdgeIdleType DEF Tracked, PassFits, EdgeAccounted, AtEdge
<1>10. CASE EdgePassErrs(g)
  BY <1>0, <1>10, EndedPass DEF EdgePassErrs, EdgeFails, EdgeEnds
<1> QED BY <1>1, <1>2, <1>3, <1>4, <1>5, <1>6, <1>7, <1>8, <1>9, <1>10 DEF EdgeWork

\* No step of one gateway's pass gives another one anything at the edge.
LEMMA EdgeWorkElsewhere ==
    ASSUME EdgeInv, NEW g \in Gateways, EdgeWork(g) \/ EdgePassErrs(g),
           NEW h \in Gateways, h # g
    PROVE  Tracked(h)'
<1> USE DEF EdgeTypeOK
<1>0. EdgeTypeOK /\ Tracked(h) /\ Nobody # h
  BY EdgeAssumption DEF EdgeInv
<1>1. edgePass'[h] = edgePass[h] /\ edgeGw'[h] = edgeGw[h]
  BY <1>0 DEF EdgeWork, EdgePassErrs, BeginEdgePass, ApplyWorkload, ApplyListeners,
              ApplyCertificate, ListCertificates, CollectCertificate, ScaleAndReport,
              RelinquishListeners, ReleaseGateway, ReportReady, EdgeMoves, EdgeEnds, EdgeFails
<1>2. forgotten \subseteq forgotten'
  BY DEF EdgeWork, EdgePassErrs, BeginEdgePass, ApplyWorkload, ApplyListeners,
         ApplyCertificate, ListCertificates, CollectCertificate, ScaleAndReport,
         RelinquishListeners, ReleaseGateway
<1>3. \A d \in Domains : h \in listeners'[d] => h \in listeners[d]
  BY <1>0 DEF EdgeWork, EdgePassErrs, BeginEdgePass, ApplyWorkload, ApplyListeners,
              ApplyCertificate, ListCertificates, CollectCertificate, ScaleAndReport,
              RelinquishListeners, ReleaseGateway, BuildEdgeListenerApply
<1>4. \A d \in Domains : certs'[d] = h => certs[d] = h
  BY <1>0 DEF EdgeWork, EdgePassErrs, BeginEdgePass, ApplyWorkload, ApplyListeners,
              ApplyCertificate, ListCertificates, CollectCertificate, ScaleAndReport,
              RelinquishListeners, ReleaseGateway, BuildCertificate
<1> QED BY <1>0, <1>1, <1>2, <1>3, <1>4, Untouched

\* Neither users nor the cluster around it do, and who drops the cloud block is remembered.
LEMMA EdgeAroundTracks ==
    ASSUME EdgeInv, NEW h \in Gateways,
           \/ \E g \in Gateways : HpaScales(g) \/ PodsFollow(g)
           \/ EdgeUsers \/ EdgeCrash \/ EdgeResync
    PROVE  Tracked(h)'
<1> USE DEF EdgeTypeOK
<1>0. EdgeTypeOK /\ Tracked(h) /\ Nobody # h
  BY EdgeAssumption DEF EdgeInv
<1>a. edgeGw[h] \in EdgeGwType
  BY <1>0
<1>1. CASE UNCHANGED <<edgePass, edgeGw, forgotten, listeners, certs>>
  BY <1>0, <1>1, Untouched
<1>2. ASSUME NEW g \in Gateways, NEW s \in EdgeSpecs, EditGateway(g, s) PROVE Tracked(h)'
  <2>1. /\ UNCHANGED <<edgePass, listeners, certs>>
        /\ edgeGw[g].phase = "live"
        /\ forgotten' = IF edgeGw[g].spec.cloud /\ ~ s.cloud THEN forgotten \cup {g} ELSE forgotten
    BY <1>2 DEF EditGateway
  <2>2. CASE h # g
    <3>1. edgeGw'[h] = edgeGw[h]
      BY <1>0, <1>2, <2>2 DEF EditGateway
    <3> QED BY <1>0, <2>1, <3>1, Untouched
  <2>3. CASE h = g
    <3> DEFINE next == [edgeGw[h] EXCEPT !.spec = s]
    <3>1. edgeGw'[h] = next
      BY <1>0, <1>2, <2>3 DEF EditGateway
    <3>2. next.spec = s /\ next.phase = edgeGw[h].phase
      BY ONLY <1>a DEF EdgeGwType
    <3> HIDE DEF next
    <3>3. h \notin forgotten' => h \notin forgotten /\ (edgeGw[h].spec.cloud => s.cloud)
      BY <2>1, <2>3
    <3> QED BY <1>0, <2>1, <2>3, <3>1, <3>2, <3>3 DEF Tracked, PassFits, EdgeAccounted, AtEdge
  <2> QED BY <2>2, <2>3
<1>3. ASSUME NEW g \in Gateways, DeleteGateway(g) PROVE Tracked(h)'
  <2>1. UNCHANGED <<edgePass, listeners, certs, forgotten>> /\ edgeGw[g].phase = "live"
    BY <1>3 DEF DeleteGateway
  <2>2. CASE h # g
    <3>1. edgeGw'[h] = edgeGw[h]
      BY <1>0, <1>3, <2>2 DEF DeleteGateway
    <3> QED BY <1>0, <2>1, <3>1, Untouched
  <2>3. CASE h = g
    <3> DEFINE next == [edgeGw[h] EXCEPT !.phase = "deleting"]
    <3>1. edgeGw'[h] = next
      BY <1>0, <1>3, <2>3 DEF DeleteGateway
    <3>2. next.spec = edgeGw[h].spec /\ next.phase = "deleting"
      BY ONLY <1>a DEF EdgeGwType
    <3> HIDE DEF next
    <3> QED BY <1>0, <2>1, <2>3, <3>1, <3>2 DEF Tracked, PassFits, EdgeAccounted, AtEdge
  <2> QED BY <2>2, <2>3
<1>4. CASE EdgeGoes
  <2>1. UNCHANGED <<edgePass, edgeGw, forgotten>>
    BY <1>4 DEF EdgeGoes
  <2>2. \A d \in Domains : h \notin listeners'[d] /\ certs'[d] # h
    BY <1>0, <1>4 DEF EdgeGoes
  <2> QED BY <1>0, <2>1, <2>2, Untouched
<1>5. CASE EdgeCrash
  BY <1>0, <1>5, EndedPass DEF EdgeCrash
<1> QED BY <1>1, <1>2, <1>3, <1>4, <1>5 DEF EdgeUsers, HpaScales, PodsFollow, EdgeResync

\* Every behaviour keeps every gateway tracked.
LEMMA EdgeInvHolds == EdgeSpec => []EdgeInv
<1>1. EdgeInit => EdgeInv
  <2> SUFFICES ASSUME EdgeInit, NEW g \in Gateways PROVE Tracked(g)
    BY EdgeInitTypes DEF EdgeInv
  <2>1. edgePass[g] = EdgeIdle /\ edgeGw[g].phase = "new"
    BY DEF EdgeInit
  <2>2. \A d \in Domains : ~ AtEdge(g, d)
    BY EdgeAssumption DEF EdgeInit, AtEdge
  <2> QED BY <2>1, <2>2, EdgeIdleType DEF Tracked, PassFits, EdgeAccounted
<1>2. EdgeInv /\ [EdgeNext]_edgeVars => EdgeInv'
  <2> SUFFICES ASSUME EdgeInv, [EdgeNext]_edgeVars, NEW h \in Gateways PROVE Tracked(h)'
    BY EdgeTypesStep DEF EdgeInv
  <2>1. CASE UNCHANGED edgeVars
    BY <2>1, Untouched DEF EdgeInv, edgeVars
  <2>2. ASSUME NEW g \in Gateways, EdgeWork(g) \/ EdgePassErrs(g) PROVE Tracked(h)'
    BY <2>2, EdgeWorkTracks, EdgeWorkElsewhere
  <2> QED BY <2>1, <2>2, EdgeAroundTracks DEF EdgeNext
<1> QED BY <1>1, <1>2, PTL DEF EdgeSpec

\* "relinquish it explicitly": once a gateway is gone, no listener and no certificate carries
\* its name, in whatever order its passes, its edits, the other gateways that share its
\* domains and the loss of the edge or of the operator came, unless it dropped the cloud
\* block before or a request of its cleanup failed.
THEOREM EdgeRelinquished == EdgeSpec => []NothingLeftAtEdge
<1>1. EdgeInv => NothingLeftAtEdge
  BY DEF EdgeInv, Tracked, EdgeAccounted, AtEdge, NothingLeftAtEdge
<1> QED BY <1>1, EdgeInvHolds, PTL

-----------------------------------------------------------------------------
(* At rest, everything is in place *)

\* What a spec asks for: its host names on the HTTPRoute and its replica count ...
Rolled(g, s) ==
    /\ s.cloud => httproute[g] = BuildHttpRoute(s)
    /\ ~ Autoscaled(s) => replicas[g].count = EffectiveReplicas(s)

\* ... the listeners of its domains and no other ...
Listening(g, s) ==
    edgeUp /\ s.cloud => \A d \in Domains : g \in listeners[d] <=> d \in s.domains

\* ... and a disruption budget when it wants one.  One it does not want is gone unless
\* requests fail: the deletion is best-effort.
Budgeted(g, s) ==
    /\ WantsBudget(s) => g \in pdbs
    /\ g \in pdbs => WantsBudget(s) \/ "error" \in EdgeEvents

\* What DomainsSettle and FixedCountsSettle rest on besides fairness: a gateway that no pass is
\* scheduled for or under way over has everything its spec asks for; no change is forgotten
\* until the next resync.
InPlaceAtRest ==
    \A g \in Gateways :
        edgeGw[g].phase = "live" /\ edgePass[g].pc = "idle" /\ g \notin edgeDirty =>
            LET s == edgeGw[g].spec IN Rolled(g, s) /\ Listening(g, s) /\ Budgeted(g, s)

\* How far a pass over a living gateway has come, unless another one is scheduled by now.
InStep(g) ==
    edgeGw[g].phase = "live" =>
        LET pass == edgePass[g]
            told == g \in edgeDirty
        IN  /\ pass.pc # "idle" => told \/ pass.spec = edgeGw[g].spec
            /\ pass.pc \in {"listeners", "certificates", "list", "collect", "scale"} =>
                   told \/ Rolled(g, pass.spec)
            /\ pass.pc \in {"certificates", "list", "collect", "scale"} => Listening(g, pass.spec)
            /\ pass.pc = "idle" => \/ told
                                   \/ /\ Rolled(g, edgeGw[g].spec)
                                      /\ Listening(g, edgeGw[g].spec)
                                      /\ Budgeted(g, edgeGw[g].spec)

\* A gateway stays in step when nobody touches what is its own, or when a pass is scheduled.
LEMMA StaysInStep ==
    ASSUME NEW g \in Gateways, InStep(g),
           edgePass'[g] = edgePass[g], edgeGw'[g] = edgeGw[g],
           g \in edgeDirty => g \in edgeDirty',
           httproute'[g] = httproute[g],
           g \in edgeDirty' \/ replicas'[g].count = replicas[g].count,
           edgeUp' => edgeUp /\ \A d \in Domains : g \in listeners'[d] <=> g \in listeners[d],
           g \in pdbs' <=> g \in pdbs
    PROVE  InStep(g)'
<1>1. \A s : Listening(g, s) => Listening(g, s)'
  BY DEF Listening
<1>2. \A s : Rolled(g, s) => Rolled(g, s)' \/ g \in edgeDirty'
  BY DEF Rolled
<1>3. \A s : Budgeted(g, s) => Budgeted(g, s)'
  BY DEF Budgeted
<1> QED BY <1>1, <1>2, <1>3 DEF InStep

\* A pass that ends in an error is tried again.
LEMMA FailedInStep ==
    ASSUME NEW g \in Gateways, edgePass'[g] = EdgeIdle, g \in edgeDirty'
    PROVE  InStep(g)'
BY EdgeIdleType DEF InStep

\* A step of a pass that moves on without touching the workload or the listeners.
LEMMA MovesInStep ==
    ASSUME NEW g \in Gateways, InStep(g), PassFits(g),
           edgePass'[g].spec = edgePass[g].spec, edgeGw'[g] = edgeGw[g],
           edgePass[g].pc \in {"certificates", "list", "collect"},
           edgeGw[g].phase = "live" => edgePass'[g].pc \in {"certificates", "list", "collect", "scale"},
           UNCHANGED <<edgeDirty, httproute, replicas, listeners, edgeUp>>
    PROVE  InStep(g)'
<1>1. \A s : (Listening(g, s) => Listening(g, s)') /\ (Rolled(g, s) => Rolled(g, s)')
  BY DEF Listening, Rolled
<1> QED BY <1>1 DEF InStep

\* The steps of a pass keep its own gateway in step.
LEMMA EdgeWorkInStep ==
    ASSUME EdgeInv, NEW g \in Gateways, InStep(g), EdgeWork(g) \/ EdgePassErrs(g)
    PROVE  InStep(g)'
<1> USE DEF EdgeTypeOK
<1>0. EdgeTypeOK /\ PassFits(g)
  BY DEF EdgeInv, Tracked
<1>a. edgePass[g] \in EdgePassType /\ edgeGw[g] \in EdgeGwType /\ edgePass[g].leaving \in BOOLEAN
  BY <1>0 DEF EdgePassType
<1>1. CASE BeginEdgePass(g)
  <2> DEFINE leaves == edgeGw[g].phase = "deleting"
             step   == CASE leaves /\ edgeGw[g].spec.cloud -> "relinquish"
                         [] leaves /\ ~ edgeGw[g].spec.cloud -> "release"
                         [] OTHER -> "deployment"
             next   == [EdgeIdle EXCEPT !.spec = edgeGw[g].spec, !.leaving = leaves, !.pc = step]
             moved  == [edgeGw[g] EXCEPT !.phase = IF @ = "new" THEN "live" ELSE @]
  <2>1. edgePass'[g] = next
    BY <1>0, <1>1 DEF BeginEdgePass
  <2>2. edgeGw'[g] = moved
    BY <1>0, <1>1 DEF BeginEdgePass
  <2>3. ~ leaves => step = "deployment"
    OBVIOUS
  <2> HIDE DEF step
  <2>4. next.pc = step /\ next.spec = edgeGw[g].spec
    BY ONLY EdgeIdleType DEF EdgePassType
  <2>5. moved.spec = edgeGw[g].spec /\ (leaves => moved.phase = "deleting")
    BY ONLY <1>a DEF EdgeGwType
  <2> HIDE DEF next, moved
  <2> QED BY <2>1, <2>2, <2>3, <2>4, <2>5 DEF InStep
<1>2. CASE ApplyWorkload(g)
  <2> DEFINE s    == edgePass[g].spec
             to   == IF s.cloud THEN "listeners" ELSE "scale"
             next == [edgePass[g] EXCEPT !.pc = to, !.available = replicas[g].available]
  <2>1. edgePass'[g] = next
    BY <1>0, <1>2 DEF ApplyWorkload
  <2>2. next.pc = to /\ next.spec = s
    BY ONLY <1>a DEF EdgePassType
  <2> HIDE DEF next
  <2>3. /\ edgePass[g].pc = "deployment" /\ UNCHANGED <<edgeGw, listeners, edgeUp>>
        /\ edgeDirty \subseteq edgeDirty'
        /\ replicas'[g] = BuildReplicas(g, s)
        /\ s.cloud => httproute'[g] = BuildHttpRoute(s)
    BY <1>0, <1>2 DEF ApplyWorkload
  <2>4. ~ Autoscaled(s) => replicas'[g].count = EffectiveReplicas(s)
    <3>1. ~ Autoscaled(s) =>
             replicas'[g] = [replicas[g] EXCEPT !.count = EffectiveReplicas(s), !.by = "operator"]
      BY <2>3 DEF BuildReplicas
    <3>2. replicas[g] \in ReplicasType
      BY <1>0
    <3>3. [replicas[g] EXCEPT !.count = EffectiveReplicas(s), !.by = "operator"].count = EffectiveReplicas(s)
      BY ONLY <3>2 DEF ReplicasType
    <3> QED BY <3>1, <3>3
  <2>5. Rolled(g, s)'
    BY <2>1, <2>2, <2>3, <2>4 DEF Rolled
  <2>6. ~ s.cloud => Listening(g, s)'
    BY <2>1, <2>2 DEF Listening
  <2> QED BY <2>1, <2>2, <2>3, <2>5, <2>6 DEF InStep
<1>3. CASE ApplyListeners(g)
  <2> DEFINE mine == edgePass[g].spec.domains
             to   == IF mine = {} THEN "list" ELSE "certificates"
             next == [edgePass[g] EXCEPT !.pc = to, !.todo = mine]
             past == [edgePass[g] EXCEPT !.pc = "list"]
  <2>1. edgePass[g].pc = "listeners" /\ UNCHANGED <<edgeGw, httproute, replicas, edgeUp>>
    BY <1>3 DEF ApplyListeners
  <2>2. CASE EdgeFails(g)
    BY <1>0, <2>2, FailedInStep DEF EdgeFails, EdgeEnds
  <2>3. ASSUME NEW q, edgePass' = [edgePass EXCEPT ![g] = q], UNCHANGED edgeDirty,
               q.pc \in {"list", "certificates"}, q.spec = edgePass[g].spec,
               edgeUp => listeners' = BuildEdgeListenerApply(g, mine)
        PROVE  InStep(g)'
    <3>1. edgePass'[g].pc \in {"list", "certificates"} /\ edgePass'[g].spec = edgePass[g].spec
      BY <1>0, <2>3
    <3>2. edgeUp => \A d \in Domains : g \in listeners'[d] <=> d \in mine
      BY <1>0, <2>3 DEF BuildEdgeListenerApply
    <3>3. Listening(g, edgePass[g].spec)'
      BY <2>1, <3>1, <3>2 DEF Listening
    <3>4. Rolled(g, edgePass[g].spec) => Rolled(g, edgePass[g].spec)'
      BY <2>1, <3>1 DEF Rolled
    <3> QED BY <2>1, <2>3, <3>1, <3>3, <3>4 DEF InStep
  <2>4. /\ next.pc \in {"list", "certificates"} /\ next.spec = edgePass[g].spec
        /\ past.pc = "list" /\ past.spec = edgePass[g].spec
    BY ONLY <1>a DEF EdgePassType
  <2>5. \/ /\ edgePass' = [edgePass EXCEPT ![g] = next] /\ UNCHANGED edgeDirty
           /\ listeners' = BuildEdgeListenerApply(g, mine)
        \/ edgePass' = [edgePass EXCEPT ![g] = past] /\ UNCHANGED edgeDirty /\ ~ edgeUp
        \/ EdgeFails(g)
    BY <1>0, <1>3 DEF ApplyListeners, EdgeMoves
  <2> HIDE DEF next, past, mine
  <2> QED BY <2>2, <2>3, <2>4, <2>5
<1>4. CASE ApplyCertificate(g)
  <2>1. /\ edgePass[g].pc = "certificates"
        /\ UNCHANGED <<edgeGw, listeners, httproute, replicas, edgeUp>>
    BY <1>4 DEF ApplyCertificate
  <2>2. CASE Issuer /\ ~ edgeUp
    BY <1>0, <1>4, <2>2, FailedInStep DEF ApplyCertificate, EdgeFails, EdgeEnds
  <2>3. CASE ~ (Issuer /\ ~ edgeUp)
    <3>1. PICK d \in edgePass[g].todo :
             /\ edgePass' = [edgePass EXCEPT ![g].todo = @ \ {d},
                                             ![g].pc = IF edgePass[g].todo = {d} THEN "list" ELSE @]
             /\ UNCHANGED edgeDirty
      BY <1>4, <2>3 DEF ApplyCertificate
    <3> DEFINE rest == edgePass[g].todo \ {d}
               to   == IF edgePass[g].todo = {d} THEN "list" ELSE edgePass[g].pc
               next == [edgePass[g] EXCEPT !.pc = to, !.todo = rest]
    <3>2. edgePass'[g] = next
      BY <1>0, <3>1
    <3>3. next.pc = to /\ next.spec = edgePass[g].spec
      BY ONLY <1>a DEF EdgePassType
    <3> HIDE DEF next
    <3>4. next.pc \in {"list", "certificates"}
      BY <2>1, <3>3
    <3> QED BY <1>0, <2>1, <3>1, <3>2, <3>3, <3>4, MovesInStep
  <2> QED BY <2>2, <2>3
<1>5. CASE ListCertificates(g)
  <2> DEFINE wanted == IF Issuer /\ ~ edgePass[g].leaving THEN edgePass[g].spec.domains ELSE {}
             doomed == {d \in Domains : certs[d] = g /\ d \notin wanted}
             to     == IF doomed = {} THEN Collected(g) ELSE "collect"
             next   == [edgePass[g] EXCEPT !.pc = to, !.todo = doomed]
             past   == [edgePass[g] EXCEPT !.pc = Collected(g)]
  <2>1. /\ edgePass[g].pc = "list"
        /\ UNCHANGED <<edgeGw, edgeDirty, listeners, httproute, replicas, edgeUp>>
    BY <1>5 DEF ListCertificates
  <2>2. edgePass'[g] = next \/ edgePass'[g] = past
    BY <1>0, <1>5 DEF ListCertificates, EdgeMoves
  <2>3. edgeGw[g].phase = "live" => Collected(g) = "scale"
    BY <1>0 DEF Collected, PassFits
  <2>4. /\ next.pc = to /\ next.spec = edgePass[g].spec
        /\ past.pc = Collected(g) /\ past.spec = edgePass[g].spec
    BY ONLY <1>a DEF EdgePassType
  <2>5. to = "collect" \/ to = Collected(g)
    OBVIOUS
  <2> HIDE DEF next, past, to
  <2>6. /\ edgePass'[g].spec = edgePass[g].spec
        /\ edgeGw[g].phase = "live" => edgePass'[g].pc \in {"collect", "scale"}
    BY <2>2, <2>3, <2>4, <2>5
  <2> QED BY <1>0, <2>1, <2>6, MovesInStep
<1>6. CASE CollectCertificate(g)
  <2>1. /\ edgePass[g].pc = "collect"
        /\ UNCHANGED <<edgeGw, edgeDirty, listeners, httproute, replicas, edgeUp>>
    BY <1>6 DEF CollectCertificate
  <2>2. PICK d \in edgePass[g].todo :
           edgePass' = [edgePass EXCEPT ![g].todo = @ \ {d},
                               ![g].pc = IF edgePass[g].todo = {d} THEN Collected(g) ELSE @]
    BY <1>6 DEF CollectCertificate
  <2> DEFINE rest == edgePass[g].todo \ {d}
             to   == IF edgePass[g].todo = {d} THEN Collected(g) ELSE edgePass[g].pc
             next == [edgePass[g] EXCEPT !.pc = to, !.todo = rest]
  <2>3. edgePass'[g] = next
    BY <1>0, <2>2
  <2>4. next.pc = to /\ next.spec = edgePass[g].spec
    BY ONLY <1>a DEF EdgePassType
  <2>5. edgeGw[g].phase = "live" => Collected(g) = "scale"
    BY <1>0 DEF Collected, PassFits
  <2>6. to = "collect" \/ to = Collected(g)
    BY <2>1
  <2> HIDE DEF next, to
  <2>7. /\ edgePass'[g].spec = edgePass[g].spec
        /\ edgeGw[g].phase = "live" => edgePass'[g].pc \in {"collect", "scale"}
    BY <2>3, <2>4, <2>5, <2>6
  <2> QED BY <1>0, <2>1, <2>7, MovesInStep
<1>7. CASE ScaleAndReport(g)
  <2>1. /\ edgePass'[g] = EdgeIdle /\ edgePass[g].pc = "scale"
        /\ UNCHANGED <<edgeDirty, listeners, httproute, replicas, edgeUp>>
        /\ \/ pdbs' = IF WantsBudget(edgePass[g].spec) THEN pdbs \cup {g} ELSE pdbs \ {g}
           \/ ~ WantsBudget(edgePass[g].spec) /\ "error" \in EdgeEvents
    BY <1>0, <1>7 DEF ScaleAndReport, EdgeEnds, EdgeOccurs
  <2>2. \/ UNCHANGED edgeGw
        \/ edgeGw'[g] = [edgeGw[g] EXCEPT !.ready = JudgeReady(edgePass[g])]
    BY <1>0, <1>7 DEF ScaleAndReport, ReportReady
  <2>3. edgeGw'[g].spec = edgeGw[g].spec /\ edgeGw'[g].phase = edgeGw[g].phase
    BY <2>2, <1>a DEF EdgeGwType
  <2>4. \A s : /\ Rolled(g, s) => Rolled(g, s)'
               /\ Listening(g, s) => Listening(g, s)'
    BY <2>1 DEF Rolled, Listening
  <2>5. \A s : /\ WantsBudget(s) => g \in pdbs'
               /\ g \in pdbs' => WantsBudget(s) \/ "error" \in EdgeEvents
               => Budgeted(g, s)'
    BY DEF Budgeted, WantsBudget
  <2>6. /\ WantsBudget(edgePass[g].spec) => g \in pdbs'
        /\ g \in pdbs' => WantsBudget(edgePass[g].spec) \/ "error" \in EdgeEvents
    BY <2>1 DEF WantsBudget
  <2>7. edgePass'[g].pc = "idle"
    BY <2>1, EdgeIdleType
  <2> QED BY <2>1, <2>3, <2>4, <2>5, <2>6, <2>7 DEF InStep
<1>8. CASE RelinquishListeners(g)
  <2>1. edgePass[g].pc = "relinquish" /\ UNCHANGED edgeGw
    BY <1>8 DEF RelinquishListeners
  <2>2. edgeGw[g].phase # "live"
    BY <1>0, <2>1 DEF PassFits
  <2> QED BY <2>1, <2>2 DEF InStep
<1>9. CASE ReleaseGateway(g)
  <2>1. edgeGw'[g] = [edgeGw[g] EXCEPT !.phase = "gone", !.ready = FALSE]
    BY <1>0, <1>9 DEF ReleaseGateway
  <2>2. edgeGw'[g].phase = "gone"
    BY <1>a, <2>1 DEF EdgeGwType
  <2> QED BY <2>2 DEF InStep
<1>10. CASE EdgePassErrs(g)
  BY <1>0, <1>10, FailedInStep DEF EdgePassErrs, EdgeFails, EdgeEnds
<1> QED BY <1>1, <1>2, <1>3, <1>4, <1>5, <1>6, <1>7, <1>8, <1>9, <1>10 DEF EdgeWork

\* A step of one gateway's pass keeps every other in step.
LEMMA EdgeWorkOthersInStep ==
    ASSUME EdgeTypeOK, NEW g \in Gateways, EdgeWork(g) \/ EdgePassErrs(g),
           NEW h \in Gateways, h # g, InStep(h)
    PROVE  InStep(h)'
<1> USE DEF EdgeTypeOK
<1>1. edgePass'[h] = edgePass[h] /\ edgeGw'[h] = edgeGw[h]
  BY DEF EdgeWork, EdgePassErrs, BeginEdgePass, ApplyWorkload, ApplyListeners,
         ApplyCertificate, ListCertificates, CollectCertificate, ScaleAndReport,
         RelinquishListeners, ReleaseGateway, ReportReady, EdgeMoves, EdgeEnds, EdgeFails
<1>2. h \in edgeDirty => h \in edgeDirty'
  BY DEF EdgeWork, EdgePassErrs, BeginEdgePass, ApplyWorkload, ApplyListeners,
         ApplyCertificate, ListCertificates, CollectCertificate, ScaleAndReport,
         RelinquishListeners, ReleaseGateway, EdgeFails
<1>3. httproute'[h] = httproute[h] /\ replicas'[h] = replicas[h] /\ (h \in pdbs' <=> h \in pdbs)
  BY DEF EdgeWork, EdgePassErrs, BeginEdgePass, ApplyWorkload, ApplyListeners,
         ApplyCertificate, ListCertificates, CollectCertificate, ScaleAndReport,
         RelinquishListeners, ReleaseGateway
<1>4. edgeUp' = edgeUp /\ \A d \in Domains : h \in listeners'[d] <=> h \in listeners[d]
  BY DEF EdgeWork, EdgePassErrs, BeginEdgePass, ApplyWorkload, ApplyListeners,
         ApplyCertificate, ListCertificates, CollectCertificate, ScaleAndReport,
         RelinquishListeners, ReleaseGateway, BuildEdgeListenerApply
<1> QED BY <1>1, <1>2, <1>3, <1>4, StaysInStep

\* Whatever users and the cluster change, a pass is scheduled for it.
LEMMA EdgeAroundInStep ==
    ASSUME EdgeInv, NEW h \in Gateways, InStep(h),
           \/ \E g \in Gateways : HpaScales(g) \/ PodsFollow(g)
           \/ EdgeUsers \/ EdgeCrash \/ EdgeResync
    PROVE  InStep(h)'
<1> USE DEF EdgeTypeOK
<1>0. EdgeTypeOK /\ edgeGw[h] \in EdgeGwType
  BY DEF EdgeInv
<1>1. ASSUME NEW g \in Gateways, HpaScales(g) \/ PodsFollow(g) PROVE InStep(h)'
  <2>1. /\ UNCHANGED <<edgeGw, edgePass, listeners, httproute, pdbs, edgeUp>>
        /\ edgeDirty' = edgeDirty \cup {g}
        /\ h # g => replicas'[h] = replicas[h]
    BY <1>0, <1>1 DEF HpaScales, PodsFollow
  <2> QED BY <2>1, StaysInStep
<1>2. ASSUME NEW g \in Gateways, NEW s \in EdgeSpecs, EditGateway(g, s) PROVE InStep(h)'
  <2>1. /\ UNCHANGED <<edgePass, listeners, httproute, replicas, pdbs, edgeUp>>
        /\ edgeDirty' = edgeDirty \cup {g}
    BY <1>2 DEF EditGateway
  <2>2. CASE h # g
    <3>1. edgeGw'[h] = edgeGw[h]
      BY <1>0, <1>2, <2>2 DEF EditGateway
    <3> QED BY <2>1, <3>1, StaysInStep
  <2>3. CASE h = g
    <3>1. edgeGw'[h].phase = edgeGw[h].phase
      <4>1. edgeGw'[h] = [edgeGw[h] EXCEPT !.spec = s]
        BY <1>0, <1>2, <2>3 DEF EditGateway
      <4> QED BY ONLY <1>0, <4>1 DEF EdgeGwType
    <3>2. h \in edgeDirty'
      BY <2>1, <2>3
    <3>3. edgeGw[h].phase = "live" /\ edgePass[h].pc \in {"certificates", "list", "collect", "scale"}
             => Listening(h, edgePass[h].spec)
      BY DEF InStep
    <3>4. Listening(h, edgePass[h].spec) => Listening(h, edgePass[h].spec)'
      BY <2>1 DEF Listening
    <3> QED BY <2>1, <3>1, <3>2, <3>3, <3>4 DEF InStep
  <2> QED BY <2>2, <2>3
<1>3. ASSUME NEW g \in Gateways, DeleteGateway(g) PROVE InStep(h)'
  <2>1. /\ UNCHANGED <<edgePass, listeners, httproute, replicas, pdbs, edgeUp>>
        /\ edgeDirty' = edgeDirty \cup {g}
    BY <1>3 DEF DeleteGateway
  <2>2. CASE h # g
    <3>1. edgeGw'[h] = edgeGw[h]
      BY <1>0, <1>3, <2>2 DEF DeleteGateway
    <3> QED BY <2>1, <3>1, StaysInStep
  <2>3. CASE h = g
    <3>1. edgeGw'[h] = [edgeGw[h] EXCEPT !.phase = "deleting"]
      BY <1>0, <1>3, <2>3 DEF DeleteGateway
    <3>2. edgeGw'[h].phase = "deleting"
      BY ONLY <1>0, <3>1 DEF EdgeGwType
    <3> QED BY <3>2 DEF InStep
  <2> QED BY <2>2, <2>3
<1>4. CASE EdgeGoes
  <2>1. UNCHANGED <<edgeGw, edgeDirty, edgePass, httproute, replicas, pdbs>> /\ edgeUp' = FALSE
    BY <1>4 DEF EdgeGoes
  <2> QED BY <2>1, StaysInStep
<1>5. CASE EdgeCrash
  <2>1. edgePass'[h] = EdgeIdle /\ UNCHANGED edgeGw
        /\ edgeDirty' = {g \in Gateways : edgeGw[g].phase \in {"new", "live", "deleting"}}
    BY <1>5 DEF EdgeCrash
  <2>2. CASE edgeGw[h].phase = "live"
    BY <2>1, <2>2, FailedInStep
  <2>3. CASE edgeGw[h].phase # "live"
    BY <2>1, <2>3 DEF InStep
  <2> QED BY <2>2, <2>3
<1>6. CASE EdgeResync
  <2>1. /\ UNCHANGED <<edgeGw, edgePass, listeners, httproute, replicas, pdbs, edgeUp>>
        /\ edgeDirty \subseteq edgeDirty'
    BY <1>6 DEF EdgeResync
  <2> QED BY <2>1, StaysInStep
<1> QED BY <1>1, <1>2, <1>3, <1>4, <1>5, <1>6 DEF EdgeUsers

\* "Without a matching listener they would never bind at the edge": a living gateway that the
\* controller is done with carries its host names, its listeners and no other, its replica
\* count and the budget it wants, for any number of gateways that share the edge and after any
\* order of edits, failed requests, crashes and autoscaler moves; no change waits for a resync,
\* but for a budget whose deletion failed, which the pass does not notice.
THEOREM EdgeSettledAtRest == EdgeSpec => []InPlaceAtRest
<1> DEFINE StepInv == \A g \in Gateways : InStep(g)
<1>1. EdgeInit => StepInv
  BY DEF EdgeInit, InStep
<1>2. EdgeInv /\ StepInv /\ [EdgeNext]_edgeVars => StepInv'
  <2> SUFFICES ASSUME EdgeInv, StepInv, [EdgeNext]_edgeVars, NEW h \in Gateways PROVE InStep(h)'
    OBVIOUS
  <2>1. CASE UNCHANGED edgeVars
    <3>1. UNCHANGED <<edgeGw, edgeDirty, edgePass, listeners, httproute, replicas, pdbs, edgeUp>>
      BY <2>1 DEF edgeVars
    <3> QED BY <3>1, StaysInStep
  <2>2. ASSUME NEW g \in Gateways, EdgeWork(g) \/ EdgePassErrs(g) PROVE InStep(h)'
    BY <2>2, EdgeWorkInStep, EdgeWorkOthersInStep DEF EdgeInv
  <2> QED BY <2>1, <2>2, EdgeAroundInStep DEF EdgeNext
<1>3. StepInv => InPlaceAtRest
  BY DEF InStep, InPlaceAtRest
<1> QED BY <1>1, <1>2, <1>3, EdgeInvHolds, PTL DEF EdgeSpec

=============================================================================
