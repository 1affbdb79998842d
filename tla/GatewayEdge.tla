---------------------------- MODULE GatewayEdge ----------------------------
(***************************************************************************)
(* The part of a gateway's pass that reaches beyond its pods: the shared   *)
(* edge Gateway, its certificates, the HTTPRoute, the replica count, the   *)
(* autoscaler and the disruption budget.                                   *)
(*                                                                         *)
(* reconcile_edge_domains and cleanup_edge_domains of                      *)
(* controllers/gateway.rs, the steps of reconcile_inner around them, and   *)
(* templates/{edge,httproute,hpa,pdb,deployment}.rs.  The gateways share   *)
(* one Gateway object, whose listeners each writes under a field manager   *)
(* of its own, and one Certificate per domain, which all of them write     *)
(* under the same one and tell apart by an owner label.                    *)
(***************************************************************************)
EXTENDS Naturals, FiniteSets

CONSTANTS
    Gateways, Domains,
    EdgeSpecs,       \* the specs users submit
    Issuer,          \* the operator has an --edge-cluster-issuer
    EdgeEvents,      \* which of EdgeEventKinds may happen
    MaxEdgeEvents,
    Nobody

EdgeEventKinds == {"edit", "delete", "error", "edge", "crash"}

MaxReplicas == 3

\* spec.cloud is set, its custom domains; spec.replicas; the autoscaler's bounds, 0 when it is
\* off or leaves them out; whether an inline cluster block coordinates replicas; the budget.
EdgeSpecType ==
    [cloud : BOOLEAN, domains : SUBSET Domains, replicas : 1 .. MaxReplicas, auto : BOOLEAN,
     min : 0 .. MaxReplicas, max : 0 .. MaxReplicas, coordinated : BOOLEAN,
     budget : {"unset", "on", "off"}]

ASSUME EdgeAssumption ==
    /\ EdgeSpecs \subseteq EdgeSpecType /\ EdgeSpecs # {}
    /\ Issuer \in BOOLEAN
    /\ EdgeEvents \subseteq EdgeEventKinds
    /\ MaxEdgeEvents \in Nat
    /\ Nobody \notin Gateways

VARIABLES
    edgeGw,      \* each MCPGGateway: phase, spec, condition Ready
    edgeDirty,   \* gateways with a scheduled pass
    edgePass,
    listeners,   \* the field managers of each domain's listener
    certs,       \* the owner label of each domain's Certificate, Nobody when there is none
    httproute,   \* the host names of each gateway's HTTPRoute, {} when there is none
    replicas,    \* each Deployment: how many, who pinned that, how many are available
    hpas,        \* each autoscaler's bounds, <<0, 0>> when there is none
    pdbs,        \* the gateways that have a disruption budget
    edgeUp,      \* the edge Gateway and its namespace exist
    happened,
    forgotten    \* history: gateways that dropped spec.cloud, or whose cleanup a request failed

edgeVars == <<edgeGw, edgeDirty, edgePass, listeners, certs, httproute, replicas, hpas, pdbs,
              edgeUp, happened, forgotten>>

-----------------------------------------------------------------------------
(* Types *)

EdgeSteps ==
    {"idle", "deployment", "listeners", "certificates", "list", "collect", "scale",
     "relinquish", "release"}

AnySpec  == CHOOSE s \in EdgeSpecs : TRUE
EdgeIdle == [pc |-> "idle", spec |-> AnySpec, todo |-> {}, available |-> 0, leaving |-> FALSE]

EdgeGwType   == [phase : {"new", "live", "deleting", "gone"}, spec : EdgeSpecs, ready : BOOLEAN]
EdgePassType == [pc : EdgeSteps, spec : EdgeSpecs, todo : SUBSET Domains,
                 available : 0 .. MaxReplicas, leaving : BOOLEAN]
ReplicasType == [count : 0 .. MaxReplicas, by : {"nobody", "operator", "hpa"},
                 available : 0 .. MaxReplicas]
HpaType      == (0 .. MaxReplicas) \X (0 .. MaxReplicas)

\* Every variable keeps its type.
EdgeTypeOK ==
    /\ edgeGw \in [Gateways -> EdgeGwType]
    /\ edgeDirty \subseteq Gateways
    /\ edgePass \in [Gateways -> EdgePassType]
    /\ listeners \in [Domains -> SUBSET Gateways]
    /\ certs \in [Domains -> Gateways \cup {Nobody}]
    /\ httproute \in [Gateways -> SUBSET (Domains \cup {"platform"})]
    /\ replicas \in [Gateways -> ReplicasType]
    /\ hpas \in [Gateways -> HpaType]
    /\ pdbs \subseteq Gateways
    /\ edgeUp \in BOOLEAN
    /\ happened \in 0 .. MaxEdgeEvents
    /\ forgotten \subseteq Gateways

\* New gateways, in a cluster with or without the edge chart.  A gateway of the same name,
\* deleted without its children, may have left a budget behind.
EdgeInit ==
    /\ edgeGw \in [Gateways -> [phase : {"new"}, spec : EdgeSpecs, ready : {FALSE}]]
    /\ edgeDirty = Gateways
    /\ edgePass = [g \in Gateways |-> EdgeIdle]
    /\ listeners = [d \in Domains |-> {}]
    /\ certs = [d \in Domains |-> Nobody]
    /\ httproute = [g \in Gateways |-> {}]
    /\ replicas = [g \in Gateways |-> [count |-> 0, by |-> "nobody", available |-> 0]]
    /\ hpas = [g \in Gateways |-> <<0, 0>>]
    /\ pdbs \in SUBSET Gateways
    /\ edgeUp \in BOOLEAN
    /\ happened = 0
    /\ forgotten = {}

EdgeOccurs(kind) ==
    /\ kind \in EdgeEvents
    /\ happened < MaxEdgeEvents
    /\ happened' = happened + 1

-----------------------------------------------------------------------------
(* What is rendered *)

Larger(a, b) == IF a > b THEN a ELSE b

\* A managed-cloud gateway whose configuration carries no coordinator runs one replica.
SingleReplicaCloud(s) == s.cloud /\ ~ s.coordinated
EffectiveReplicas(s)  == IF SingleReplicaCloud(s) THEN 1 ELSE s.replicas
Autoscaled(s)         == s.auto /\ ~ SingleReplicaCloud(s)

\* The bounds of build_hpa; an unbounded spec gets its static count or the minimum.
BuildHpa(s) ==
    LET min == Larger(s.min, 1)
        max == Larger(IF s.max = 0 THEN Larger(s.replicas, min) ELSE s.max, min)
    IN  <<min, max>>

\* effective_replica_ceiling of the API crate.
ReplicaCeiling(s) == IF s.auto THEN (IF s.max = 0 THEN s.replicas ELSE s.max) ELSE s.replicas

\* build_pdb: a budget on request, or by default above one replica.
WantsBudget(s) == s.budget = "on" \/ (s.budget = "unset" /\ ReplicaCeiling(s) > 1)

\* build_httproute: the platform's host name and every custom domain.
BuildHttpRoute(s) == {"platform"} \cup s.domains

\* Mutant of BuildReplicas: the omitted field is stored as unset.
BuildReplicasAsRendered(g, s) ==
    IF Autoscaled(s) THEN [replicas[g] EXCEPT !.count = 1, !.by = "unset"]
    ELSE [replicas[g] EXCEPT !.count = EffectiveReplicas(s), !.by = "operator"]

\* build_deployment leaves replicas out when autoscaled: a count that the operator itself had
\* pinned then falls back to the apiserver's default of one.
BuildReplicas(g, s) ==
    CASE ~ Autoscaled(s) -> [replicas[g] EXCEPT !.count = EffectiveReplicas(s), !.by = "operator"]
      [] Autoscaled(s) /\ replicas[g].by = "hpa" -> replicas[g]
      [] OTHER -> [replicas[g] EXCEPT !.count = 1, !.by = "nobody"]

-----------------------------------------------------------------------------
(* The pass *)

EdgeMoves(g, pc) == edgePass' = [edgePass EXCEPT ![g].pc = pc]
EdgeEnds(g)      == edgePass' = [edgePass EXCEPT ![g] = EdgeIdle]

\* error_policy: the pass is scheduled again.
EdgeFails(g) ==
    /\ EdgeEnds(g)
    /\ edgeDirty' = edgeDirty \cup {g}

\* The deletion branch, or ensure_finalizer; then the resolution of references and the
\* ConfigMap, Service and ServiceAccount, which are in the other modules.
BeginEdgePass(g) ==
    /\ g \in edgeDirty /\ edgePass[g].pc = "idle"
    /\ edgeGw[g].phase \in {"new", "live", "deleting"}
    /\ edgeDirty' = edgeDirty \ {g}
    /\ LET s == edgeGw[g].spec
           leaves == edgeGw[g].phase = "deleting"
       IN  edgePass' = [edgePass EXCEPT ![g] =
               [EdgeIdle EXCEPT !.spec = s, !.leaving = leaves,
                    !.pc = CASE leaves /\ s.cloud -> "relinquish"
                             [] leaves /\ ~ s.cloud -> "release"
                             [] OTHER -> "deployment"]]
    /\ edgeGw' = [edgeGw EXCEPT ![g].phase = IF @ = "new" THEN "live" ELSE @]
    /\ UNCHANGED <<listeners, certs, httproute, replicas, hpas, pdbs, edgeUp, happened, forgotten>>

\* The Deployment, whose answer carries its status as it is before anything rolls out, and
\* the HTTPRoute.  Without spec.cloud neither that nor anything up to the autoscaler is
\* touched: an HTTPRoute of an earlier spec stays.  The Deployment is watched, and a change
\* asks for another pass.
ApplyWorkload(g) ==
    /\ edgePass[g].pc = "deployment"
    /\ LET s == edgePass[g].spec
       IN  /\ replicas' = [replicas EXCEPT ![g] = BuildReplicas(g, s)]
           /\ httproute' = IF s.cloud THEN [httproute EXCEPT ![g] = BuildHttpRoute(s)] ELSE httproute
           /\ edgePass' = [edgePass EXCEPT ![g].pc = IF s.cloud THEN "listeners" ELSE "scale",
                                           ![g].available = replicas[g].available]
    /\ edgeDirty' = IF replicas' = replicas THEN edgeDirty ELSE edgeDirty \cup {g}
    /\ UNCHANGED <<edgeGw, listeners, certs, hpas, pdbs, edgeUp, happened, forgotten>>

\* build_edge_listener_apply under a field manager of the gateway's own: it takes the
\* listeners of the domains and lets go of every other.
BuildEdgeListenerApply(g, domains) ==
    [d \in Domains |-> IF d \in domains THEN listeners[d] \cup {g} ELSE listeners[d] \ {g}]

\* build_certificate carries the gateway's label.
BuildCertificate(g, d) == [certs EXCEPT ![d] = g]

\* Mutant of ApplyListeners: nothing is applied when no domain is left.
ApplyListenersIfAny(g) ==
    /\ edgePass[g].pc = "listeners"
    /\ LET mine == edgePass[g].spec.domains
       IN  IF edgeUp
           THEN /\ listeners' = IF mine = {} THEN listeners
                                ELSE BuildEdgeListenerApply(g, mine)
                /\ edgePass' = [edgePass EXCEPT ![g].todo = mine,
                                                ![g].pc = IF mine = {} THEN "list" ELSE "certificates"]
                /\ UNCHANGED edgeDirty
           ELSE EdgeFails(g) /\ UNCHANGED listeners
    /\ UNCHANGED <<edgeGw, certs, httproute, replicas, hpas, pdbs, edgeUp, happened, forgotten>>

\* The server-side apply of the listeners.  Without an edge Gateway the empty set is skipped,
\* and any other ends the pass before the autoscaler, the budget and the status.
ApplyListeners(g) ==
    /\ edgePass[g].pc = "listeners"
    /\ LET mine == edgePass[g].spec.domains
       IN  IF edgeUp
           THEN /\ listeners' = BuildEdgeListenerApply(g, mine)
                /\ edgePass' = [edgePass EXCEPT ![g].todo = mine,
                                                ![g].pc = IF mine = {} THEN "list" ELSE "certificates"]
                /\ UNCHANGED edgeDirty
           ELSE /\ IF mine = {}
                   THEN EdgeMoves(g, "list") /\ UNCHANGED edgeDirty
                   ELSE EdgeFails(g)
                /\ UNCHANGED listeners
    /\ UNCHANGED <<edgeGw, certs, httproute, replicas, hpas, pdbs, edgeUp, happened, forgotten>>

\* One Certificate per domain: whoever applied last has the label.
ApplyCertificate(g) ==
    /\ edgePass[g].pc = "certificates"
    /\ IF Issuer /\ ~ edgeUp
       THEN EdgeFails(g) /\ UNCHANGED certs
       ELSE \E d \in edgePass[g].todo :
                /\ certs' = IF Issuer THEN BuildCertificate(g, d) ELSE certs
                /\ edgePass' = [edgePass EXCEPT ![g].todo = @ \ {d},
                                                ![g].pc = IF edgePass[g].todo = {d} THEN "list" ELSE @]
                /\ UNCHANGED edgeDirty
    /\ UNCHANGED <<edgeGw, listeners, httproute, replicas, hpas, pdbs, edgeUp, happened, forgotten>>

Collected(g) == IF edgePass[g].leaving THEN "release" ELSE "scale"

\* Mutant of ListCertificates: the cleanup keeps the domains of the spec too.
ListUnwantedCertificates(g) ==
    /\ edgePass[g].pc = "list"
    /\ LET wanted == IF Issuer THEN edgePass[g].spec.domains ELSE {}
           doomed == {d \in Domains : certs[d] = g /\ d \notin wanted}
       IN  edgePass' = [edgePass EXCEPT ![g].pc = IF doomed = {} THEN Collected(g) ELSE "collect",
                                        ![g].todo = doomed]
    /\ UNCHANGED <<edgeGw, edgeDirty, listeners, certs, httproute, replicas, hpas, pdbs, edgeUp,
                   happened, forgotten>>

\* The certificates that carry this gateway's label and are not wanted (any more).  A failed
\* list is dropped.
ListCertificates(g) ==
    /\ edgePass[g].pc = "list"
    /\ LET wanted == IF Issuer /\ ~ edgePass[g].leaving THEN edgePass[g].spec.domains ELSE {}
           doomed == {d \in Domains : certs[d] = g /\ d \notin wanted}
       IN  \/ /\ edgePass' = [edgePass EXCEPT ![g].pc = IF doomed = {} THEN Collected(g) ELSE "collect",
                                              ![g].todo = doomed]
              /\ UNCHANGED <<happened, forgotten>>
           \/ /\ EdgeOccurs("error")
              /\ EdgeMoves(g, Collected(g))
              /\ forgotten' = IF edgePass[g].leaving THEN forgotten \cup {g} ELSE forgotten
    /\ UNCHANGED <<edgeGw, edgeDirty, listeners, certs, httproute, replicas, hpas, pdbs, edgeUp>>

\* One of them is deleted by name, whoever's label it carries by now; a failure is dropped.
CollectCertificate(g) ==
    /\ edgePass[g].pc = "collect"
    /\ \E d \in edgePass[g].todo :
           /\ edgePass' = [edgePass EXCEPT ![g].todo = @ \ {d},
                               ![g].pc = IF edgePass[g].todo = {d} THEN Collected(g) ELSE @]
           /\ \/ certs' = [certs EXCEPT ![d] = Nobody] /\ UNCHANGED <<happened, forgotten>>
              \/ /\ EdgeOccurs("error")
                 /\ forgotten' = IF edgePass[g].leaving THEN forgotten \cup {g} ELSE forgotten
                 /\ UNCHANGED certs
    /\ UNCHANGED <<edgeGw, edgeDirty, listeners, httproute, replicas, hpas, pdbs, edgeUp>>

\* Ready: as many are available as a gateway without autoscaler runs.
JudgeReady(pass) ==
    pass.available > 0 /\ pass.available = EffectiveReplicas(pass.spec)

ReportReady(g) == edgeGw' = [edgeGw EXCEPT ![g].ready = JudgeReady(edgePass[g])]

\* Mutant of ScaleAndReport: a budget that is not wanted any more stays.
ScaleAndReportAddingOnly(g) ==
    /\ edgePass[g].pc = "scale"
    /\ LET s == edgePass[g].spec
       IN  /\ hpas' = IF Autoscaled(s) THEN [hpas EXCEPT ![g] = BuildHpa(s)] ELSE hpas
           /\ pdbs' = IF WantsBudget(s) THEN pdbs \cup {g} ELSE pdbs
    /\ ReportReady(g)
    /\ EdgeEnds(g)
    /\ UNCHANGED <<edgeDirty, listeners, certs, httproute, replicas, edgeUp, happened, forgotten>>

\* The autoscaler is applied or left as it is, the budget applied or deleted, and the status
\* written.  A failed deletion or status write is not noticed: the pass has succeeded.
ScaleAndReport(g) ==
    /\ edgePass[g].pc = "scale"
    /\ LET s == edgePass[g].spec
       IN  /\ hpas' = IF Autoscaled(s) THEN [hpas EXCEPT ![g] = BuildHpa(s)] ELSE hpas
           /\ \/ /\ pdbs' = IF WantsBudget(s) THEN pdbs \cup {g} ELSE pdbs \ {g}
                 /\ \/ UNCHANGED happened /\ ReportReady(g)
                    \/ EdgeOccurs("error") /\ UNCHANGED edgeGw
              \/ /\ ~ WantsBudget(s) /\ EdgeOccurs("error")
                 /\ ReportReady(g)
                 /\ UNCHANGED pdbs
    /\ EdgeEnds(g)
    /\ UNCHANGED <<edgeDirty, listeners, certs, httproute, replicas, edgeUp, forgotten>>

\* Mutant of RelinquishListeners: the cleanup must succeed.
RelinquishListenersOrFail(g) ==
    /\ edgePass[g].pc = "relinquish"
    /\ IF edgeUp
       THEN /\ listeners' = BuildEdgeListenerApply(g, {})
            /\ EdgeMoves(g, "list")
            /\ UNCHANGED edgeDirty
       ELSE EdgeFails(g) /\ UNCHANGED listeners
    /\ UNCHANGED <<edgeGw, certs, httproute, replicas, hpas, pdbs, edgeUp, happened, forgotten>>

\* cleanup_edge_domains, best-effort: the empty apply, the list and the deletions.
RelinquishListeners(g) ==
    /\ edgePass[g].pc = "relinquish"
    /\ \/ /\ edgeUp
          /\ listeners' = BuildEdgeListenerApply(g, {})
          /\ UNCHANGED <<happened, forgotten>>
       \/ /\ ~ edgeUp
          /\ forgotten' = forgotten \cup {g}
          /\ UNCHANGED <<listeners, happened>>
       \/ /\ EdgeOccurs("error")
          /\ forgotten' = forgotten \cup {g}
          /\ UNCHANGED listeners
    /\ EdgeMoves(g, "list")
    /\ UNCHANGED <<edgeGw, edgeDirty, certs, httproute, replicas, hpas, pdbs, edgeUp>>

\* remove_finalizer; the owned children are collected.  Admission judges the patch: one it
\* refuses fails like any other request (EdgePassErrs), and a refusal that lasts, of a tenant
\* reference, is in TenantBoundary.
ReleaseGateway(g) ==
    /\ edgePass[g].pc = "release"
    /\ edgeGw' = [edgeGw EXCEPT ![g].phase = "gone", ![g].ready = FALSE]
    /\ httproute' = [httproute EXCEPT ![g] = {}]
    /\ replicas' = [replicas EXCEPT ![g] = [count |-> 0, by |-> "nobody", available |-> 0]]
    /\ hpas' = [hpas EXCEPT ![g] = <<0, 0>>]
    /\ pdbs' = pdbs \ {g}
    /\ EdgeEnds(g)
    /\ edgeDirty' = edgeDirty \ {g}
    /\ UNCHANGED <<listeners, certs, edgeUp, happened, forgotten>>

\* Any other apiserver error.
EdgePassErrs(g) ==
    /\ edgePass[g].pc \in {"deployment", "listeners", "certificates", "scale", "release"}
    /\ EdgeOccurs("error")
    /\ EdgeFails(g)
    /\ UNCHANGED <<edgeGw, listeners, certs, httproute, replicas, hpas, pdbs, edgeUp, forgotten>>

EdgeWork(g) ==
    \/ BeginEdgePass(g) \/ ApplyWorkload(g) \/ ApplyListeners(g)
    \/ ApplyCertificate(g) \/ ListCertificates(g) \/ CollectCertificate(g)
    \/ ScaleAndReport(g) \/ RelinquishListeners(g) \/ ReleaseGateway(g)

-----------------------------------------------------------------------------
(* The cluster around it *)

\* The autoscaler keeps the count within its bounds, and owns it then.
HpaScales(g) ==
    /\ hpas[g] # <<0, 0>>
    /\ replicas[g].count \notin hpas[g][1] .. hpas[g][2]
    /\ \E n \in hpas[g][1] .. hpas[g][2] :
           replicas' = [replicas EXCEPT ![g].count = n, ![g].by = "hpa"]
    /\ edgeDirty' = edgeDirty \cup {g}
    /\ UNCHANGED <<edgeGw, edgePass, listeners, certs, httproute, hpas, pdbs, edgeUp, happened, forgotten>>

\* The Deployment's pods come or go.
PodsFollow(g) ==
    /\ replicas[g].available # replicas[g].count
    /\ replicas' = [replicas EXCEPT ![g].available = replicas[g].count]
    /\ edgeDirty' = edgeDirty \cup {g}
    /\ UNCHANGED <<edgeGw, edgePass, listeners, certs, httproute, hpas, pdbs, edgeUp, happened, forgotten>>

EditGateway(g, s) ==
    /\ EdgeOccurs("edit")
    /\ edgeGw[g].phase = "live" /\ s # edgeGw[g].spec
    /\ edgeGw' = [edgeGw EXCEPT ![g].spec = s]
    /\ edgeDirty' = edgeDirty \cup {g}
    /\ forgotten' = IF edgeGw[g].spec.cloud /\ ~ s.cloud THEN forgotten \cup {g} ELSE forgotten
    /\ UNCHANGED <<edgePass, listeners, certs, httproute, replicas, hpas, pdbs, edgeUp>>

DeleteGateway(g) ==
    /\ EdgeOccurs("delete")
    /\ edgeGw[g].phase = "live"
    /\ edgeGw' = [edgeGw EXCEPT ![g].phase = "deleting"]
    /\ edgeDirty' = edgeDirty \cup {g}
    /\ UNCHANGED <<edgePass, listeners, certs, httproute, replicas, hpas, pdbs, edgeUp, forgotten>>

\* The edge namespace is torn down, with all that is in it.
EdgeGoes ==
    /\ EdgeOccurs("edge")
    /\ edgeUp
    /\ edgeUp' = FALSE
    /\ listeners' = [d \in Domains |-> {}]
    /\ certs' = [d \in Domains |-> Nobody]
    /\ UNCHANGED <<edgeGw, edgeDirty, edgePass, httproute, replicas, hpas, pdbs, forgotten>>

EdgeCrash ==
    /\ EdgeOccurs("crash")
    /\ edgePass' = [g \in Gateways |-> EdgeIdle]
    /\ edgeDirty' = {g \in Gateways : edgeGw[g].phase \in {"new", "live", "deleting"}}
    /\ UNCHANGED <<edgeGw, listeners, certs, httproute, replicas, hpas, pdbs, edgeUp, forgotten>>

\* The passes of a gateway with domains fail, one after the other, without an edge.
Unhindered(g) == edgeUp \/ ~ edgeGw[g].spec.cloud \/ edgeGw[g].spec.domains = {}

\* The gateways are looked at again minutes after their last pass; that finds nothing under
\* way but such retries.
EdgeResync ==
    /\ \A g \in Gateways : Unhindered(g) => g \notin edgeDirty /\ edgePass[g].pc = "idle"
    /\ edgeDirty' = edgeDirty \cup {g \in Gateways : edgeGw[g].phase = "live"}
    /\ UNCHANGED <<edgeGw, edgePass, listeners, certs, httproute, replicas, hpas, pdbs, edgeUp,
                   happened, forgotten>>

EdgeUsers ==
    \/ \E g \in Gateways : DeleteGateway(g) \/ \E s \in EdgeSpecs : EditGateway(g, s)
    \/ EdgeGoes

EdgeNext ==
    \/ \E g \in Gateways : EdgeWork(g) \/ EdgePassErrs(g) \/ HpaScales(g) \/ PodsFollow(g)
    \/ EdgeUsers \/ EdgeCrash \/ EdgeResync

EdgeSpec == EdgeInit /\ [][EdgeNext]_edgeVars

\* Scheduled passes run to their end, resyncs come due, Kubernetes does its part.
EdgeFairSpec ==
    /\ EdgeSpec
    /\ WF_edgeVars(EdgeResync)
    /\ \A g \in Gateways : /\ WF_edgeVars(EdgeWork(g))
                           /\ WF_edgeVars(HpaScales(g)) /\ WF_edgeVars(PodsFollow(g))

-----------------------------------------------------------------------------
(* Properties *)

Serves(g, d) == edgeGw[g].phase = "live" /\ edgeGw[g].spec.cloud /\ d \in edgeGw[g].spec.domains

\* "The route above carries the custom hostnames; without a matching listener they would
\* never bind at the edge": wherever a domain moves, and whoever collects its certificate on
\* the way, each domain ends up with the listener and the certificate of a gateway that serves
\* it, and no gateway holds on to a domain it gave up.
DomainsSettle ==
    \A d \in Domains, g \in Gateways :
        /\ <>[](edgeUp /\ Serves(g, d)) =>
               <>[](/\ g \in listeners[d] /\ d \in httproute[g]
                    /\ Issuer => \E h \in Gateways : certs[d] = h /\ Serves(h, d))
        /\ <>[](edgeUp /\ edgeGw[g].phase = "live" /\ edgeGw[g].spec.cloud /\ ~ Serves(g, d)) =>
               <>[](g \notin listeners[d] /\ certs[d] # g)

\* Edge wiring "isn't covered by owner-reference GC - relinquish it explicitly": nothing of a
\* gateway is left at the edge once it is gone, unless it had dropped spec.cloud before, or a
\* request of its cleanup failed.
NothingLeftAtEdge ==
    \A g \in Gateways : edgeGw[g].phase = "gone" /\ g \notin forgotten =>
        \A d \in Domains : g \notin listeners[d] /\ certs[d] # g

\* "A failed cleanup must NEVER wedge finalizer release": a gateway goes when it is deleted,
\* also after the edge has gone.
GatewayDeletionEnds ==
    \A g \in Gateways : edgeGw[g].phase = "deleting" ~> edgeGw[g].phase = "gone"

\* What the code and its comments agree on: a budget that is asked for, or that the replicas
\* of the Deployment call for, and none that is declined, or that one replica has no use for.
\* Of a gateway that declares several replicas and is held to one they say both.
BudgetAgreed(g) ==
    LET s == edgeGw[g].spec
    IN  /\ s.budget = "on" \/ (s.budget = "unset" /\ EffectiveReplicas(s) > 1) => g \in pdbs
        /\ s.budget = "off" \/ (s.budget = "unset" /\ ReplicaCeiling(s) <= 1) => g \notin pdbs

\* A gateway whose replica count nobody else scales becomes Ready with the replicas it may
\* run, and "a stale budget doesn't linger past a scale-down", although a failed deletion of
\* the budget ends the pass like a successful one.
FixedCountsSettle ==
    \A g \in Gateways :
        <>[](edgeGw[g].phase = "live" /\ Unhindered(g) /\ hpas[g] = <<0, 0>>
                /\ ~ Autoscaled(edgeGw[g].spec)) =>
            <>[](/\ edgeGw[g].ready
                 /\ replicas[g].available = EffectiveReplicas(edgeGw[g].spec)
                 /\ BudgetAgreed(g))

\* "The Deployment drops its static replicas so the HPA is the sole owner of the replica count
\* - otherwise the operator and the HPA fight every reconcile": the count comes to rest.
CountComesToRest ==
    \A g \in Gateways :
        <>[](edgeGw[g].phase = "live" /\ Unhindered(g)) =>
            \E n \in 0 .. MaxReplicas : <>[](replicas[g].count = n)
=============================================================================
