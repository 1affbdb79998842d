---------------------------- MODULE GatewayFanIn ----------------------------
(***************************************************************************)
(* What other objects contribute to a gateway's configuration.             *)
(*                                                                         *)
(*   MCPGRoute           tenant-scoped rules on who may call a tool;       *)
(*   MCPGServer          federations, pointing at a workload the server    *)
(*                       controller runs once its image is verified;       *)
(*   MCPGRevocationList  a list each gateway copies and mounts.            *)
(*                                                                         *)
(* The pass of controllers/gateway.rs over these three, and the passes of  *)
(* controllers/route.rs, server.rs and revocation_list.rs, for the         *)
(* gateways of one namespace and one tool.  The plugin set and the cluster *)
(* block of the same pass are in PluginPipeline and ClusterCoordination.   *)
(***************************************************************************)
EXTENDS Naturals, FiniteSets, FiniteSetsExt

CONSTANTS
    Gateways, Routes,
    Servers,        \* numbers, in the order the apiserver lists them
    Lists,          \* MCPGRevocationList names
    GatewaySpecs, RouteSpecs, ServerSpecs,
    Signed,         \* the images that carry the expected signature
    FanEvents,      \* which of FanEventKinds may happen
    MaxFanEvents,
    NoGateway

FanEventKinds == {"gateway", "route", "server", "list", "error", "list error", "crash"}

TenantNames == {"tenant A", "tenant B"}
Callers == TenantNames \cup {"ops", "anyone else"}

\* acceptedRouteNamespaces lists the namespace of the foreign routes; the inline rule on
\* the tool, if any; whether inline federations take the shared name; revocationListRef.
GatewaySpecType == [consents : BOOLEAN, inline : {"none", "bare", "ops"},
                    taken : BOOLEAN, list : Lists \cup {"default"}]

\* gatewayRef, which may name no gateway there is; whether the route is in another namespace; attributes.tenant.
RouteSpecType == [gateway : Gateways \cup {NoGateway}, foreign : BOOLEAN, tenant : TenantNames \cup {"unset"},
                  tidy : BOOLEAN]

\* federate.gatewayRef and name; the image, whether it is pinned by digest and to be
\* verified; whether the gateway would refuse federate.governance; whether image, port,
\* replicas, names and the shape of the federate blocks are acceptable.
ServerSpecType == [gateway : Gateways \cup {NoGateway}, name : {"own", "shared"},
                   image : STRING, pinned : BOOLEAN, verify : BOOLEAN, refused : BOOLEAN,
                   tidy : BOOLEAN]

ASSUME FanInAssumption ==
    /\ Servers \subseteq Nat
    /\ "default" \in Lists
    /\ GatewaySpecs \subseteq GatewaySpecType /\ GatewaySpecs # {}
    /\ RouteSpecs \subseteq RouteSpecType /\ RouteSpecs # {}
    /\ ServerSpecs # {} /\ \A s \in ServerSpecs : s.gateway \in Gateways \cup {NoGateway}
    /\ NoGateway \notin Gateways
    /\ FanEvents \subseteq FanEventKinds
    /\ MaxFanEvents \in Nat

VARIABLES
    gateway,      \* each MCPGGateway's spec; all of them exist
    route,        \* each MCPGRoute: phase, spec, condition GatewayBound
    server,       \* each MCPGServer: phase and spec
    list,         \* the version of each MCPGRevocationList, 0 when there is none
    dirty,        \* gateways, routes, servers and lists with a scheduled pass
    gwPass, rtPass, svPass,
    configMap,    \* what each gateway's ConfigMap says
    listMap,      \* the list in each gateway's own revocation ConfigMap
    nsList,       \* the ConfigMap the list controller writes into the namespace
    stamp,        \* the hashes on each Deployment's pod template
    pods,         \* the stamp each gateway's running pods were rolled for
    workload,     \* the image in each server's Deployment, if there is one
    fanEvents

fanVars == <<gateway, route, server, list, dirty, gwPass, rtPass, svPass, configMap, listMap,
             nsList, stamp, pods, workload, fanEvents>>

-----------------------------------------------------------------------------
(* Types *)

NoRule   == [kind |-> "none", who |-> {}]
NoConfig == [rule |-> NoRule, feds |-> {}]
NoStamp  == [config |-> NoConfig, list |-> 0]
NoWork   == "none"
GwIdle   == [pc |-> "idle", spec |-> CHOOSE s \in GatewaySpecs : TRUE, list |-> 0,
             mounts |-> TRUE, config |-> NoConfig]
RtIdle   == [pc |-> "idle", bound |-> FALSE]
SvIdle   == [pc |-> "idle", spec |-> CHOOSE s \in ServerSpecs : TRUE, verified |-> FALSE]

MaxVersion == 2
RuleType   == [kind : {"none", "bare", "cel"}, who : SUBSET Callers]
ConfigType == [rule : RuleType, feds : SUBSET Servers]
StampType  == [config : ConfigType, list : 0 .. MaxVersion]
Stages     == {"absent", "new", "live", "deleting"}
RouteType  == [phase : Stages, spec : RouteSpecs, bound : BOOLEAN]
ServerType == [phase : Stages, spec : ServerSpecs]
GwPassType == [pc : {"idle", "routes", "servers", "configmap", "deployment"}, spec : GatewaySpecs,
               list : 0 .. MaxVersion, mounts : BOOLEAN, config : ConfigType]
SvPassType == [pc : {"idle", "apply", "report"}, spec : ServerSpecs, verified : BOOLEAN]
WorkType   == {NoWork} \cup {s.image : s \in ServerSpecs}
FanObjects == ({"gw"} \X Gateways) \cup ({"rt"} \X Routes) \cup ({"sv"} \X Servers)
                \cup ({"ls"} \X Lists)

\* Every variable keeps its type.
FanTypeOK ==
    /\ gateway \in [Gateways -> GatewaySpecs]
    /\ route \in [Routes -> RouteType]
    /\ server \in [Servers -> ServerType]
    /\ list \in [Lists -> 0 .. MaxVersion]
    /\ dirty \subseteq FanObjects
    /\ gwPass \in [Gateways -> GwPassType]
    /\ rtPass \in [Routes -> [pc : {"idle", "report"}, bound : BOOLEAN]]
    /\ svPass \in [Servers -> SvPassType]
    /\ configMap \in [Gateways -> ConfigType]
    /\ listMap \in [Gateways -> 0 .. MaxVersion]
    /\ nsList \in [name : Lists, version : 0 .. MaxVersion]
    /\ stamp \in [Gateways -> StampType]
    /\ pods \in [Gateways -> StampType]
    /\ workload \in [Servers -> WorkType]
    /\ fanEvents \in 0 .. MaxFanEvents

\* validate_spec of the route webhook.
ValidateRoute(s) == s.tidy

\* What validate_spec of the server webhook asks of every write, whatever it replaces.
ServerTidy(s) == s.tidy /\ (s.verify => s.pinned)

Existing == {<<"gw", g>> : g \in Gateways}
              \cup {<<"rt", r>> : r \in {q \in Routes : route[q].phase # "absent"}}
              \cup {<<"sv", v>> : v \in {u \in Servers : server[u].phase # "absent"}}
              \cup {<<"ls", l>> : l \in {k \in Lists : list[k] # 0}}

\* The operator starts: gateways, routes and lists it has not seen yet, and servers, some of
\* them with a governance block that an earlier operator admitted and this one refuses.
FanInit ==
    /\ gateway \in [Gateways -> GatewaySpecs]
    /\ route \in [Routes -> [phase : {"absent", "live"}, spec : {s \in RouteSpecs : ValidateRoute(s)},
                             bound : {FALSE}]]
    /\ \A r \in Routes : route[r].phase = "absent" => route[r].spec = CHOOSE s \in RouteSpecs : ValidateRoute(s)
    /\ server \in [Servers -> [phase : {"absent", "live"}, spec : ServerSpecs]]
    /\ \A s \in Servers : IF server[s].phase = "live" THEN ServerTidy(server[s].spec)
                                                    ELSE server[s].spec = SvIdle.spec
    /\ list = [l \in Lists |-> IF l = "default" THEN 1 ELSE 0]
    /\ dirty = Existing
    /\ gwPass = [g \in Gateways |-> GwIdle]
    /\ rtPass = [r \in Routes |-> RtIdle]
    /\ svPass = [s \in Servers |-> SvIdle]
    /\ configMap = [g \in Gateways |-> NoConfig]
    /\ listMap = [g \in Gateways |-> 0]
    /\ nsList = [name |-> "default", version |-> 0]
    /\ stamp = [g \in Gateways |-> NoStamp]
    /\ pods = [g \in Gateways |-> NoStamp]
    /\ workload = [s \in Servers |-> NoWork]
    /\ fanEvents = 0

FanOccurs(kind) ==
    /\ kind \in FanEvents
    /\ fanEvents < MaxFanEvents
    /\ fanEvents' = fanEvents + 1

-----------------------------------------------------------------------------
(* What is rendered *)

InlineRule(s) == [kind |-> CASE s.inline = "none" -> "none"
                             [] s.inline = "bare" -> "bare"
                             [] s.inline = "ops"  -> "cel",
                  who  |-> IF s.inline = "ops" THEN {"ops"} ELSE {}]

\* A route counts for the gateway it names, from the gateway's own namespace or from one
\* that the gateway lists.  One that is being deleted still counts.
Accepted(g, s, r) ==
    /\ route[r].phase # "absent"
    /\ route[r].spec.gateway = g
    /\ route[r].spec.foreign => s.consents

\* Mutant of ApplyRoutes: every route that names the gateway is merged.
ApplyAnyRoutes(g, s) ==
    LET tenants == {route[r].spec.tenant : r \in {q \in Routes : route[q].phase # "absent"
                                                              /\ route[q].spec.gateway = g}}
        who == IF "unset" \in tenants THEN Callers ELSE tenants
    IN  IF tenants = {} THEN InlineRule(s)
        ELSE [kind |-> "cel", who |-> InlineRule(s).who \cup who]

\* apply_routes_to_config: the tenants of all accepted routes, or-ed onto the inline rule;
\* a route without a tenant opens the tool to everyone.
ApplyRoutes(g, s) ==
    LET tenants == {route[r].spec.tenant : r \in {q \in Routes : Accepted(g, s, q)}}
        who == IF "unset" \in tenants THEN Callers ELSE tenants
    IN  IF tenants = {} THEN InlineRule(s)
        ELSE [kind |-> "cel", who |-> InlineRule(s).who \cup who]

\* Mutant of ApplyServers: the stored block is trusted to have passed admission.
ApplyAdmittedServers(g, s) ==
    LET mine == {v \in Servers : server[v].phase # "absent" /\ server[v].spec.gateway = g}
        shared == {v \in mine : server[v].spec.name = "shared"}
    IN  (mine \ shared) \cup (IF s.taken \/ shared = {} THEN {} ELSE {Min(shared)})

\* apply_servers_to_config: a server whose block the gateway refuses is left out, an inline
\* federation wins its name, and so does the first server of several.
ApplyServers(g, s) ==
    LET mine == {v \in Servers : /\ server[v].phase # "absent"
                                 /\ server[v].spec.gateway = g
                                 /\ ~ server[v].spec.refused}
        shared == {v \in mine : server[v].spec.name = "shared"}
    IN  (mine \ shared) \cup (IF s.taken \/ shared = {} THEN {} ELSE {Min(shared)})

\* render_revocation_list_json and build_revocation_configmap: the content of a list, told
\* apart by its version.
BuildRevocationConfigMap(l) == list[l]

-----------------------------------------------------------------------------
(* The gateway controller *)

GatewayFrame == UNCHANGED <<gateway, route, server, list, rtPass, svPass, nsList, pods, workload>>

\* resolve_revocation_list: a named list that is missing is mounted from a ConfigMap without
\* a name, a missing default is not mounted.  The copy is applied here; when that fails the
\* pass goes on with the hash of the new content.
BeginGatewayPass(g) ==
    /\ <<"gw", g>> \in dirty /\ gwPass[g].pc = "idle"
    /\ dirty' = dirty \ {<<"gw", g>>}
    /\ LET wanted == gateway[g].list
           found  == BuildRevocationConfigMap(wanted)
       IN  /\ gwPass' = [gwPass EXCEPT ![g] =
                           [GwIdle EXCEPT !.pc = "routes", !.spec = gateway[g], !.list = found,
                                          !.mounts = found # 0 \/ wanted = "default"]]
           /\ \/ /\ listMap' = IF found = 0 THEN listMap ELSE [listMap EXCEPT ![g] = found]
                 /\ UNCHANGED fanEvents
              \/ /\ found # 0 /\ FanOccurs("list error")
                 /\ UNCHANGED listMap
    /\ GatewayFrame
    /\ UNCHANGED <<configMap, stamp>>

\* merge_routes; when the list fails, no route is merged.
MergeRoutes(g) ==
    /\ gwPass[g].pc = "routes"
    /\ \/ /\ gwPass' = [gwPass EXCEPT ![g].pc = "servers",
                                      ![g].config.rule = ApplyRoutes(g, gwPass[g].spec)]
          /\ UNCHANGED fanEvents
       \/ /\ FanOccurs("error")
          /\ gwPass' = [gwPass EXCEPT ![g].pc = "servers",
                                      ![g].config.rule = InlineRule(gwPass[g].spec)]
    /\ GatewayFrame
    /\ UNCHANGED <<dirty, listMap, configMap, stamp>>

\* merge_servers, likewise.
MergeServers(g) ==
    /\ gwPass[g].pc = "servers"
    /\ \/ /\ gwPass' = [gwPass EXCEPT ![g].pc = "configmap",
                                      ![g].config.feds = ApplyServers(g, gwPass[g].spec)]
          /\ UNCHANGED fanEvents
       \/ FanOccurs("error") /\ gwPass' = [gwPass EXCEPT ![g].pc = "configmap"]
    /\ GatewayFrame
    /\ UNCHANGED <<dirty, listMap, configMap, stamp>>

\* Mutant of ApplyConfigMap: a pass without routes and servers stores no rule at all.
ApplyConfigMapBlank(g) ==
    /\ gwPass[g].pc = "configmap"
    /\ configMap' = [configMap EXCEPT ![g] = IF gwPass[g].config.feds = {} THEN [rule |-> NoRule]
                                             ELSE gwPass[g].config]
    /\ dirty' = IF configMap' = configMap THEN dirty ELSE dirty \cup {<<"gw", g>>}
    /\ gwPass' = [gwPass EXCEPT ![g].pc = "deployment"]
    /\ GatewayFrame
    /\ UNCHANGED <<listMap, stamp, fanEvents>>

\* ConfigMap, Service and ServiceAccount.  The gateway owns them, so a change asks for
\* another pass.
ApplyConfigMap(g) ==
    /\ gwPass[g].pc = "configmap"
    /\ configMap' = [configMap EXCEPT ![g] = gwPass[g].config]
    /\ dirty' = IF configMap' = configMap THEN dirty ELSE dirty \cup {<<"gw", g>>}
    /\ gwPass' = [gwPass EXCEPT ![g].pc = "deployment"]
    /\ GatewayFrame
    /\ UNCHANGED <<listMap, stamp, fanEvents>>

\* Mutant of ApplyGatewayDeployment: the pod template is stamped with the configuration only.
ApplyGatewayDeploymentOneHash(g) ==
    /\ gwPass[g].pc = "deployment"
    /\ stamp' = [stamp EXCEPT ![g].config = gwPass[g].config]
    /\ dirty' = IF stamp' = stamp THEN dirty ELSE dirty \cup {<<"gw", g>>}
    /\ gwPass' = [gwPass EXCEPT ![g] = GwIdle]
    /\ GatewayFrame
    /\ UNCHANGED <<listMap, configMap, fanEvents>>

\* The Deployment carries both hashes.  The apiserver refuses a volume without a name, and
\* the pass ends through error_policy.
ApplyGatewayDeployment(g) ==
    /\ gwPass[g].pc = "deployment"
    /\ IF gwPass[g].mounts
       THEN /\ stamp' = [stamp EXCEPT ![g] = [config |-> gwPass[g].config, list |-> gwPass[g].list]]
            /\ dirty' = IF stamp' = stamp THEN dirty ELSE dirty \cup {<<"gw", g>>}
       ELSE /\ dirty' = dirty \cup {<<"gw", g>>}
            /\ UNCHANGED stamp
    /\ gwPass' = [gwPass EXCEPT ![g] = GwIdle]
    /\ GatewayFrame
    /\ UNCHANGED <<listMap, configMap, fanEvents>>

\* Another apiserver error ends the pass through error_policy.
GatewayPassFails(g) ==
    /\ gwPass[g].pc \in {"routes", "configmap", "deployment"}
    /\ FanOccurs("error")
    /\ gwPass' = [gwPass EXCEPT ![g] = GwIdle]
    /\ dirty' = dirty \cup {<<"gw", g>>}
    /\ GatewayFrame
    /\ UNCHANGED <<listMap, configMap, stamp>>

GatewayWork(g) == \/ BeginGatewayPass(g) \/ MergeRoutes(g) \/ MergeServers(g)
                  \/ ApplyConfigMap(g) \/ ApplyGatewayDeployment(g)

\* build_volumes: the revocation ConfigMap is a volume of the pods, which do not start before
\* it exists.
VolumesExist(g) == stamp[g].list # 0 => listMap[g] # 0

\* New pods replace the old ones when the template changes.  They read the ConfigMap through a
\* subPath mount that is never refreshed; what they found there is not recorded.
RollPods(g) ==
    /\ stamp[g] # pods[g]
    /\ VolumesExist(g)
    /\ pods' = [pods EXCEPT ![g] = stamp[g]]
    /\ dirty' = dirty \cup {<<"gw", g>>}
    /\ UNCHANGED <<gateway, route, server, list, gwPass, rtPass, svPass, configMap, listMap,
                   nsList, stamp, workload, fanEvents>>

-----------------------------------------------------------------------------
(* Routes *)

RouteFrame == UNCHANGED <<gateway, server, list, gwPass, svPass, configMap, listMap, nsList,
                          stamp, pods, workload>>

\* map_route_to_gateways looks at the route as it is now: the gateway it named before is
\* not told.
RouteWritten(s) == IF s.gateway = NoGateway THEN {} ELSE {<<"gw", s.gateway>>}

\* The deletion branch, or ensure_finalizer and the lookup of the gateway.
BeginRoute(r) ==
    /\ <<"rt", r>> \in dirty /\ rtPass[r].pc = "idle"
    /\ route[r].phase # "absent"
    /\ IF route[r].phase = "deleting"
       THEN /\ route' = [route EXCEPT ![r].phase = "absent", ![r].bound = FALSE]
            /\ dirty' = (dirty \ {<<"rt", r>>}) \cup RouteWritten(route[r].spec)
            /\ UNCHANGED rtPass
       ELSE /\ route' = [route EXCEPT ![r].phase = "live"]
            /\ dirty' = dirty \ {<<"rt", r>>}
            /\ rtPass' = [rtPass EXCEPT ![r] =
                            [pc |-> "report",
                             bound |-> \E g \in Gateways : Accepted(g, gateway[g], r)]]
    /\ RouteFrame
    /\ UNCHANGED fanEvents

\* The status, best-effort; it reaches the gateway controller like any other write.
ReportRoute(r) ==
    /\ rtPass[r].pc = "report"
    /\ rtPass' = [rtPass EXCEPT ![r] = RtIdle]
    /\ \/ /\ route[r].phase # "absent"
          /\ route' = [route EXCEPT ![r].bound = rtPass[r].bound]
          /\ dirty' = dirty \cup RouteWritten(route[r].spec)
          /\ UNCHANGED fanEvents
       \/ FanOccurs("error") /\ UNCHANGED <<route, dirty>>
    /\ RouteFrame

\* A failed finalizer patch or lookup ends the pass through error_policy.
RoutePassFails(r) ==
    /\ <<"rt", r>> \in dirty /\ rtPass[r].pc = "idle"
    /\ route[r].phase # "absent"
    /\ FanOccurs("error")
    /\ route' = [route EXCEPT ![r].phase = IF @ = "new" THEN "live" ELSE @]
    /\ RouteFrame
    /\ UNCHANGED <<rtPass, dirty>>

SubmitRoute(r, s) ==
    /\ FanOccurs("route")
    /\ ValidateRoute(s)
    /\ route[r].phase \in {"absent", "live"}
    /\ route' = [route EXCEPT ![r].spec = s, ![r].phase = IF @ = "absent" THEN "new" ELSE @]
    /\ dirty' = dirty \cup {<<"rt", r>>} \cup RouteWritten(s)
    /\ RouteFrame
    /\ UNCHANGED rtPass

DeleteRoute(r) ==
    /\ FanOccurs("route")
    /\ route[r].phase = "live"
    /\ route' = [route EXCEPT ![r].phase = "deleting"]
    /\ dirty' = dirty \cup {<<"rt", r>>} \cup RouteWritten(route[r].spec)
    /\ RouteFrame
    /\ UNCHANGED rtPass

-----------------------------------------------------------------------------
(* Servers *)

ServerFrame == UNCHANGED <<gateway, route, list, gwPass, rtPass, configMap, listMap, nsList,
                           stamp, pods>>

ServerWritten(s) == IF s.gateway = NoGateway THEN {} ELSE {<<"gw", s.gateway>>}

\* Mutant of ValidateServer: a refused block is refused on every write.
ValidateServerAlways(old, s) ==
    /\ ServerTidy(s)
    /\ ~ s.refused

\* validate_spec of the server webhook; old holds the spec an update replaces.
ValidateServer(old, s) ==
    /\ ServerTidy(s)
    /\ s.refused => \E o \in old : o.refused /\ o.gateway # NoGateway

\* verify_cosign_keyless: the pinned digest carries the expected signature.
VerifyCosignKeyless(image) == image \in Signed

\* build_server_deployment and build_server_service.
BuildServer(s) == s.image

\* The deletion branch, or ensure_finalizer and the verification, which also fails
\* when the registry cannot be reached.  Admission judges both finalizer patches.
BeginServer(v) ==
    /\ <<"sv", v>> \in dirty /\ svPass[v].pc = "idle"
    /\ server[v].phase # "absent"
    /\ LET s == server[v].spec
       IN  \/ /\ server[v].phase = "deleting"
              /\ IF ValidateServer({s}, s)
                 THEN /\ server' = [server EXCEPT ![v].phase = "absent"]
                      /\ dirty' = (dirty \ {<<"sv", v>>}) \cup ServerWritten(s)
                      /\ workload' = [workload EXCEPT ![v] = NoWork]     \* owned: collected
                 ELSE UNCHANGED <<server, dirty, workload>>
              /\ UNCHANGED <<svPass, fanEvents>>
           \/ /\ server[v].phase # "deleting"
              /\ server' = [server EXCEPT ![v].phase = "live"]
              /\ dirty' = dirty \ {<<"sv", v>>}
              /\ \/ /\ svPass' = [svPass EXCEPT ![v] = [pc |-> "apply", spec |-> s,
                                    verified |-> s.verify => s.pinned /\ VerifyCosignKeyless(s.image)]]
                    /\ UNCHANGED fanEvents
                 \/ /\ s.verify /\ FanOccurs("error")
                    /\ svPass' = [svPass EXCEPT ![v] = [pc |-> "apply", spec |-> s, verified |-> FALSE]]
              /\ UNCHANGED workload
    /\ ServerFrame

\* Mutant of ApplyServer: the workload follows the object as it is now.
ApplyServerAsStored(v) ==
    /\ svPass[v].pc = "apply"
    /\ workload' = IF svPass[v].verified
                   THEN [workload EXCEPT ![v] = BuildServer(server[v].spec)]
                   ELSE workload
    /\ svPass' = [svPass EXCEPT ![v].pc = "report"]
    /\ ServerFrame
    /\ UNCHANGED <<server, dirty, fanEvents>>

\* The workload is applied only under a passing verification: an existing one stays as it is
\* otherwise.
ApplyServer(v) ==
    /\ svPass[v].pc = "apply"
    /\ workload' = IF svPass[v].verified
                   THEN [workload EXCEPT ![v] = BuildServer(svPass[v].spec)]
                   ELSE workload
    /\ dirty' = IF workload' = workload THEN dirty ELSE dirty \cup {<<"sv", v>>}
    /\ svPass' = [svPass EXCEPT ![v].pc = "report"]
    /\ ServerFrame
    /\ UNCHANGED <<server, fanEvents>>

\* The conditions and the status, best-effort.
ReportServer(v) ==
    /\ svPass[v].pc = "report"
    /\ svPass' = [svPass EXCEPT ![v] = SvIdle]
    /\ \/ dirty' = dirty \cup ServerWritten(server[v].spec) /\ UNCHANGED fanEvents
       \/ FanOccurs("error") /\ UNCHANGED dirty
    /\ ServerFrame
    /\ UNCHANGED <<server, workload>>

\* A failed apply or lookup ends the pass through error_policy.
ServerPassFails(v) ==
    /\ svPass[v].pc \in {"apply", "report"}
    /\ FanOccurs("error")
    /\ svPass' = [svPass EXCEPT ![v] = SvIdle]
    /\ dirty' = dirty \cup {<<"sv", v>>}
    /\ ServerFrame
    /\ UNCHANGED <<server, workload>>

SubmitServer(v, s) ==
    /\ FanOccurs("server")
    /\ server[v].phase \in {"absent", "live"}
    /\ ValidateServer(IF server[v].phase = "absent" THEN {} ELSE {server[v].spec}, s)
    /\ server' = [server EXCEPT ![v].spec = s, ![v].phase = IF @ = "absent" THEN "new" ELSE @]
    /\ dirty' = dirty \cup {<<"sv", v>>} \cup ServerWritten(s)
    /\ ServerFrame
    /\ UNCHANGED <<svPass, workload>>

DeleteServer(v) ==
    /\ FanOccurs("server")
    /\ server[v].phase = "live"
    /\ server' = [server EXCEPT ![v].phase = "deleting"]
    /\ dirty' = dirty \cup {<<"sv", v>>} \cup ServerWritten(server[v].spec)
    /\ ServerFrame
    /\ UNCHANGED <<svPass, workload>>

-----------------------------------------------------------------------------
(* Revocation lists, users and time *)

ListFrame == UNCHANGED <<gateway, route, server, gwPass, rtPass, svPass, configMap, listMap,
                         stamp, pods, workload>>

\* map_revocation_list_to_gateways.
ListWritten(l) == {<<"gw", g>> : g \in {h \in Gateways : gateway[h].list = l}}

\* build_configmap of the list controller: one name for every list.
BuildListConfigMap(l) == [name |-> l, version |-> list[l]]

\* The list controller writes it into the namespace; a failed apply is logged.
ReconcileList(l) ==
    /\ <<"ls", l>> \in dirty
    /\ dirty' = (dirty \ {<<"ls", l>>}) \cup (IF list[l] = 0 THEN {} ELSE ListWritten(l))
    /\ \/ /\ nsList' = IF list[l] = 0 THEN nsList ELSE BuildListConfigMap(l)
          /\ UNCHANGED fanEvents
       \/ FanOccurs("error") /\ UNCHANGED nsList
    /\ ListFrame
    /\ UNCHANGED list

\* A list is published, revised or deleted.  Its deletion branch only releases the
\* finalizer: the namespace's ConfigMap has no owner and stays.
ReviseList(l, version) ==
    /\ FanOccurs("list")
    /\ version # list[l]
    /\ list' = [list EXCEPT ![l] = version]
    /\ dirty' = dirty \cup {<<"ls", l>>} \cup ListWritten(l)
    /\ ListFrame
    /\ UNCHANGED nsList

EditGateway(g, s) ==
    /\ FanOccurs("gateway")
    /\ s # gateway[g]
    /\ gateway' = [gateway EXCEPT ![g] = s]
    /\ dirty' = dirty \cup {<<"gw", g>>}
    /\ UNCHANGED <<route, server, list, gwPass, rtPass, svPass, configMap, listMap, nsList,
                   stamp, pods, workload>>

FanCrash ==
    /\ FanOccurs("crash")
    /\ gwPass' = [g \in Gateways |-> GwIdle]
    /\ rtPass' = [r \in Routes |-> RtIdle]
    /\ svPass' = [v \in Servers |-> SvIdle]
    /\ dirty' = Existing
    /\ UNCHANGED <<gateway, route, server, list, configMap, listMap, nsList, stamp, pods,
                   workload>>

\* The passes of a gateway whose named list is missing fail, one after the other.
Retries(g) == gateway[g].list # "default" /\ list[gateway[g].list] = 0

\* Each controller comes back to its objects minutes after their last pass; those find
\* nothing under way but the retries of such a gateway.
FanResync ==
    /\ dirty \subseteq {<<"gw", g>> : g \in {h \in Gateways : Retries(h)}}
    /\ \A g \in Gateways : gwPass[g].pc = "idle" \/ Retries(g)
    /\ \A r \in Routes : rtPass[r].pc = "idle"
    /\ \A v \in Servers : svPass[v].pc = "idle"
    /\ dirty' = Existing
    /\ UNCHANGED <<gateway, route, server, list, gwPass, rtPass, svPass, configMap, listMap,
                   nsList, stamp, pods, workload, fanEvents>>

-----------------------------------------------------------------------------
(* The specification *)

FanUser ==
    \/ \E g \in Gateways, s \in GatewaySpecs : EditGateway(g, s)
    \/ \E r \in Routes : DeleteRoute(r) \/ \E s \in RouteSpecs : SubmitRoute(r, s)
    \/ \E v \in Servers : DeleteServer(v) \/ \E s \in ServerSpecs : SubmitServer(v, s)
    \/ \E l \in Lists, n \in 0 .. MaxVersion : ReviseList(l, n)

RouteWork(r)  == BeginRoute(r) \/ ReportRoute(r)
ServerWork(v) == BeginServer(v) \/ ApplyServer(v) \/ ReportServer(v)

FeederWork ==
    \/ \E r \in Routes : RouteWork(r)
    \/ \E v \in Servers : ServerWork(v)
    \/ \E l \in Lists : ReconcileList(l)

FanNext ==
    \/ \E g \in Gateways : GatewayWork(g) \/ GatewayPassFails(g) \/ RollPods(g)
    \/ FeederWork
    \/ \E r \in Routes : RoutePassFails(r)
    \/ \E v \in Servers : ServerPassFails(v)
    \/ FanUser \/ FanCrash \/ FanResync

FanSpec == FanInit /\ [][FanNext]_fanVars

\* Scheduled passes run to their end, Deployments roll out, resyncs come due.
FanFairness ==
    /\ \A g \in Gateways : WF_fanVars(GatewayWork(g)) /\ WF_fanVars(RollPods(g))
    /\ WF_fanVars(FeederWork)
    /\ WF_fanVars(FanResync)

FanFairSpec == FanSpec /\ FanFairness

-----------------------------------------------------------------------------
(* Properties *)

\* "The rendered config is shared by every server this gateway imports; a block the gateway
\* refuses would stop all of them": no configuration holds one, although such blocks are
\* stored and may be edited around.
RefusedStaysOut ==
    \A g \in Gateways, v \in Servers : v \in configMap[g].feds => ~ server[v].spec.refused

\* "Fail-static for the running fleet, fail-closed for changes": while a server asks for
\* verification, no step puts an unsigned image into its Deployment, however the spec was
\* edited while the registry was asked.  What ran before verification was asked for stays
\* up, and a pass that began before applies what it read.
FailClosedForChanges ==
    [][\A v \in Servers :
          /\ server[v].spec.verify
          /\ svPass[v].pc # "idle" => svPass[v].spec.verify
          => workload'[v] \in {workload[v], NoWork} \cup Signed]_fanVars

\* Who may call the tool: whom the inline rule lets through, and whom an accepted route does.
MayCall(g) ==
    {c \in Callers :
        \/ gateway[g].inline = "ops" /\ c = "ops"
        \/ \E r \in Routes : /\ route[r].phase # "absent" /\ route[r].spec.gateway = g
                             /\ route[r].spec.foreign => gateway[g].consents
                             /\ route[r].spec.tenant \in {c, "unset"}}

\* A rule lets through whom it names, and a tool without one is not offered.
Offers(config) == config.rule.who

\* Whatever route or server came, turned to another gateway or went, and whatever request
\* failed, the gateway it named before too ends up with a ConfigMap that says who may call
\* the tool now and imports the servers there are now, with a pod template stamped for that
\* ConfigMap, and with pods rolled for the stamp.  What pods that were not rolled have read
\* is not part of it.
PodsFollowFanIn ==
    \A g \in Gateways :
        <>[](~ Retries(g)) =>
            <>[](/\ Offers(configMap[g]) = MayCall(g)
                 /\ configMap[g].feds = ApplyServers(g, gateway[g])
                 /\ stamp[g].config = configMap[g] /\ pods[g] = stamp[g])

\* A revocation reaches every gateway that mounts the list: its copy and its pod template.
RevocationReachesPods ==
    \A g \in Gateways :
        <>[](list[gateway[g].list] # 0) =>
            <>[](/\ listMap[g] = list[gateway[g].list] /\ stamp[g].list = listMap[g]
                 /\ pods[g] = stamp[g])

\* "Refusing every write that carries it unchanged would refuse the finalizer release too":
\* a server goes when it is deleted, also with a block that is refused today.
ServerDeletionEnds == \A v \in Servers : server[v].phase = "deleting" ~> server[v].phase = "absent"
=============================================================================
