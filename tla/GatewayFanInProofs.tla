------------------------- MODULE GatewayFanInProofs -------------------------
(***************************************************************************)
(* What the fan-in of routes, servers and revocation lists guarantees for  *)
(* every set of objects and specs and every number of events: type         *)
(* correctness, that no configuration holds a federation the gateway       *)
(* refuses, that no unsigned image is brought up for a server that asks    *)
(* for verification, and that gateways and servers without a pass are up   *)
(* to date.                                                                *)
(***************************************************************************)
EXTENDS GatewayFanIn, TLAPS, WellFoundedInduction

-----------------------------------------------------------------------------
(* Operators *)

\* A set of naturals that is not empty holds its minimum.
LEMMA MinInSet ==
    ASSUME NEW S \in SUBSET Nat, S # {}
    PROVE  Min(S) \in S
<1> DEFINE R == OpToRel(<, Nat)
<1>1. PICK n \in S : \A m \in S : ~ (<<m, n>> \in R)
  BY NatLessThanWellFounded, WFMin, Zenon
<1>2. R = {p \in Nat \X Nat : p[1] < p[2]}
  BY DEF OpToRel
<1> HIDE DEF R
<1>3. ASSUME NEW m \in S, m < n PROVE FALSE
  <2>1. <<m, n>> \in Nat \X Nat /\ <<m, n>>[1] < <<m, n>>[2]
    BY <1>3
  <2> QED BY <1>1, <1>2, <2>1
<1>4. \A m \in S : n <= m
  BY <1>3
<1> QED BY <1>4 DEF Min

\* apply_servers_to_config imports servers that are stored and whose block is not refused.
LEMMA ApplyServersImports ==
    ASSUME NEW g, NEW s
    PROVE  ApplyServers(g, s) \subseteq {v \in Servers : ~ server[v].spec.refused}
<1> DEFINE mine == {v \in Servers : /\ server[v].phase # "absent"
                                    /\ server[v].spec.gateway = g
                                    /\ ~ server[v].spec.refused}
           shared == {v \in mine : server[v].spec.name = "shared"}
<1>1. shared \in SUBSET Nat
  BY FanInAssumption
<1>2. shared # {} => Min(shared) \in shared
  BY <1>1, MinInSet
<1>3. ApplyServers(g, s) = (mine \ shared)
                             \cup (IF s.taken \/ shared = {} THEN {} ELSE {Min(shared)})
  BY DEF ApplyServers
<1> QED BY <1>2, <1>3

\* The inline rule and what apply_routes_to_config makes of it are rules on callers.
LEMMA RuleTypes ==
    ASSUME FanTypeOK, NEW g \in Gateways, NEW s \in GatewaySpecs
    PROVE  InlineRule(s) \in RuleType /\ ApplyRoutes(g, s) \in RuleType
<1>1. InlineRule(s) \in RuleType
  <2>1. s.inline \in {"none", "bare", "ops"}
    BY FanInAssumption DEF GatewaySpecType
  <2> QED BY <2>1 DEF InlineRule, RuleType, Callers
<1> DEFINE tenants == {route[r].spec.tenant : r \in {q \in Routes : Accepted(g, s, q)}}
           who == IF "unset" \in tenants THEN Callers ELSE tenants
<1>2. tenants \subseteq TenantNames \cup {"unset"}
  <2>1. \A r \in Routes : route[r].spec \in RouteSpecType
    BY FanInAssumption DEF FanTypeOK, RouteType
  <2> QED BY <2>1 DEF RouteSpecType
<1>3. who \subseteq Callers
  BY <1>2 DEF Callers
<1>4. ApplyRoutes(g, s) = IF tenants = {} THEN InlineRule(s)
                          ELSE [kind |-> "cel", who |-> InlineRule(s).who \cup who]
  BY DEF ApplyRoutes
<1> HIDE DEF who, tenants
<1>5. InlineRule(s).who \subseteq Callers
  BY <1>1 DEF RuleType
<1>6. [kind |-> "cel", who |-> InlineRule(s).who \cup who] \in RuleType
  BY <1>3, <1>5 DEF RuleType
<1> QED BY <1>1, <1>4, <1>6

\* Passes that have ended, and gateways nothing was rendered for, have the right types.
LEMMA RestTypes ==
    /\ NoConfig \in ConfigType /\ NoConfig.feds = {}
    /\ NoStamp \in StampType
    /\ NoWork \in WorkType
    /\ GwIdle \in GwPassType /\ GwIdle.config = NoConfig
    /\ RtIdle \in [pc : {"idle", "report"}, bound : BOOLEAN]
    /\ SvIdle \in SvPassType /\ SvIdle.pc = "idle"
<1>1. (CHOOSE s \in GatewaySpecs : TRUE) \in GatewaySpecs
      /\ (CHOOSE s \in ServerSpecs : TRUE) \in ServerSpecs
  BY FanInAssumption
<1>2. NoConfig \in ConfigType /\ NoConfig.feds = {}
  BY DEF NoConfig, NoRule, ConfigType, RuleType
<1>3. NoStamp \in StampType
  BY <1>2 DEF NoStamp, StampType, MaxVersion
<1>4. NoWork \in WorkType
  BY DEF NoWork, WorkType
<1>5. GwIdle \in GwPassType /\ GwIdle.config = NoConfig
  BY <1>1, <1>2 DEF GwIdle, GwPassType, MaxVersion
<1>6. RtIdle \in [pc : {"idle", "report"}, bound : BOOLEAN]
  BY DEF RtIdle
<1>7. SvIdle \in SvPassType /\ SvIdle.pc = "idle"
  BY <1>1 DEF SvIdle, SvPassType
<1> QED BY <1>2, <1>3, <1>4, <1>5, <1>6, <1>7

\* What a write schedules is an object there is.
LEMMA ScheduledTypes ==
    ASSUME FanTypeOK
    PROVE  /\ \A s \in RouteSpecs : RouteWritten(s) \subseteq FanObjects
           /\ \A s \in ServerSpecs : ServerWritten(s) \subseteq FanObjects
           /\ \A l \in Lists : ListWritten(l) \subseteq FanObjects
           /\ Existing \subseteq FanObjects
<1>1. \A s \in RouteSpecs : RouteWritten(s) \subseteq FanObjects
  <2>1. \A s \in RouteSpecs : s.gateway \in Gateways \cup {NoGateway}
    BY FanInAssumption DEF RouteSpecType
  <2> QED BY <2>1 DEF RouteWritten, FanObjects
<1>2. \A s \in ServerSpecs : ServerWritten(s) \subseteq FanObjects
  BY FanInAssumption DEF ServerWritten, FanObjects
<1>3. \A l \in Lists : ListWritten(l) \subseteq FanObjects
  BY DEF ListWritten, FanObjects
<1>4. Existing \subseteq FanObjects
  BY DEF Existing, FanObjects
<1> QED BY <1>1, <1>2, <1>3, <1>4

\* An event that happens stays within the bound.
LEMMA FanOccursType ==
    ASSUME NEW kind, FanOccurs(kind), fanEvents \in 0 .. MaxFanEvents
    PROVE  fanEvents' \in 0 .. MaxFanEvents
BY FanInAssumption DEF FanOccurs

-----------------------------------------------------------------------------
(* Types *)

\* The specification starts in its types.
LEMMA FanInitTypes == FanInit => FanTypeOK
<1> SUFFICES ASSUME FanInit PROVE FanTypeOK
  OBVIOUS
<1>1. route \in [Routes -> RouteType] /\ server \in [Servers -> ServerType]
  BY DEF FanInit, RouteType, ServerType, Stages
<1>2. list \in [Lists -> 0 .. MaxVersion] /\ listMap \in [Gateways -> 0 .. MaxVersion]
      /\ nsList \in [name : Lists, version : 0 .. MaxVersion]
  BY FanInAssumption DEF FanInit, MaxVersion
<1>3. dirty \subseteq FanObjects
  BY DEF FanInit, Existing, FanObjects
<1>4. pods \in [Gateways -> StampType]
  BY RestTypes DEF FanInit
<1>5. fanEvents \in 0 .. MaxFanEvents
  BY FanInAssumption DEF FanInit
<1> QED BY <1>1, <1>2, <1>3, <1>4, <1>5, RestTypes DEF FanInit, FanTypeOK

\* The two assignments of a pass that has merged the routes, as one new record.
LEMMA RuleAssigned ==
    ASSUME NEW g \in Gateways, gwPass \in [Gateways -> GwPassType], NEW rule
    PROVE  [gwPass EXCEPT ![g].pc = "servers", ![g].config.rule = rule]
             = [gwPass EXCEPT ![g] = [gwPass[g] EXCEPT !.pc = "servers",
                                        !.config = [gwPass[g].config EXCEPT !.rule = rule]]]
<1>1. gwPass[g] \in GwPassType
  OBVIOUS
<1> QED BY <1>1 DEF GwPassType, ConfigType

\* A pass of the gateway controller, and the rollout of its pods, keep the types.
LEMMA GatewayPassTypes ==
    ASSUME FanTypeOK, NEW g \in Gateways, GatewayWork(g) \/ GatewayPassFails(g) \/ RollPods(g)
    PROVE  FanTypeOK'
<1> USE DEF FanTypeOK, GatewayFrame
<1>0. <<"gw", g>> \in FanObjects
  BY DEF FanObjects
<1>1. CASE BeginGatewayPass(g)
  <2>1. BuildRevocationConfigMap(gateway[g].list) \in 0 .. MaxVersion
    BY FanInAssumption DEF BuildRevocationConfigMap, GatewaySpecType
  <2>2. PICK found \in 0 .. MaxVersion, mounts \in BOOLEAN :
           gwPass' = [gwPass EXCEPT ![g] = [GwIdle EXCEPT !.pc = "routes", !.spec = gateway[g],
                                                          !.list = found, !.mounts = mounts]]
    BY <1>1, <2>1 DEF BeginGatewayPass
  <2>3. [GwIdle EXCEPT !.pc = "routes", !.spec = gateway[g], !.list = found, !.mounts = mounts]
          \in GwPassType
    BY RestTypes DEF GwPassType
  <2>4. gwPass' \in [Gateways -> GwPassType]
    BY <2>2, <2>3
  <2>5. listMap' \in [Gateways -> 0 .. MaxVersion] /\ fanEvents' \in 0 .. MaxFanEvents
    BY <1>1, <2>1, FanOccursType, ZenonT(90) DEF BeginGatewayPass
  <2> QED BY <1>1, <2>4, <2>5 DEF BeginGatewayPass
<1>2. CASE MergeRoutes(g)
  <2>1. gwPass[g] \in GwPassType /\ gwPass[g].spec \in GatewaySpecs /\ gwPass[g].config \in ConfigType
    BY DEF GwPassType
  <2>2. InlineRule(gwPass[g].spec) \in RuleType /\ ApplyRoutes(g, gwPass[g].spec) \in RuleType
    BY <2>1, RuleTypes
  <2>3. \/ gwPass' = [gwPass EXCEPT ![g] = [gwPass[g] EXCEPT !.pc = "servers",
              !.config = [gwPass[g].config EXCEPT !.rule = ApplyRoutes(g, gwPass[g].spec)]]]
        \/ gwPass' = [gwPass EXCEPT ![g] = [gwPass[g] EXCEPT !.pc = "servers",
              !.config = [gwPass[g].config EXCEPT !.rule = InlineRule(gwPass[g].spec)]]]
    BY <1>2, RuleAssigned DEF MergeRoutes
  <2>4. ASSUME NEW rule \in RuleType
        PROVE  [gwPass[g] EXCEPT !.pc = "servers",
                  !.config = [gwPass[g].config EXCEPT !.rule = rule]] \in GwPassType
    <3>1. [gwPass[g].config EXCEPT !.rule = rule] \in ConfigType
      BY <2>1 DEF ConfigType
    <3> QED BY <2>1, <3>1 DEF GwPassType
  <2>6. gwPass' \in [Gateways -> GwPassType]
    BY <2>2, <2>3, <2>4
  <2>7. fanEvents' \in 0 .. MaxFanEvents
    BY <1>2, FanOccursType DEF MergeRoutes
  <2> QED BY <1>2, <2>6, <2>7 DEF MergeRoutes
<1>3. CASE MergeServers(g)
  <2>1. gwPass[g] \in GwPassType /\ gwPass[g].config \in ConfigType
    BY DEF GwPassType
  <2>2. ApplyServers(g, gwPass[g].spec) \subseteq Servers
    BY ApplyServersImports
  <2>3. \/ gwPass' = [gwPass EXCEPT ![g] = [gwPass[g] EXCEPT !.pc = "configmap",
              !.config = [gwPass[g].config EXCEPT !.feds = ApplyServers(g, gwPass[g].spec)]]]
        \/ gwPass' = [gwPass EXCEPT ![g] = [gwPass[g] EXCEPT !.pc = "configmap"]]
    BY <1>3 DEF MergeServers
  <2>4. [gwPass[g].config EXCEPT !.feds = ApplyServers(g, gwPass[g].spec)] \in ConfigType
    BY <2>1, <2>2 DEF ConfigType
  <2>5. /\ [gwPass[g] EXCEPT !.pc = "configmap",
              !.config = [gwPass[g].config EXCEPT !.feds = ApplyServers(g, gwPass[g].spec)]]
             \in GwPassType
        /\ [gwPass[g] EXCEPT !.pc = "configmap"] \in GwPassType
    BY <2>1, <2>4 DEF GwPassType
  <2>6. gwPass' \in [Gateways -> GwPassType]
    BY <2>3, <2>5
  <2>7. fanEvents' \in 0 .. MaxFanEvents
    BY <1>3, FanOccursType DEF MergeServers
  <2> QED BY <1>3, <2>6, <2>7 DEF MergeServers
<1>4. CASE ApplyConfigMap(g)
  <2>1. gwPass[g] \in GwPassType /\ gwPass[g].config \in ConfigType
    BY DEF GwPassType
  <2>2. [gwPass[g] EXCEPT !.pc = "deployment"] \in GwPassType
    BY ONLY <2>1 DEF GwPassType
  <2>3. gwPass' \in [Gateways -> GwPassType]
    BY <1>4, <2>2 DEF ApplyConfigMap
  <2>4. configMap' \in [Gateways -> ConfigType]
    BY <1>4, <2>1 DEF ApplyConfigMap
  <2> QED BY <1>0, <1>4, <2>3, <2>4 DEF ApplyConfigMap
<1>5. CASE ApplyGatewayDeployment(g)
  <2>1. [config |-> gwPass[g].config, list |-> gwPass[g].list] \in StampType
    BY DEF GwPassType, StampType
  <2>2. stamp' \in [Gateways -> StampType]
    BY <1>5, <2>1 DEF ApplyGatewayDeployment
  <2> QED BY <1>0, <1>5, <2>2, RestTypes DEF ApplyGatewayDeployment
<1>6. CASE GatewayPassFails(g)
  BY <1>0, <1>6, RestTypes, FanOccursType DEF GatewayPassFails
<1>7. CASE RollPods(g)
  <2>1. pods' \in [Gateways -> StampType]
    BY <1>7 DEF RollPods
  <2> QED BY <1>0, <1>7, <2>1 DEF RollPods
<1> QED BY <1>1, <1>2, <1>3, <1>4, <1>5, <1>6, <1>7 DEF GatewayWork

\* The route controller, and users who write routes, keep the types.
LEMMA RouteTypes ==
    ASSUME FanTypeOK, NEW r \in Routes,
           \/ RouteWork(r) \/ RoutePassFails(r) \/ DeleteRoute(r)
           \/ \E s \in RouteSpecs : SubmitRoute(r, s)
    PROVE  FanTypeOK'
<1> USE DEF FanTypeOK, RouteFrame
<1>0. /\ <<"rt", r>> \in FanObjects
      /\ route[r] \in RouteType /\ RouteWritten(route[r].spec) \subseteq FanObjects
  BY ScheduledTypes DEF FanObjects, RouteType
<1>1. \A phase \in Stages : [route[r] EXCEPT !.phase = phase] \in RouteType
  BY <1>0 DEF RouteType
<1>2. \A bound \in BOOLEAN : [route[r] EXCEPT !.bound = bound] \in RouteType
  BY <1>0 DEF RouteType
<1>3. [route[r] EXCEPT !.phase = "absent", !.bound = FALSE] \in RouteType
  BY <1>0 DEF RouteType, Stages
<1>4. CASE BeginRoute(r)
  <2>1. \/ route' = [route EXCEPT ![r] = [route[r] EXCEPT !.phase = "absent", !.bound = FALSE]]
        \/ route' = [route EXCEPT ![r] = [route[r] EXCEPT !.phase = "live"]]
    BY <1>4 DEF BeginRoute
  <2>2. route' \in [Routes -> RouteType]
    BY <1>1, <1>3, <2>1 DEF Stages
  <2>3. rtPass' \in [Routes -> [pc : {"idle", "report"}, bound : BOOLEAN]]
    <3>1. CASE UNCHANGED rtPass
      BY <3>1
    <3>2. ASSUME NEW b \in BOOLEAN, rtPass' = [rtPass EXCEPT ![r] = [pc |-> "report", bound |-> b]]
          PROVE  rtPass' \in [Routes -> [pc : {"idle", "report"}, bound : BOOLEAN]]
      BY <3>2
    <3>3. UNCHANGED rtPass
          \/ \E b \in BOOLEAN : rtPass' = [rtPass EXCEPT ![r] = [pc |-> "report", bound |-> b]]
      BY <1>4 DEF BeginRoute
    <3> QED BY <3>1, <3>2, <3>3
  <2>4. dirty' \subseteq FanObjects
    BY <1>0, <1>4 DEF BeginRoute
  <2> QED BY <1>4, <2>2, <2>3, <2>4 DEF BeginRoute
<1>5. CASE ReportRoute(r)
  <2>1. route' = route
        \/ route' = [route EXCEPT ![r] = [route[r] EXCEPT !.bound = rtPass[r].bound]]
    BY <1>5 DEF ReportRoute
  <2>2. route' \in [Routes -> RouteType]
    BY <1>2, <2>1
  <2>3. dirty' \subseteq FanObjects /\ fanEvents' \in 0 .. MaxFanEvents
    BY <1>0, <1>5, FanOccursType DEF ReportRoute
  <2> QED BY <1>5, <2>2, <2>3, RestTypes DEF ReportRoute
<1>6. CASE RoutePassFails(r)
  <2>1. PICK phase \in Stages : route' = [route EXCEPT ![r] = [route[r] EXCEPT !.phase = phase]]
    BY <1>0, <1>6 DEF RoutePassFails, RouteType, Stages
  <2>2. route' \in [Routes -> RouteType]
    BY <1>1, <2>1
  <2> QED BY <1>6, <2>2, FanOccursType DEF RoutePassFails
<1>7. CASE DeleteRoute(r)
  <2>1. route' = [route EXCEPT ![r] = [route[r] EXCEPT !.phase = "deleting"]]
    BY <1>7 DEF DeleteRoute
  <2>2. route' \in [Routes -> RouteType]
    BY <1>1, <2>1 DEF Stages
  <2> QED BY <1>0, <1>7, <2>2, FanOccursType DEF DeleteRoute
<1>8. ASSUME NEW s \in RouteSpecs, SubmitRoute(r, s) PROVE FanTypeOK'
  <2>1. PICK phase \in Stages :
           route' = [route EXCEPT ![r] = [route[r] EXCEPT !.spec = s, !.phase = phase]]
    BY <1>0, <1>8, ZenonT(90) DEF SubmitRoute, RouteType, Stages
  <2>2. [route[r] EXCEPT !.spec = s, !.phase = phase] \in RouteType
    BY <1>0 DEF RouteType
  <2>3. route' \in [Routes -> RouteType]
    BY <2>1, <2>2
  <2>4. dirty' \subseteq FanObjects
    BY <1>0, <1>8, ScheduledTypes DEF SubmitRoute
  <2> QED BY <1>8, <2>3, <2>4, FanOccursType DEF SubmitRoute
<1> QED BY <1>4, <1>5, <1>6, <1>7, <1>8 DEF RouteWork

\* The server controller, and users who write servers, keep the types.
LEMMA ServerTypes ==
    ASSUME FanTypeOK, NEW v \in Servers,
           \/ ServerWork(v) \/ ServerPassFails(v) \/ DeleteServer(v)
           \/ \E s \in ServerSpecs : SubmitServer(v, s)
    PROVE  FanTypeOK'
<1> USE DEF FanTypeOK, ServerFrame
<1>0. /\ <<"sv", v>> \in FanObjects
      /\ server[v] \in ServerType /\ server[v].spec \in ServerSpecs
      /\ ServerWritten(server[v].spec) \subseteq FanObjects
  BY ScheduledTypes DEF FanObjects, ServerType
<1>1. \A phase \in Stages : [server[v] EXCEPT !.phase = phase] \in ServerType
  BY <1>0 DEF ServerType
<1>2. CASE BeginServer(v)
  <2>1. server' = server
        \/ \E phase \in {"absent", "live"} :
              server' = [server EXCEPT ![v] = [server[v] EXCEPT !.phase = phase]]
    BY <1>2 DEF BeginServer
  <2>2. server' \in [Servers -> ServerType]
    BY <1>1, <2>1 DEF Stages
  <2>3. UNCHANGED svPass
        \/ \E b \in BOOLEAN : svPass' = [svPass EXCEPT ![v] =
                                           [pc |-> "apply", spec |-> server[v].spec, verified |-> b]]
    BY <1>2 DEF BeginServer
  <2>4. \A b \in BOOLEAN : [pc |-> "apply", spec |-> server[v].spec, verified |-> b] \in SvPassType
    BY <1>0 DEF SvPassType
  <2>5. svPass' \in [Servers -> SvPassType]
    BY <2>3, <2>4
  <2>6. dirty' \subseteq FanObjects
    BY <1>0, <1>2 DEF BeginServer
  <2>7. workload' \in [Servers -> WorkType]
    BY <1>2, RestTypes DEF BeginServer
  <2>8. fanEvents' \in 0 .. MaxFanEvents
    BY <1>2, FanOccursType DEF BeginServer
  <2> QED BY <1>2, <2>2, <2>5, <2>6, <2>7, <2>8 DEF BeginServer
<1>3. CASE ApplyServer(v)
  <2>1. svPass[v].spec \in ServerSpecs /\ [svPass[v] EXCEPT !.pc = "report"] \in SvPassType
    BY DEF SvPassType
  <2>2. BuildServer(svPass[v].spec) \in WorkType
    BY <2>1 DEF BuildServer, WorkType
  <2>3. workload' \in [Servers -> WorkType]
    BY <1>3, <2>2 DEF ApplyServer
  <2>4. svPass' \in [Servers -> SvPassType]
    BY <1>3, <2>1 DEF ApplyServer
  <2> QED BY <1>0, <1>3, <2>3, <2>4 DEF ApplyServer
<1>4. CASE ReportServer(v)
  BY <1>0, <1>4, RestTypes, FanOccursType DEF ReportServer
<1>5. CASE ServerPassFails(v)
  BY <1>0, <1>5, RestTypes, FanOccursType DEF ServerPassFails
<1>6. CASE DeleteServer(v)
  <2>1. server' = [server EXCEPT ![v] = [server[v] EXCEPT !.phase = "deleting"]]
    BY <1>6 DEF DeleteServer
  <2>2. server' \in [Servers -> ServerType]
    BY <1>1, <2>1 DEF Stages
  <2> QED BY <1>0, <1>6, <2>2, FanOccursType DEF DeleteServer
<1>7. ASSUME NEW s \in ServerSpecs, SubmitServer(v, s) PROVE FanTypeOK'
  <2>1. PICK phase \in Stages :
           server' = [server EXCEPT ![v] = [server[v] EXCEPT !.spec = s, !.phase = phase]]
    BY <1>0, <1>7, ZenonT(90) DEF SubmitServer, ServerType, Stages
  <2>2. [server[v] EXCEPT !.spec = s, !.phase = phase] \in ServerType
    BY <1>0 DEF ServerType
  <2>3. server' \in [Servers -> ServerType]
    BY <2>1, <2>2
  <2>4. dirty' \subseteq FanObjects
    BY <1>0, <1>7, ScheduledTypes DEF SubmitServer
  <2> QED BY <1>7, <2>3, <2>4, FanOccursType DEF SubmitServer
<1> QED BY <1>2, <1>3, <1>4, <1>5, <1>6, <1>7 DEF ServerWork

\* Every step keeps the types.
LEMMA FanTypesStep == FanTypeOK /\ [FanNext]_fanVars => FanTypeOK'
<1> SUFFICES ASSUME FanTypeOK, [FanNext]_fanVars PROVE FanTypeOK'
  OBVIOUS
<1> USE DEF FanTypeOK
<1>1. ASSUME NEW g \in Gateways, GatewayWork(g) \/ GatewayPassFails(g) \/ RollPods(g)
      PROVE  FanTypeOK'
  BY <1>1, GatewayPassTypes
<1>2. ASSUME NEW r \in Routes,
             \/ RouteWork(r) \/ RoutePassFails(r) \/ DeleteRoute(r)
             \/ \E s \in RouteSpecs : SubmitRoute(r, s)
      PROVE  FanTypeOK'
  BY <1>2, RouteTypes
<1>3. ASSUME NEW v \in Servers,
             \/ ServerWork(v) \/ ServerPassFails(v) \/ DeleteServer(v)
             \/ \E s \in ServerSpecs : SubmitServer(v, s)
      PROVE  FanTypeOK'
  BY <1>3, ServerTypes
<1>4. ASSUME NEW l \in Lists, ReconcileList(l) PROVE FanTypeOK'
  <2>1. BuildListConfigMap(l) \in [name : Lists, version : 0 .. MaxVersion]
    BY DEF BuildListConfigMap
  <2>2. nsList' \in [name : Lists, version : 0 .. MaxVersion]
    BY <1>4, <2>1 DEF ReconcileList
  <2>3. dirty' \subseteq FanObjects
    BY <1>4, ScheduledTypes DEF ReconcileList
  <2>4. fanEvents' \in 0 .. MaxFanEvents
    BY <1>4, FanOccursType DEF ReconcileList
  <2> QED BY <1>4, <2>2, <2>3, <2>4 DEF ReconcileList, ListFrame
<1>5. ASSUME NEW l \in Lists, NEW n \in 0 .. MaxVersion, ReviseList(l, n) PROVE FanTypeOK'
  <2>1. dirty' \subseteq FanObjects
    BY <1>5, ScheduledTypes DEF ReviseList, FanObjects
  <2> QED BY <1>5, <2>1, FanOccursType DEF ReviseList, ListFrame
<1>6. ASSUME NEW g \in Gateways, NEW s \in GatewaySpecs, EditGateway(g, s) PROVE FanTypeOK'
  <2>1. dirty' \subseteq FanObjects
    BY <1>6 DEF EditGateway, FanObjects
  <2> QED BY <1>6, <2>1, FanOccursType DEF EditGateway
<1>7. CASE FanCrash
  BY <1>7, RestTypes, ScheduledTypes, FanOccursType DEF FanCrash
<1>8. CASE FanResync
  BY <1>8, ScheduledTypes DEF FanResync
<1>9. CASE UNCHANGED fanVars
  BY <1>9 DEF fanVars
<1> QED BY <1>1, <1>2, <1>3, <1>4, <1>5, <1>6, <1>7, <1>8, <1>9
        DEF FanNext, FeederWork, FanUser

\* The four controllers keep every object, pass and rendered child in its type, for any
\* routes, servers, lists and specs.
THEOREM FanTypeCorrect == FanSpec => []FanTypeOK
BY FanInitTypes, FanTypesStep, PTL DEF FanSpec

-----------------------------------------------------------------------------
(* Refused blocks *)

\* A pass carries only federations whose block is not refused, and so does the ConfigMap.
RefusedKeptOut ==
    \A g \in Gateways :
        /\ \A v \in gwPass[g].config.feds : ~ server[v].spec.refused
        /\ \A v \in configMap[g].feds : ~ server[v].spec.refused

\* The webhook lets a refused block through only where one is stored already: no server
\* comes to be refused while the operator runs.
LEMMA NoNewRefusal ==
    ASSUME FanTypeOK, [FanNext]_fanVars, NEW v \in Servers, server'[v].spec.refused
    PROVE  server[v].spec.refused
<1> USE DEF FanTypeOK
<1>1. CASE UNCHANGED server
  BY <1>1
<1>2. ASSUME NEW u \in Servers, BeginServer(u) \/ DeleteServer(u) PROVE server[v].spec.refused
  <2>1. PICK phase : server' = server
          \/ server' = [server EXCEPT ![u] = [server[u] EXCEPT !.phase = phase]]
    BY <1>2 DEF BeginServer, DeleteServer
  <2> QED BY <2>1 DEF ServerType
<1>3. ASSUME NEW u \in Servers, NEW s \in ServerSpecs, SubmitServer(u, s)
      PROVE  server[v].spec.refused
  <2>1. PICK stored : server' = [server EXCEPT ![u] = stored] /\ stored.spec = s
    <3> DEFINE stored == [server[u] EXCEPT !.spec = s, !.phase = IF @ = "absent" THEN "new" ELSE @]
    <3>1. server' = [server EXCEPT ![u] = stored]
      BY <1>3 DEF SubmitServer
    <3>2. server[u] \in ServerType
      OBVIOUS
    <3>3. stored.spec = s
      BY ONLY <3>2 DEF ServerType
    <3> HIDE DEF stored
    <3> QED BY <3>1, <3>3
  <2>2. s.refused => server[u].spec.refused
    BY <1>3 DEF SubmitServer, ValidateServer
  <2> QED BY <2>1, <2>2
<1>4. UNCHANGED server \/ \E u \in Servers : \/ BeginServer(u) \/ DeleteServer(u)
                                             \/ \E s \in ServerSpecs : SubmitServer(u, s)
  <2>1. ASSUME NEW g \in Gateways, GatewayWork(g) \/ GatewayPassFails(g) \/ RollPods(g)
        PROVE  UNCHANGED server
    BY <2>1 DEF GatewayWork, BeginGatewayPass, MergeRoutes, MergeServers, ApplyConfigMap,
                ApplyGatewayDeployment, GatewayPassFails, RollPods, GatewayFrame
  <2>2. ASSUME NEW r \in Routes, \/ RouteWork(r) \/ RoutePassFails(r) \/ DeleteRoute(r)
                                 \/ \E s \in RouteSpecs : SubmitRoute(r, s)
        PROVE  UNCHANGED server
    BY <2>2 DEF RouteWork, BeginRoute, ReportRoute, RoutePassFails, DeleteRoute, SubmitRoute,
                RouteFrame
  <2>3. ASSUME NEW u \in Servers, ApplyServer(u) \/ ReportServer(u) \/ ServerPassFails(u)
        PROVE  UNCHANGED server
    BY <2>3 DEF ApplyServer, ReportServer, ServerPassFails
  <2> QED BY <2>1, <2>2, <2>3
          DEF FanNext, FeederWork, FanUser, ServerWork, ReconcileList, ReviseList, ListFrame,
              EditGateway, FanCrash, FanResync, fanVars
<1> QED BY <1>1, <1>2, <1>3, <1>4

\* What a pass carries for the servers, and the ConfigMap, change in three ways only.
LEMMA FedsChange ==
    ASSUME FanTypeOK, [FanNext]_fanVars, NEW g \in Gateways
    PROVE  /\ \/ gwPass'[g].config.feds \subseteq gwPass[g].config.feds
              \/ gwPass'[g].config.feds = ApplyServers(g, gwPass[g].spec) /\ UNCHANGED server
           /\ \/ configMap'[g].feds = configMap[g].feds
              \/ configMap'[g].feds = gwPass[g].config.feds
<1> USE DEF FanTypeOK
<1>1. CASE UNCHANGED <<gwPass, configMap>>
  BY <1>1
<1>2. CASE FanCrash
  BY <1>2, RestTypes DEF FanCrash
<1>3. ASSUME NEW h \in Gateways, GatewayWork(h) \/ GatewayPassFails(h) \/ RollPods(h)
      PROVE  /\ \/ gwPass'[g].config.feds \subseteq gwPass[g].config.feds
                \/ gwPass'[g].config.feds = ApplyServers(g, gwPass[g].spec) /\ UNCHANGED server
             /\ \/ configMap'[g].feds = configMap[g].feds
                \/ configMap'[g].feds = gwPass[g].config.feds
  <2>0. gwPass[h] \in GwPassType /\ gwPass[h].config \in ConfigType
    BY DEF GwPassType
  <2>1. CASE BeginGatewayPass(h)
    <3> DEFINE found  == BuildRevocationConfigMap(gateway[h].list)
               wanted == gateway[h].list
               pass   == [GwIdle EXCEPT !.pc = "routes", !.spec = gateway[h], !.list = found,
                                        !.mounts = found # 0 \/ wanted = "default"]
    <3>0. gwPass' = [gwPass EXCEPT ![h] = pass]
      BY <2>1 DEF BeginGatewayPass
    <3>1. pass.config = GwIdle.config
      BY ONLY DEF GwIdle
    <3> HIDE DEF pass
    <3>2. configMap' = configMap
      BY <2>1 DEF BeginGatewayPass
    <3> QED BY <3>0, <3>1, <3>2, RestTypes
  <2>2. CASE MergeRoutes(h)
    <3> DEFINE merged(rule) == [gwPass[h] EXCEPT !.pc = "servers",
                                  !.config = [gwPass[h].config EXCEPT !.rule = rule]]
    <3>1. \/ gwPass' = [gwPass EXCEPT ![h] = merged(ApplyRoutes(h, gwPass[h].spec))]
          \/ gwPass' = [gwPass EXCEPT ![h] = merged(InlineRule(gwPass[h].spec))]
      BY <2>2, RuleAssigned DEF MergeRoutes
    <3>2. \A rule : merged(rule).config.feds = gwPass[h].config.feds
      BY ONLY <2>0 DEF GwPassType, ConfigType
    <3> HIDE DEF merged
    <3>3. configMap' = configMap
      BY <2>2 DEF MergeRoutes
    <3> QED BY <3>1, <3>2, <3>3
  <2>3. CASE MergeServers(h)
    <3>1. \/ gwPass' = [gwPass EXCEPT ![h] = [gwPass[h] EXCEPT !.pc = "configmap",
                !.config = [gwPass[h].config EXCEPT !.feds = ApplyServers(h, gwPass[h].spec)]]]
          \/ gwPass' = [gwPass EXCEPT ![h] = [gwPass[h] EXCEPT !.pc = "configmap"]]
      BY <2>3 DEF MergeServers
    <3> DEFINE feds == ApplyServers(h, gwPass[h].spec)
    <3> HIDE DEF feds
    <3>2. /\ [gwPass[h] EXCEPT !.pc = "configmap", !.config = [gwPass[h].config EXCEPT !.feds = feds]]
                .config.feds = feds
          /\ [gwPass[h] EXCEPT !.pc = "configmap"].config.feds = gwPass[h].config.feds
      BY ONLY <2>0 DEF GwPassType, ConfigType
    <3>3. configMap' = configMap /\ server' = server
      BY <2>3 DEF MergeServers, GatewayFrame
    <3> QED BY <3>1, <3>2, <3>3 DEF feds
  <2>4. CASE ApplyConfigMap(h)
    <3>1. gwPass' = [gwPass EXCEPT ![h] = [gwPass[h] EXCEPT !.pc = "deployment"]]
      BY <2>4 DEF ApplyConfigMap
    <3>2. [gwPass[h] EXCEPT !.pc = "deployment"].config.feds = gwPass[h].config.feds
      BY ONLY <2>0 DEF GwPassType
    <3>3. configMap' = [configMap EXCEPT ![h] = gwPass[h].config]
      BY <2>4 DEF ApplyConfigMap
    <3> QED BY <3>1, <3>2, <3>3
  <2>5. CASE ApplyGatewayDeployment(h) \/ GatewayPassFails(h)
    BY <2>5, RestTypes DEF ApplyGatewayDeployment, GatewayPassFails
  <2>6. CASE RollPods(h)
    BY <2>6 DEF RollPods
  <2> QED BY <1>3, <2>1, <2>2, <2>3, <2>4, <2>5, <2>6 DEF GatewayWork
<1>4. \/ UNCHANGED <<gwPass, configMap>> \/ FanCrash
      \/ \E h \in Gateways : GatewayWork(h) \/ GatewayPassFails(h) \/ RollPods(h)
  <2>1. ASSUME NEW r \in Routes, \/ RouteWork(r) \/ RoutePassFails(r) \/ DeleteRoute(r)
                                 \/ \E s \in RouteSpecs : SubmitRoute(r, s)
        PROVE  UNCHANGED <<gwPass, configMap>>
    BY <2>1 DEF RouteWork, BeginRoute, ReportRoute, RoutePassFails, DeleteRoute, SubmitRoute,
                RouteFrame
  <2>2. ASSUME NEW v \in Servers, \/ ServerWork(v) \/ ServerPassFails(v) \/ DeleteServer(v)
                                  \/ \E s \in ServerSpecs : SubmitServer(v, s)
        PROVE  UNCHANGED <<gwPass, configMap>>
    BY <2>2 DEF ServerWork, BeginServer, ApplyServer, ReportServer, ServerPassFails, DeleteServer,
                SubmitServer, ServerFrame
  <2> QED BY <2>1, <2>2
          DEF FanNext, FeederWork, FanUser, ReconcileList, ReviseList, ListFrame, EditGateway,
              FanResync, fanVars
<1> QED BY <1>1, <1>2, <1>3, <1>4

\* No ConfigMap of a gateway holds a federation whose block the gateway refuses, however
\* servers with such a block are stored, edited, deleted and created again around a pass
\* that reads them once and writes later.
THEOREM RefusedBlocksStayOut == FanSpec => []RefusedStaysOut
<1>1. FanInit => FanTypeOK /\ RefusedKeptOut
  <2> SUFFICES ASSUME FanInit PROVE RefusedKeptOut
    BY FanInitTypes
  <2> QED BY RestTypes DEF FanInit, RefusedKeptOut
<1>2. (FanTypeOK /\ RefusedKeptOut) /\ [FanNext]_fanVars => (FanTypeOK /\ RefusedKeptOut)'
  <2> SUFFICES ASSUME FanTypeOK, RefusedKeptOut, [FanNext]_fanVars, NEW g \in Gateways
               PROVE  /\ \A v \in gwPass'[g].config.feds : ~ server'[v].spec.refused
                      /\ \A v \in configMap'[g].feds : ~ server'[v].spec.refused
    BY FanTypesStep DEF RefusedKeptOut
  <2>1. gwPass[g].config.feds \subseteq Servers /\ configMap[g].feds \subseteq Servers
    BY DEF FanTypeOK, GwPassType, ConfigType
  <2>2. \A v \in Servers : ~ server[v].spec.refused => ~ server'[v].spec.refused
    BY NoNewRefusal
  <2>3. \A v \in gwPass'[g].config.feds : v \in Servers /\ ~ server[v].spec.refused
    BY <2>1, FedsChange, ApplyServersImports DEF RefusedKeptOut
  <2>4. \A v \in configMap'[g].feds : v \in Servers /\ ~ server[v].spec.refused
    BY <2>1, FedsChange DEF RefusedKeptOut
  <2> QED BY <2>2, <2>3, <2>4
<1>3. FanTypeOK /\ RefusedKeptOut => RefusedStaysOut
  BY DEF RefusedKeptOut, RefusedStaysOut
<1> QED BY <1>1, <1>2, <1>3, PTL DEF FanSpec

\* A pass that is about to apply a workload carries the spec its verification was about.
VerifiedBeforeApply ==
    \A v \in Servers :
        svPass[v].pc = "apply" /\ svPass[v].verified /\ svPass[v].spec.verify
          => svPass[v].spec.image \in Signed

\* A pass of the server controller keeps that, and puts into the Deployment what its
\* verification was about; no other step touches passes or workloads, except a crash, which
\* forgets the passes.
LEMMA ServerPassVerifies ==
    ASSUME FanTypeOK, VerifiedBeforeApply, NEW u \in Servers,
           ServerWork(u) \/ ServerPassFails(u)
    PROVE  /\ VerifiedBeforeApply'
           /\ \A v \in Servers :
                  \/ workload'[v] \in {workload[v], NoWork}
                  \/ /\ svPass[v].pc # "idle"
                     /\ svPass[v].spec.verify => workload'[v] \in Signed
<1> USE DEF FanTypeOK
<1>0. svPass[u] \in SvPassType
  OBVIOUS
<1>1. CASE BeginServer(u)
  <2> DEFINE s == server[u].spec
  <2>1. \/ UNCHANGED workload \/ workload' = [workload EXCEPT ![u] = NoWork]
    BY <1>1 DEF BeginServer
  <2> DEFINE checked == [pc |-> "apply", spec |-> s,
                         verified |-> s.verify => s.pinned /\ VerifyCosignKeyless(s.image)]
             unchecked == [pc |-> "apply", spec |-> s, verified |-> FALSE]
  <2>3. \/ UNCHANGED svPass
        \/ svPass' = [svPass EXCEPT ![u] = checked]
        \/ svPass' = [svPass EXCEPT ![u] = unchecked]
    BY <1>1 DEF BeginServer
  <2>4. checked.verified /\ checked.spec.verify => checked.spec.image \in Signed
    BY ONLY DEF VerifyCosignKeyless
  <2>5. ~ unchecked.verified
    BY ONLY TRUE
  <2> HIDE DEF checked, unchecked
  <2> QED BY <2>1, <2>3, <2>4, <2>5 DEF VerifiedBeforeApply
<1>2. CASE ApplyServer(u)
  <2>1. svPass' = [svPass EXCEPT ![u] = [svPass[u] EXCEPT !.pc = "report"]]
    BY <1>2 DEF ApplyServer
  <2>2. [svPass[u] EXCEPT !.pc = "report"].pc = "report"
    BY ONLY <1>0 DEF SvPassType
  <2>3. \/ UNCHANGED workload
        \/ svPass[u].verified /\ workload' = [workload EXCEPT ![u] = svPass[u].spec.image]
    BY <1>2 DEF ApplyServer, BuildServer
  <2>4. svPass[u].pc = "apply"
    BY <1>2 DEF ApplyServer
  <2> QED BY <2>1, <2>2, <2>3, <2>4 DEF VerifiedBeforeApply
<1>3. CASE ReportServer(u) \/ ServerPassFails(u)
  BY <1>3, RestTypes DEF ReportServer, ServerPassFails, VerifiedBeforeApply
<1> QED BY <1>1, <1>2, <1>3 DEF ServerWork

\* While a server asks for verification, and the pass over it, if one is under way, began
\* after it did, no step of any controller puts an unsigned image into its Deployment,
\* whatever was edited between the verification and the apply.
THEOREM OnlySignedImagesRun == FanSpec => FailClosedForChanges
<1> DEFINE Closed == \A v \in Servers :
                       /\ server[v].spec.verify
                       /\ svPass[v].pc # "idle" => svPass[v].spec.verify
                       => workload'[v] \in {workload[v], NoWork} \cup Signed
<1>1. FanInit => FanTypeOK /\ VerifiedBeforeApply
  <2> SUFFICES ASSUME FanInit PROVE VerifiedBeforeApply
    BY FanInitTypes
  <2> QED BY RestTypes DEF FanInit, VerifiedBeforeApply
<1>2. (FanTypeOK /\ VerifiedBeforeApply) /\ [FanNext]_fanVars
        => (FanTypeOK /\ VerifiedBeforeApply)' /\ Closed
  <2> SUFFICES ASSUME FanTypeOK, VerifiedBeforeApply, [FanNext]_fanVars
               PROVE  VerifiedBeforeApply' /\ Closed
    BY FanTypesStep
  <2>1. CASE UNCHANGED <<svPass, workload>>
    BY <2>1 DEF VerifiedBeforeApply
  <2>2. CASE FanCrash
    BY <2>2, RestTypes DEF FanCrash, VerifiedBeforeApply
  <2>3. \/ UNCHANGED <<svPass, workload>> \/ FanCrash
        \/ \E v \in Servers : ServerWork(v) \/ ServerPassFails(v)
    <3>1. ASSUME NEW g \in Gateways, GatewayWork(g) \/ GatewayPassFails(g) \/ RollPods(g)
          PROVE  UNCHANGED <<svPass, workload>>
      BY <3>1 DEF GatewayWork, BeginGatewayPass, MergeRoutes, MergeServers, ApplyConfigMap,
                  ApplyGatewayDeployment, GatewayPassFails, RollPods, GatewayFrame
    <3>2. ASSUME NEW r \in Routes, \/ RouteWork(r) \/ RoutePassFails(r) \/ DeleteRoute(r)
                                   \/ \E s \in RouteSpecs : SubmitRoute(r, s)
          PROVE  UNCHANGED <<svPass, workload>>
      BY <3>2 DEF RouteWork, BeginRoute, ReportRoute, RoutePassFails, DeleteRoute, SubmitRoute,
                  RouteFrame
    <3>3. ASSUME NEW v \in Servers, DeleteServer(v) \/ \E s \in ServerSpecs : SubmitServer(v, s)
          PROVE  UNCHANGED <<svPass, workload>>
      BY <3>3 DEF DeleteServer, SubmitServer
    <3> QED BY <3>1, <3>2, <3>3
            DEF FanNext, FeederWork, FanUser, ReconcileList, ReviseList, ListFrame, EditGateway,
                FanResync, fanVars
  <2>4. ASSUME NEW u \in Servers, ServerWork(u) \/ ServerPassFails(u)
        PROVE  VerifiedBeforeApply' /\ Closed
    BY <2>4, ServerPassVerifies
  <2> QED BY <2>1, <2>2, <2>3, <2>4
<1>3. Closed => [Closed]_fanVars
  OBVIOUS
<1> QED BY <1>1, <1>2, <1>3, PTL DEF FanSpec, FailClosedForChanges

-----------------------------------------------------------------------------
(* Gateways at rest *)

\* A pass at work, or about to start, will stamp the template again; the list in the pass is
\* the one in force unless another pass is scheduled, and the copy of the list is as new as
\* the pass wherever the apply of the copy does not fail.
Stamping(g) ==
    LET pass == gwPass[g]
        told == <<"gw", g>> \in dirty
        now  == list[gateway[g].list]
    IN  /\ pass.pc # "idle" => told \/ pass.list = now
        /\ pass.pc # "idle" /\ "list error" \notin FanEvents /\ pass.list # 0 => listMap[g] = pass.list
        /\ pass.pc = "deployment" => configMap[g] = pass.config
        /\ pass.pc = "idle" => \/ told
                               \/ /\ stamp[g] = [config |-> configMap[g], list |-> now]
                                  /\ "list error" \notin FanEvents /\ now # 0 => listMap[g] = now

\* What a gateway without a pass has: a pod template that carries the hash of its ConfigMap
\* and of the list in force, and a copy of that list.
StampedAtRest ==
    \A g \in Gateways :
        gwPass[g].pc = "idle" /\ <<"gw", g>> \notin dirty =>
            /\ stamp[g] = [config |-> configMap[g], list |-> list[gateway[g].list]]
            /\ "list error" \notin FanEvents /\ list[gateway[g].list] # 0
                 => listMap[g] = list[gateway[g].list]

\* A step that leaves what is a gateway's own alone keeps that, if it tells the gateway of a
\* new list.
LEMMA StaysStamping ==
    ASSUME NEW g \in Gateways, Stamping(g),
           gwPass'[g] = gwPass[g], configMap'[g] = configMap[g], listMap'[g] = listMap[g],
           stamp'[g] = stamp[g],
           <<"gw", g>> \in dirty => <<"gw", g>> \in dirty',
           \/ <<"gw", g>> \in dirty'
           \/ list'[gateway'[g].list] = list[gateway[g].list]
    PROVE  Stamping(g)'
BY DEF Stamping

\* A pass that ends in an error is tried again.
LEMMA FailedStamping ==
    ASSUME NEW g \in Gateways, gwPass'[g] = GwIdle, <<"gw", g>> \in dirty'
    PROVE  Stamping(g)'
<1>1. GwIdle.pc = "idle"
  BY DEF GwIdle
<1> QED BY <1>1 DEF Stamping

\* A step inside a pass that writes no child.
LEMMA MovesStamping ==
    ASSUME NEW g \in Gateways, Stamping(g),
           gwPass[g].pc \in {"routes", "servers"}, gwPass'[g].pc \in {"servers", "configmap"},
           gwPass'[g].list = gwPass[g].list,
           UNCHANGED <<gateway, list, dirty, listMap>>
    PROVE  Stamping(g)'
BY DEF Stamping

\* The steps of a pass of the gateway controller keep it for their own gateway.
LEMMA OwnPassStamping ==
    ASSUME FanTypeOK, NEW g \in Gateways, Stamping(g), GatewayWork(g) \/ GatewayPassFails(g)
    PROVE  Stamping(g)'
<1> USE DEF FanTypeOK
<1>0. gwPass[g] \in GwPassType /\ gwPass[g].config \in ConfigType
  BY DEF GwPassType
<1>1. CASE BeginGatewayPass(g)
  <2> DEFINE wanted == gateway[g].list
             found  == list[wanted]
             mounts == found # 0 \/ wanted = "default"
             next   == [GwIdle EXCEPT !.pc = "routes", !.spec = gateway[g], !.list = found,
                                      !.mounts = mounts]
  <2>1. gwPass'[g] = next
    BY <1>1 DEF BeginGatewayPass, BuildRevocationConfigMap
  <2> HIDE DEF mounts
  <2>2. next.pc = "routes" /\ next.list = found
    BY ONLY DEF GwIdle
  <2> HIDE DEF next
  <2>3. UNCHANGED <<gateway, list>>
    BY <1>1 DEF BeginGatewayPass, GatewayFrame
  <2>4. "list error" \notin FanEvents /\ found # 0 => listMap'[g] = found
    BY <1>1 DEF BeginGatewayPass, BuildRevocationConfigMap, FanOccurs
  <2> QED BY <2>1, <2>2, <2>3, <2>4 DEF Stamping
<1>2. CASE MergeRoutes(g)
  <2> DEFINE merged(rule) == [gwPass[g] EXCEPT !.pc = "servers",
                                !.config = [gwPass[g].config EXCEPT !.rule = rule]]
  <2>1. \/ gwPass' = [gwPass EXCEPT ![g] = merged(ApplyRoutes(g, gwPass[g].spec))]
        \/ gwPass' = [gwPass EXCEPT ![g] = merged(InlineRule(gwPass[g].spec))]
    BY <1>2, RuleAssigned DEF MergeRoutes
  <2>2. \A rule : merged(rule).pc = "servers" /\ merged(rule).list = gwPass[g].list
    BY ONLY <1>0 DEF GwPassType
  <2> HIDE DEF merged
  <2>3. gwPass[g].pc = "routes" /\ UNCHANGED <<gateway, list, dirty, listMap>>
    BY <1>2 DEF MergeRoutes, GatewayFrame
  <2>4. gwPass'[g].pc = "servers" /\ gwPass'[g].list = gwPass[g].list
    BY <2>1, <2>2
  <2> QED BY <2>3, <2>4, MovesStamping
<1>3. CASE MergeServers(g)
  <2> DEFINE merged(feds) == [gwPass[g] EXCEPT !.pc = "configmap",
                                !.config = [gwPass[g].config EXCEPT !.feds = feds]]
             passed == [gwPass[g] EXCEPT !.pc = "configmap"]
  <2>1. \/ gwPass' = [gwPass EXCEPT ![g] = merged(ApplyServers(g, gwPass[g].spec))]
        \/ gwPass' = [gwPass EXCEPT ![g] = passed]
    BY <1>3 DEF MergeServers
  <2>2. /\ \A feds : merged(feds).pc = "configmap" /\ merged(feds).list = gwPass[g].list
        /\ passed.pc = "configmap" /\ passed.list = gwPass[g].list
    BY ONLY <1>0 DEF GwPassType
  <2> HIDE DEF merged, passed
  <2>3. gwPass[g].pc = "servers" /\ UNCHANGED <<gateway, list, dirty, listMap>>
    BY <1>3 DEF MergeServers, GatewayFrame
  <2>4. gwPass'[g].pc = "configmap" /\ gwPass'[g].list = gwPass[g].list
    BY <2>1, <2>2
  <2> QED BY <2>3, <2>4, MovesStamping
<1>4. CASE ApplyConfigMap(g)
  <2> DEFINE next == [gwPass[g] EXCEPT !.pc = "deployment"]
  <2>1. gwPass'[g] = next /\ configMap'[g] = gwPass[g].config
    BY <1>4 DEF ApplyConfigMap
  <2>2. next.pc = "deployment" /\ next.list = gwPass[g].list /\ next.config = gwPass[g].config
    BY ONLY <1>0 DEF GwPassType
  <2> HIDE DEF next
  <2>3. /\ gwPass[g].pc = "configmap" /\ UNCHANGED <<gateway, list, listMap>>
        /\ dirty \subseteq dirty'
    BY <1>4 DEF ApplyConfigMap, GatewayFrame
  <2> QED BY <2>1, <2>2, <2>3 DEF Stamping
<1>5. CASE ApplyGatewayDeployment(g)
  <2>1. /\ gwPass'[g] = GwIdle /\ gwPass[g].pc = "deployment"
        /\ UNCHANGED <<gateway, list, listMap, configMap>>
    BY <1>5 DEF ApplyGatewayDeployment, GatewayFrame
  <2>2. CASE <<"gw", g>> \in dirty'
    BY <2>1, <2>2, FailedStamping
  <2>3. CASE <<"gw", g>> \notin dirty'
    <3>1. stamp'[g] = [config |-> gwPass[g].config, list |-> gwPass[g].list] /\ dirty' = dirty
      BY <1>5, <2>3 DEF ApplyGatewayDeployment
    <3>2. /\ gwPass[g].list = list[gateway[g].list] /\ configMap[g] = gwPass[g].config
          /\ "list error" \notin FanEvents /\ gwPass[g].list # 0 => listMap[g] = gwPass[g].list
      BY <2>1, <2>3, <3>1 DEF Stamping
    <3>3. gwPass'[g].pc = "idle"
      BY <2>1 DEF GwIdle
    <3> QED BY <2>1, <3>1, <3>2, <3>3 DEF Stamping
  <2> QED BY <2>2, <2>3
<1>6. CASE GatewayPassFails(g)
  <2>1. gwPass'[g] = GwIdle /\ <<"gw", g>> \in dirty'
    BY <1>6 DEF GatewayPassFails
  <2> QED BY <2>1, FailedStamping
<1> QED BY <1>1, <1>2, <1>3, <1>4, <1>5, <1>6 DEF GatewayWork

\* A pass over one gateway, and a rollout, leave every other alone.
LEMMA OtherPassStamping ==
    ASSUME FanTypeOK, NEW g \in Gateways, GatewayWork(g) \/ GatewayPassFails(g) \/ RollPods(g),
           NEW h \in Gateways, h # g \/ RollPods(g), Stamping(h)
    PROVE  Stamping(h)'
<1> USE DEF FanTypeOK
<1>1. CASE RollPods(g)
  <2>1. UNCHANGED <<gateway, list, gwPass, configMap, listMap, stamp>> /\ dirty \subseteq dirty'
    BY <1>1 DEF RollPods
  <2> QED BY <2>1, StaysStamping
<1>2. CASE h # g /\ (GatewayWork(g) \/ GatewayPassFails(g))
  <2>1. UNCHANGED <<gateway, list>>
    BY <1>2 DEF GatewayWork, GatewayPassFails, BeginGatewayPass, MergeRoutes, MergeServers,
                ApplyConfigMap, ApplyGatewayDeployment, GatewayFrame
  <2>2. gwPass'[h] = gwPass[h]
    BY <1>2 DEF GatewayWork, GatewayPassFails, BeginGatewayPass, MergeRoutes, MergeServers,
                ApplyConfigMap, ApplyGatewayDeployment
  <2>3. configMap'[h] = configMap[h] /\ listMap'[h] = listMap[h]
    BY <1>2 DEF GatewayWork, GatewayPassFails, BeginGatewayPass, MergeRoutes, MergeServers,
                ApplyConfigMap, ApplyGatewayDeployment
  <2>4. stamp'[h] = stamp[h]
    BY <1>2 DEF GatewayWork, GatewayPassFails, BeginGatewayPass, MergeRoutes, MergeServers,
                ApplyConfigMap, ApplyGatewayDeployment
  <2>5. <<"gw", h>> \in dirty => <<"gw", h>> \in dirty'
    BY <1>2 DEF GatewayWork, GatewayPassFails, BeginGatewayPass, MergeRoutes, MergeServers,
                ApplyConfigMap, ApplyGatewayDeployment
  <2> QED BY <2>1, <2>2, <2>3, <2>4, <2>5, StaysStamping
<1> QED BY <1>1, <1>2

\* Routes, servers, lists and users leave the pass and the children of a gateway alone; who
\* changes its list, or which list it wants, schedules a pass.
LEMMA AroundStamping ==
    ASSUME FanTypeOK, NEW h \in Gateways, Stamping(h),
           \/ FeederWork \/ FanUser \/ FanCrash \/ FanResync
           \/ \E r \in Routes : RoutePassFails(r)
           \/ \E v \in Servers : ServerPassFails(v)
    PROVE  Stamping(h)'
<1> USE DEF FanTypeOK
<1>0. <<"gw", h>> \in Existing
  BY DEF Existing
<1>1. ASSUME NEW r \in Routes, \/ RouteWork(r) \/ RoutePassFails(r) \/ DeleteRoute(r)
                               \/ \E s \in RouteSpecs : SubmitRoute(r, s)
      PROVE  Stamping(h)'
  <2>1. UNCHANGED <<gateway, list, gwPass, configMap, listMap, stamp>>
    BY <1>1 DEF RouteWork, BeginRoute, ReportRoute, RoutePassFails, DeleteRoute, SubmitRoute,
                RouteFrame
  <2>2. <<"gw", h>> \in dirty => <<"gw", h>> \in dirty'
    BY <1>1 DEF RouteWork, BeginRoute, ReportRoute, RoutePassFails, DeleteRoute, SubmitRoute
  <2> QED BY <2>1, <2>2, StaysStamping
<1>2. ASSUME NEW v \in Servers, \/ ServerWork(v) \/ ServerPassFails(v) \/ DeleteServer(v)
                                \/ \E s \in ServerSpecs : SubmitServer(v, s)
      PROVE  Stamping(h)'
  <2>1. UNCHANGED <<gateway, list, gwPass, configMap, listMap, stamp>>
    BY <1>2 DEF ServerWork, BeginServer, ApplyServer, ReportServer, ServerPassFails,
                DeleteServer, SubmitServer, ServerFrame
  <2>2. <<"gw", h>> \in dirty => <<"gw", h>> \in dirty'
    BY <1>2 DEF ServerWork, BeginServer, ApplyServer, ReportServer, ServerPassFails,
                DeleteServer, SubmitServer
  <2> QED BY <2>1, <2>2, StaysStamping
<1>3. ASSUME NEW l \in Lists, ReconcileList(l) PROVE Stamping(h)'
  <2>1. UNCHANGED <<gateway, list, gwPass, configMap, listMap, stamp>>
    BY <1>3 DEF ReconcileList, ListFrame
  <2>2. <<"gw", h>> \in dirty => <<"gw", h>> \in dirty'
    BY <1>3 DEF ReconcileList
  <2> QED BY <2>1, <2>2, StaysStamping
<1>4. ASSUME NEW l \in Lists, NEW n \in 0 .. MaxVersion, ReviseList(l, n) PROVE Stamping(h)'
  <2>1. UNCHANGED <<gateway, gwPass, configMap, listMap, stamp>> /\ dirty \subseteq dirty'
    BY <1>4 DEF ReviseList, ListFrame
  <2>2. gateway[h].list = l => <<"gw", h>> \in dirty'
    BY <1>4 DEF ReviseList, ListWritten
  <2>3. gateway[h].list # l => list'[gateway[h].list] = list[gateway[h].list]
    BY <1>4 DEF ReviseList
  <2> QED BY <2>1, <2>2, <2>3, StaysStamping
<1>5. ASSUME NEW g \in Gateways, NEW s \in GatewaySpecs, EditGateway(g, s) PROVE Stamping(h)'
  <2>1. /\ UNCHANGED <<list, gwPass, configMap, listMap, stamp>>
        /\ dirty' = dirty \cup {<<"gw", g>>}
        /\ h # g => gateway'[h] = gateway[h]
    BY <1>5 DEF EditGateway
  <2> QED BY <2>1, StaysStamping
<1>6. CASE FanCrash
  <2>1. gwPass'[h] = GwIdle /\ <<"gw", h>> \in dirty'
    BY <1>0, <1>6 DEF FanCrash
  <2> QED BY <2>1, FailedStamping
<1>7. CASE FanResync
  <2>1. /\ UNCHANGED <<gateway, list, gwPass, configMap, listMap, stamp>>
        /\ <<"gw", h>> \in dirty'
    BY <1>0, <1>7 DEF FanResync
  <2> QED BY <2>1, StaysStamping
<1> QED BY <1>1, <1>2, <1>3, <1>4, <1>5, <1>6, <1>7 DEF FeederWork, FanUser

\* A gateway with no pass under way and none scheduled has the hashes of its ConfigMap and of
\* the revocation list in force on its pod template, whatever changed between the read of the
\* list and the apply of the Deployment: no revocation is lost to a pass that was already
\* running.  Its own copy of the list is the one in force too, unless an apply of the copy
\* failed, which the pass does not report.
THEOREM RevocationStampedAtRest == FanSpec => []StampedAtRest
<1> DEFINE Inv == FanTypeOK /\ \A g \in Gateways : Stamping(g)
<1>1. FanInit => Inv
  <2> SUFFICES ASSUME FanInit, NEW g \in Gateways PROVE Stamping(g)
    BY FanInitTypes
  <2>1. <<"gw", g>> \in dirty /\ gwPass[g].pc = "idle"
    BY DEF FanInit, Existing, GwIdle
  <2> QED BY <2>1 DEF Stamping
<1>2. Inv /\ [FanNext]_fanVars => Inv'
  <2> SUFFICES ASSUME FanTypeOK, \A g \in Gateways : Stamping(g), [FanNext]_fanVars,
                      NEW h \in Gateways
               PROVE  Stamping(h)'
    BY FanTypesStep
  <2>1. ASSUME NEW g \in Gateways, GatewayWork(g) \/ GatewayPassFails(g) \/ RollPods(g)
        PROVE  Stamping(h)'
    BY <2>1, OwnPassStamping, OtherPassStamping
  <2>2. CASE UNCHANGED fanVars
    BY <2>2, StaysStamping DEF fanVars
  <2> QED BY <2>1, <2>2, AroundStamping DEF FanNext
<1>3. Inv => StampedAtRest
  BY DEF Stamping, StampedAtRest
<1> QED BY <1>1, <1>2, <1>3, PTL DEF FanSpec

-----------------------------------------------------------------------------
(* Servers at rest *)

\* The server controller would run a spec: it is not to be verified, or it is signed.
MayRun(s) == s.verify => s.pinned /\ VerifyCosignKeyless(s.image)

Runs(v, s) == MayRun(s) => workload[v] = BuildServer(s)

\* Nothing runs for a server that is gone; a live one without a pass runs what its spec says
\* now, if that may run and no request fails.
ServedAtRest ==
    \A v \in Servers :
        /\ server[v].phase = "absent" => workload[v] = NoWork
        /\ /\ "error" \notin FanEvents
           /\ server[v].phase = "live" /\ svPass[v].pc = "idle" /\ <<"sv", v>> \notin dirty
           => Runs(v, server[v].spec)

\* What makes that inductive: a server goes only between two passes, and a pass at work
\* carries the spec in force and its verdict unless another pass is scheduled.
Serving(v) ==
    LET told == <<"sv", v>> \in dirty
        pass == svPass[v]
    IN  /\ server[v].phase = "absent" => workload[v] = NoWork /\ pass.pc = "idle"
        /\ server[v].phase = "live" /\ "error" \notin FanEvents =>
             /\ pass.pc = "apply" => /\ told \/ pass.spec = server[v].spec
                                     /\ MayRun(pass.spec) => pass.verified
             /\ pass.pc # "apply" => told \/ Runs(v, server[v].spec)

\* A step that leaves the server, its pass and its workload alone keeps that.
LEMMA StaysServing ==
    ASSUME NEW v \in Servers, Serving(v),
           server'[v] = server[v], svPass'[v] = svPass[v], workload'[v] = workload[v],
           <<"sv", v>> \in dirty => <<"sv", v>> \in dirty'
    PROVE  Serving(v)'
<1>1. \A s : Runs(v, s)' = Runs(v, s) /\ MayRun(s)' = MayRun(s)
  BY DEF Runs, MayRun, VerifyCosignKeyless, BuildServer
<1> QED BY <1>1 DEF Serving

\* The steps of a pass keep it for their own server.
LEMMA OwnPassServing ==
    ASSUME FanTypeOK, NEW v \in Servers, Serving(v), ServerWork(v) \/ ServerPassFails(v)
    PROVE  Serving(v)'
<1> USE DEF FanTypeOK
<1>0. svPass[v] \in SvPassType /\ server[v] \in ServerType
  OBVIOUS
<1>a. \A s : MayRun(s)' = MayRun(s)
  BY DEF MayRun, VerifyCosignKeyless
<1>1. CASE BeginServer(v)
  <2> DEFINE s == server[v].spec
             judged(b) == [pc |-> "apply", spec |-> s, verified |-> b]
  <2>1. CASE server[v].phase = "deleting"
    <3>1. \/ /\ server' = [server EXCEPT ![v].phase = "absent"]
             /\ workload' = [workload EXCEPT ![v] = NoWork] /\ UNCHANGED svPass
          \/ UNCHANGED <<server, dirty, workload, svPass>>
      BY <1>1, <2>1 DEF BeginServer
    <3>2. CASE UNCHANGED <<server, dirty, workload, svPass>>
      BY <3>2, StaysServing
    <3>3. CASE /\ server' = [server EXCEPT ![v].phase = "absent"]
               /\ workload' = [workload EXCEPT ![v] = NoWork] /\ UNCHANGED svPass
      <4>1. server'[v] = [server[v] EXCEPT !.phase = "absent"] /\ workload'[v] = NoWork
        BY <3>3
      <4>2. server'[v].phase = "absent"
        BY ONLY <1>0, <4>1 DEF ServerType
      <4>3. svPass'[v].pc = "idle"
        BY <1>1, <3>3 DEF BeginServer
      <4> QED BY <4>1, <4>2, <4>3 DEF Serving
    <3> QED BY <3>1, <3>2, <3>3
  <2>2. CASE server[v].phase # "deleting"
    <3>1. PICK b : /\ svPass' = [svPass EXCEPT ![v] = judged(b)]
                   /\ "error" \notin FanEvents => (MayRun(s) => b)
      BY <1>1, <2>2 DEF BeginServer, FanOccurs, MayRun
    <3>2. judged(b).pc = "apply" /\ judged(b).spec = s /\ judged(b).verified = b
      BY ONLY TRUE
    <3>3. svPass'[v] = judged(b)
      BY <3>1
    <3> HIDE DEF judged
    <3>4. server'[v] = [server[v] EXCEPT !.phase = "live"]
      BY <1>1, <2>2 DEF BeginServer
    <3>5. server'[v].phase = "live" /\ server'[v].spec = s
      BY ONLY <1>0, <3>4 DEF ServerType
    <3> HIDE DEF s
    <3> QED BY <1>a, <3>1, <3>2, <3>3, <3>5 DEF Serving
  <2> QED BY <2>1, <2>2
<1>2. CASE ApplyServer(v)
  <2> DEFINE next == [svPass[v] EXCEPT !.pc = "report"]
  <2>1. svPass'[v] = next /\ svPass[v].pc = "apply" /\ UNCHANGED server /\ dirty \subseteq dirty'
    BY <1>2 DEF ApplyServer, ServerFrame
  <2>2. next.pc = "report"
    BY ONLY <1>0 DEF SvPassType
  <2> HIDE DEF next
  <2>3. svPass[v].verified => workload'[v] = BuildServer(svPass[v].spec)
    BY <1>2 DEF ApplyServer
  <2>4. \A s : s = svPass[v].spec /\ (MayRun(s) => svPass[v].verified) => Runs(v, s)'
    BY <1>a, <2>3 DEF Runs, BuildServer
  <2> QED BY <2>1, <2>2, <2>4 DEF Serving
<1>3. CASE ReportServer(v) \/ ServerPassFails(v)
  <2>1. svPass'[v] = SvIdle /\ UNCHANGED <<server, workload>> /\ dirty \subseteq dirty'
    BY <1>3 DEF ReportServer, ServerPassFails
  <2>2. "error" \notin FanEvents => svPass[v].pc = "report"
    BY <1>3 DEF ReportServer, ServerPassFails, FanOccurs
  <2>3. svPass'[v].pc = "idle"
    BY <2>1, RestTypes
  <2>4. \A s : Runs(v, s)' = Runs(v, s)
    BY <2>1 DEF Runs, MayRun, VerifyCosignKeyless, BuildServer
  <2> QED BY <2>1, <2>2, <2>3, <2>4 DEF Serving
<1> QED BY <1>1, <1>2, <1>3 DEF ServerWork

\* A pass over one server leaves every other alone.
LEMMA OtherPassServing ==
    ASSUME FanTypeOK, NEW u \in Servers, NEW v \in Servers, u # v, Serving(v),
           \/ ServerWork(u) \/ ServerPassFails(u) \/ DeleteServer(u)
           \/ \E s \in ServerSpecs : SubmitServer(u, s)
    PROVE  Serving(v)'
<1> USE DEF FanTypeOK
<1>1. server'[v] = server[v]
  BY DEF ServerWork, BeginServer, ApplyServer, ReportServer, ServerPassFails, DeleteServer,
         SubmitServer
<1>2. svPass'[v] = svPass[v] /\ workload'[v] = workload[v]
  BY DEF ServerWork, BeginServer, ApplyServer, ReportServer, ServerPassFails, DeleteServer,
         SubmitServer
<1>3. <<"sv", v>> \in dirty => <<"sv", v>> \in dirty'
  BY DEF ServerWork, BeginServer, ApplyServer, ReportServer, ServerPassFails, DeleteServer,
         SubmitServer
<1> QED BY <1>1, <1>2, <1>3, StaysServing

\* A user's write of the server asks for a pass, and finds none at work on an absent one.
LEMMA WrittenServing ==
    ASSUME FanTypeOK, NEW v \in Servers, Serving(v),
           DeleteServer(v) \/ \E s \in ServerSpecs : SubmitServer(v, s)
    PROVE  Serving(v)'
<1> USE DEF FanTypeOK
<1>0. server[v] \in ServerType
  OBVIOUS
<1>1. CASE DeleteServer(v)
  <2>1. server'[v] = [server[v] EXCEPT !.phase = "deleting"]
    BY <1>1 DEF DeleteServer
  <2>2. server'[v].phase = "deleting"
    BY ONLY <1>0, <2>1 DEF ServerType
  <2> QED BY <2>2 DEF Serving
<1>2. ASSUME NEW s \in ServerSpecs, SubmitServer(v, s) PROVE Serving(v)'
  <2> DEFINE phase  == IF server[v].phase = "absent" THEN "new" ELSE server[v].phase
             stored == [server[v] EXCEPT !.spec = s, !.phase = phase]
  <2>1. server'[v] = stored /\ UNCHANGED svPass /\ <<"sv", v>> \in dirty'
    BY <1>2 DEF SubmitServer
  <2>2. stored.phase = phase
    BY ONLY <1>0 DEF ServerType
  <2> HIDE DEF stored
  <2>3. server'[v].phase # "absent" /\ (server'[v].phase = "live" => server[v].phase = "live")
    BY <2>1, <2>2
  <2>4. \A t : MayRun(t)' = MayRun(t)
    BY DEF MayRun, VerifyCosignKeyless
  <2> QED BY <2>1, <2>3, <2>4 DEF Serving
<1> QED BY <1>1, <1>2

\* A server that is deleted and gone runs nothing, although passes over it read its spec,
\* ask a registry and apply the workload much later; and a live server without a pass runs
\* what its spec says now, whatever edits and restarts came between the verification and the
\* apply, as long as no request fails (a registry that cannot be reached counts as a failed
\* verification, and the old workload stays until the resync).
THEOREM ServersServedAtRest == FanSpec => []ServedAtRest
<1> DEFINE Inv == FanTypeOK /\ \A v \in Servers : Serving(v)
<1>1. FanInit => Inv
  <2> SUFFICES ASSUME FanInit, NEW v \in Servers PROVE Serving(v)
    BY FanInitTypes
  <2>1. svPass[v].pc = "idle" /\ workload[v] = NoWork
    BY RestTypes DEF FanInit
  <2>2. server[v].phase = "live" => <<"sv", v>> \in dirty
    BY DEF FanInit, Existing
  <2> QED BY <2>1, <2>2 DEF Serving
<1>2. Inv /\ [FanNext]_fanVars => Inv'
  <2> SUFFICES ASSUME FanTypeOK, \A v \in Servers : Serving(v), [FanNext]_fanVars,
                      NEW v \in Servers
               PROVE  Serving(v)'
    BY FanTypesStep
  <2>1. ASSUME NEW u \in Servers, \/ ServerWork(u) \/ ServerPassFails(u) \/ DeleteServer(u)
                                  \/ \E s \in ServerSpecs : SubmitServer(u, s)
        PROVE  Serving(v)'
    BY <2>1, OwnPassServing, WrittenServing, OtherPassServing
  <2>2. CASE FanCrash
    <3>1. UNCHANGED <<server, workload>> /\ svPass'[v].pc = "idle" /\ dirty' = Existing
      BY <2>2, RestTypes DEF FanCrash
    <3>2. server'[v].phase = "live" => <<"sv", v>> \in dirty'
      BY <3>1 DEF Existing
    <3> QED BY <3>1, <3>2 DEF Serving
  <2>3. CASE FanResync
    <3>1. UNCHANGED <<server, workload, svPass>> /\ dirty' = Existing
      BY <2>3 DEF FanResync
    <3>2. server[v].phase # "absent" => <<"sv", v>> \in dirty'
      BY <3>1 DEF Existing
    <3>3. <<"sv", v>> \notin dirty
      BY <2>3 DEF FanResync
    <3> QED BY <3>1, <3>2, <3>3, StaysServing
  <2>4. ASSUME UNCHANGED <<server, svPass, workload>>,
               <<"sv", v>> \in dirty => <<"sv", v>> \in dirty'
        PROVE  Serving(v)'
    BY <2>4, StaysServing
  <2>5. ASSUME NEW g \in Gateways, GatewayWork(g) \/ GatewayPassFails(g) \/ RollPods(g)
        PROVE  Serving(v)'
    <3>1. UNCHANGED <<server, svPass, workload>>
      BY <2>5 DEF GatewayWork, BeginGatewayPass, MergeRoutes, MergeServers, ApplyConfigMap,
                  ApplyGatewayDeployment, GatewayPassFails, RollPods, GatewayFrame
    <3>2. <<"sv", v>> \in dirty => <<"sv", v>> \in dirty'
      BY <2>5 DEF GatewayWork, BeginGatewayPass, MergeRoutes, MergeServers, ApplyConfigMap,
                  ApplyGatewayDeployment, GatewayPassFails, RollPods
    <3> QED BY <2>4, <3>1, <3>2
  <2>6. ASSUME NEW r \in Routes, \/ RouteWork(r) \/ RoutePassFails(r) \/ DeleteRoute(r)
                                 \/ \E s \in RouteSpecs : SubmitRoute(r, s)
        PROVE  Serving(v)'
    <3>1. UNCHANGED <<server, svPass, workload>>
      BY <2>6 DEF RouteWork, BeginRoute, ReportRoute, RoutePassFails, DeleteRoute, SubmitRoute,
                  RouteFrame
    <3>2. <<"sv", v>> \in dirty => <<"sv", v>> \in dirty'
      BY <2>6 DEF RouteWork, BeginRoute, ReportRoute, RoutePassFails, DeleteRoute, SubmitRoute
    <3> QED BY <2>4, <3>1, <3>2
  <2>7. ASSUME NEW l \in Lists, ReconcileList(l) \/ \E n \in 0 .. MaxVersion : ReviseList(l, n)
        PROVE  Serving(v)'
    <3>1. UNCHANGED <<server, svPass, workload>>
      BY <2>7 DEF ReconcileList, ReviseList, ListFrame
    <3>2. <<"sv", v>> \in dirty => <<"sv", v>> \in dirty'
      BY <2>7 DEF ReconcileList, ReviseList
    <3> QED BY <2>4, <3>1, <3>2
  <2>8. ASSUME NEW g \in Gateways, NEW s \in GatewaySpecs, EditGateway(g, s) PROVE Serving(v)'
    <3>1. UNCHANGED <<server, svPass, workload>> /\ dirty \subseteq dirty'
      BY <2>8 DEF EditGateway
    <3> QED BY <2>4, <3>1
  <2>9. CASE UNCHANGED fanVars
    BY <2>4, <2>9 DEF fanVars
  <2> QED BY <2>1, <2>2, <2>3, <2>5, <2>6, <2>7, <2>8, <2>9 DEF FanNext, FeederWork, FanUser
<1>3. Inv => ServedAtRest
  BY DEF Serving, ServedAtRest
<1> QED BY <1>1, <1>2, <1>3, PTL DEF FanSpec

=============================================================================
