------------------------ MODULE PluginPipelineProofs ------------------------
(***************************************************************************)
(* What the plugin pipeline guarantees for every set of plugins and        *)
(* artefacts and every number of events: type correctness, that only       *)
(* verified bytes are mounted, that a revocation blocks every pass begun   *)
(* after it, that the resolved ConfigMap names only Secrets that exist,    *)
(* that everything agrees once the controllers are at rest, and that the   *)
(* three controllers together implement the hand-over of verified bytes.   *)
(***************************************************************************)
EXTENDS PluginPipeline, TLAPS

-----------------------------------------------------------------------------
(* Who changes what *)

\* The plugin controller writes only its own objects, its Secrets and the set's
\* dirty flag.
LEMMA PluginOnly ==
    ASSUME NEW p \in Plugins, PluginStep(p) \/ PluginFault(p)
    PROVE  UNCHANGED <<setObject, setPass, gwDirty, gateway>>
BY DEF PluginStep, PluginFault, ReleasePlugin, BeginPull, Pull, VerifyPasses, VerifyRevoked,
       VerifyRejects, Store, ReportPlugin, PullFails, PluginPassErrs, PluginFrame,
       setObject, setPass, gateway

\* The set controller and the garbage collector read plugins and leave them alone.
LEMMA SetOnly ==
    ASSUME SetStep \/ SetFault \/ CollectGarbage
    PROVE  UNCHANGED <<pluginObject, revoked, opSecrets, pluginPass, entries, gateway>>
BY DEF SetStep, SetFault, ReleaseSet, BeginSet, EnsureBinding, Render, Prune, ReportSet,
       ResolveEntry, CopyEntry, SetPassErrs, LookupFails, CollectGarbage, SetFrame,
       pluginObject, pluginPass, setPass, setObject, gateway

\* The gateway controller changes no object of the others.
LEMMA GatewayOnly ==
    ASSUME GatewayStep \/ GatewayErrs
    PROVE  UNCHANGED <<pluginObject, revoked, opSecrets, pluginPass, setObject, setDirty, setPass>>
BY DEF GatewayStep, BeginGateway, ReadConfig, ApplyGateway, GatewayErrs, GwFrame,
       pluginObject, pluginPass, setPass, setObject, gateway

\* A resync only sets a dirty flag.
LEMMA ResyncOnly ==
    ASSUME Resync
    PROVE  UNCHANGED <<pluginObject, revoked, opSecrets, plugPc, pulling, pulled, throughout,
                       setObject, setPass, gateway>>
BY DEF Resync, ResyncSet, ResyncGateway, ResyncPlugin, pluginObject, pluginPass, setPass,
       setObject, gateway

\* A user changes specifications and lifecycles, never a status or a child object.
LEMMA UserOnly ==
    ASSUME UserStep
    PROVE  UNCHANGED <<ready, secretName, bySha, opSecrets, plugPc, pulling, pulled,
                       setReady, copies, config, setPass, gateway>>
BY DEF UserStep, EditPlugin, DeletePlugin, Repush, EditRevocations, EditEntries, DeleteSet,
       pluginObject, pluginPass, setPass, setObject, gateway

-----------------------------------------------------------------------------
(* Types *)

\* The plugin controller keeps the types of plugins and of its passes.
LEMMA PluginTypesStep == TypeOK /\ [Next]_vars => PluginTypes'
<1> SUFFICES ASSUME TypeOK, [Next]_vars PROVE PluginTypes'
  OBVIOUS
<1> USE PipelineAssumption
<1> USE DEF PluginTypes, Generations, Secrets, Phases, pluginObject, pluginPass
<1>0. PluginTypes
  BY DEF TypeOK
<1>1. ASSUME NEW p \in Plugins, PluginStep(p) \/ PluginFault(p) PROVE PluginTypes'
  <2> USE <1>0 DEF PluginFrame, PluginMoves, PluginDone, StatusUntouched, WriteStatus,
                   PatchPluginStatus
  <2>1. CASE ReleasePlugin(p)  BY <2>1 DEF ReleasePlugin
  <2>2. CASE BeginPull(p)      BY <2>2 DEF BeginPull
  <2>3. CASE Pull(p)           BY <2>3 DEF Pull
  <2>4. CASE VerifyPasses(p)   BY <2>4 DEF VerifyPasses
  <2>5. CASE VerifyRevoked(p)  BY <2>5 DEF VerifyRevoked
  <2>6. CASE VerifyRejects(p)  BY <2>6 DEF VerifyRejects
  <2>7. CASE Store(p)          BY <2>7 DEF Store
  <2>8. CASE ReportPlugin(p)   BY <2>8 DEF ReportPlugin
  <2>9. CASE PullFails(p)      BY <2>9 DEF PullFails
  <2>10. CASE PluginPassErrs(p) BY <2>10 DEF PluginPassErrs
  <2> QED BY <1>1, <2>1, <2>2, <2>3, <2>4, <2>5, <2>6, <2>7, <2>8, <2>9, <2>10
          DEF PluginStep, PluginFault
<1>2. CASE SetStep \/ SetFault \/ CollectGarbage
  BY <1>0, <1>2, SetOnly
<1>3. CASE GatewayStep \/ GatewayErrs
  BY <1>0, <1>3, GatewayOnly
<1>4. CASE UserStep
  <2>1. ASSUME NEW p \in Plugins, EditPlugin(p) PROVE PluginTypes'
    BY <1>0, <2>1 DEF EditPlugin
  <2>2. ASSUME NEW p \in Plugins, DeletePlugin(p) PROVE PluginTypes'
    BY <1>0, <2>2 DEF DeletePlugin, Deleted
  <2>3. ASSUME NEW p \in Plugins, NEW g \in Generations, NEW a \in Artefacts, Repush(p, g, a)
        PROVE PluginTypes'
    BY <1>0, <2>3 DEF Repush
  <2>4. ASSUME NEW list \in SUBSET Artefacts, EditRevocations(list) PROVE PluginTypes'
    BY <1>0, <2>4 DEF EditRevocations
  <2>5. ASSUME NEW listed \in SUBSET Plugins, EditEntries(listed) PROVE PluginTypes'
    BY <1>0, <2>5 DEF EditEntries
  <2>6. CASE DeleteSet
    BY <1>0, <2>6 DEF DeleteSet
  <2> QED BY <1>4, <2>1, <2>2, <2>3, <2>4, <2>5, <2>6 DEF UserStep
<1>5. CASE Crash
  BY <1>0, <1>5 DEF Crash
<1>6. CASE Resync
  BY <1>0, <1>6 DEF Resync, ResyncSet, ResyncGateway, ResyncPlugin
<1>7. CASE UNCHANGED vars
  BY <1>0, <1>7 DEF vars
<1> QED BY <1>1, <1>2, <1>3, <1>4, <1>5, <1>6, <1>7 DEF Next

\* The set controller keeps the types of the set, its children and its passes.
LEMMA SetTypesStep == TypeOK /\ [Next]_vars => SetTypes'
<1> SUFFICES ASSUME TypeOK, [Next]_vars PROVE SetTypes'
  OBVIOUS
<1> USE DEF SetTypes, Secrets, Phases, setObject, setPass
<1>0. SetTypes /\ PluginTypes
  BY DEF TypeOK
<1>1. ASSUME NEW p \in Plugins, PluginStep(p) \/ PluginFault(p) PROVE SetTypes'
  BY <1>0, <1>1, PluginOnly
<1>2. CASE SetStep \/ SetFault \/ CollectGarbage
  <2> USE <1>0 DEF SetFrame
  <2>1. CASE ReleaseSet     BY <2>1 DEF ReleaseSet
  <2>2. CASE BeginSet       BY <2>2 DEF BeginSet
  <2>3. CASE EnsureBinding  BY <2>3 DEF EnsureBinding
  <2>4. CASE Render         BY <2>4 DEF Render
  <2>5. CASE Prune          BY <2>5 DEF Prune
  <2>6. CASE ReportSet      BY <2>6 DEF ReportSet
  <2>7. ASSUME NEW p \in Plugins, ResolveEntry(p) PROVE SetTypes'
    BY <2>7 DEF ResolveEntry, Resolvable, PluginTypes
  <2>8. ASSUME NEW p \in Plugins, CopyEntry(p) PROVE SetTypes'
    BY <2>8 DEF CopyEntry
  <2>9. CASE SetPassErrs    BY <2>9 DEF SetPassErrs
  <2>10. ASSUME NEW p \in Plugins, LookupFails(p) PROVE SetTypes'
    BY <2>10 DEF LookupFails
  <2>11. CASE CollectGarbage BY <2>11 DEF CollectGarbage
  <2> QED BY <1>2, <2>1, <2>2, <2>3, <2>4, <2>5, <2>6, <2>7, <2>8, <2>9, <2>10, <2>11
          DEF SetStep, SetFault
<1>3. CASE GatewayStep \/ GatewayErrs
  BY <1>0, <1>3, GatewayOnly
<1>4. CASE UserStep
  BY <1>0, <1>4 DEF UserStep, EditPlugin, DeletePlugin, Repush, EditRevocations, EditEntries,
                    DeleteSet, Deleted
<1>5. CASE Crash
  BY <1>0, <1>5 DEF Crash
<1>6. CASE Resync
  BY <1>0, <1>6, ResyncOnly
<1>7. CASE UNCHANGED vars
  BY <1>0, <1>7 DEF vars
<1> QED BY <1>1, <1>2, <1>3, <1>4, <1>5, <1>6, <1>7 DEF Next

\* The gateway controller keeps the types of what it mounts.
LEMMA GatewayTypesStep == TypeOK /\ [Next]_vars => GatewayTypes'
<1> SUFFICES ASSUME TypeOK, [Next]_vars PROVE GatewayTypes'
  OBVIOUS
<1> USE DEF GatewayTypes, gateway
<1>0. GatewayTypes /\ SetTypes
  BY DEF TypeOK
<1>1. ASSUME NEW p \in Plugins, PluginStep(p) \/ PluginFault(p) PROVE GatewayTypes'
  BY <1>0, <1>1, PluginOnly
<1>2. CASE SetStep \/ SetFault \/ CollectGarbage
  BY <1>0, <1>2, SetOnly
<1>3. CASE GatewayStep \/ GatewayErrs
  BY <1>0, <1>3 DEF SetTypes, GatewayStep, BeginGateway, ReadConfig, ApplyGateway, GatewayErrs
<1>4. CASE UserStep
  BY <1>0, <1>4, UserOnly
<1>5. CASE Crash
  BY <1>0, <1>5 DEF Crash
<1>6. CASE Resync
  BY <1>0, <1>6, ResyncOnly
<1>7. CASE UNCHANGED vars
  BY <1>0, <1>7 DEF vars
<1> QED BY <1>1, <1>2, <1>3, <1>4, <1>5, <1>6, <1>7 DEF Next

\* Scalar flags stay Boolean.
LEMMA FlagTypesStep == TypeOK /\ [Next]_vars => FlagTypes'
<1> SUFFICES ASSUME TypeOK, [Next]_vars PROVE FlagTypes'
  OBVIOUS
<1>0. FlagTypes
  BY DEF TypeOK
<1> USE <1>0 DEF FlagTypes
<1>1. ASSUME NEW p \in Plugins, PluginStep(p) \/ PluginFault(p) PROVE FlagTypes'
  <2>1. UNCHANGED <<setReady, failed, gwDirty>>
    BY <1>1, PluginOnly DEF setObject, setPass
  <2>2. setDirty' = setDirty \/ setDirty' = TRUE
    BY <1>1 DEF PluginStep, PluginFault, ReleasePlugin, BeginPull, Pull, VerifyPasses,
                VerifyRevoked, VerifyRejects, Store, ReportPlugin, PullFails, PluginPassErrs,
                StatusUntouched, WriteStatus, PatchPluginStatus
  <2> QED BY <2>1, <2>2
<1>2. CASE SetStep \/ SetFault \/ CollectGarbage
  BY <1>2 DEF SetStep, SetFault, ReleaseSet, BeginSet, EnsureBinding, Render, Prune, ReportSet,
              ResolveEntry, CopyEntry, SetPassErrs, LookupFails, CollectGarbage, setPass
<1>3. CASE GatewayStep \/ GatewayErrs
  BY <1>3 DEF GatewayStep, BeginGateway, ReadConfig, ApplyGateway, GatewayErrs, GwFrame,
              setPass, setObject
<1>4. CASE UserStep
  BY <1>4 DEF UserStep, EditPlugin, DeletePlugin, Repush, EditRevocations, EditEntries, DeleteSet,
              setPass, setObject
<1>5. CASE Crash
  BY <1>5 DEF Crash, setObject
<1>6. CASE Resync
  BY <1>6 DEF Resync, ResyncSet, ResyncGateway, ResyncPlugin, setPass, setObject
<1>7. CASE UNCHANGED vars
  BY <1>7 DEF vars, setPass, setObject
<1> QED BY <1>1, <1>2, <1>3, <1>4, <1>5, <1>6, <1>7 DEF Next

\* An event is counted, and nothing else touches the count.
LEMMA EventsStep ==
    TypeOK /\ [Next]_vars => happened' \in [count : 0 .. MaxEvents, erred : BOOLEAN]
<1> SUFFICES ASSUME TypeOK, [Next]_vars
             PROVE  happened' \in [count : 0 .. MaxEvents, erred : BOOLEAN]
  OBVIOUS
<1> DEFINE Counted == happened' = happened \/ \E kind \in EventKinds : Happens(kind)
<1>1. Counted
  <2>1. ASSUME NEW p \in Plugins, PluginStep(p) \/ PluginFault(p) PROVE Counted
    BY <2>1 DEF PluginStep, PluginFault, ReleasePlugin, BeginPull, Pull, VerifyPasses,
                VerifyRevoked, VerifyRejects, Store, ReportPlugin, PullFails, PluginPassErrs,
                WriteStatus, EventKinds
  <2>2. CASE SetStep \/ SetFault \/ CollectGarbage
    BY <2>2 DEF SetStep, SetFault, ReleaseSet, BeginSet, EnsureBinding, Render, Prune, ReportSet,
                ResolveEntry, CopyEntry, SetPassErrs, LookupFails, CollectGarbage, EventKinds
  <2>3. CASE GatewayStep \/ GatewayErrs
    BY <2>3 DEF GatewayStep, BeginGateway, ReadConfig, ApplyGateway, GatewayErrs, EventKinds
  <2>4. CASE UserStep
    BY <2>4 DEF UserStep, EditPlugin, DeletePlugin, Repush, EditRevocations, EditEntries,
                DeleteSet, EventKinds
  <2>5. CASE Crash
    BY <2>5 DEF Crash, EventKinds
  <2>6. CASE Resync
    BY <2>6 DEF Resync, ResyncSet, ResyncGateway, ResyncPlugin
  <2>7. CASE UNCHANGED vars
    BY <2>7 DEF vars
  <2> QED BY <2>1, <2>2, <2>3, <2>4, <2>5, <2>6, <2>7 DEF Next
<1>2. ASSUME NEW kind, Happens(kind)
      PROVE  happened' \in [count : 0 .. MaxEvents, erred : BOOLEAN]
  BY <1>2, PipelineAssumption DEF TypeOK, Happens
<1> QED BY <1>1, <1>2 DEF TypeOK

\* Type correctness of the three controllers and their environment.
THEOREM TypeCorrect == Spec => []TypeOK
<1>1. Init => TypeOK
  <2> SUFFICES ASSUME Init PROVE TypeOK
    OBVIOUS
  <2>1. PluginTypes
    BY PipelineAssumption DEF Init, PluginTypes, Generations, Secrets, Phases
  <2>2. SetTypes /\ GatewayTypes
    BY DEF Init, SetTypes, GatewayTypes, Secrets, Phases
  <2>3. FlagTypes
    BY Zenon DEF Init, FlagTypes
  <2>4. happened \in [count : 0 .. MaxEvents, erred : BOOLEAN]
    BY PipelineAssumption DEF Init
  <2> QED BY <2>1, <2>2, <2>3, <2>4 DEF TypeOK
<1>2. TypeOK /\ [Next]_vars => TypeOK'
  BY PluginTypesStep, SetTypesStep, GatewayTypesStep, FlagTypesStep, EventsStep DEF TypeOK
<1> QED BY <1>1, <1>2, PTL DEF Spec

-----------------------------------------------------------------------------
(* Revocation *)

\* The list that a pass saw throughout only shrinks, and stays part of the list.
LEMMA RevocationStep == TypeOK /\ RevocationInv /\ [Next]_vars => RevocationInv'
<1> SUFFICES ASSUME TypeOK, RevocationInv, [Next]_vars PROVE RevocationInv'
  OBVIOUS
<1> USE DEF RevocationInv, RevokedNeverStored
<1>0. PluginTypes
  BY DEF TypeOK
<1> USE <1>0 DEF PluginTypes
<1>1. ASSUME NEW p \in Plugins, PluginStep(p) \/ PluginFault(p) PROVE RevocationInv'
  <2> USE DEF PluginFrame, PluginMoves, PluginDone
  <2>1. CASE ReleasePlugin(p)  BY <2>1 DEF ReleasePlugin
  <2>2. CASE BeginPull(p)      BY <2>2 DEF BeginPull
  <2>3. CASE Pull(p)           BY <2>3 DEF Pull
  <2>4. CASE VerifyPasses(p)   BY <2>4 DEF VerifyPasses
  <2>5. CASE VerifyRevoked(p)  BY <2>5 DEF VerifyRevoked
  <2>6. CASE VerifyRejects(p)  BY <2>6 DEF VerifyRejects
  <2>7. CASE Store(p)          BY <2>7 DEF Store
  <2>8. CASE ReportPlugin(p)   BY <2>8 DEF ReportPlugin
  <2>9. CASE PullFails(p)      BY <2>9 DEF PullFails
  <2>10. CASE PluginPassErrs(p) BY <2>10 DEF PluginPassErrs
  <2> QED BY <1>1, <2>1, <2>2, <2>3, <2>4, <2>5, <2>6, <2>7, <2>8, <2>9, <2>10
          DEF PluginStep, PluginFault
<1>2. CASE SetStep \/ SetFault \/ CollectGarbage
  BY <1>2, SetOnly DEF pluginPass
<1>3. CASE GatewayStep \/ GatewayErrs
  BY <1>3, GatewayOnly DEF pluginPass
<1>4. CASE UserStep
  <2>1. ASSUME NEW list \in SUBSET Artefacts, EditRevocations(list) PROVE RevocationInv'
    BY <2>1 DEF EditRevocations
  <2>2. CASE UNCHANGED <<revoked, plugPc, pulled, throughout>>
    BY <2>2
  <2> QED BY <1>4, <2>1, <2>2
          DEF UserStep, EditPlugin, DeletePlugin, Repush, EditEntries, DeleteSet, pluginPass
<1>5. CASE Crash
  BY <1>5 DEF Crash
<1>6. CASE Resync
  BY <1>6, ResyncOnly
<1>7. CASE UNCHANGED vars
  BY <1>7 DEF vars, pluginPass
<1> QED BY <1>1, <1>2, <1>3, <1>4, <1>5, <1>6, <1>7 DEF Next

\* For every behaviour of users, registry and faults, a pass that began under a
\* revocation which lasts does not store the revoked artefact.
THEOREM RevocationBlocks == Spec => []RevokedNeverStored
<1>1. Init => RevocationInv
  BY DEF Init, RevocationInv, RevokedNeverStored
<1>2. RevocationInv => RevokedNeverStored
  BY DEF RevocationInv
<1> QED BY <1>1, <1>2, RevocationStep, TypeCorrect, PTL DEF Spec

-----------------------------------------------------------------------------
(* Trust *)

\* Secrets are only ever added, by a pass whose verification has succeeded, and every
\* reference is copied from one that is already backed by a Secret.
LEMMA TrustStep == TypeOK /\ TrustInv /\ [Next]_vars => TrustInv'
<1> SUFFICES ASSUME TypeOK, TrustInv, [Next]_vars PROVE TrustInv'
  OBVIOUS
<1> USE DEF TrustInv
<1>0. PluginTypes /\ SetTypes
  BY DEF TypeOK
<1>1. ASSUME NEW p \in Plugins, PluginStep(p) \/ PluginFault(p) PROVE TrustInv'
  <2>0. UNCHANGED <<resolved, config, plan, mounted>>
    BY <1>1, PluginOnly DEF setObject, setPass, gateway
  <2> USE <1>0, <2>0, PipelineAssumption
      DEF PluginTypes, PluginMoves, PluginDone, StatusUntouched, WriteStatus, PatchPluginStatus
  <2>1. CASE ReleasePlugin(p)  BY <2>1 DEF ReleasePlugin
  <2>2. CASE BeginPull(p)      BY <2>2 DEF BeginPull
  <2>3. CASE Pull(p)           BY <2>3 DEF Pull
  <2>4. CASE VerifyPasses(p)   BY <2>4 DEF VerifyPasses
  <2>5. CASE VerifyRevoked(p)  BY <2>5 DEF VerifyRevoked
  <2>6. CASE VerifyRejects(p)  BY <2>6 DEF VerifyRejects
  <2>7. CASE Store(p)
    <3>1. pulled[p] \in Genuine /\ pulled' = pulled
      BY <2>7 DEF Store
    <3>2. opSecrets' = opSecrets \cup {<<p, pulled[p]>>} /\ UNCHANGED secretName
      BY <2>7 DEF Store
    <3>3. opSecrets' \subseteq Plugins \X Genuine
      BY <3>1, <3>2
    <3>4. ASSUME NEW q \in Plugins
          PROVE  /\ plugPc'[q] \in {"store", "report"} => pulled'[q] \in Genuine
                 /\ plugPc'[q] = "report" => <<q, pulled'[q]>> \in opSecrets'
      BY <2>7, <3>1, <3>2 DEF Store
    <3> QED BY <3>2, <3>3, <3>4
  <2>8. CASE ReportPlugin(p)   BY <2>8 DEF ReportPlugin
  <2>9. CASE PullFails(p)      BY <2>9 DEF PullFails
  <2>10. CASE PluginPassErrs(p) BY <2>10 DEF PluginPassErrs
  <2> QED BY <1>1, <2>1, <2>2, <2>3, <2>4, <2>5, <2>6, <2>7, <2>8, <2>9, <2>10
          DEF PluginStep, PluginFault
<1>2. CASE SetStep \/ SetFault \/ CollectGarbage
  <2>1. UNCHANGED <<opSecrets, plugPc, pulled, secretName, plan, mounted>>
    BY <1>2, SetOnly DEF pluginObject, pluginPass, gateway
  <2>2. resolved' \subseteq opSecrets
    <3>1. ASSUME NEW p \in Plugins, ResolveEntry(p) PROVE resolved' \subseteq opSecrets
      <4>1. CASE Resolvable(p)
        <5>1. resolved' = resolved \cup {<<p, secretName[p]>>}
          BY <3>1, <4>1, Zenon DEF ResolveEntry
        <5>2. <<p, secretName[p]>> \in opSecrets
          BY <4>1 DEF Resolvable
        <5> QED BY <5>1, <5>2
      <4>2. CASE ~ Resolvable(p)
        BY <3>1, <4>2, Zenon DEF ResolveEntry
      <4> QED BY <4>1, <4>2
    <3>2. CASE resolved' \in {resolved, {}}
      BY <3>2
    <3> QED BY <1>2, <3>1, <3>2
            DEF SetStep, SetFault, ReleaseSet, BeginSet, EnsureBinding, Render, Prune, ReportSet,
                CopyEntry, SetPassErrs, LookupFails, CollectGarbage, setPass
  <2>3. config' \subseteq opSecrets
    BY <1>2 DEF SetStep, SetFault, ReleaseSet, BeginSet, EnsureBinding, Render, Prune, ReportSet,
                ResolveEntry, CopyEntry, SetPassErrs, LookupFails, CollectGarbage
  <2> QED BY <2>1, <2>2, <2>3
<1>3. CASE GatewayStep \/ GatewayErrs
  <2>1. UNCHANGED <<opSecrets, plugPc, pulled, secretName, resolved, config>>
    BY <1>3, GatewayOnly DEF pluginObject, pluginPass, setObject, setPass
  <2>2. plan' \subseteq opSecrets /\ mounted' \subseteq opSecrets
    BY <1>3 DEF GatewayStep, BeginGateway, ReadConfig, ApplyGateway, GatewayErrs
  <2> QED BY <2>1, <2>2
<1>4. CASE UserStep
  BY <1>4, UserOnly DEF setPass, gateway
<1>5. CASE Crash
  BY <1>5 DEF Crash, pluginObject, setObject
<1>6. CASE Resync
  BY <1>6, ResyncOnly DEF pluginObject, setObject, setPass, gateway
<1>7. CASE UNCHANGED vars
  BY <1>7 DEF vars, pluginObject, pluginPass, setObject, setPass, gateway
<1> QED BY <1>1, <1>2, <1>3, <1>4, <1>5, <1>6, <1>7 DEF Next

\* For every behaviour of users, registry and faults, a gateway mounts only bytes
\* that passed the trust gates.
THEOREM TrustedMounts == Spec => []OnlyVerifiedMounted
<1>1. Init => TrustInv
  BY DEF Init, TrustInv
<1>2. TrustInv => OnlyVerifiedMounted
  BY DEF TrustInv, OnlyVerifiedMounted
<1> QED BY <1>1, <1>2, TrustStep, TypeCorrect, PTL DEF Spec

-----------------------------------------------------------------------------
(* Materialisation *)

\* A pass renders only what it has copied and prunes only what it has not rendered;
\* a pass that breaks off has rendered nothing or everything.
LEMMA MaterialisedStep ==
    TypeOK /\ TrustInv /\ MaterialisedInv /\ [Next]_vars => MaterialisedInv'
<1> SUFFICES ASSUME TypeOK, TrustInv, MaterialisedInv, [Next]_vars PROVE MaterialisedInv'
  OBVIOUS
<1> USE DEF MaterialisedInv, ConfigRefsExist
<1>0. SetTypes
  BY DEF TypeOK
<1>1. ASSUME NEW p \in Plugins, PluginStep(p) \/ PluginFault(p) PROVE MaterialisedInv'
  BY <1>1, PluginOnly DEF setObject, setPass
<1>2. CASE SetStep \/ SetFault \/ CollectGarbage
  <2> USE DEF setPass
  <2>1. CASE ReleaseSet     BY <2>1 DEF ReleaseSet
  <2>2. CASE BeginSet       BY <2>2 DEF BeginSet
  <2>3. CASE EnsureBinding  BY <2>3 DEF EnsureBinding
  <2>4. CASE Render         BY <2>4 DEF Render
  <2>5. CASE Prune          BY <2>5 DEF Prune
  <2>6. CASE ReportSet      BY <2>6 DEF ReportSet
  <2>7. ASSUME NEW p \in Plugins, ResolveEntry(p) PROVE MaterialisedInv'
    BY <2>7 DEF ResolveEntry
  <2>8. ASSUME NEW p \in Plugins, CopyEntry(p) PROVE MaterialisedInv'
    <3>1. ASSUME NEW s \in resolved PROVE s[1] \in todo \ {p} \/ s \in copies'
      <4>1. s \in opSecrets
        BY <3>1 DEF TrustInv
      <4> QED BY <2>8, <3>1, <4>1 DEF CopyEntry
    <3> QED BY <2>8, <3>1 DEF CopyEntry
  <2>9. CASE SetPassErrs    BY <2>9 DEF SetPassErrs
  <2>10. ASSUME NEW p \in Plugins, LookupFails(p) PROVE MaterialisedInv'
    BY <2>10 DEF LookupFails
  <2>11. CASE CollectGarbage BY <2>11 DEF CollectGarbage
  <2> QED BY <1>2, <2>1, <2>2, <2>3, <2>4, <2>5, <2>6, <2>7, <2>8, <2>9, <2>10, <2>11
          DEF SetStep, SetFault
<1>3. CASE GatewayStep \/ GatewayErrs
  BY <1>3, GatewayOnly DEF setObject, setPass
<1>4. CASE UserStep
  <2>1. UNCHANGED <<copies, config, setPc, todo, resolved>>
    BY <1>4, UserOnly DEF setPass
  <2>2. setPhase' = setPhase \/ (setPhase = "new" /\ setPhase' = "gone") \/ setPhase' = "deleting"
    BY <1>4 DEF UserStep, EditPlugin, DeletePlugin, Repush, EditRevocations, EditEntries, DeleteSet,
                Deleted, setObject
  <2> QED BY <2>1, <2>2
<1>5. CASE Crash
  BY <1>5 DEF Crash, setObject
<1>6. CASE Resync
  BY <1>6, ResyncOnly DEF setObject, setPass
<1>7. CASE UNCHANGED vars
  BY <1>7 DEF vars, setObject, setPass
<1> QED BY <1>1, <1>2, <1>3, <1>4, <1>5, <1>6, <1>7 DEF Next

\* For every behaviour of users, registry and faults, the resolved ConfigMap names
\* only Secrets that are in the namespace.
THEOREM ReferencesExist == Spec => []ConfigRefsExist
<1>1. Init => TrustInv /\ MaterialisedInv
  BY DEF Init, TrustInv, MaterialisedInv, ConfigRefsExist
<1>2. MaterialisedInv => ConfigRefsExist
  BY DEF MaterialisedInv
<1> QED BY <1>1, <1>2, TrustStep, MaterialisedStep, TypeCorrect, PTL DEF Spec

-----------------------------------------------------------------------------
(* At rest *)

\* The Secrets of those of the given plugins that resolve, and whether all of them do.
Target(listed)     == {<<p, secretName[p]>> : p \in {q \in listed : Resolvable(q)}}
AllResolve(listed) == \A p \in listed : Resolvable(p)

\* A pass over the set has read what the statuses still say, and the set at rest agrees
\* with them.
SetSynced ==
    /\ setPc = "resolve" => /\ todo \subseteq entries
                            /\ resolved = Target(entries \ todo)
                            /\ failed <=> ~ AllResolve(entries \ todo)
    /\ setPc \in {"copy", "prune", "report"} => /\ resolved = Target(entries)
                                                /\ failed <=> ~ AllResolve(entries)
    /\ setPc \in {"prune", "report"} => config = resolved
    /\ setPc = "report" => copies = resolved
    /\ setPc = "idle" /\ setPhase = "live" => /\ config = Target(entries)
                                              /\ copies = config
                                              /\ setReady <=> AllResolve(entries)

\* So it is as long as nothing asks for another pass over the set.
SetFollows == ~ setDirty => SetSynced

\* What a gateway pass gets to see.
SetView == IF setPhase # "gone" /\ setReady THEN config ELSE {}

\* As long as nothing asks for another pass over the gateway, and no pass over the set has
\* rendered something that it has not reported yet, the gateway is on what the set shows.
GatewayFollows ==
    ~ gwDirty /\ setPc \notin {"prune", "report"} =>
        /\ gwPc = "idle" => mounted = SetView
        /\ gwPc = "config" => setPhase # "gone" /\ setReady
        /\ gwPc = "apply" => plan = SetView

\* Without failing requests, no step changes a status, a lifecycle or the entries without
\* asking for a pass over the set: every writer is watched.
LEMMA SetIsTold ==
    ASSUME "error" \notin Events, TypeOK,
           \/ \E p \in Plugins : PluginStep(p) \/ PluginFault(p)
           \/ GatewayStep \/ GatewayErrs \/ UserStep \/ Resync \/ UNCHANGED vars,
           ~ setDirty'
    PROVE  ~ setDirty /\ UNCHANGED <<phase, ready, secretName, bySha, entries, setPhase, setReady,
                                     copies, config, setPass>>
<1>0. ~ Happens("error")
  BY DEF Happens
<1>1. ASSUME NEW p \in Plugins, PluginStep(p) \/ PluginFault(p)
      PROVE  ~ setDirty /\ UNCHANGED <<phase, ready, secretName, bySha, entries, setPhase, setReady,
                                       copies, config, setPass>>
  <2>1. ASSUME NEW q \in Plugins, NEW b, NEW a, NEW r, PatchPluginStatus(q, b, a, r) PROVE FALSE
    BY <2>1, Zenon DEF PatchPluginStatus
  <2>2. ASSUME NEW q \in Plugins, NEW b, NEW a, NEW r, WriteStatus(q, b, a, r) PROVE FALSE
    BY <1>0, <2>1, <2>2, Zenon DEF WriteStatus
  <2>3. CASE ReleasePlugin(p)
    BY <2>3, Zenon DEF ReleasePlugin
  <2>4. CASE BeginPull(p)
    BY <1>0, <2>1, <2>4, Zenon DEF BeginPull
  <2>5. CASE Pull(p) \/ VerifyPasses(p) \/ Store(p)
    <3>1. UNCHANGED <<phase, ready, secretName, bySha, setDirty>>
      BY <2>5 DEF Pull, VerifyPasses, Store, StatusUntouched
    <3>2. UNCHANGED <<entries, setPhase, setReady, copies, config, setPass>>
      BY <1>1, PluginOnly DEF setObject
    <3>3. setDirty' = setDirty
      BY <3>1
    <3>4. ~ setDirty
      BY <3>3, Zenon
    <3> QED BY <3>1, <3>2, <3>4
  <2>6. CASE VerifyRevoked(p) \/ VerifyRejects(p) \/ ReportPlugin(p)
    BY <1>0, <2>1, <2>2, <2>6, Zenon DEF VerifyRevoked, VerifyRejects, ReportPlugin
  <2>7. CASE PluginFault(p)
    BY <1>0, <2>7, Zenon DEF PluginFault, PullFails, PluginPassErrs
  <2> QED BY <1>1, <2>3, <2>4, <2>5, <2>6, <2>7, Zenon DEF PluginStep
<1>2. CASE GatewayStep \/ GatewayErrs
  BY <1>2, GatewayOnly DEF setObject, pluginObject
<1>3. CASE UserStep
  <2>1. ASSUME NEW p \in Plugins, EditPlugin(p) \/ DeletePlugin(p) PROVE FALSE
    BY <2>1, Zenon DEF EditPlugin, DeletePlugin
  <2>2. ASSUME NEW listed, EditEntries(listed) PROVE FALSE
    BY <2>2, Zenon DEF EditEntries
  <2>3. ~ DeleteSet
    BY Zenon DEF DeleteSet
  <2>4. CASE \E p \in Plugins, g \in Generations, a \in Artefacts : Repush(p, g, a)
    BY <2>4 DEF Repush, setObject
  <2>5. CASE \E list \in SUBSET Artefacts : EditRevocations(list)
    BY <2>5 DEF EditRevocations, setObject, pluginObject
  <2> QED BY <1>3, <2>1, <2>2, <2>3, <2>4, <2>5, Zenon DEF UserStep
<1>4. CASE Resync
  BY <1>4 DEF Resync, ResyncSet, ResyncGateway, ResyncPlugin, setObject, pluginObject
<1>5. CASE UNCHANGED vars
  BY <1>5 DEF vars, setObject, pluginObject
<1> QED BY <1>1, <1>2, <1>3, <1>4, <1>5

\* A pass over the set that nothing disturbs reads, copies, renders and prunes to the end
\* what the statuses say; whatever disturbs it leaves the dirty flag up.
LEMMA SetFollowsStep ==
    ASSUME "error" \notin Events, TypeOK, MaterialisedInv, SetFollows, [Next]_vars
    PROVE  SetFollows'
<1> SUFFICES ASSUME ~ setDirty' PROVE SetSynced'
  BY DEF SetFollows
<1>0. ~ Happens("error")
  BY DEF Happens
<1>1. CASE \/ \E p \in Plugins : PluginStep(p) \/ PluginFault(p)
           \/ GatewayStep \/ GatewayErrs \/ UserStep \/ Resync \/ UNCHANGED vars
  <2>1. ~ setDirty
    BY <1>1, SetIsTold
  <2>2. UNCHANGED <<phase, ready, secretName, bySha, entries, setPhase, setReady, copies, config,
                    setPc, todo, resolved, failed>>
    BY <1>1, SetIsTold DEF setPass
  <2>3. SetSynced
    BY <2>1, Zenon DEF SetFollows
  <2> QED BY <2>2, <2>3 DEF SetSynced, Target, AllResolve, Resolvable
<1>2. CASE SetStep
  <2>0. UNCHANGED <<phase, ready, secretName, bySha, entries>>
    BY <1>2, SetOnly DEF pluginObject
  <2>1. CASE ReleaseSet
    BY <2>1 DEF ReleaseSet, SetSynced, setPass
  <2>2. CASE BeginSet
    BY <2>0, <2>2 DEF BeginSet, SetSynced, Target, AllResolve
  <2>3. ASSUME NEW p \in Plugins, ResolveEntry(p) PROVE SetSynced'
    <3>1. setDirty' = setDirty
      BY <2>3 DEF ResolveEntry
    <3>2. SetSynced
      BY <3>1, Zenon DEF SetFollows
    <3>3. /\ setPc = "resolve" /\ setPc' = "resolve"
          /\ p \in todo /\ todo' = todo \ {p}
      BY <2>3 DEF ResolveEntry
    <3>4. /\ todo \subseteq entries
          /\ resolved = Target(entries \ todo)
          /\ failed <=> ~ AllResolve(entries \ todo)
      BY <3>2, <3>3 DEF SetSynced
    <3>5. entries \ todo' = (entries \ todo) \cup {p}
      BY <3>3, <3>4
    <3>6. CASE Resolvable(p)
      <4>1. resolved' = resolved \cup {<<p, secretName[p]>>} /\ failed' = failed
        BY <2>3, <3>6, Zenon DEF ResolveEntry
      <4>2. resolved' = Target(entries \ todo')
        BY <3>4, <3>5, <3>6, <4>1 DEF Target
      <4>3. failed' <=> ~ AllResolve(entries \ todo')
        BY <3>4, <3>5, <3>6, <4>1 DEF AllResolve
      <4> QED BY <2>0, <3>3, <3>4, <4>2, <4>3 DEF SetSynced, Target, AllResolve, Resolvable
    <3>7. CASE ~ Resolvable(p)
      <4>1. resolved' = resolved /\ failed' = TRUE
        BY <2>3, <3>7, Zenon DEF ResolveEntry
      <4>2. resolved' = Target(entries \ todo')
        BY <3>4, <3>5, <3>7, <4>1 DEF Target
      <4>3. failed' <=> ~ AllResolve(entries \ todo')
        BY <3>5, <3>7, <4>1 DEF AllResolve
      <4> QED BY <2>0, <3>3, <3>4, <4>2, <4>3 DEF SetSynced, Target, AllResolve, Resolvable
    <3> QED BY <3>6, <3>7
  <2>4. CASE EnsureBinding
    <3>1. setDirty' = setDirty
      BY <2>4 DEF EnsureBinding
    <3>2. SetSynced
      BY <3>1, Zenon DEF SetFollows
    <3>3. setPc = "resolve" /\ todo = {} /\ setPc' = "copy" /\ UNCHANGED <<resolved, failed>>
      BY <2>4 DEF EnsureBinding
    <3>4. entries \ todo = entries
      BY <3>3
    <3>5. /\ resolved = Target(entries)
          /\ failed <=> ~ AllResolve(entries)
      BY <3>2, <3>3, <3>4 DEF SetSynced
    <3> QED BY <2>0, <3>3, <3>5 DEF SetSynced, Target, AllResolve, Resolvable
  <2>5. ASSUME NEW p \in Plugins, CopyEntry(p) PROVE SetSynced'
    <3>1. ~ setDirty
      BY <2>5, Zenon DEF CopyEntry
    <3>2. SetSynced
      BY <3>1, Zenon DEF SetFollows
    <3>3. setPc = "copy" /\ setPc' = "copy" /\ UNCHANGED <<resolved, failed>>
      BY <2>5 DEF CopyEntry
    <3> QED BY <2>0, <3>2, <3>3 DEF SetSynced, Target, AllResolve, Resolvable
  <2>6. CASE Render
    <3>1. ~ setDirty
      BY <2>6, Zenon DEF Render
    <3>2. SetSynced
      BY <3>1, Zenon DEF SetFollows
    <3>3. setPc = "copy" /\ setPc' = "prune" /\ config' = resolved /\ UNCHANGED <<resolved, failed>>
      BY <2>6 DEF Render
    <3> QED BY <2>0, <3>2, <3>3 DEF SetSynced, Target, AllResolve, Resolvable
  <2>7. CASE Prune
    <3>1. ~ setDirty /\ copies' = copies
      BY <2>7, Zenon DEF Prune
    <3>2. SetSynced
      BY <3>1, Zenon DEF SetFollows
    <3>3. copies' = copies \cap resolved
      BY <1>0, <2>7, Zenon DEF Prune
    <3>4. setPc = "prune" /\ setPc' = "report" /\ UNCHANGED <<config, resolved, failed>>
      BY <2>7 DEF Prune
    <3>5. config = resolved /\ config \subseteq copies
      BY <3>4 DEF MaterialisedInv, ConfigRefsExist
    <3>6. copies' = resolved
      BY <3>1, <3>3, <3>5
    <3> QED BY <2>0, <3>2, <3>4, <3>6 DEF SetSynced, Target, AllResolve, Resolvable
  <2>8. CASE ReportSet
    <3>1. setDirty' = setDirty
      BY <2>8 DEF ReportSet
    <3>2. SetSynced
      BY <3>1, Zenon DEF SetFollows
    <3>3. setReady' = ~ failed
      BY <1>0, <2>8, Zenon DEF ReportSet
    <3>4. setPc = "report" /\ setPc' = "idle" /\ UNCHANGED <<copies, config>>
      BY <2>8 DEF ReportSet
    <3>5. /\ config = Target(entries) /\ copies = config
          /\ failed <=> ~ AllResolve(entries)
      BY <3>2, <3>4 DEF SetSynced
    <3>6. setReady' <=> AllResolve(entries)
      BY <3>3, <3>5, Zenon
    <3> QED BY <2>0, <3>4, <3>5, <3>6 DEF SetSynced, Target, AllResolve, Resolvable
  <2> QED BY <1>2, <2>1, <2>2, <2>3, <2>4, <2>5, <2>6, <2>7, <2>8 DEF SetStep
<1>3. CASE SetFault
  BY <1>0, <1>3, Zenon DEF SetFault, SetPassErrs, LookupFails
<1>4. CASE CollectGarbage
  BY <1>4 DEF CollectGarbage, MaterialisedInv, SetSynced, setPass
<1>5. CASE Crash
  BY <1>5, Zenon DEF Crash
<1> QED BY <1>1, <1>2, <1>3, <1>4, <1>5 DEF Next

\* Without failing requests, whatever changes what the set shows asks for a pass over the
\* gateway, at the latest when the pass that did it reports.
LEMMA GatewayIsTold ==
    ASSUME "error" \notin Events, TypeOK, MaterialisedInv,
           \/ \E p \in Plugins : PluginStep(p) \/ PluginFault(p)
           \/ SetStep \/ SetFault \/ CollectGarbage \/ UserStep \/ Resync \/ UNCHANGED vars,
           ~ gwDirty', setPc' \notin {"prune", "report"}
    PROVE  /\ ~ gwDirty /\ setPc \notin {"prune", "report"}
           /\ (setPhase' # "gone" /\ setReady') <=> (setPhase # "gone" /\ setReady)
           /\ SetView' = SetView
           /\ UNCHANGED gateway
<1> DEFINE Told == /\ ~ gwDirty /\ setPc \notin {"prune", "report"}
                   /\ (setPhase' # "gone" /\ setReady') <=> (setPhase # "gone" /\ setReady)
                   /\ SetView' = SetView
                   /\ UNCHANGED gateway
<1>0. ~ Happens("error")
  BY DEF Happens
<1>a. SetTypes /\ FlagTypes
  BY DEF TypeOK
<1>1. ASSUME gwDirty' = gwDirty, UNCHANGED <<setPhase, setReady, config, setPc, gateway>> PROVE Told
  <2>1. ~ gwDirty
    BY <1>1, Zenon
  <2> QED BY <1>1, <2>1 DEF SetView
<1>2. ASSUME NEW p \in Plugins, PluginStep(p) \/ PluginFault(p) PROVE Told
  <2>1. gwDirty' = gwDirty /\ UNCHANGED <<setPhase, setReady, config, setPc, gateway>>
    BY <1>2, PluginOnly DEF setObject, setPass
  <2> QED BY <1>1, <2>1
<1>3. CASE SetStep
  <2>0. UNCHANGED gateway
    BY <1>3, SetOnly
  <2>1. CASE ReleaseSet
    BY <2>1, Zenon DEF ReleaseSet
  <2>2. CASE BeginSet
    <3>1. ~ gwDirty
      BY <2>2, Zenon DEF BeginSet
    <3>2. /\ setPc = "idle" /\ setPhase \in {"new", "live"} /\ setPhase' = "live"
          /\ UNCHANGED <<setReady, config>>
      BY <2>2 DEF BeginSet
    <3> QED BY <2>0, <3>1, <3>2 DEF SetView
  <2>3. CASE EnsureBinding
    <3>1. gwDirty' = gwDirty /\ setPc = "resolve" /\ UNCHANGED <<setPhase, setReady, config>>
      BY <2>3 DEF EnsureBinding
    <3>2. ~ gwDirty
      BY <3>1, Zenon
    <3> QED BY <2>0, <3>1, <3>2 DEF SetView
  <2>4. ASSUME NEW p \in Plugins, ResolveEntry(p) \/ CopyEntry(p) PROVE Told
    <3>1. gwDirty' = gwDirty /\ UNCHANGED <<setPhase, setReady, config, setPc>>
      BY <2>4 DEF ResolveEntry, CopyEntry
    <3> QED BY <1>1, <2>0, <3>1
  <2>5. CASE Render \/ Prune
    BY <2>5 DEF Render, Prune
  <2>6. CASE ReportSet
    BY <1>0, <2>6, Zenon DEF ReportSet
  <2> QED BY <1>3, <2>1, <2>2, <2>3, <2>4, <2>5, <2>6 DEF SetStep
<1>4. CASE SetFault
  BY <1>0, <1>4, Zenon DEF SetFault, SetPassErrs, LookupFails
<1>5. CASE CollectGarbage
  <2>1. gwDirty' = gwDirty /\ setPhase = "gone" /\ UNCHANGED <<setPhase, setReady, setPc, gateway>>
    BY <1>5, SetOnly DEF CollectGarbage, setPass
  <2>2. ~ gwDirty
    BY <2>1, Zenon
  <2> QED BY <2>1, <2>2 DEF SetView
<1>6. CASE UserStep
  <2>1. ASSUME NEW p \in Plugins, EditPlugin(p) \/ DeletePlugin(p) PROVE Told
    <3>1. gwDirty' = gwDirty /\ UNCHANGED <<setPhase, setReady, config, setPc, gateway>>
      BY <2>1 DEF EditPlugin, DeletePlugin, setObject, setPass
    <3> QED BY <1>1, <3>1
  <2>2. ASSUME NEW listed, EditEntries(listed) PROVE FALSE
    BY <2>2, Zenon DEF EditEntries
  <2>3. ~ DeleteSet
    BY Zenon DEF DeleteSet
  <2>4. CASE \/ \E p \in Plugins, g \in Generations, a \in Artefacts : Repush(p, g, a)
             \/ \E list \in SUBSET Artefacts : EditRevocations(list)
    <3>1. gwDirty' = gwDirty /\ UNCHANGED <<setPhase, setReady, config, setPc, gateway>>
      BY <2>4 DEF Repush, EditRevocations, setObject, setPass
    <3> QED BY <1>1, <3>1
  <2> QED BY <1>6, <2>1, <2>2, <2>3, <2>4, Zenon DEF UserStep
<1>7. CASE Resync
  <2>1. ~ ResyncGateway
    BY Zenon DEF ResyncGateway
  <2>2. gwDirty' = gwDirty /\ UNCHANGED <<setPhase, setReady, config, setPc, gateway>>
    BY <1>7, <2>1 DEF Resync, ResyncSet, ResyncPlugin, setObject, setPass
  <2> QED BY <1>1, <2>2
<1>8. CASE UNCHANGED vars
  <2>1. gwDirty' = gwDirty /\ UNCHANGED <<setPhase, setReady, config, setPc, gateway>>
    BY <1>8 DEF vars, setObject, setPass
  <2> QED BY <1>1, <2>1
<1> QED BY <1>2, <1>3, <1>4, <1>5, <1>6, <1>7, <1>8

\* A gateway pass that nothing disturbs applies what the set shows.
LEMMA GatewayFollowsStep ==
    ASSUME "error" \notin Events, TypeOK, MaterialisedInv, GatewayFollows, [Next]_vars
    PROVE  GatewayFollows'
<1> SUFFICES ASSUME ~ gwDirty', setPc' \notin {"prune", "report"}
             PROVE  /\ gwPc' = "idle" => mounted' = SetView'
                    /\ gwPc' = "config" => setPhase' # "gone" /\ setReady'
                    /\ gwPc' = "apply" => plan' = SetView'
  BY DEF GatewayFollows
<1>0. ~ Happens("error")
  BY DEF Happens
<1>1. CASE \/ \E p \in Plugins : PluginStep(p) \/ PluginFault(p)
           \/ SetStep \/ SetFault \/ CollectGarbage \/ UserStep \/ Resync \/ UNCHANGED vars
  <2>1. /\ ~ gwDirty /\ setPc \notin {"prune", "report"}
        /\ (setPhase' # "gone" /\ setReady') <=> (setPhase # "gone" /\ setReady)
        /\ SetView' = SetView
        /\ UNCHANGED <<gwPc, plan, mounted>>
    BY <1>1, GatewayIsTold DEF gateway
  <2> QED BY <2>1 DEF GatewayFollows
<1>2. CASE GatewayStep
  <2>0. UNCHANGED <<setPhase, setReady, config, setPc>>
    BY <1>2, GatewayOnly DEF setObject, setPass
  <2>1. SetView' = SetView
    BY <2>0 DEF SetView
  <2>2. CASE BeginGateway
    BY <2>0, <2>1, <2>2 DEF BeginGateway, SetView
  <2>3. CASE ReadConfig
    <3>1. gwDirty' = gwDirty
      BY <2>3 DEF ReadConfig
    <3>2. ~ gwDirty
      BY <3>1, Zenon
    <3>3. setPhase # "gone" /\ setReady
      BY <2>0, <2>3, <3>2 DEF ReadConfig, GatewayFollows
    <3> QED BY <2>1, <2>3, <3>3 DEF ReadConfig, SetView
  <2>4. CASE ApplyGateway
    <3>1. ~ gwDirty
      BY <2>4, Zenon DEF ApplyGateway
    <3>2. plan = SetView
      BY <2>0, <2>4, <3>1 DEF ApplyGateway, GatewayFollows
    <3> QED BY <2>1, <2>4, <3>2 DEF ApplyGateway
  <2> QED BY <1>2, <2>2, <2>3, <2>4 DEF GatewayStep
<1>3. CASE GatewayErrs
  BY <1>0, <1>3, Zenon DEF GatewayErrs
<1>4. CASE Crash
  BY <1>4, Zenon DEF Crash
<1> QED BY <1>1, <1>2, <1>3, <1>4 DEF Next

\* As long as no request fails, every chain of watches is complete: when nothing is left
\* to do, statuses, copies, ConfigMap and mounts agree, whatever users, the registry and
\* crashes did before.
THEOREM RestConsistent ==
    ASSUME "error" \notin Events
    PROVE  Spec => []AtRestConsistent
<1>1. Init => TrustInv /\ MaterialisedInv
  BY DEF Init, TrustInv, MaterialisedInv, ConfigRefsExist
<1>2. Init => SetFollows /\ GatewayFollows
  BY DEF Init, SetFollows, GatewayFollows
<1>3. TypeOK /\ MaterialisedInv /\ SetFollows /\ GatewayFollows /\ [Next]_vars
      => SetFollows' /\ GatewayFollows'
  BY SetFollowsStep, GatewayFollowsStep
<1>4. SetFollows /\ GatewayFollows => AtRestConsistent
  <2> SUFFICES ASSUME SetFollows, GatewayFollows, Quiet, setPhase = "live"
               PROVE  LET resolvable == {p \in entries : Resolvable(p)}
                      IN  /\ config = {<<p, secretName[p]>> : p \in resolvable}
                          /\ copies = config
                          /\ setReady <=> resolvable = entries
                          /\ mounted = IF setReady THEN config ELSE {}
    BY DEF AtRestConsistent
  <2>1. setPc = "idle" /\ ~ setDirty /\ gwPc = "idle" /\ ~ gwDirty
    BY DEF Quiet, SetRests
  <2>2. /\ config = Target(entries) /\ copies = config
        /\ setReady <=> AllResolve(entries)
    BY <2>1 DEF SetFollows, SetSynced
  <2>3. mounted = IF setReady THEN config ELSE {}
    BY <2>1 DEF GatewayFollows, SetView
  <2>4. AllResolve(entries) <=> {p \in entries : Resolvable(p)} = entries
    BY DEF AllResolve
  <2> QED BY <2>2, <2>3, <2>4 DEF Target
<1> QED BY <1>1, <1>2, <1>3, <1>4, TrustStep, MaterialisedStep, TypeCorrect, PTL DEF Spec

-----------------------------------------------------------------------------
(* The hand-over *)

Handoff == INSTANCE VerifiedHandoff
           WITH Trusted <- Plugins \X Genuine, stored <- opSecrets, offered <- config,
                taken <- plan, mounted <- mounted

\* A step of the plugin controller stores a trusted Secret, or stores nothing.
LEMMA PluginHandsOver ==
    ASSUME TypeOK, TrustInv, NEW p \in Plugins, PluginStep(p) \/ PluginFault(p)
    PROVE  [Handoff!HandNext]_(Handoff!handVars)
<1>0. UNCHANGED <<config, plan, mounted>>
  BY PluginOnly DEF setObject, gateway
<1>1. CASE Store(p)
  <2>1. <<p, pulled[p]>> \in Plugins \X Genuine
    BY <1>1 DEF Store, TrustInv
  <2>2. opSecrets' = opSecrets \cup {<<p, pulled[p]>>}
    BY <1>1 DEF Store
  <2> QED BY <1>0, <2>1, <2>2 DEF Handoff!HandNext, Handoff!Store
<1>2. CASE UNCHANGED opSecrets
  BY <1>0, <1>2 DEF Handoff!handVars
<1>3. Store(p) \/ UNCHANGED opSecrets
  BY DEF PluginStep, PluginFault, ReleasePlugin, BeginPull, Pull, VerifyPasses, VerifyRevoked,
         VerifyRejects, ReportPlugin, PullFails, PluginPassErrs
<1> QED BY <1>1, <1>2, <1>3

\* A step of the set controller, or of the garbage collector, offers stored Secrets.
LEMMA SetHandsOver ==
    ASSUME TypeOK, TrustInv, SetStep \/ SetFault \/ CollectGarbage
    PROVE  [Handoff!HandNext]_(Handoff!handVars)
<1>1. UNCHANGED <<opSecrets, plan, mounted>>
  BY SetOnly DEF gateway
<1>2. config' = config \/ config' = resolved \/ config' = {}
  BY DEF SetStep, SetFault, ReleaseSet, BeginSet, EnsureBinding, Render, Prune, ReportSet,
         ResolveEntry, CopyEntry, SetPassErrs, LookupFails, CollectGarbage
<1>3. config' \subseteq opSecrets
  BY <1>2 DEF TrustInv
<1> QED BY <1>1, <1>3 DEF Handoff!HandNext, Handoff!Offer

\* A step of the gateway controller takes the offer, drops it or mounts it.
LEMMA GatewayHandsOver ==
    ASSUME GatewayStep \/ GatewayErrs
    PROVE  [Handoff!HandNext]_(Handoff!handVars)
<1>1. UNCHANGED <<opSecrets, config>>
  BY GatewayOnly DEF setObject
<1>2. CASE BeginGateway \/ GatewayErrs
  BY <1>1, <1>2 DEF BeginGateway, GatewayErrs, Handoff!HandNext, Handoff!Drop
<1>3. CASE ReadConfig
  BY <1>1, <1>3 DEF ReadConfig, Handoff!HandNext, Handoff!Take
<1>4. CASE ApplyGateway
  BY <1>1, <1>4 DEF ApplyGateway, Handoff!HandNext, Handoff!Mount
<1> QED BY <1>2, <1>3, <1>4 DEF GatewayStep

\* Three controllers that share nothing but cluster objects implement one hand-over of
\* verified bytes: every step of any of them, of a user, of a crash or of a failed request
\* is one step of it or none.  A gateway never mounts parts of two resolved ConfigMaps, nor
\* one that was put together from anything but Secrets of verified bytes.
THEOREM HandoffRefinement == Spec => Handoff!HandSpec
<1>1. Init => Handoff!HandInit
  BY DEF Init, Handoff!HandInit
<1>2. Init => TrustInv
  BY DEF Init, TrustInv
<1>3. TypeOK /\ TrustInv /\ [Next]_vars => [Handoff!HandNext]_(Handoff!handVars)
  <2> SUFFICES ASSUME TypeOK, TrustInv, [Next]_vars
               PROVE  [Handoff!HandNext]_(Handoff!handVars)
    OBVIOUS
  <2>1. CASE Crash
    <3>1. UNCHANGED <<opSecrets, config, mounted>> /\ plan' = {}
      BY <2>1 DEF Crash, setObject
    <3> QED BY <3>1 DEF Handoff!HandNext, Handoff!Drop
  <2>2. CASE UserStep \/ Resync \/ UNCHANGED vars
    <3>1. UNCHANGED <<opSecrets, config, plan, mounted>>
      BY <2>2, UserOnly, ResyncOnly DEF vars, setObject, gateway
    <3> QED BY <3>1 DEF Handoff!handVars
  <2> QED BY <2>1, <2>2, PluginHandsOver, SetHandsOver, GatewayHandsOver DEF Next
<1> QED BY <1>1, <1>2, <1>3, TrustStep, TypeCorrect, PTL DEF Spec, Handoff!HandSpec

=============================================================================
